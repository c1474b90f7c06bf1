----------------------------- MODULE HealthGaps -----------------------------
(***************************************************************************)
(* How HealthAnalyzer measures the fluctuation of memory pools: in every   *)
(* training step the least and the greatest allocation of a pool, at the   *)
(* end of the step their ratio, and over all steps the least and the       *)
(* greatest ratio (src/csrc/analysis/health_analyzer.cpp).                 *)
(*                                                                         *)
(* One device.  A ratio min/max is kept as the pair <<min, max>>; the code *)
(* uses the value 0 for "nothing recorded yet", in the step's maximum and  *)
(* in the recorded ratio.                                                  *)
(***************************************************************************)
EXTENDS Integers, FiniteSetsExt

CONSTANTS
  PoolTypes,   \* PTA_CACHING, ATB, MINDSPORE
  Totals,      \* totals a pool event may carry
  MaxStep      \* bound on the steps

HealthAssumption ==
  /\ Totals \subseteq Nat
  /\ MaxStep \in Nat

VARIABLES
  source,    \* stepSource_ of the tracker: the first kind of step wins
  step,      \* currentStep of the tracker
  inStep,    \* the application is between the start and the end of an mstx step
  status,    \* poolStatusTables_ of the device
  seen,      \* history: totals counted per pool since its last settlement
  settled    \* history: ratios settled per pool

vars == <<source, step, inStep, status, seen, settled>>

SkipSteps == 1

Zero == <<0, 1>>          \* a ratio that was never recorded: 0.0
IsZero(gap) == gap[1] = 0
Less(f, g) == f[1] * g[2] < g[1] * f[2]

NewStatus == [max |-> 0, min |-> 0, maxGap |-> Zero, minGap |-> Zero]

-----------------------------------------------------------------------------
\* UpdateAllocated; max = 0 means the step has no total yet.
Counted(s, total) ==
  IF s.max = 0
  THEN [s EXCEPT !.max = total, !.min = total]
  ELSE [s EXCEPT !.max = IF total > @ THEN total ELSE @,
                 !.min = IF total < @ THEN total ELSE @]

\* Mutant: the smallest ratio follows the largest.
GapChecked_OneSided(s) ==
  LET gap == <<s.min, s.max>>
      reset == [s EXCEPT !.max = 0, !.min = 0]
  IN IF s.max = 0 THEN s
     ELSE IF IsZero(s.maxGap) \/ Less(s.maxGap, gap) THEN [reset EXCEPT !.maxGap = gap, !.minGap = gap]
     ELSE reset

\* CheckGap for one pool; a recorded ratio of 0 means none is recorded yet.
GapChecked(s) ==
  LET gap == <<s.min, s.max>>
      reset == [s EXCEPT !.max = 0, !.min = 0]
  IN IF s.max = 0 THEN s
     ELSE IF IsZero(s.maxGap) THEN [reset EXCEPT !.maxGap = gap, !.minGap = gap]
     ELSE [reset EXCEPT !.maxGap = IF Less(@, gap) THEN gap ELSE @,
                        !.minGap = IF Less(gap, @) THEN gap ELSE @]

\* HandleMemEvent: totals of the first steps are not counted.
PoolEvent(p, total) ==
  LET s == IF p \in DOMAIN status THEN status[p] ELSE NewStatus
  IN /\ status' = [q \in DOMAIN status \cup {p} |->
          IF q = p THEN IF step <= SkipSteps THEN s ELSE Counted(s, total) ELSE status[q]]
     /\ seen' = IF step <= SkipSteps THEN seen ELSE [seen EXCEPT ![p] = @ \cup {total}]
     /\ UNCHANGED <<source, step, inStep, settled>>

\* OnStepEnd of step n while the tracker's step is step.
Settle(n) ==
  IF n = 1 \/ step <= SkipSteps
  THEN UNCHANGED <<status, seen, settled>>
  ELSE LET active == {p \in DOMAIN status : status[p].max # 0}
       IN /\ status' = [p \in DOMAIN status |-> GapChecked(status[p])]
          /\ seen' = [p \in PoolTypes |-> IF p \in DOMAIN status THEN {} ELSE seen[p]]
          /\ settled' = [p \in PoolTypes |->
                IF p \in active THEN settled[p] \cup {<<status[p].min, status[p].max>>} ELSE settled[p]]

\* The start and the end of an mstx step range.
StepStart ==
  /\ source # "py"
  /\ ~inStep /\ step < MaxStep
  /\ source' = "mstx"
  /\ step' = step + 1
  /\ inStep' = TRUE
  /\ UNCHANGED <<status, seen, settled>>

StepEnd ==
  /\ inStep
  /\ inStep' = FALSE
  /\ Settle(step)
  /\ UNCHANGED <<source, step>>

\* msmemscope.step(): the end of one step and the start of the next.  The first
\* call ends step 1, which never started.
PyStep ==
  /\ source # "mstx"
  /\ step < MaxStep
  /\ LET n == IF step = 0 THEN 1 ELSE step
     IN Settle(n) /\ step' = n + 1
  /\ source' = "py"
  /\ UNCHANGED inStep

Init ==
  /\ source = "none" /\ step = 0 /\ inStep = FALSE
  /\ status = [p \in {} |-> NewStatus]
  /\ seen = [p \in PoolTypes |-> {}] /\ settled = [p \in PoolTypes |-> {}]

Next ==
  \/ \E p \in PoolTypes, total \in Totals : PoolEvent(p, total)
  \/ StepStart \/ StepEnd \/ PyStep

-----------------------------------------------------------------------------
(* Properties *)

\* The extremes that the next step end turns into a ratio are the greatest and
\* the least total the pool reported since the last one, in whatever order the
\* totals came and whatever steps passed without any, if none of them was 0: the
\* code takes a greatest total of 0 for none (UpdateAllocated,
\* health_analyzer.cpp:208).
StepExtremes ==
  \A p \in PoolTypes :
    seen[p] # {} /\ 0 \notin seen[p] => status[p].max = Max(seen[p]) /\ status[p].min = Min(seen[p])

\* The two ratios ReportGap prints for a pool are the greatest and the least of
\* all its steps, if none of them was 0, which the code takes for none (CheckGap,
\* health_analyzer.cpp:247).
GapsAreExtremes ==
  \A p \in PoolTypes :
    settled[p] # {} /\ (\A gap \in settled[p] : ~IsZero(gap)) =>
      /\ \A gap \in settled[p] : ~Less(status[p].maxGap, gap) /\ ~Less(gap, status[p].minGap)
      /\ {status[p].maxGap, status[p].minGap} \subseteq settled[p]

\* Both: what is reported of the fluctuation of a pool is exact.
GapsExact == StepExtremes /\ GapsAreExtremes
=============================================================================
