---------------------------- MODULE StepTracking ----------------------------
(***************************************************************************)
(* Training steps and the leak check that runs at their ends, for one      *)
(* device.  The application marks steps with mstx ranges named "step       *)
(* start" or with msmemscope.step(); a mark becomes an event in three      *)
(* steps that other threads interleave (EventReport::SetStepInfo and       *)
(* ReportMark, ReportPyStepRecord): the step counter is advanced, the      *)
(* event takes its timestamp, then the step number is read.  Delivered     *)
(* events move StepTracker and make LeakAnalyzer compare the live blocks   *)
(* (src/csrc/event_trace/event_report.cpp, analysis/step_tracker.cpp,      *)
(* analysis/leak_analyzer.cpp).                                            *)
(***************************************************************************)
EXTENDS Integers, Sequences, FiniteSets, Functions

CONSTANTS
  Threads,       \* threads of the application
  Addrs,         \* addresses of pool blocks
  SkipSteps,     \* skipSteps_ of LeakAnalyzer
  Threshold,     \* durationThreshold_ of LeakAnalyzer
  MaxRanges,     \* bound on mstx ranges
  Plans          \* what an application does: see StepAssumption

StepAssumption ==
  /\ {SkipSteps, Threshold, MaxRanges} \subseteq Nat
  /\ Plans \subseteq
       [steppers : SUBSET Threads, allocators : SUBSET Threads,   \* who marks steps, who allocates
        mixed : BOOLEAN,                                          \* mstx and msmemscope.step() at once
        names : SUBSET {"step", "other"},                         \* what mstx ranges are called
        ranges : 0..MaxRanges, pySteps : Nat, mallocs : Nat]      \* bounds
  /\ \A p \in Plans : p.steppers \cap p.allocators = {}

Ranges == 1..MaxRanges

VARIABLES
  plan,        \* what the application does
  clock,       \* the last timestamp taken
  open,        \* the application's open mstx ranges: id -> [owner, name]
  lastRange,   \* MstxManager::rangeId_
  held,        \* addresses the application holds
  mallocs,     \* allocations so far
  info,        \* stepInfo_: currentStepId, inStepRange, stepMarkRangeIdList
  pySteps,     \* pyStepId_
  pc,          \* per thread: idle, stamp, number, send
  ev,          \* per thread: the event under way
  source,      \* stepSource_
  boundaries,  \* PerDeviceState::boundaries
  live,        \* live pool blocks of MemoryStateManager: address -> [ts, in]
  leaks,       \* leakMemSums_: <<address, allocation step>>
  begun,       \* history: the step number of each step range
  stamped,     \* history: how many step marks took a timestamp
  ended,       \* history: steps whose end the application marked
  fired        \* history: the step ends StepTracker reported

app     == <<open, lastRange, held, mallocs>>
report  == <<info, pySteps>>
tracker == <<source, boundaries, live, leaks>>
history == <<begun, stamped, ended, fired>>
vars    == <<plan, clock, app, report, pc, ev, tracker, history>>

NoEvent == [kind |-> "none", name |-> "none", range |-> 0, addr |-> 0, ts |-> 0, step |-> 0]

Quiet == \A t \in Threads : pc[t] = "idle"
OwnStepRanges(t) == {r \in DOMAIN open : open[r].owner = t /\ open[r].name = "step"}

UsesMstx == info.step > 0
UsesPy == pySteps > 0 \/ \E t \in Threads : ev[t].kind = "py"

Begin(t, event) ==
  /\ ev' = [ev EXCEPT ![t] = event]
  /\ pc' = [pc EXCEPT ![t] = "stamp"]

-----------------------------------------------------------------------------
(* Marks and allocations of the application *)

\* MstxManager::ReportRangeStart, then SetStepInfo(RANGE_START_A).  A thread
\* does not start a step inside its own step.
RangeStart(t, name) ==
  LET r == lastRange + 1
  IN /\ pc[t] = "idle" /\ r <= plan.ranges
     /\ name = "step" => OwnStepRanges(t) = {} /\ (UsesPy => plan.mixed)
     /\ lastRange' = r
     /\ open' = [i \in DOMAIN open \cup {r} |->
                   IF i = r THEN [owner |-> t, name |-> name] ELSE open[i]]
     /\ IF name = "step"
        THEN /\ info' = [step |-> info.step + 1, inRange |-> TRUE, ranges |-> Append(info.ranges, r)]
             /\ begun' = [begun EXCEPT ![r] = info.step + 1]
        ELSE UNCHANGED <<info, begun>>
     /\ Begin(t, [NoEvent EXCEPT !.kind = "start", !.name = name, !.range = r])
     /\ UNCHANGED <<clock, held, mallocs, pySteps, tracker, stamped, ended, fired>>

\* SetStepInfo(RANGE_END): only the end of a step range counts.
Left(r) ==
  IF r \in Range(info.ranges)
  THEN [info EXCEPT !.inRange = FALSE, !.ranges = SelectSeq(@, LAMBDA i : i # r)]
  ELSE info

RangeEnd(t, r) ==
  /\ pc[t] = "idle"
  /\ r \in DOMAIN open /\ open[r].owner = t
  /\ open' = Restrict(open, DOMAIN open \ {r})
  /\ info' = Left(r)
  /\ ended' = IF open[r].name = "step" THEN ended \cup {begun[r]} ELSE ended
  /\ Begin(t, [NoEvent EXCEPT !.kind = "end", !.name = open[r].name, !.range = r])
  /\ UNCHANGED <<clock, lastRange, held, mallocs, pySteps, tracker, begun, stamped, fired>>

\* msmemscope.step(), or the step command of the control channel.
PyStep(t) ==
  /\ pc[t] = "idle"
  /\ UsesMstx => plan.mixed
  /\ pySteps + Cardinality({u \in Threads : ev[u].kind = "py" /\ pc[u] \in {"stamp", "number"}})
       < plan.pySteps
  /\ Begin(t, [NoEvent EXCEPT !.kind = "py"])
  /\ UNCHANGED <<clock, app, report, tracker, history>>

Malloc(t, a) ==
  /\ pc[t] = "idle"
  /\ a \notin held /\ mallocs < plan.mallocs
  /\ held' = held \cup {a}
  /\ mallocs' = mallocs + 1
  /\ Begin(t, [NoEvent EXCEPT !.kind = "malloc", !.addr = a])
  /\ UNCHANGED <<clock, open, lastRange, report, tracker, history>>

\* Any allocator frees a held block; the pool reports that before it reuses the address.
Free(t, a) ==
  /\ pc[t] = "idle"
  /\ a \in held
  /\ \A u \in Threads : pc[u] # "idle" => ev[u].addr # a
  /\ Begin(t, [NoEvent EXCEPT !.kind = "free", !.addr = a])
  /\ UNCHANGED <<clock, app, report, tracker, history>>

-----------------------------------------------------------------------------
(* The event takes its timestamp, and a mark its step number *)

IsStepMark(e) == e.kind = "py" \/ (e.kind = "start" /\ e.name = "step")

\* EventBase().
Stamp(t) ==
  /\ pc[t] = "stamp"
  /\ clock' = clock + 1
  /\ ev' = [ev EXCEPT ![t].ts = clock + 1,
                      ![t].step = IF ev[t].kind = "malloc" THEN stamped ELSE 0]
  /\ pc' = [pc EXCEPT ![t] = IF ev[t].kind \in {"malloc", "free"} THEN "send" ELSE "number"]
  /\ stamped' = stamped + (IF IsStepMark(ev[t]) THEN 1 ELSE 0)
  /\ UNCHANGED <<app, report, tracker, begun, ended, fired>>

\* event->stepId = stepInfo_.currentStepId, without mutex_; ++pyStepId_.
Number(t) ==
  /\ pc[t] = "number"
  /\ IF ev[t].kind = "py"
     THEN /\ pySteps' = pySteps + 1
          /\ ev' = [ev EXCEPT ![t].step = pySteps + 1]
          /\ ended' = ended \cup {pySteps + 1}
     ELSE /\ ev' = [ev EXCEPT ![t].step = info.step]
          /\ UNCHANGED <<pySteps, ended>>
  /\ pc' = [pc EXCEPT ![t] = "send"]
  /\ UNCHANGED <<clock, app, info, tracker, begun, stamped, fired>>

-----------------------------------------------------------------------------
(* Delivery, under processMutex_ *)

\* Mutant: a late boundary goes to the end.
Inserted_Last(step, ts) == Append(boundaries, [step |-> step, ts |-> ts])

\* The first boundary of S, or the end.
FirstOf(S) == IF S = {} THEN Len(boundaries) + 1 ELSE CHOOSE i \in S : \A j \in S : i <= j

\* lower_bound and insert.
Inserted(step, ts) ==
  LET n == FirstOf({i \in DOMAIN boundaries : boundaries[i].ts >= ts})
  IN SubSeq(boundaries, 1, n - 1) \o <<[step |-> step, ts |-> ts]>> \o SubSeq(boundaries, n, Len(boundaries))

\* GetAllocStep: the last boundary of the prefix that is not later.
AllocStep(ts) ==
  LET n == FirstOf({i \in DOMAIN boundaries : boundaries[i].ts > ts}) - 1
  IN IF n = 0 THEN 0 ELSE boundaries[n].step

\* CheckNpuLeak: the live blocks that are Threshold steps old at the end of step.
Suspects(step) ==
  {<<a, AllocStep(live[a].ts)>> : a \in {b \in DOMAIN live :
     /\ AllocStep(live[b].ts) > SkipSteps
     /\ step > AllocStep(live[b].ts)
     /\ step - AllocStep(live[b].ts) >= Threshold}}

\* The onStepEnd_ callback.
StepEnd(e) ==
  /\ leaks' = leaks \cup Suspects(e.step)
  /\ fired' = fired \cup {[step |-> e.step, by |-> IF e.kind = "py" THEN "py" ELSE "mstx", range |-> e.range]}

Accepts(kind) == source \in {"none", kind}

\* HandleMstxRangeStart.
TrackStart(e) ==
  /\ IF e.name = "step" /\ Accepts("mstx")
     THEN source' = "mstx" /\ boundaries' = Inserted(e.step, e.ts)
     ELSE UNCHANGED <<source, boundaries>>
  /\ UNCHANGED <<live, leaks, fired>>

\* HandleMstxRangeEnd: the event's rangeId is never set, and 0 is also the
\* rangeId of every boundary, so the step number alone decides.
TrackEnd(e) ==
  /\ IF \E i \in DOMAIN boundaries : boundaries[i].step = e.step
     THEN StepEnd(e)
     ELSE UNCHANGED <<leaks, fired>>
  /\ UNCHANGED <<source, boundaries, live>>

\* HandlePyStep: the end of one step and the start of the next.
TrackPyStep(e) ==
  /\ IF Accepts("py")
     THEN /\ source' = "py"
          /\ StepEnd(e)
          /\ boundaries' = Inserted(e.step + 1, e.ts)
     ELSE UNCHANGED <<source, boundaries, leaks, fired>>
  /\ UNCHANGED live

\* MALLOC and FREE reach the table of blocks.
TrackBlock(e) ==
  /\ live' = IF e.kind = "malloc"
             THEN [a \in DOMAIN live \cup {e.addr} |->
                     IF a = e.addr THEN [ts |-> e.ts, in |-> e.step] ELSE live[a]]
             ELSE Restrict(live, DOMAIN live \ {e.addr})
  /\ UNCHANGED <<source, boundaries, leaks, fired>>

Send(t) ==
  LET e == ev[t]
  IN /\ pc[t] = "send"
     /\ pc' = [pc EXCEPT ![t] = "idle"]
     /\ ev' = [ev EXCEPT ![t] = NoEvent]
     /\ held' = IF e.kind = "free" THEN held \ {e.addr} ELSE held
     /\ \/ e.kind = "start" /\ TrackStart(e)
        \/ e.kind = "end" /\ TrackEnd(e)
        \/ e.kind = "py" /\ TrackPyStep(e)
        \/ e.kind \in {"malloc", "free"} /\ TrackBlock(e)
     /\ UNCHANGED <<clock, open, lastRange, mallocs, report, begun, stamped, ended>>

-----------------------------------------------------------------------------
Init ==
  /\ plan \in Plans
  /\ clock = 0
  /\ open = <<>> /\ lastRange = 0 /\ held = {} /\ mallocs = 0
  /\ info = [step |-> 0, inRange |-> FALSE, ranges |-> <<>>] /\ pySteps = 0
  /\ pc = [t \in Threads |-> "idle"] /\ ev = [t \in Threads |-> NoEvent]
  /\ source = "none" /\ boundaries = <<>> /\ live = <<>> /\ leaks = {}
  /\ begun = [r \in Ranges |-> 0] /\ stamped = 0 /\ ended = {} /\ fired = {}

Next ==
  /\ \/ \E t \in plan.steppers :
          \/ \E name \in plan.names : RangeStart(t, name)
          \/ \E r \in Ranges : RangeEnd(t, r)
          \/ PyStep(t)
     \/ \E t \in plan.allocators, a \in Addrs : Malloc(t, a) \/ Free(t, a)
     \/ \E t \in Threads : Stamp(t) \/ Number(t) \/ Send(t)
  /\ UNCHANGED plan

Spec == Init /\ [][Next]_vars
-----------------------------------------------------------------------------
(* Properties *)

\* The boundaries of the steps stay in the order of their timestamps, also when
\* their events arrive in another order.
BoundariesSorted ==
  \A i, j \in DOMAIN boundaries : i < j => boundaries[i].ts < boundaries[j].ts

\* The step number that the k-th step mark opens; msmemscope.step() opens the
\* step after the one it names.
Opened(k) == IF k > 0 /\ source = "py" THEN k + 1 ELSE k

\* Once every event is delivered, a block is charged to the step that was
\* current when it was allocated.
AllocInCurrentStep ==
  Quiet => \A a \in DOMAIN live : AllocStep(live[a].ts) = Opened(live[a].in)

\* A block is called a leak only after the application ended a step later than
\* the one it was allocated in.
LeaksOutlived == \A l \in leaks : l[2] > SkipSteps /\ \E n \in ended : n > l[2]

\* Step boundaries come from one source only.
OneSource ==
  \A i \in DOMAIN boundaries : boundaries[i].step \in
    (IF source = "py" THEN 2..(pySteps + 1) ELSE 1..info.step)

\* Both: what AllocStep searches is in order and of one kind.
BoundariesAreSteps == BoundariesSorted /\ OneSource

\* A step end is reported only by the end of the range that started the step.
EndsOwnStep ==
  \A f \in fired : f.by = "mstx" => f.range \in Ranges /\ begun[f.range] = f.step
=============================================================================
