---------------------------- MODULE MemoryWatch ----------------------------
(***************************************************************************)
(* Watched tensors are written out before and after every operator and     *)
(* kernel (src/csrc/event_trace/memory_watch/).  The command line watches  *)
(* the outputs of a first operator until a last one has ended; watch() and *)
(* remove() of the Python module watch addresses, with or without a limit. *)
(* The kernels of ATB are announced twice, by ATB and by the launch hook.  *)
(*                                                                         *)
(* Names and contents of the files are left out.  watch() and remove() are *)
(* one step each; what they may meet halfway in Dump is not modelled.      *)
(***************************************************************************)
EXTENDS Integers, FiniteSets

CONSTANTS
  Workers,     \* the threads that run operators and kernels
  Addresses,   \* the addresses Python code watches
  Outputs,     \* the tensors the first operator may return
  Limits,      \* the values of dump_nums; a negative one is no limit
  Watched,     \* the command line names a first and a last operator
  MaxRuns      \* bound on the operators and kernels of a run

WatchAssumption == Limits \subseteq Int

Limited(n) == n >= 0

VARIABLES
  at,                 \* worker -> where it is in an operator or kernel
  isRepeatWatch,      \* workers whose launch hooks are to be ignored
  watchedTargetName,  \* the first operator has ended, the last one has not
  cmdTensors,         \* cmdWatchedTensorsMap_
  dumpNums,           \* pythonWatchedTensorsMap_ and dumpNumsMap_: address -> dumps left
  given,              \* history: address -> limit it was watched with, dumps since then if it has one
  times,              \* history: worker -> dumps before and after in its operator or kernel
  steady,             \* history: workers whose operator or kernel was watched throughout
  skipped,            \* history: a dump left out an address without a limit
  runs                \* history: operators and kernels so far

vars == <<at, isRepeatWatch, watchedTargetName, cmdTensors, dumpNums, given, times, steady, skipped, runs>>

Idle == [kind |-> "none", name |-> "none", stage |-> "idle"]
Kinds == {"op", "kernel", "atb"}
Names == {"first", "last", "other"}

IsInMonitoring == cmdTensors # {} \/ DOMAIN dumpNums # {}

\* The condition around every hook.
WatchEnabled == Watched \/ IsInMonitoring

-----------------------------------------------------------------------------
(* TensorDumper::Dump *)

\* The loop over the Python tensors, in the order of a hash map, stops at the
\* first one that has no dumps left.
Written(D) ==
  LET spent == {a \in DOMAIN dumpNums : dumpNums[a] = 0}
      live == DOMAIN dumpNums \ spent
  IN D \subseteq live /\ (spent = {} => D = live)

\* A negative number of dumps left never changes.
Spend(n) == IF n > 0 THEN n - 1 ELSE n

Dump(w, side) ==
  \E D \in SUBSET DOMAIN dumpNums :
    /\ Written(D)
    /\ dumpNums' = [a \in DOMAIN dumpNums |-> IF a \in D THEN Spend(dumpNums[a]) ELSE dumpNums[a]]
    /\ given' = [a \in DOMAIN given |-> IF a \in D /\ Limited(given[a].limit) THEN [given[a] EXCEPT !.dumps = @ + 1] ELSE given[a]]
    /\ skipped' = (skipped \/ \E a \in DOMAIN dumpNums \ D : ~Limited(dumpNums[a]))
    /\ times' = [times EXCEPT ![w][side] = @ + 1]

NoDump == UNCHANGED <<dumpNums, given, skipped, times>>

-----------------------------------------------------------------------------
(* MemoryWatch *)

BeginExcute(w) == IF IsInMonitoring THEN Dump(w, "before") ELSE NoDump

\* The first operator opens the window of the command line, the last closes it.
EndExcute(w, name) ==
  \/ /\ Watched /\ name = "first" /\ ~watchedTargetName
     /\ watchedTargetName' = TRUE
     /\ \E T \in SUBSET Outputs : cmdTensors' = cmdTensors \cup T
     /\ Dump(w, "after")
  \/ /\ Watched /\ name = "last"
     /\ watchedTargetName' = FALSE /\ cmdTensors' = {}
     /\ Dump(w, "after")
  \/ /\ ~(Watched /\ (name = "last" \/ (name = "first" /\ ~watchedTargetName)))
     /\ IF IsInMonitoring THEN Dump(w, "after") ELSE NoDump
     /\ UNCHANGED <<watchedTargetName, cmdTensors>>

\* Nothing is watched: the hook returns.
Pass == NoDump /\ UNCHANGED <<isRepeatWatch, watchedTargetName, cmdTensors>>

OpExcuteBegin(w) ==
  IF WatchEnabled THEN BeginExcute(w) /\ UNCHANGED <<isRepeatWatch, watchedTargetName, cmdTensors>> ELSE Pass

OpExcuteEnd(w) ==
  IF WatchEnabled THEN EndExcute(w, at[w].name) /\ UNCHANGED isRepeatWatch ELSE Pass

\* Mutant: no mark is set.
Marked_Never(w) == isRepeatWatch

\* ATB announces its kernel before and after the launch hook does.
Marked(w) == isRepeatWatch \cup {w}

KernelExcuteBegin(w, isOuterLayer) ==
  IF ~WatchEnabled THEN Pass
  ELSE /\ isRepeatWatch' = IF isOuterLayer THEN Marked(w) ELSE isRepeatWatch
       /\ IF w \in isRepeatWatch' /\ ~isOuterLayer THEN NoDump ELSE BeginExcute(w)
       /\ UNCHANGED <<watchedTargetName, cmdTensors>>

KernelExcuteEnd(w, isOuterLayer) ==
  IF ~WatchEnabled THEN Pass
  ELSE IF w \in isRepeatWatch /\ ~isOuterLayer THEN Pass
  ELSE /\ isRepeatWatch' = IF isOuterLayer THEN isRepeatWatch \ {w} ELSE isRepeatWatch
       /\ EndExcute(w, at[w].name)

-----------------------------------------------------------------------------
(* Operators and kernels *)

Go(w, stage) == at' = [at EXCEPT ![w].stage = stage]

\* An operator of ATen or ATB, or a kernel, begins.
Begin(w, kind, name) ==
  /\ at[w] = Idle /\ runs < MaxRuns
  /\ runs' = runs + 1
  /\ at' = [at EXCEPT ![w] = [kind |-> kind, name |-> name, stage |-> IF kind = "atb" THEN "outer" ELSE "inside"]]
  /\ steady' = IF WatchEnabled THEN steady \cup {w} ELSE steady \ {w}
  /\ IF kind = "op" THEN OpExcuteBegin(w) ELSE KernelExcuteBegin(w, kind = "atb")

\* The launch inside a kernel of ATB.
LaunchBegin(w) ==
  /\ at[w].stage = "outer"
  /\ KernelExcuteBegin(w, FALSE)
  /\ Go(w, "launch")
  /\ UNCHANGED <<steady, runs>>

LaunchEnd(w) ==
  /\ at[w].stage = "launch"
  /\ KernelExcuteEnd(w, FALSE)
  /\ Go(w, "inside")
  /\ UNCHANGED <<steady, runs>>

End(w) ==
  /\ at[w].stage = "inside"
  /\ IF at[w].kind = "op" THEN OpExcuteEnd(w) ELSE KernelExcuteEnd(w, at[w].kind = "atb")
  /\ Go(w, "done")
  /\ UNCHANGED <<steady, runs>>

Return(w) ==
  /\ at[w].stage = "done"
  /\ at' = [at EXCEPT ![w] = Idle]
  /\ times' = [times EXCEPT ![w] = [before |-> 0, after |-> 0]]
  /\ UNCHANGED <<isRepeatWatch, watchedTargetName, cmdTensors, dumpNums, given, steady, skipped, runs>>

Watch(a, n) ==
  /\ dumpNums' = [b \in DOMAIN dumpNums \cup {a} |-> IF b = a THEN n ELSE dumpNums[b]]
  /\ given' = [b \in DOMAIN given \cup {a} |-> IF b = a THEN [limit |-> n, dumps |-> 0] ELSE given[b]]
  /\ UNCHANGED <<at, isRepeatWatch, watchedTargetName, cmdTensors, times, steady, skipped, runs>>

\* An operator or kernel that runs now was not watched throughout.
Remove(a) ==
  /\ a \in DOMAIN dumpNums
  /\ dumpNums' = [b \in DOMAIN dumpNums \ {a} |-> dumpNums[b]]
  /\ given' = [b \in DOMAIN given \ {a} |-> given[b]]
  /\ steady' = IF Watched \/ cmdTensors # {} \/ DOMAIN dumpNums' # {} THEN steady ELSE {}
  /\ UNCHANGED <<at, isRepeatWatch, watchedTargetName, cmdTensors, times, skipped, runs>>

-----------------------------------------------------------------------------
Init ==
  /\ at = [w \in Workers |-> Idle]
  /\ isRepeatWatch = {} /\ watchedTargetName = FALSE /\ cmdTensors = {}
  /\ dumpNums = [a \in {} |-> 0] /\ given = [a \in {} |-> [limit |-> 0, dumps |-> 0]]
  /\ times = [w \in Workers |-> [before |-> 0, after |-> 0]]
  /\ steady = {} /\ skipped = FALSE /\ runs = 0

Next ==
  \/ \E w \in Workers :
       \/ \E kind \in Kinds, name \in Names : Begin(w, kind, name)
       \/ LaunchBegin(w) \/ LaunchEnd(w) \/ End(w) \/ Return(w)
  \/ \E a \in Addresses : Remove(a) \/ \E n \in Limits : Watch(a, n)

-----------------------------------------------------------------------------
(* Properties *)

\* A kernel that is watched from its begin to its end is written at most once
\* before and once after, also when ATB and the launch hook both announce it and
\* other threads run kernels (KernelExcuteBegin, memory_watch.cpp:127).
OncePerSide == \A w \in steady : times[w].before <= 1 /\ times[w].after <= 1

\* No address is written more often than dump_nums allows since it was watched,
\* whatever runs, watches and removals came between (memory_analysis.md:415).
WithinLimit == \A a \in DOMAIN given : Limited(given[a].limit) => given[a].dumps <= given[a].limit

\* Both: what is written is what was asked for.
DumpsAsAsked == OncePerSide /\ WithinLimit

\* "If no value is specified, the number of dumps is unlimited"
\* (docs/en/user_guide/memory_analysis.md:415).
UnlimitedNeverSkipped == ~skipped
=============================================================================
