----------------------------- MODULE KernelLink -----------------------------
(***************************************************************************)
(* Names for the executions of kernels (kernel_event_trace.cpp).  A launch *)
(* hook leaves an entry in the list of its thread, the profiling callback  *)
(* of the runtime completes the last entry of the thread with the task key *)
(* and the name, and the reader of the driver's log looks the key up, in   *)
(* all threads, when a task begins and ends.  Task ids are 16 bits wide    *)
(* and come back.                                                          *)
(***************************************************************************)
EXTENDS Naturals, Sequences, SequencesExt

CONSTANTS
  Launchers,    \* the threads that launch kernels
  TaskKeys,     \* the keys <<device, stream, task>> the runtime hands out
  NewSoc,       \* the log carries no stream (A5, A6)
  Buffer,       \* the logs that fill the buffer of the reader
  NoKey,        \* the key of an entry that is not linked
  MaxLaunches   \* bound on the launches of a run

LinkAssumption ==
  /\ NewSoc \in BOOLEAN /\ Buffer \in Nat \ {0} /\ MaxLaunches \in Nat
  /\ NoKey \notin TaskKeys
  /\ NewSoc => \A j, k \in TaskKeys : <<j[1], j[3]>> = <<k[1], k[3]>> => j = k

VARIABLES
  kernelNameMp,  \* thread -> its entries, oldest first
  launching,     \* thread -> the launch it is in, 0 for none
  tasks,         \* submitted tasks whose end the device has not logged
  channel,       \* logs the driver holds
  dropped,       \* a read was thrown away
  tracing,       \* the trace is on
  reported,      \* executions reported: the launch and the name given to it
  launches       \* launches so far; a kernel is named by the number of its launch

vars == <<kernelNameMp, launching, tasks, channel, dropped, tracing, reported, launches>>

Unlinked == [taskKey |-> NoKey, kernelName |-> 0]

\* rtKernelLaunch and its siblings; the aclrt functions keep the rt function
\* they call from adding a second entry.
KernelLaunch(t) ==
  /\ launching[t] = 0 /\ launches < MaxLaunches
  /\ launches' = launches + 1
  /\ launching' = [launching EXCEPT ![t] = launches + 1]
  /\ kernelNameMp' = [kernelNameMp EXCEPT ![t] = Append(@, Unlinked)]
  /\ UNCHANGED <<tasks, channel, dropped, tracing, reported>>

\* A key comes back once its end was logged and read.
Free(k) == /\ \A task \in tasks : task.key # k
           /\ \A i \in 1..Len(channel) : channel[i].key # k

LastLinked(entries, k, name) ==
  IF entries = <<>> THEN entries
  ELSE [entries EXCEPT ![Len(entries)] = [taskKey |-> k, kernelName |-> name]]

\* The runtime reports a task it submitted through CompactInfoReporterCallbackImpl.
RuntimeTaskInfoLaunch(t, k) ==
  /\ launching[t] # 0 /\ Free(k)
  /\ tasks' = tasks \cup {[key |-> k, launch |-> launching[t], begun |-> FALSE]}
  /\ kernelNameMp' = [kernelNameMp EXCEPT ![t] = LastLinked(@, k, launching[t])]
  /\ launching' = [launching EXCEPT ![t] = 0]
  /\ UNCHANGED <<channel, dropped, tracing, reported, launches>>

\* A launch that the runtime refuses leaves its entry without a key.
LaunchFails(t) ==
  /\ launching[t] # 0
  /\ launching' = [launching EXCEPT ![t] = 0]
  /\ UNCHANGED <<kernelNameMp, tasks, channel, dropped, tracing, reported, launches>>

\* The device runs the task: one log at its begin and one at its end.
Log(task, type) == [key |-> task.key, launch |-> task.launch, type |-> type]

Execute(task) ==
  /\ channel' = Append(channel, Log(task, IF task.begun THEN "end" ELSE "begin"))
  /\ tasks' = (tasks \ {task}) \cup {u \in {[task EXCEPT !.begun = TRUE]} : ~task.begun}
  /\ UNCHANGED <<kernelNameMp, launching, dropped, tracing, reported, launches>>

-----------------------------------------------------------------------------
(* The reader *)

SameTask(k, j) == IF NewSoc THEN k[1] = j[1] /\ k[3] = j[3] ELSE k = j

\* Where GetKernelName looks: the first entry of some thread.
Found(t, i, k) ==
  LET Match(e) == e.taskKey # NoKey /\ SameTask(e.taskKey, k) IN
  /\ i \in 1..Len(kernelNameMp[t]) /\ Match(kernelNameMp[t][i])
  /\ \A j \in 1..(i - 1) : ~Match(kernelNameMp[t][j])

Missing(k) == ~\E t \in Launchers : \E i \in 1..Len(kernelNameMp[t]) : Found(t, i, k)

\* Mutant: only while tracing.
UsedUp_WhenTraced(log) == log.type = "end" /\ tracing

\* An entry is used up by the end of its task, also while nothing is traced.
UsedUp(log) == log.type = "end"

KernelExcute(log, t, i) ==
  /\ Found(t, i, log.key)
  /\ kernelNameMp' = IF UsedUp(log) THEN [kernelNameMp EXCEPT ![t] = RemoveAt(@, i)] ELSE kernelNameMp
  /\ reported' = IF tracing
                 THEN reported \cup {[launch |-> log.launch, name |-> kernelNameMp[t][i].kernelName]}
                 ELSE reported

\* TransStarsLog on a read that left room in the buffer, one log at a time: what
\* other threads do may come between any two logs.
ReadLog ==
  /\ channel # <<>>
  /\ \/ \E t \in Launchers : \E i \in 1..Len(kernelNameMp[t]) : KernelExcute(Head(channel), t, i)
     \/ Missing(Head(channel).key) /\ UNCHANGED <<kernelNameMp, reported>>
  /\ channel' = Tail(channel)
  /\ UNCHANGED <<launching, tasks, dropped, tracing, launches>>

\* A read that fills the buffer is taken for an error and its logs are gone.
ReadFull ==
  /\ Len(channel) >= Buffer
  /\ channel' = SubSeq(channel, Buffer + 1, Len(channel))
  /\ dropped' = TRUE
  /\ UNCHANGED <<kernelNameMp, launching, tasks, tracing, reported, launches>>

Switch ==
  /\ tracing' = ~tracing
  /\ UNCHANGED <<kernelNameMp, launching, tasks, channel, dropped, reported, launches>>

-----------------------------------------------------------------------------
Init ==
  /\ kernelNameMp = [t \in Launchers |-> <<>>] /\ launching = [t \in Launchers |-> 0]
  /\ tasks = {} /\ channel = <<>> /\ dropped = FALSE
  /\ tracing \in BOOLEAN /\ reported = {} /\ launches = 0

Next ==
  \/ \E t \in Launchers : KernelLaunch(t) \/ LaunchFails(t) \/ \E k \in TaskKeys : RuntimeTaskInfoLaunch(t, k)
  \/ \E task \in tasks : Execute(task)
  \/ ReadLog \/ ReadFull \/ Switch

\* As long as no read was thrown away, an execution that is reported bears the
\* name of the launch it belongs to, however often task ids come back and the
\* trace is switched (GetKernelName, kernel_event_trace.cpp:320).
NamesRight == dropped \/ \A r \in reported : r.name = r.launch
=============================================================================
