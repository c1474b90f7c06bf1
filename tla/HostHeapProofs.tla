--------------------------- MODULE HostHeapProofs ---------------------------
(***************************************************************************)
(* Theorems of HostHeap, for all threads, addresses, stacks and capacities *)
(* of the tables.                                                          *)
(*                                                                         *)
(* Staged says where the control thread is in a window and what the        *)
(* boundary reported last, the closing snapshot and the gate then are.     *)
(* From it follow that the hooks implement HostWindow, that a forked child *)
(* records nothing and that a report misses no block.                      *)
(*                                                                         *)
(* RefsInv says that every block, call and sample has a reference to the   *)
(* entry it is recorded for; from it follows that no entry goes too early. *)
(* CountsHeld and SumsHeld are the books of a window, entry by entry and   *)
(* in all; what a call has taken away (TakenAway) or is about to store     *)
(* (Fresh) is in no ledger, so that a step moves a count by one at most.   *)
(***************************************************************************)
EXTENDS HostHeap, FiniteSetTheorems, TLAPS

Closing  == {"joining", "walking", "reporting", "ended"}
Opening  == {"opening", "opened"}
Snapshot == {"freezing", "surveying", "thawing", "copying"}

Gates == [ready : BOOLEAN, pending : BOOLEAN, mainStarted : BOOLEAN, enabled : BOOLEAN,
          frozen : BOOLEAN, closing : BOOLEAN, exiting : BOOLEAN, forked : BOOLEAN]

\* The types of what the control thread and the gates keep.
StageTypes ==
  /\ svc \in {"idle", "requested"} \cup Closing \cup Opening \cup Snapshot
  /\ told \in [kind : {"START", "END"}, id : Nat]
  /\ final \in Nat
  /\ gate \in Gates
  /\ plan \in Plans

\* What is settled in each stage of a window.
Staged ==
  /\ gate.closing => svc \in Closing
  /\ svc \in Closing => gate.closing /\ ~gate.enabled
  /\ svc \in Opening => ~gate.closing /\ ~gate.enabled /\ final = 0
  /\ svc = "opening" => told.kind = "END" /\ told.id < plan.windows
  /\ svc = "opened" => told.kind = "START"
  /\ svc \in Snapshot => told.kind = "START" /\ final = 0
  /\ svc \in {"freezing", "thawing", "copying"} => gate.enabled
  /\ svc \in {"joining", "walking"} => told.kind = "START" /\ final = 0
  /\ svc = "reporting" => told.kind = "START" /\ final = told.id
  /\ svc = "ended" => told.kind = "END"
  /\ gate.enabled => told.kind = "START" /\ final = 0
  /\ svc \in {"idle", "requested"} /\ ~gate.enabled /\ ~gate.forked => told.kind = "END"
  /\ ~gate.ready => svc = "idle" /\ ~gate.enabled /\ ~gate.forked /\ ~gate.mainStarted

\* The child of a fork: the gates are shut and nobody will open them.
ChildSilent == gate.forked =>
  /\ svc = "idle" /\ ~gate.enabled /\ ~gate.frozen
  /\ gate.ready /\ gate.mainStarted
  /\ sampler.pinned = {} /\ sampler.runs = FALSE
  /\ \A t \in Threads : hook[t].pc \in {"out", "gone", "gate"} /\ (hook[t].pc = "gate" => ~hook[t].seen)

\* The stages of a window.
StageInv == StageTypes /\ Staged

-----------------------------------------------------------------------------
(* The stages of a window *)

\* The first state is idle.
LEMMA InitStaged == Init => StageInv
BY HeapAssumption DEF Init, StageInv, StageTypes, Staged, Gates, Closing, Opening, Snapshot

\* The hooks of the application leave the stages alone.
LEMMA HooksKeepStages ==
  ASSUME NEW t \in Threads, Hooks(t) \/ Call(t)
  PROVE  UNCHANGED <<svc, told, final, gate, plan, sampler>>
<1>1. CASE Call(t)
  BY <1>1 DEF Call, control, bounds
<1>2. CASE Bypass(t) \/ Enter(t) \/ PassOver(t)
  BY <1>2 DEF Bypass, Enter, PassOver, control, bounds
<1>3. CASE LookupStack(t) \/ Register(t) \/ Unattributed(t)
  BY <1>3 DEF LookupStack, Register, Unattributed, control, bounds
<1>4. CASE InsertElsewhere(t) \/ Insert(t) \/ Dispose(t)
  BY <1>4 DEF InsertElsewhere, Insert, Dispose, control, bounds
<1>5. CASE Capture(t) \/ CaptureOverflow(t) \/ CaptureNothing(t)
  BY <1>5 DEF Capture, CaptureOverflow, CaptureNothing, control, bounds
<1>6. CASE Release(t) \/ Moved(t) \/ Refused(t)
  BY <1>6 DEF Release, Moved, Refused, control, bounds
<1>7. CASE Reinsert(t) \/ LoseSight(t)
  BY <1>7 DEF Reinsert, LoseSight, control, bounds
<1>8. QED
  BY <1>1, <1>2, <1>3, <1>4, <1>5, <1>6, <1>7 DEF Hooks

\* Each step keeps the stages and is one of HostWindow or leaves its state alone.
LEMMA StagesStep ==
  ASSUME StageInv, [Next]_vars
  PROVE  StageInv' /\ [Stages!WindowNext]_(Stages!windowVars)
<1> USE DEF StageInv, StageTypes, Staged, Gates, Closing, Opening, Snapshot
<1> DEFINE Goal == StageInv' /\ [Stages!WindowNext]_(Stages!windowVars)
<1>1. CASE UNCHANGED <<svc, told, final, gate, plan>>
  BY <1>1 DEF Stages!windowVars
<1>2. CASE Ask
  BY <1>2 DEF Ask, Stages!windowVars, bounds
<1>3. CASE Ready
  BY <1>3 DEF Ready, Stages!windowVars, bounds
<1>4. CASE MainStarts
  BY <1>4 DEF MainStarts, Stages!windowVars, bounds
<1>5. CASE Open
  <2>1. told.kind = "END" /\ told.id < plan.windows
    BY <1>5 DEF Open, Asleep
  <2>2. Stages!ClearFinal
    BY <1>5, <2>1 DEF Open, Cleared, Stages!ClearFinal
  <2>3. /\ svc' = "opening" /\ gate' = [gate EXCEPT !.frozen = FALSE] /\ final' = 0
        /\ told' = told /\ plan' = plan /\ gate.ready /\ ~gate.enabled /\ ~gate.closing
    BY <1>5 DEF Open, Cleared, Asleep, bounds
  <2>4. StageInv'
    BY <2>1, <2>3
  <2>5. QED
    BY <2>2, <2>4 DEF Stages!WindowNext
<1>6. CASE Announce
  <2>1. told.id < MaxWindows
    BY <1>6, HeapAssumption DEF Announce
  <2>2. Stages!SendStart
    BY <1>6, <2>1 DEF Announce, Stages!SendStart
  <2>3. StageInv'
    BY <1>6 DEF Announce, bounds
  <2>4. QED
    BY <2>2, <2>3 DEF Stages!WindowNext
<1>7. CASE OpenGate
  BY <1>7 DEF OpenGate, Stages!windowVars, bounds
<1>8. CASE Close
  BY <1>8 DEF Close, Asleep, Stages!windowVars, bounds
<1>9. CASE Join
  BY <1>9 DEF Join, Stages!windowVars, bounds
<1>10. CASE Aggregate
  <2>1. Stages!Aggregate
    BY <1>10 DEF Aggregate, Stages!Aggregate
  <2>2. StageInv'
    BY <1>10 DEF Aggregate, bounds
  <2>3. QED
    BY <2>1, <2>2 DEF Stages!WindowNext
<1>11. CASE ReportEnd
  <2>1. Stages!SendEnd
    BY <1>11 DEF ReportEnd, Stages!SendEnd
  <2>2. StageInv'
    BY <1>11 DEF ReportEnd, bounds
  <2>3. QED
    BY <2>1, <2>2 DEF Stages!WindowNext
<1>12. CASE Closed
  BY <1>12 DEF Closed, Stages!windowVars, bounds
<1>13. CASE Freeze
  BY <1>13 DEF Freeze, Asleep, Stages!windowVars, bounds
<1>14. CASE Survey
  BY <1>14 DEF Survey, Stages!windowVars, bounds
<1>15. CASE Thaw
  BY <1>15 DEF Thaw, Stages!windowVars, bounds
<1>16. CASE Thawed
  BY <1>16 DEF Thawed, Stages!windowVars, bounds
<1>17. CASE Copied
  BY <1>17 DEF Copied, Stages!windowVars, bounds
<1>18. CASE Exit
  BY <1>18 DEF Exit, Stages!windowVars, bounds
<1>19. CASE Sample \/ Sampled
  BY <1>1, <1>19 DEF Sample, Sampled, bounds
<1>20. ASSUME NEW t \in Threads, Fork(t) PROVE Goal
  BY <1>20 DEF Fork, ChildGate, Walking, Stages!windowVars, bounds
<1>21. ASSUME NEW t \in Threads, Call(t) \/ Hooks(t) PROVE Goal
  BY <1>1, <1>21, HooksKeepStages
<1>22. CASE UNCHANGED vars
  BY <1>1, <1>22 DEF vars, control, bounds
<1>23. QED
  BY <1>2, <1>3, <1>4, <1>5, <1>6, <1>7, <1>8, <1>9, <1>10, <1>11, <1>12, <1>13, <1>14, <1>15,
     <1>16, <1>17, <1>18, <1>19, <1>20, <1>21, <1>22 DEF Next, Service

\* The hooks announce the windows as HostWindow says, whatever the threads of the
\* application do: SvcSetEnabled of host_mem_hooks.cpp implements the contract
\* that host_leak_analyzer.cpp builds on.
THEOREM WindowsInOrder == Spec => StagesInOrder
<1>1. Init => Stages!WindowInit
  BY DEF Init, Stages!WindowInit
<1>2. StageInv /\ [Next]_vars => StageInv' /\ [Stages!WindowNext]_(Stages!windowVars)
  BY StagesStep
<1>3. QED
  BY InitStaged, <1>1, <1>2, PTL DEF Spec, StagesInOrder, Stages!WindowSpec

-----------------------------------------------------------------------------
(* The hooks *)

Places == {"out", "gone", "gate", "lookup", "insert", "held", "remove", "taken", "reinsert"}
Ops    == {"none", "malloc", "free", "realloc"}
Books  == {"none", "table", "overflow"}

HookRecords == [pc : Places, op : Ops, a : Addrs \cup {0}, own : Nat, seen : BOOLEAN, from : Books, w : Nat]

\* The record of each thread.
HookTypes ==
  /\ hook \in [Threads -> HookRecords]
  /\ stacks \subseteq Nat /\ made \in Nat
  /\ \A a \in DOMAIN blocks : blocks[a] \in Nat

\* What the steps make of the record of a call.
LEMMA OutRecord == Out \in HookRecords
BY DEF Out, HookRecords, Places, Ops, Books

\* What a thread becomes at a step of a call is a record again: at its first step,
LEMMA CallRecord ==
  ASSUME NEW p \in Places, NEW op \in Ops, NEW a \in Addrs
  PROVE  [Out EXCEPT !.pc = p, !.op = op, !.a = a] \in HookRecords
BY OutRecord DEF HookRecords

\* ... at the next place of the same call,
LEMMA NextRecord ==
  ASSUME NEW h \in HookRecords, NEW p \in Places
  PROVE  [h EXCEPT !.pc = p] \in HookRecords
BY DEF HookRecords

\* ... before the removal, when it notes the window,
LEMMA EnteredRecord ==
  ASSUME NEW h \in HookRecords, NEW w \in Nat
  PROVE  [h EXCEPT !.pc = "remove", !.w = w] \in HookRecords
BY DEF HookRecords, Places

\* ... with an entry in hand,
LEMMA OwnerRecord ==
  ASSUME NEW h \in HookRecords, NEW n \in Nat
  PROVE  [h EXCEPT !.pc = "insert", !.own = n] \in HookRecords
BY DEF HookRecords, Places

\* ... and with a record that left a ledger.
LEMMA TakenRecord ==
  ASSUME NEW h \in HookRecords, NEW n \in Nat
  PROVE  /\ [h EXCEPT !.pc = "taken", !.own = n, !.from = "table"] \in HookRecords
         /\ [h EXCEPT !.pc = "taken", !.from = "overflow"] \in HookRecords
BY DEF HookRecords, Places, Books

\* No thread is in a hook at first.
LEMMA InitHooks == Init => HookTypes
BY OutRecord DEF Init, HookTypes

\* Every step keeps the types of the calls in flight.
LEMMA HooksStep ==
  ASSUME StageInv, HookTypes, [Next]_vars
  PROVE  HookTypes'
<1> USE DEF HookTypes
<1>1. CASE Service
  BY <1>1 DEF Service, Open, Cleared, Kept, Announce, OpenGate, Close, Join, Aggregate, ReportEnd,
         Closed, Freeze, Survey, Thaw, Thawed, Copied, ledger
<1>2. CASE Ask \/ Ready \/ MainStarts \/ Exit \/ Sample \/ Sampled
  BY <1>2 DEF Ask, Ready, MainStarts, Exit, Sample, Sampled, ledger
<1>3. ASSUME NEW t \in Threads, Call(t) PROVE HookTypes'
  <2>1. PICK op \in Does[t], a \in Addrs :
          hook' = [hook EXCEPT ![t] = [Out EXCEPT !.pc = "gate", !.op = op, !.a = a, !.seen = gate.frozen]]
    BY <1>3 DEF Call
  <2>2. op \in {"malloc", "free", "realloc"} /\ gate.frozen \in BOOLEAN
    BY HeapAssumption DEF StageInv, StageTypes, Gates
  <2>3. [Out EXCEPT !.pc = "gate", !.op = op, !.a = a, !.seen = gate.frozen] \in HookRecords
    BY <2>2, OutRecord DEF HookRecords, Places, Ops
  <2>4. QED
    BY <1>3, <2>1, <2>3 DEF Call, ledger
<1>4. ASSUME NEW t \in Threads, Fork(t) PROVE HookTypes'
  BY <1>4 DEF Fork, Out, HookRecords, Places, Ops, Books
<1>5. ASSUME NEW t \in Threads, Hooks(t) PROVE HookTypes'
  <2> DEFINE h == hook[t]
  <2>1. h \in HookRecords /\ h.op \in Ops /\ h.own \in Nat /\ told.id \in Nat
    BY DEF HookRecords, StageInv, StageTypes
  <2>2. ASSUME NEW r \in HookRecords, hook' = [hook EXCEPT ![t] = r],
               UNCHANGED <<blocks, stacks, made>>
        PROVE HookTypes'
    BY <2>2
  <2>3. ASSUME NEW held, NEW p \in Places, Obtain(t, held, p), UNCHANGED <<blocks, stacks, made>>
        PROVE HookTypes'
    <3>1. PICK b \in Addrs : hook' = [hook EXCEPT ![t] =
            IF p = "out" THEN Out ELSE [Out EXCEPT !.pc = p, !.op = hook[t].op, !.a = b]]
      BY <2>3 DEF Obtain
    <3>2. (IF p = "out" THEN Out ELSE [Out EXCEPT !.pc = p, !.op = hook[t].op, !.a = b]) \in HookRecords
      BY <2>1, OutRecord, CallRecord
    <3>3. QED
      BY <2>2, <2>3, <3>1, <3>2
  <2>4. CASE Bypass(t)
    <3>1. /\ UNCHANGED <<blocks, stacks, made>>
          /\ \/ \E held \in {heap, heap \ {h.a}} : Obtain(t, held, "out")
             \/ hook' = [hook EXCEPT ![t] = Out]
      BY <2>4 DEF Bypass, ledger, Leave
    <3>2. QED
      BY <2>2, <2>3, <3>1, OutRecord DEF Places
  <2>5. CASE Enter(t)
    <3>1. UNCHANGED <<blocks, stacks, made>>
      BY <2>5 DEF Enter, ledger
    <3>2. \/ Obtain(t, heap, "lookup")
          \/ hook' = [hook EXCEPT ![t] = [h EXCEPT !.pc = "remove", !.w = told.id]]
      BY <2>5 DEF Enter
    <3>3. [h EXCEPT !.pc = "remove", !.w = told.id] \in HookRecords
      BY <2>1, EnteredRecord
    <3>4. QED
      BY <2>2, <2>3, <3>1, <3>2, <3>3 DEF Places
  <2>6. CASE PassOver(t) \/ InsertElsewhere(t) \/ Dispose(t) \/ LoseSight(t) \/ Release(t)
    <3>1. hook' = [hook EXCEPT ![t] = Out] /\ UNCHANGED <<blocks, stacks, made>>
      BY <2>6 DEF PassOver, InsertElsewhere, Dispose, LoseSight, Release, Leave
    <3>2. QED
      BY <2>2, <3>1, OutRecord
  <2>7. CASE LookupStack(t)
    <3>1. PICK n \in stacks : /\ hook' = [hook EXCEPT ![t] = [h EXCEPT !.pc = "insert", !.own = n]]
                              /\ UNCHANGED <<blocks, stacks, made>>
      BY <2>7 DEF LookupStack
    <3>2. [h EXCEPT !.pc = "insert", !.own = n] \in HookRecords
      BY <2>1, OwnerRecord
    <3>3. QED
      BY <2>2, <3>1, <3>2
  <2>8. CASE Register(t)
    <3>1. PICK gone : /\ hook' = [hook EXCEPT ![t] = [h EXCEPT !.pc = "insert", !.own = made + 1]]
                      /\ made' = made + 1 /\ stacks' = (stacks \ gone) \cup {made + 1}
                      /\ UNCHANGED blocks
      BY <2>8 DEF Register
    <3>2. [h EXCEPT !.pc = "insert", !.own = made + 1] \in HookRecords
      <4>1. made + 1 \in Nat
        OBVIOUS
      <4>2. QED
        BY <2>1, <4>1, OwnerRecord
    <3>3. QED
      BY <3>1, <3>2
  <2>9. CASE Unattributed(t)
    <3>1. hook' = [hook EXCEPT ![t] = [h EXCEPT !.pc = "insert", !.own = 0]] /\ UNCHANGED <<blocks, stacks, made>>
      BY <2>9 DEF Unattributed
    <3>2. [h EXCEPT !.pc = "insert", !.own = 0] \in HookRecords
      BY <2>1, OwnerRecord
    <3>3. QED
      BY <2>2, <3>1, <3>2
  <2>10. CASE Insert(t)
    <3>1. /\ hook' = [hook EXCEPT ![t] = Out] \/ hook' = [hook EXCEPT ![t] = [h EXCEPT !.pc = "held"]]
          /\ UNCHANGED <<stacks, made>> /\ blocks' = With(h.a, h.own)
      BY <2>10 DEF Insert, Leave, Go
    <3>2. Out \in HookRecords /\ [h EXCEPT !.pc = "held"] \in HookRecords
      BY <2>1, OutRecord, NextRecord DEF Places
    <3>3. QED
      BY <2>1, <3>1, <3>2 DEF With
  <2>11. CASE Capture(t)
    <3>1. /\ hook' = [hook EXCEPT ![t] = [h EXCEPT !.pc = "taken", !.own = blocks[h.a], !.from = "table"]]
          /\ UNCHANGED <<stacks, made>> /\ blocks' = Without(h.a) /\ blocks[h.a] \in Nat
      BY <2>11 DEF Capture
    <3>2. [h EXCEPT !.pc = "taken", !.own = blocks[h.a], !.from = "table"] \in HookRecords
      BY <2>1, <3>1, TakenRecord
    <3>3. QED
      BY <3>1, <3>2 DEF Without
  <2>12. CASE CaptureOverflow(t)
    <3>1. /\ hook' = [hook EXCEPT ![t] = [h EXCEPT !.pc = "taken", !.from = "overflow"]]
          /\ UNCHANGED <<blocks, stacks, made>>
      BY <2>12 DEF CaptureOverflow
    <3>2. [h EXCEPT !.pc = "taken", !.from = "overflow"] \in HookRecords
      BY <2>1, TakenRecord
    <3>3. QED
      BY <2>2, <3>1, <3>2
  <2>13. CASE CaptureNothing(t) \/ Refused(t)
    <3>1. /\ \/ hook' = [hook EXCEPT ![t] = Out]
             \/ hook' = [hook EXCEPT ![t] = [h EXCEPT !.pc = "taken"]]
             \/ hook' = [hook EXCEPT ![t] = [h EXCEPT !.pc = "reinsert"]]
          /\ UNCHANGED <<blocks, stacks, made>>
      BY <2>13 DEF CaptureNothing, Refused, Leave, Go, ledger
    <3>2. /\ Out \in HookRecords /\ [h EXCEPT !.pc = "taken"] \in HookRecords
          /\ [h EXCEPT !.pc = "reinsert"] \in HookRecords
      BY <2>1, OutRecord, NextRecord DEF Places
    <3>3. QED
      BY <2>2, <3>1, <3>2
  <2>14. CASE Moved(t)
    BY <2>3, <2>14 DEF Moved, Places
  <2>15. CASE Reinsert(t)
    <3>1. /\ hook' = [hook EXCEPT ![t] = Out] /\ UNCHANGED <<stacks, made>>
          /\ blocks' = With(h.a, h.own) \/ UNCHANGED blocks
      BY <2>15 DEF Reinsert, Leave
    <3>2. QED
      BY <2>1, <3>1, OutRecord DEF With
  <2>16. QED
    BY <1>5, <2>4, <2>5, <2>6, <2>7, <2>8, <2>9, <2>10, <2>11, <2>12, <2>13, <2>14, <2>15 DEF Hooks
<1>6. CASE UNCHANGED vars
  BY <1>6 DEF vars, ledger
<1>7. QED
  BY <1>1, <1>2, <1>3, <1>4, <1>5, <1>6 DEF Next

-----------------------------------------------------------------------------
(* The child of a fork *)

\* No step of the child opens a gate, and a hook that was not entered records
\* nothing.
LEMMA ChildStep ==
  ASSUME StageInv, HookTypes, ChildSilent, [Next]_vars
  PROVE  /\ ChildSilent'
         /\ gate.forked => UNCHANGED <<blocks, overflow, tally, told>>
<1> USE DEF ChildSilent
<1>1. CASE ~gate.forked
  <2>1. CASE \E t \in Threads : Fork(t)
    BY <1>1, <2>1 DEF Fork, ChildGate, Out, At, StageInv, StageTypes, Staged, Gates
  <2>2. CASE ~\E t \in Threads : Fork(t)
    <3>1. gate'.forked = gate.forked
      <4>1. CASE Service
        BY <4>1 DEF Service, Open, Announce, OpenGate, Close, Join, Aggregate, ReportEnd, Closed,
               Freeze, Survey, Thaw, Thawed, Copied, StageInv, StageTypes, Gates
      <4>2. CASE Ask \/ Ready \/ MainStarts \/ Exit \/ Sample \/ Sampled
        BY <4>2 DEF Ask, Ready, MainStarts, Exit, Sample, Sampled, StageInv, StageTypes, Gates
      <4>3. CASE \E t \in Threads : Call(t) \/ Hooks(t)
        BY <4>3, HooksKeepStages
      <4>4. CASE UNCHANGED vars
        BY <4>4 DEF vars, control
      <4>5. QED
        BY <2>2, <4>1, <4>2, <4>3, <4>4 DEF Next
    <3>2. QED
      BY <1>1, <3>1
  <2>3. QED
    BY <2>1, <2>2
<1>2. CASE gate.forked
  <2> USE <1>2 DEF StageInv, StageTypes, Staged, Gates
  <2> DEFINE Silent == ChildSilent' /\ UNCHANGED <<blocks, overflow, tally, told>>
  <2>1. ~Service
    BY DEF Service, Open, Announce, OpenGate, Close, Join, Aggregate, ReportEnd, Closed,
           Freeze, Survey, Thaw, Thawed, Copied, Asleep
  <2>2. ~(Ask \/ Ready \/ MainStarts \/ Sample \/ Sampled)
    BY DEF Ask, Ready, MainStarts, Sample, Sampled
  <2>3. ~\E t \in Threads : Fork(t)
    BY DEF Fork
  <2>4. CASE Exit
    BY <2>4 DEF Exit, ledger
  <2>5. ASSUME NEW t \in Threads, Call(t) PROVE Silent
    BY <2>5 DEF Call, ledger, control, Out
  <2>6. ASSUME NEW t \in Threads, Hooks(t) PROVE Silent
    <3>1. Bypass(t)
      BY <2>6 DEF Hooks, Enter, PassOver, LookupStack, Register, Unattributed, InsertElsewhere,
             Insert, Dispose, Capture, CaptureOverflow, CaptureNothing, Release, Moved, Refused,
             Reinsert, LoseSight, Recording, At, Traced
    <3>2. \A u \in Threads : hook'[u] = hook[u] \/ hook'[u] = Out
      BY <3>1 DEF Bypass, Obtain, Leave, HookTypes
    <3>3. QED
      BY <3>1, <3>2 DEF Bypass, ledger, control, Out
  <2>7. CASE UNCHANGED vars
    BY <2>7 DEF vars, ledger, control
  <2>8. QED
    BY <2>1, <2>2, <2>3, <2>4, <2>5, <2>6, <2>7 DEF Next
<1>3. QED
  BY <1>1, <1>2

\* A forked child records no block, changes no counter and announces no window
\* (the fork handlers of host_mem_hooks.cpp).
THEOREM ChildIsSilent == Spec => ChildRecordsNothing
<1>1. Init => ChildSilent
  BY DEF Init, ChildSilent
<1>2. StageInv /\ [Next]_vars => StageInv'
  BY StagesStep
<1>3. StageInv /\ HookTypes /\ ChildSilent /\ [Next]_vars => HookTypes' /\ ChildSilent'
  BY ChildStep, HooksStep
<1>4. StageInv /\ HookTypes /\ ChildSilent /\ [Next]_vars
        => [gate.forked => UNCHANGED <<blocks, overflow, tally, told>>]_vars
  BY ChildStep
<1>5. QED
  BY InitStaged, InitHooks, <1>1, <1>2, <1>3, <1>4, PTL DEF Spec, ChildRecordsNothing

-----------------------------------------------------------------------------
(* Behind a report *)

Ledgers == DOMAIN blocks \cup overflow

Windows == [missed : BOOLEAN, frozen : BOOLEAN, straddled : BOOLEAN]

\* While the gate is shut, only a refused realloc puts a block into a ledger.
LEMMA ShutGate ==
  ASSUME HookTypes, window \in Windows, NEW t \in Threads, Hooks(t), ~gate.enabled
  PROVE  /\ window' \in Windows
         /\ window.straddled => window'.straddled
         /\ \/ Ledgers' \subseteq Ledgers
            \/ /\ hook[t].pc = "reinsert" /\ hook[t].from # "none"
               /\ Late(t) => window'.straddled
<1> USE DEF Windows, Ledgers
<1>1. CASE Bypass(t) \/ Enter(t) \/ PassOver(t) \/ LookupStack(t) \/ Register(t) \/ Unattributed(t)
  BY <1>1 DEF Bypass, Enter, PassOver, LookupStack, Register, Unattributed, ledger
<1>2. CASE InsertElsewhere(t) \/ Insert(t) \/ Dispose(t)
  BY <1>2 DEF InsertElsewhere, Insert, Dispose, Admitted
<1>3. CASE Capture(t) \/ CaptureOverflow(t)
  BY <1>3 DEF Capture, CaptureOverflow, Without
<1>4. CASE CaptureNothing(t)
  BY <1>4 DEF CaptureNothing, ledger
<1>5. CASE Release(t) \/ Moved(t) \/ Refused(t) \/ LoseSight(t)
  BY <1>5 DEF Release, Moved, Refused, LoseSight, ledger
<1>6. CASE Reinsert(t)
  <2>1. /\ hook[t].pc = "reinsert" /\ hook[t].from # "none"
        /\ window' = [window EXCEPT !.straddled = @ \/ Late(t)]
    BY <1>6 DEF Reinsert, At
  <2>2. Late(t) \in BOOLEAN
    BY DEF Late
  <2>3. QED
    BY <2>1, <2>2
<1>7. QED
  BY <1>1, <1>2, <1>3, <1>4, <1>5, <1>6 DEF Hooks

\* The report of a closed window misses no block.
ReportInv == window \in Windows /\ NothingBehindReport

\* Every step keeps the report complete.
LEMMA ReportStep ==
  ASSUME StageInv, HookTypes, ReportInv, [Next]_vars
  PROVE  ReportInv'
<1> USE DEF ReportInv, NothingBehindReport
<1>1. ASSUME NEW t \in Threads, Hooks(t) PROVE ReportInv'
  <2>1. UNCHANGED <<final, walked>>
    BY <1>1 DEF Hooks, Bypass, Enter, PassOver, LookupStack, Register, Unattributed, InsertElsewhere,
           Insert, Dispose, Capture, CaptureOverflow, CaptureNothing, Release, Moved, Refused,
           Reinsert, LoseSight, control
  <2>2. CASE gate.enabled
    <3>1. final = 0
      BY <2>2 DEF StageInv, Staged
    <3>2. window' \in Windows
      BY <1>1 DEF Hooks, Bypass, Enter, PassOver, LookupStack, Register, Unattributed, InsertElsewhere,
             Insert, Dispose, Capture, CaptureOverflow, CaptureNothing, Release, Moved, Refused,
             Reinsert, LoseSight, Late, Windows
    <3>3. QED
      BY <2>1, <3>1, <3>2
  <2>3. CASE ~gate.enabled
    BY <1>1, <2>1, <2>3, ShutGate DEF Late, Ledgers
  <2>4. QED
    BY <2>2, <2>3
<1>2. CASE Open
  BY <1>2 DEF Open, Cleared, Calm, Windows
<1>3. CASE Aggregate
  BY <1>3 DEF Aggregate, ledger
<1>4. CASE Freeze
  BY <1>4 DEF Freeze, ledger, Windows
<1>5. CASE Announce \/ OpenGate \/ Close \/ Join \/ ReportEnd \/ Closed \/ Survey \/ Thaw \/ Thawed \/ Copied
  BY <1>5 DEF Announce, OpenGate, Close, Join, ReportEnd, Closed, Survey, Thaw, Thawed, Copied, ledger
<1>6. CASE Ask \/ Ready \/ MainStarts \/ Exit \/ Sample \/ Sampled
  BY <1>6 DEF Ask, Ready, MainStarts, Exit, Sample, Sampled, ledger
<1>7. ASSUME NEW t \in Threads, Call(t) \/ Fork(t) PROVE ReportInv'
  BY <1>7 DEF Call, Fork, ledger, control
<1>8. CASE UNCHANGED vars
  BY <1>8 DEF vars, ledger, control
<1>9. QED
  BY <1>1, <1>2, <1>3, <1>4, <1>5, <1>6, <1>7, <1>8 DEF Next, Service

\* Once the aggregate of a window is made, nothing enters a ledger behind it, but
\* for the block of a refused realloc that the window's end has overtaken
\* (CloseAggregate and InsertBlock, host_mem_hooks.cpp).
THEOREM ReportsAreComplete == Spec => []NothingBehindReport
<1>1. Init => ReportInv
  BY DEF Init, ReportInv, NothingBehindReport, Windows, Calm
<1>2. StageInv /\ HookTypes /\ ReportInv /\ [Next]_vars => StageInv' /\ HookTypes' /\ ReportInv'
  BY StagesStep, HooksStep, ReportStep
<1>3. ReportInv => NothingBehindReport
  BY DEF ReportInv
<1>4. QED
  BY InitStaged, InitHooks, <1>1, <1>2, <1>3, PTL DEF Spec

-----------------------------------------------------------------------------
(* The blocks of the calls in flight *)

\* The call has a block of its own.
Engaged(t) ==
  \/ hook[t].pc \in {"lookup", "insert", "held", "remove", "taken", "reinsert"}
  \/ hook[t].pc = "gate" /\ hook[t].op # "malloc"

\* A call works on a block the application holds, and no two on the same.
Apart ==
  /\ \A t \in Threads : Engaged(t) => hook[t].a \in heap
  /\ \A t, u \in Threads : t # u /\ Engaged(t) /\ Engaged(u) => hook[t].a # hook[u].a

\* A step of one thread leaves the calls of the others alone.
LEMMA OthersStay ==
  ASSUME HookTypes, NEW t \in Threads, Call(t) \/ Hooks(t)
  PROVE  \A u \in Threads \ {t} : hook'[u] = hook[u]
BY DEF HookTypes, Call, Hooks, Bypass, Enter, PassOver, LookupStack, Register, Unattributed, InsertElsewhere,
       Insert, Dispose, Capture, CaptureOverflow, CaptureNothing, Release, Moved, Refused,
       Reinsert, LoseSight, Obtain, Leave, Go

\* Four things a call may do to the heap: take a new block, for that of a realloc
\* or for none; give its block back; leave; or go on.
LEMMA HeapMoves ==
  ASSUME HookTypes, NEW t \in Threads, Hooks(t)
  PROVE  \/ \E held \in {heap, heap \ {hook[t].a}}, b \in Addrs :
               /\ b \notin held /\ heap' = held \cup {b}
               /\ held # heap => Engaged(t)
               /\ hook'[t].a = b \/ hook'[t].pc = "out"
         \/ Engaged(t) /\ heap' = heap \ {hook[t].a} /\ hook'[t].pc = "out"
         \/ heap' = heap /\ hook'[t].pc = "out"
         \/ heap' = heap /\ Engaged(t) /\ hook'[t].a = hook[t].a
<1> USE DEF HookTypes, At, Engaged
<1>1. hook[t] \in HookRecords
  OBVIOUS
<1>2. ASSUME NEW held, NEW p, Obtain(t, held, p)
      PROVE  \E b \in Addrs : b \notin held /\ heap' = held \cup {b} /\ (hook'[t].a = b \/ hook'[t].pc = "out")
  BY <1>2 DEF Obtain, Out
<1>3. CASE Bypass(t)
  BY <1>2, <1>3 DEF Bypass, Leave, Out
<1>4. CASE Enter(t)
  <2>1. CASE hook[t].op = "malloc"
    BY <1>2, <1>4, <2>1 DEF Enter
  <2>2. CASE hook[t].op # "malloc"
    BY <1>1, <1>4, <2>2 DEF Enter, HookRecords
  <2>3. QED
    BY <2>1, <2>2
<1>5. CASE PassOver(t) \/ InsertElsewhere(t) \/ Dispose(t) \/ LoseSight(t) \/ Reinsert(t)
  <2>1. hook' = [hook EXCEPT ![t] = Out] /\ heap' = heap
    BY <1>5 DEF PassOver, InsertElsewhere, Dispose, LoseSight, Reinsert, Leave
  <2>2. QED
    BY <2>1 DEF Out
<1>6. CASE LookupStack(t) \/ Register(t) \/ Unattributed(t)
  <2>1. /\ hook[t].pc = "lookup" /\ heap' = heap
        /\ \E n : hook' = [hook EXCEPT ![t] = [hook[t] EXCEPT !.pc = "insert", !.own = n]]
    <3>1. CASE LookupStack(t)
      BY <3>1 DEF LookupStack, Recording
    <3>2. CASE Register(t)
      BY <3>2 DEF Register, Recording
    <3>3. CASE Unattributed(t)
      BY <3>3 DEF Unattributed, Recording
    <3>4. QED
      BY <1>6, <3>1, <3>2, <3>3
  <2>2. QED
    BY <1>1, <2>1 DEF HookRecords
<1>7. CASE Insert(t)
  BY <1>1, <1>7 DEF Insert, Leave, Go, Out, HookRecords
<1>8. CASE Capture(t) \/ CaptureOverflow(t) \/ CaptureNothing(t)
  BY <1>1, <1>8 DEF Capture, CaptureOverflow, CaptureNothing, Go, HookRecords
<1>9. CASE Release(t)
  BY <1>9 DEF Release, Leave, Out
<1>10. CASE Moved(t)
  BY <1>2, <1>10 DEF Moved
<1>11. CASE Refused(t)
  BY <1>1, <1>11 DEF Refused, Leave, Go, Out, HookRecords
<1>12. QED
  BY <1>3, <1>4, <1>5, <1>6, <1>7, <1>8, <1>9, <1>10, <1>11 DEF Hooks

\* Every step keeps the calls apart.
LEMMA ApartStep ==
  ASSUME HookTypes, HookTypes', Apart, [Next]_vars
  PROVE  Apart'
<1> USE DEF Apart
<1>1. ASSUME NEW t \in Threads, Hooks(t) PROVE Apart'
  <2>1. \A u \in Threads \ {t} : hook'[u] = hook[u]
    BY <1>1, OthersStay
  <2>2. \A u \in Threads \ {t} : Engaged(u)' <=> Engaged(u)
    BY <2>1 DEF Engaged
  <2>3. hook'[t].pc = "out" => ~Engaged(t)'
    BY DEF Engaged
  <2>4. QED
    BY <1>1, <2>1, <2>2, <2>3, HeapMoves
<1>2. ASSUME NEW t \in Threads, Call(t) PROVE Apart'
  <2>1. PICK op \in Does[t], a \in Addrs :
          /\ hook' = [hook EXCEPT ![t] = [Out EXCEPT !.pc = "gate", !.op = op, !.a = a, !.seen = gate.frozen]]
          /\ op # "malloc" => a \in heap /\ ~InCall(a)
          /\ heap' = heap
    BY <1>2 DEF Call
  <2>2. \A u \in Threads \ {t} : hook'[u] = hook[u] /\ (Engaged(u)' <=> Engaged(u))
    BY <1>2, OthersStay DEF Engaged
  <2>3. hook'[t].a = a /\ hook'[t].op = op
    BY <2>1 DEF HookTypes, Out
  <2>4. \A u \in Threads : Engaged(u) /\ hook[u].a = a => InCall(a)
    BY DEF Engaged, InCall, At
  <2>5. Engaged(t)' => op # "malloc"
    BY <2>1, <2>3 DEF Engaged, HookTypes, Out
  <2>6. QED
    BY <2>1, <2>2, <2>3, <2>4, <2>5
<1>3. ASSUME NEW t \in Threads, Fork(t) PROVE Apart'
  BY <1>3 DEF Fork, Engaged, Out
<1>4. CASE Service
  BY <1>4 DEF Service, Open, Announce, OpenGate, Close, Join, Aggregate, ReportEnd,
         Closed, Freeze, Survey, Thaw, Thawed, Copied, Engaged
<1>5. CASE Ask \/ Ready \/ MainStarts \/ Exit \/ Sample \/ Sampled \/ UNCHANGED vars
  BY <1>5 DEF Ask, Ready, MainStarts, Exit, Sample, Sampled, vars, Engaged
<1>6. QED
  BY <1>1, <1>2, <1>3, <1>4, <1>5 DEF Next

-----------------------------------------------------------------------------
(* Blocks that look like leaks *)

\* The report will be about this window alone, and every free was seen.
Clean == ~window.missed /\ ~window.frozen /\ ~window.straddled

\* Books and heap: a new window starts with empty ledgers, and while it is open a
\* ledger holds blocks of the heap only, none of which is being freed.
LeakInv ==
  /\ window \in Windows
  /\ svc \in Opening /\ ~window.straddled => Ledgers = {}
  /\ gate.enabled /\ Clean => Ledgers \subseteq heap
  /\ gate.enabled /\ Clean => \A t \in Threads : hook[t].pc = "taken" => hook[t].a \notin Ledgers
  /\ svc \in Snapshot => window.frozen

\* A call that took a record of an earlier window is late in the next.
CallsInv ==
  /\ \A t \in Threads : hook[t].w <= told.id
  /\ \A t \in Threads : hook[t].pc \in {"gate", "remove"} => hook[t].from = "none"
  /\ svc = "opened" /\ ~window.straddled =>
       \A t \in Threads : hook[t].pc \in {"taken", "reinsert"} /\ hook[t].from # "none" => hook[t].w # told.id

\* A step of a call changes what CallsInv says of it in these ways only.
LEMMA CallMoves ==
  ASSUME HookTypes, CallsInv, NEW t \in Threads, Hooks(t)
  PROVE  \/ hook'[t].w = 0 /\ hook'[t].from = "none"
         \/ hook'[t].w = told.id /\ hook'[t].from = "none"
         \/ /\ hook'[t].w = hook[t].w /\ hook'[t].from = hook[t].from
            /\ hook[t].pc # "gate" /\ hook'[t].pc \notin {"gate", "remove"}
            /\ \/ hook'[t].pc = "taken" /\ hook[t].pc = "remove"
               \/ hook'[t].pc = "reinsert" /\ hook[t].pc = "taken"
               \/ hook'[t].pc \notin {"taken", "reinsert"}
         \/ /\ hook'[t].w = hook[t].w /\ hook'[t].pc = "taken"
            /\ hook[t].a \in Ledgers
<1> USE DEF HookTypes, At, CallsInv
<1>1. hook[t] \in HookRecords
  OBVIOUS
<1>2. ASSUME NEW held, NEW p, Obtain(t, held, p)
      PROVE  hook'[t].w = 0 /\ hook'[t].from = "none"
  BY <1>2 DEF Obtain, Out
<1>3. CASE Bypass(t)
  BY <1>2, <1>3 DEF Bypass, Leave, Out
<1>4. CASE Enter(t)
  <2>1. CASE hook[t].op = "malloc"
    BY <1>2, <1>4, <2>1 DEF Enter
  <2>2. CASE hook[t].op # "malloc"
    BY <1>1, <1>4, <2>2 DEF Enter, HookRecords
  <2>3. QED
    BY <2>1, <2>2
<1>5. CASE PassOver(t) \/ InsertElsewhere(t) \/ Dispose(t) \/ LoseSight(t) \/ Reinsert(t) \/ Release(t)
  <2>1. hook' = [hook EXCEPT ![t] = Out]
    BY <1>5 DEF PassOver, InsertElsewhere, Dispose, LoseSight, Reinsert, Release, Leave
  <2>2. QED
    BY <2>1 DEF Out
<1>6. CASE LookupStack(t) \/ Register(t) \/ Unattributed(t)
  <2>1. /\ hook[t].pc = "lookup" /\ heap' = heap
        /\ \E n : hook' = [hook EXCEPT ![t] = [hook[t] EXCEPT !.pc = "insert", !.own = n]]
    <3>1. CASE LookupStack(t)
      BY <3>1 DEF LookupStack, Recording
    <3>2. CASE Register(t)
      BY <3>2 DEF Register, Recording
    <3>3. CASE Unattributed(t)
      BY <3>3 DEF Unattributed, Recording
    <3>4. QED
      BY <1>6, <3>1, <3>2, <3>3
  <2>2. QED
    BY <1>1, <2>1 DEF HookRecords
<1>7. CASE Insert(t)
  BY <1>1, <1>7 DEF Insert, Leave, Go, Out, HookRecords
<1>8. CASE Capture(t) \/ CaptureOverflow(t)
  BY <1>1, <1>8 DEF Capture, CaptureOverflow, HookRecords, Ledgers
<1>9. CASE CaptureNothing(t)
  BY <1>1, <1>9 DEF CaptureNothing, Go, HookRecords
<1>10. CASE Moved(t)
  BY <1>2, <1>10 DEF Moved
<1>11. CASE Refused(t)
  BY <1>1, <1>11 DEF Refused, Leave, Go, Out, HookRecords
<1>12. QED
  BY <1>3, <1>4, <1>5, <1>6, <1>7, <1>8, <1>9, <1>10, <1>11 DEF Hooks

\* Every step keeps the windows of the calls.
LEMMA CallsStep ==
  ASSUME StageInv, HookTypes, CallsInv, LeakInv, [Next]_vars
  PROVE  CallsInv'
<1> USE DEF CallsInv
<1>1. ASSUME NEW t \in Threads, Hooks(t) PROVE CallsInv'
  <2>1. \A u \in Threads \ {t} : hook'[u] = hook[u]
    BY <1>1, OthersStay
  <2>2. UNCHANGED <<svc, told>> /\ told.id \in Nat
    BY <1>1, HooksKeepStages DEF StageInv, StageTypes
  <2>3. window'.straddled \/ ~window.straddled
    <3>1. CASE Reinsert(t) \/ CaptureNothing(t)
      BY <3>1 DEF Reinsert, CaptureNothing, LeakInv, Windows
    <3>2. CASE ~(Reinsert(t) \/ CaptureNothing(t))
      BY <1>1, <3>2 DEF Hooks, Bypass, Enter, PassOver, LookupStack, Register, Unattributed, InsertElsewhere,
             Insert, Dispose, Capture, CaptureOverflow, Release, Moved, Refused, LoseSight
    <3>3. QED
      BY <3>1, <3>2
  <2>4. svc = "opened" /\ ~window.straddled => Ledgers = {}
    BY DEF LeakInv, Opening
  <2>5. QED
    BY <1>1, <2>1, <2>2, <2>3, <2>4, CallMoves
<1>2. ASSUME NEW t \in Threads, Call(t) PROVE CallsInv'
  <2>1. \A u \in Threads \ {t} : hook'[u] = hook[u]
    BY <1>2, OthersStay
  <2>2. hook'[t].w = 0 /\ hook'[t].from = "none" /\ UNCHANGED <<svc, told, window>> /\ told.id \in Nat
    BY <1>2 DEF Call, HookTypes, Out, control, StageInv, StageTypes
  <2>3. QED
    BY <2>1, <2>2
<1>3. ASSUME NEW t \in Threads, Fork(t) PROVE CallsInv'
  BY <1>3 DEF Fork, Out, StageInv, StageTypes
<1>4. CASE Announce
  <2>1. told'.id = told.id + 1 /\ hook' = hook /\ told.id \in Nat
    BY <1>4 DEF Announce, StageInv, StageTypes
  <2>2. \A t \in Threads : hook[t].w \in Nat
    BY DEF HookTypes, HookRecords
  <2>3. QED
    BY <2>1, <2>2
<1>5. CASE ReportEnd
  BY <1>5 DEF ReportEnd, StageInv, StageTypes
<1>6. CASE Open \/ OpenGate \/ Close \/ Join \/ Aggregate \/ Closed \/ Freeze \/ Survey \/ Thaw \/ Thawed \/ Copied
  BY <1>6 DEF Open, OpenGate, Close, Join, Aggregate, Closed, Freeze, Survey, Thaw, Thawed, Copied
<1>7. CASE Ask \/ Ready \/ MainStarts \/ Exit \/ Sample \/ Sampled \/ UNCHANGED vars
  BY <1>7 DEF Ask, Ready, MainStarts, Exit, Sample, Sampled, vars, control, StageInv, Staged
<1>8. QED
  BY <1>1, <1>2, <1>3, <1>4, <1>5, <1>6, <1>7 DEF Next, Service

\* While the gate is open a step of a call leaves the ledgers and the heap alone or
\* adds to the heap; puts the block in its hands into a ledger; takes it out of
\* them; or takes it, which is in no ledger any more, from the heap.
LEMMA LedgerMoves ==
  ASSUME HookTypes, LeakInv, gate.enabled, Clean', NEW t \in Threads, Hooks(t)
  PROVE  \/ Ledgers' \subseteq Ledgers /\ heap \subseteq heap' /\ hook'[t].pc # "taken"
         \/ Ledgers' \subseteq Ledgers \cup {hook[t].a} /\ heap' = heap /\ Engaged(t) /\ hook'[t].pc # "taken"
         \/ Ledgers' \subseteq Ledgers \ {hook[t].a} /\ heap' = heap /\ hook'[t].a = hook[t].a
         \/ /\ Ledgers' \subseteq Ledgers /\ hook[t].pc = "taken"
            /\ heap \ {hook[t].a} \subseteq heap' /\ hook'[t].pc # "taken"
<1> USE DEF HookTypes, At, Ledgers
<1>1. hook[t] \in HookRecords
  OBVIOUS
<1>2. ASSUME NEW held, NEW p \in {"lookup", "out"}, Obtain(t, held, p)
      PROVE  held \subseteq heap' /\ hook'[t].pc # "taken"
  BY <1>2 DEF Obtain, Out
<1>3. CASE Bypass(t)
  BY <1>3 DEF Bypass, Traced
<1>4. CASE Enter(t)
  <2>1. CASE hook[t].op = "malloc"
    BY <1>2, <1>4, <2>1 DEF Enter, ledger
  <2>2. CASE hook[t].op # "malloc"
    BY <1>1, <1>4, <2>2 DEF Enter, HookRecords, ledger
  <2>3. QED
    BY <2>1, <2>2
<1>5. CASE PassOver(t) \/ Dispose(t) \/ LoseSight(t)
  <2>1. hook' = [hook EXCEPT ![t] = Out] /\ UNCHANGED <<heap, blocks, overflow>>
    BY <1>5 DEF PassOver, Dispose, LoseSight, Leave
  <2>2. QED
    BY <2>1 DEF Out
<1>6. CASE LookupStack(t) \/ Register(t) \/ Unattributed(t)
  <2>1. /\ UNCHANGED <<heap, blocks, overflow>>
        /\ \E n : hook' = [hook EXCEPT ![t] = [hook[t] EXCEPT !.pc = "insert", !.own = n]]
    <3>1. CASE LookupStack(t)
      BY <3>1 DEF LookupStack
    <3>2. CASE Register(t)
      BY <3>2, ZenonT(60) DEF Register
    <3>3. CASE Unattributed(t)
      BY <3>3 DEF Unattributed
    <3>4. QED
      BY <1>6, <3>1, <3>2, <3>3
  <2>2. QED
    BY <1>1, <2>1 DEF HookRecords
<1>7. CASE InsertElsewhere(t)
  <2>1. /\ hook' = [hook EXCEPT ![t] = Out] /\ UNCHANGED <<heap, blocks>> /\ Engaged(t)
        /\ overflow' \in {overflow, overflow \cup {hook[t].a}}
    BY <1>7 DEF InsertElsewhere, Divert, Leave, Engaged
  <2>2. QED
    BY <2>1 DEF Out
<1>8. CASE Insert(t)
  <2>1. /\ hook' = [hook EXCEPT ![t] = Out] \/ hook' = [hook EXCEPT ![t] = [hook[t] EXCEPT !.pc = "held"]]
        /\ heap' = heap /\ Engaged(t)
        /\ DOMAIN blocks' = DOMAIN blocks \cup {hook[t].a} /\ overflow' \subseteq overflow
    BY <1>8 DEF Insert, With, Leave, Go, Engaged
  <2>2. hook'[t].pc # "taken"
    BY <1>1, <2>1 DEF Out, HookRecords
  <2>3. QED
    BY <2>1, <2>2
<1>9. CASE Reinsert(t)
  <2>1. /\ hook' = [hook EXCEPT ![t] = Out] /\ heap' = heap /\ Engaged(t)
        /\ DOMAIN blocks' \in {DOMAIN blocks, DOMAIN blocks \cup {hook[t].a}}
        /\ overflow' \in {overflow, overflow \cup {hook[t].a}}
    BY <1>9 DEF Reinsert, With, Leave, Engaged
  <2>2. QED
    BY <2>1 DEF Out
<1>10. CASE Capture(t)
  <2>1. /\ heap' = heap /\ DOMAIN blocks' = DOMAIN blocks \ {hook[t].a}
        /\ overflow' = overflow \ {hook[t].a}
    BY <1>10 DEF Capture, Without
  <2>2. hook'[t].a = hook[t].a
    BY <1>1, <1>10 DEF Capture, HookRecords
  <2>3. QED
    BY <2>1, <2>2
<1>11. CASE CaptureOverflow(t)
  <2>1. /\ heap' = heap /\ blocks' = blocks /\ hook[t].a \notin DOMAIN blocks
        /\ overflow' = overflow \ {hook[t].a}
    BY <1>11 DEF CaptureOverflow
  <2>2. hook'[t].a = hook[t].a
    BY <1>1, <1>11 DEF CaptureOverflow, HookRecords
  <2>3. QED
    BY <2>1, <2>2
<1>12. CASE CaptureNothing(t)
  <2>1. UNCHANGED <<heap, blocks, overflow>> /\ hook[t].a \notin DOMAIN blocks \cup overflow
    BY <1>12 DEF CaptureNothing, Clean, LeakInv, Windows, ledger
  <2>2. hook'[t].a = hook[t].a
    BY <1>1, <1>12 DEF CaptureNothing, Go, HookRecords
  <2>3. QED
    BY <2>1, <2>2
<1>13. CASE Release(t)
  <2>1. /\ hook' = [hook EXCEPT ![t] = Out] /\ hook[t].pc = "taken"
        /\ heap' = heap \ {hook[t].a} /\ UNCHANGED <<blocks, overflow>>
    BY <1>13 DEF Release, Leave
  <2>2. QED
    BY <2>1 DEF Out
<1>14. CASE Moved(t)
  BY <1>2, <1>14 DEF Moved
<1>15. CASE Refused(t)
  BY <1>1, <1>15 DEF Refused, Leave, Go, Out, HookRecords, ledger
<1>16. QED
  BY <1>3, <1>4, <1>5, <1>6, <1>7, <1>8, <1>9, <1>10, <1>11, <1>12, <1>13, <1>14, <1>15 DEF Hooks

\* What is settled of a window only turns for the worse in a hook.
LEMMA WindowMoves ==
  ASSUME window \in Windows, NEW t \in Threads, Hooks(t)
  PROVE  /\ window' \in Windows /\ window'.frozen = window.frozen
         /\ window.straddled => window'.straddled
         /\ Clean' => Clean
<1>1. CASE Reinsert(t) \/ CaptureNothing(t)
  BY <1>1 DEF Reinsert, CaptureNothing, Late, Windows, Clean
<1>2. CASE ~(Reinsert(t) \/ CaptureNothing(t))
  <2>1. window' = window
    BY <1>2 DEF Hooks, Bypass, Enter, PassOver, LookupStack, Register, Unattributed, InsertElsewhere,
           Insert, Dispose, Capture, CaptureOverflow, Release, Moved, Refused, LoseSight
  <2>2. QED
    BY <2>1 DEF Clean
<1>3. QED
  BY <1>1, <1>2

\* Every step keeps the books within the heap.
LEMMA LeakStep ==
  ASSUME StageInv, HookTypes, Apart, CallsInv, LeakInv, [Next]_vars
  PROVE  LeakInv'
<1> USE DEF LeakInv
<1>1. ASSUME NEW t \in Threads, Hooks(t) PROVE LeakInv'
  <2>1. UNCHANGED <<svc, gate, told, final>>
    BY <1>1, HooksKeepStages
  <2>2. window' \in Windows /\ (svc \in Snapshot => window'.frozen)
    BY <1>1, WindowMoves
  <2>3. ASSUME svc \in Opening, ~window'.straddled PROVE Ledgers' = {}
    <3>1. Ledgers = {} /\ ~gate.enabled
      BY <1>1, <2>3, WindowMoves DEF StageInv, Staged
    <3>2. hook[t].pc = "reinsert" /\ hook[t].from # "none" => Late(t)
      BY <1>1, <2>3, WindowMoves DEF StageInv, Staged, Opening, CallsInv, Late
    <3>3. QED
      BY <1>1, <2>3, <3>1, <3>2, ShutGate
  <2>4. ASSUME gate.enabled, Clean'
        PROVE  /\ Ledgers' \subseteq heap'
               /\ \A u \in Threads : hook'[u].pc = "taken" => hook'[u].a \notin Ledgers'
    <3>1. /\ Ledgers \subseteq heap
          /\ \A u \in Threads : hook[u].pc = "taken" => hook[u].a \notin Ledgers
      BY <1>1, <2>4, WindowMoves
    <3>2. \A u \in Threads \ {t} : hook'[u] = hook[u]
      BY <1>1, OthersStay
    <3>3. Engaged(t) => /\ hook[t].a \in heap
                        /\ \A u \in Threads \ {t} : hook[u].pc = "taken" => hook[u].a # hook[t].a
      BY DEF Apart, Engaged
    <3>4. QED
      BY <1>1, <2>4, <3>1, <3>2, <3>3, LedgerMoves
  <2>5. QED
    BY <2>1, <2>2, <2>3, <2>4
<1>2. ASSUME NEW t \in Threads, Call(t) PROVE LeakInv'
  <2>1. \A u \in Threads \ {t} : hook'[u] = hook[u]
    BY <1>2, OthersStay
  <2>2. hook'[t].pc = "gate" /\ UNCHANGED <<heap, blocks, overflow, svc, gate, window>>
    BY <1>2 DEF Call, HookTypes, Out, control, ledger
  <2>3. QED
    BY <2>1, <2>2 DEF Ledgers, Clean
<1>3. ASSUME NEW t \in Threads, Fork(t) PROVE LeakInv'
  BY <1>3 DEF Fork, ChildGate, StageInv, StageTypes, Gates, Opening, Snapshot
<1>4. CASE Open
  BY <1>4 DEF Open, Cleared, Calm, Windows, Ledgers, StageInv, StageTypes, Gates, Snapshot
<1>5. CASE OpenGate
  BY <1>5 DEF OpenGate, ledger, Ledgers, Clean, Opening, Snapshot
<1>6. CASE Freeze
  BY <1>6 DEF Freeze, ledger, Windows, Clean, Opening, Snapshot
<1>7. CASE Thaw
  BY <1>7 DEF Thaw, ledger, Clean, Opening, Snapshot
<1>8. CASE Close \/ Survey
  BY <1>8 DEF Close, Survey, StageInv, StageTypes, Gates, Opening, Snapshot
<1>9. CASE Announce \/ Join \/ Aggregate \/ ReportEnd \/ Closed \/ Thawed \/ Copied
  <2>1. /\ UNCHANGED <<heap, blocks, overflow, hook, window>> /\ gate'.enabled = gate.enabled
        /\ svc' \in Opening => svc \in Opening
        /\ svc' \in Snapshot => svc \in Snapshot
    BY <1>9 DEF Announce, Join, Aggregate, ReportEnd, Closed, Thawed, Copied, ledger, StageInv, StageTypes,
                Gates, Opening, Snapshot
  <2>2. QED
    BY <2>1 DEF Ledgers, Clean
<1>10. CASE Ask \/ Ready \/ MainStarts \/ Exit \/ Sample \/ Sampled \/ UNCHANGED vars
  <2>1. /\ UNCHANGED <<heap, blocks, overflow, hook, window>> /\ gate'.enabled = gate.enabled
        /\ svc' = svc \/ svc' \in {"idle", "requested"}
    BY <1>10 DEF Ask, Ready, MainStarts, Exit, Sample, Sampled, vars, ledger, control, StageInv, StageTypes,
                Gates
  <2>2. QED
    BY <2>1 DEF Ledgers, Clean, Opening, Snapshot
<1>11. QED
  BY <1>1, <1>2, <1>3, <1>4, <1>5, <1>6, <1>7, <1>8, <1>9, <1>10 DEF Next, Service

\* No freed block is going to be reported as a leak: while a window is open, whose
\* frees were all seen, the ledgers hold blocks of the application only, however
\* the hooks of its threads interleave with each other and with the opening of the
\* window (the hooks of malloc, free and realloc, host_mem_hooks.cpp).
THEOREM FreedIsNoLeak == Spec => []NoFalseLeak
<1> DEFINE IInv == StageInv /\ HookTypes /\ Apart /\ CallsInv /\ LeakInv
<1>1. Init => IInv
  <2>1. Init => Apart
    BY DEF Init, Apart, Engaged, Out
  <2>2. Init => CallsInv
    BY DEF Init, CallsInv, Out
  <2>3. Init => LeakInv
    BY DEF Init, LeakInv, Calm, Windows, Opening, Snapshot, Out
  <2>4. QED
    BY <2>1, <2>2, <2>3, InitStaged, InitHooks
<1>2. IInv /\ [Next]_vars => IInv'
  BY StagesStep, HooksStep, ApartStep, CallsStep, LeakStep
<1>3. IInv => NoFalseLeak
  BY DEF NoFalseLeak, LeakInv, Clean, Ledgers
<1>4. QED
  BY <1>1, <1>2, <1>3, PTL DEF Spec

-----------------------------------------------------------------------------
(* References to the entries of the stack table *)

\* An entry, the counters of a window, the warm-up thread.
EntryRecords == [key : Stacks \cup {Blank.key}, refs : Int, allocs : Int, live : Int]
Tallies == [alloc : Int, freed : Int, unknown : Int, skipped : Int, into : Int, outOf : Int]
Samplers == [runs : BOOLEAN, pinned : SUBSET Nat, locked : BOOLEAN]

\* The threads inside a hook.
Busy == {t \in Threads : hook[t].pc \notin {"out", "gone"}}

\* The types of the tables; they are finite, whatever Addrs and Threads are.
TableTypes ==
  /\ heap \subseteq Addrs /\ overflow \subseteq Addrs /\ walked \subseteq Addrs
  /\ DOMAIN blocks \subseteq Addrs
  /\ entry \in [EntryIds -> EntryRecords]
  /\ made \in 0..MaxEntries /\ stacks \subseteq 1..made
  /\ \A a \in DOMAIN blocks : blocks[a] \in 0..made
  /\ tally \in Tallies /\ sampler \in Samplers
  /\ cut \subseteq {"stacks", "stopped"}
  /\ IsFiniteSet(DOMAIN blocks) /\ IsFiniteSet(overflow) /\ IsFiniteSet(Busy)
  /\ Cardinality(DOMAIN blocks) <= plan.slots

\* 1 or 0.
Ind(p) == IF p THEN 1 ELSE 0

\* The entry a block is recorded for, 0 for none.
Slot(a) == IF a \in DOMAIN blocks THEN blocks[a] ELSE 0

\* A call has an entry in hand where it works with one only.
OwnPlaces == \A t \in Threads : hook[t].own # 0 =>
  /\ hook[t].pc \in {"insert", "held", "taken", "reinsert"}
  /\ hook[t].pc \in {"taken", "reinsert"} => hook[t].from = "table"

\* Every block, every call and the sampler has a reference of its own, next to
\* that of the table.
RefsHeld == \A n \in stacks :
  entry[n].refs >= 1 + Cardinality(Owned(n)) + Cardinality(InFlight(n)) + Ind(n \in sampler.pinned)

\* References, and what they protect.
RefsInv == OwnPlaces /\ OwnersStay /\ RefsHeld /\ \A n \in EntryIds : entry[n].refs \in Nat

-----------------------------------------------------------------------------
(* Counting *)

\* A set that differs from a finite set in one element has as many elements, or
\* one more or one less.
LEMMA OneMoves ==
  ASSUME NEW S, NEW T, NEW x, IsFiniteSet(S), T \ {x} = S \ {x}
  PROVE  /\ IsFiniteSet(T)
         /\ Cardinality(S) \in Nat /\ Cardinality(T) \in Nat
         /\ Cardinality(T) = Cardinality(S) - Ind(x \in S) + Ind(x \in T)
<1>1. IsFiniteSet(S \ {x}) /\ Cardinality(S \ {x}) = Cardinality(S) - Ind(x \in S) /\ Cardinality(S) \in Nat
  BY FS_RemoveElement, FS_CardinalityType DEF Ind
<1>2. CASE x \in T
  <2>1. T = (S \ {x}) \cup {x}
    BY <1>2
  <2>2. QED
    BY <1>1, <1>2, <2>1, FS_AddElement, FS_CardinalityType DEF Ind
<1>3. CASE x \notin T
  <2>1. T = S \ {x}
    BY <1>3
  <2>2. QED
    BY <1>1, <1>3, <2>1, FS_CardinalityType DEF Ind
<1>4. QED
  BY <1>2, <1>3

\* The sets that RefsHeld counts are finite.
LEMMA CountsAreFinite ==
  ASSUME TableTypes, OwnPlaces, NEW n \in Nat
  PROVE  /\ IsFiniteSet(Owned(n)) /\ Cardinality(Owned(n)) \in Nat
         /\ n # 0 => IsFiniteSet(InFlight(n)) /\ Cardinality(InFlight(n)) \in Nat
<1>1. Owned(n) \in SUBSET DOMAIN blocks
  BY DEF Owned
<1>2. n # 0 => InFlight(n) \in SUBSET Busy
  BY DEF InFlight, Busy, OwnPlaces
<1>3. QED
  BY <1>1, <1>2, FS_Subset, FS_CardinalityType DEF TableTypes

\* A dead entry has neither blocks nor calls nor the sampler.
LEMMA DeadIsFree ==
  ASSUME TableTypes, RefsInv, NEW n \in stacks, entry[n].refs = 1
  PROVE  /\ \A a \in DOMAIN blocks : blocks[a] # n
         /\ \A t \in Threads : hook[t].own # n
         /\ n \notin sampler.pinned
<1>1. n \in Nat /\ n # 0
  BY DEF TableTypes
<1>2. /\ IsFiniteSet(Owned(n)) /\ Cardinality(Owned(n)) \in Nat
      /\ IsFiniteSet(InFlight(n)) /\ Cardinality(InFlight(n)) \in Nat
  BY <1>1, CountsAreFinite DEF RefsInv
<1>3. 1 >= 1 + Cardinality(Owned(n)) + Cardinality(InFlight(n)) + Ind(n \in sampler.pinned)
  BY DEF RefsInv, RefsHeld
<1>4. Cardinality(Owned(n)) = 0 /\ Cardinality(InFlight(n)) = 0 /\ n \notin sampler.pinned
  BY <1>2, <1>3 DEF Ind
<1>5. Owned(n) = {} /\ InFlight(n) = {}
  BY <1>2, <1>4, FS_EmptySet
<1>6. QED
  BY <1>4, <1>5 DEF Owned, InFlight

\* What Owns and Ref make of the entries.
LEMMA OwnsAdds ==
  ASSUME NEW e \in [EntryIds -> EntryRecords], NEW m \in Nat, m # 0 => m \in EntryIds,
         NEW r \in Int, NEW c \in Int, NEW l \in Int
  PROVE  /\ Owns(e, m, r, c, l) \in [EntryIds -> EntryRecords]
         /\ \A n \in EntryIds :
              /\ Owns(e, m, r, c, l)[n].refs = e[n].refs + (IF n = m THEN r ELSE 0)
              /\ Owns(e, m, r, c, l)[n].allocs = e[n].allocs + (IF n = m THEN c ELSE 0)
              /\ Owns(e, m, r, c, l)[n].live = e[n].live + (IF n = m THEN l ELSE 0)
<1>1. CASE m = 0
  BY <1>1, HeapAssumption DEF Owns, EntryIds, EntryRecords
<1>2. CASE m # 0
  <2> DEFINE x == [e[m] EXCEPT !.refs = @ + r, !.allocs = @ + c, !.live = @ + l]
  <2>1. e[m] \in EntryRecords
    BY <1>2
  <2>2. x \in EntryRecords /\ x.refs = e[m].refs + r /\ x.allocs = e[m].allocs + c /\ x.live = e[m].live + l
    <3> DEFINE y == [e[m] EXCEPT !.refs = @ + r]
               z == [y EXCEPT !.allocs = @ + c]
    <3>1. y \in EntryRecords /\ y.refs = e[m].refs + r /\ y.allocs = e[m].allocs /\ y.live = e[m].live
      BY <2>1 DEF EntryRecords
    <3>2. x = [z EXCEPT !.live = @ + l]
      OBVIOUS
    <3> HIDE DEF x, y
    <3>3. z \in EntryRecords /\ z.refs = y.refs /\ z.allocs = y.allocs + c /\ z.live = y.live
      BY <3>1 DEF EntryRecords
    <3> HIDE DEF z
    <3>4. QED
      BY <3>1, <3>2, <3>3 DEF EntryRecords
  <2>3. Owns(e, m, r, c, l) = [e EXCEPT ![m] = x]
    BY <1>2 DEF Owns
  <2>4. \A n \in EntryIds : e[n] \in EntryRecords /\ e[n].refs \in Int /\ e[n].allocs \in Int /\ e[n].live \in Int
    BY DEF EntryRecords
  <2> HIDE DEF x
  <2>5. QED
    BY <1>2, <2>2, <2>3, <2>4
<1>3. QED
  BY <1>1, <1>2

\* What fetch_add does to the entries.
LEMMA RefAdds ==
  ASSUME NEW e \in [EntryIds -> EntryRecords], NEW m \in Nat, m # 0 => m \in EntryIds, NEW r \in Int
  PROVE  /\ Ref(e, m, r) \in [EntryIds -> EntryRecords]
         /\ \A n \in EntryIds :
              /\ Ref(e, m, r)[n].refs = e[n].refs + (IF n = m THEN r ELSE 0)
              /\ Ref(e, m, r)[n].allocs = e[n].allocs
              /\ Ref(e, m, r)[n].live = e[n].live
<1>1. CASE m = 0
  BY <1>1, HeapAssumption DEF Ref, EntryIds, EntryRecords
<1>2. CASE m # 0
  <2> DEFINE x == [e[m] EXCEPT !.refs = @ + r]
  <2>1. e[m] \in EntryRecords
    BY <1>2
  <2>2. x \in EntryRecords /\ x.refs = e[m].refs + r /\ x.allocs = e[m].allocs /\ x.live = e[m].live
    BY <2>1 DEF EntryRecords
  <2>3. Ref(e, m, r) = [e EXCEPT ![m] = x]
    BY <1>2 DEF Ref
  <2>4. \A n \in EntryIds : e[n] \in EntryRecords /\ e[n].refs \in Int /\ e[n].allocs \in Int /\ e[n].live \in Int
    BY DEF EntryRecords
  <2> HIDE DEF x
  <2>5. QED
    BY <1>2, <2>2, <2>3, <2>4
<1>3. QED
  BY <1>1, <1>2

\* The counters of the window move by these amounts.
Counts(d, c, al, fr, un, sk, in, ou) ==
  /\ d \in Tallies
  /\ d.alloc = c.alloc + al /\ d.freed = c.freed + fr /\ d.unknown = c.unknown + un
  /\ d.skipped = c.skipped + sk /\ d.into = c.into + in /\ d.outOf = c.outOf + ou

\* What a hook does to the counters of the window, one at a time,
LEMMA OneCounter ==
  ASSUME NEW c \in Tallies
  PROVE  /\ Counts(c, c, 0, 0, 0, 0, 0, 0)
         /\ Counts([c EXCEPT !.unknown = @], c, 0, 0, 0, 0, 0, 0)
         /\ Counts([c EXCEPT !.freed = @ + 1], c, 0, 1, 0, 0, 0, 0)
         /\ Counts([c EXCEPT !.freed = @ - 1], c, 0, -1, 0, 0, 0, 0)
         /\ \A x \in Int : Counts([c EXCEPT !.unknown = @ + x], c, 0, 0, x, 0, 0, 0)
BY DEF Counts, Tallies

\* ... two at a time,
LEMMA TwoCounters ==
  ASSUME NEW c \in Tallies
  PROVE  /\ Counts([c EXCEPT !.alloc = @ + 1, !.skipped = @ + 1], c, 1, 0, 0, 1, 0, 0)
         /\ Counts([c EXCEPT !.alloc = @ + 1, !.into = @ + 1], c, 1, 0, 0, 0, 1, 0)
         /\ Counts([c EXCEPT !.freed = @ + 1, !.outOf = @ + 1], c, 0, 1, 0, 0, 0, 1)
         /\ Counts([c EXCEPT !.freed = @ - 1, !.into = @ + 1], c, 0, -1, 0, 0, 1, 0)
         /\ Counts([c EXCEPT !.freed = @ - 1, !.outOf = @ - 1], c, 0, -1, 0, 0, 0, -1)
<1> DEFINE b1 == [c EXCEPT !.alloc = @ + 1]
           b2 == [c EXCEPT !.freed = @ + 1]
           b3 == [c EXCEPT !.freed = @ - 1]
<1>1. /\ [c EXCEPT !.alloc = @ + 1, !.skipped = @ + 1] = [b1 EXCEPT !.skipped = @ + 1]
      /\ [c EXCEPT !.alloc = @ + 1, !.into = @ + 1] = [b1 EXCEPT !.into = @ + 1]
      /\ [c EXCEPT !.freed = @ + 1, !.outOf = @ + 1] = [b2 EXCEPT !.outOf = @ + 1]
      /\ [c EXCEPT !.freed = @ - 1, !.into = @ + 1] = [b3 EXCEPT !.into = @ + 1]
      /\ [c EXCEPT !.freed = @ - 1, !.outOf = @ - 1] = [b3 EXCEPT !.outOf = @ - 1]
  OBVIOUS
<1>2. Counts(b1, c, 1, 0, 0, 0, 0, 0) /\ Counts(b2, c, 0, 1, 0, 0, 0, 0) /\ Counts(b3, c, 0, -1, 0, 0, 0, 0)
  BY DEF Counts, Tallies
<1> HIDE DEF b1, b2, b3
<1>3. /\ Counts([b1 EXCEPT !.skipped = @ + 1], b1, 0, 0, 0, 1, 0, 0)
      /\ Counts([b1 EXCEPT !.into = @ + 1], b1, 0, 0, 0, 0, 1, 0)
      /\ Counts([b2 EXCEPT !.outOf = @ + 1], b2, 0, 0, 0, 0, 0, 1)
      /\ Counts([b3 EXCEPT !.into = @ + 1], b3, 0, 0, 0, 0, 1, 0)
      /\ Counts([b3 EXCEPT !.outOf = @ - 1], b3, 0, 0, 0, 0, 0, -1)
  BY <1>2 DEF Counts, Tallies
<1>4. ASSUME NEW b, NEW d, NEW al \in Int, NEW fr \in Int, NEW sk \in Int, NEW in \in Int, NEW ou \in Int,
             Counts(b, c, al, fr, 0, 0, 0, 0), Counts(d, b, 0, 0, 0, sk, in, ou)
      PROVE  Counts(d, c, al, fr, 0, sk, in, ou)
  <2>1. /\ c.alloc \in Int /\ c.freed \in Int /\ c.unknown \in Int
        /\ c.skipped \in Int /\ c.into \in Int /\ c.outOf \in Int
    BY DEF Tallies
  <2>2. QED
    BY <1>4, <2>1 DEF Counts
<1>5. /\ Counts([b1 EXCEPT !.skipped = @ + 1], c, 1, 0, 0, 1, 0, 0)
      /\ Counts([b1 EXCEPT !.into = @ + 1], c, 1, 0, 0, 0, 1, 0)
      /\ Counts([b2 EXCEPT !.outOf = @ + 1], c, 0, 1, 0, 0, 0, 1)
      /\ Counts([b3 EXCEPT !.into = @ + 1], c, 0, -1, 0, 0, 1, 0)
      /\ Counts([b3 EXCEPT !.outOf = @ - 1], c, 0, -1, 0, 0, 0, -1)
  <2>1. 0 \in Int /\ 1 \in Int /\ -1 \in Int
    OBVIOUS
  <2>2. QED
    BY <1>2, <1>3, <1>4, <2>1
<1>6. QED
  BY <1>1, <1>5

\* ... that of the blocks without a stack,
LEMMA UnknownCounter ==
  ASSUME NEW c \in Tallies
  PROVE  Counts([c EXCEPT !.unknown = @ + 1], c, 0, 0, 1, 0, 0, 0)
BY DEF Counts, Tallies

\* The counters of a block that is stored.
LEMMA StoredCounters ==
  ASSUME NEW c \in Tallies, NEW a, NEW n, NEW d,
         d = [c EXCEPT !.alloc = @ + 1, !.freed = IF Stale(a) THEN @ + 1 ELSE @,
                       !.unknown = IF n = 0 THEN @ + 1 ELSE @]
  PROVE  Counts(d, c, 1, Ind(Stale(a)), Ind(n = 0), 0, 0, 0)
<1> DEFINE b1 == [c EXCEPT !.alloc = @ + 1]
           b2 == [b1 EXCEPT !.freed = IF Stale(a) THEN @ + 1 ELSE @]
<1>1. d = [b2 EXCEPT !.unknown = IF n = 0 THEN @ + 1 ELSE @]
  OBVIOUS
<1>2. Counts(b1, c, 1, 0, 0, 0, 0, 0)
  BY DEF Counts, Tallies
<1> HIDE DEF b1
<1>3. Counts(b2, b1, 0, Ind(Stale(a)), 0, 0, 0, 0)
  BY <1>2 DEF Counts, Tallies, Ind
<1> HIDE DEF b2
<1>4. Counts(d, b2, 0, 0, Ind(n = 0), 0, 0, 0)
  <2>1. b2 \in Tallies
    BY <1>3 DEF Counts
  <2>2. CASE n = 0
    <3>1. d = [b2 EXCEPT !.unknown = @ + 1]
      BY <1>1, <2>2
    <3>2. Counts(d, b2, 0, 0, 1, 0, 0, 0)
      BY <2>1, <3>1, UnknownCounter, Zenon
    <3>3. QED
      BY <2>2, <3>2 DEF Counts, Ind
  <2>3. CASE n # 0
    <3>1. d = [b2 EXCEPT !.unknown = @]
      BY <1>1, <2>3
    <3>2. Counts(d, b2, 0, 0, 0, 0, 0, 0)
      BY <2>1, <3>1, OneCounter, Zenon
    <3>3. QED
      BY <2>3, <3>2 DEF Counts, Ind
  <2>4. QED
    BY <2>2, <2>3
<1>5. /\ c.alloc \in Int /\ c.freed \in Int /\ c.unknown \in Int
      /\ c.skipped \in Int /\ c.into \in Int /\ c.outOf \in Int
  BY DEF Tallies
<1>6. Ind(Stale(a)) \in Int /\ Ind(n = 0) \in Int
  BY DEF Ind
<1>7. QED
  BY <1>2, <1>3, <1>4, <1>5, <1>6 DEF Counts

-----------------------------------------------------------------------------
(* What the hooks do to blocks and entries *)

\* The step adds to the counts of one entry.
Adds(m, r, c, l) ==
  /\ entry' \in [EntryIds -> EntryRecords]
  /\ \A n \in EntryIds : /\ entry'[n].refs = entry[n].refs + (IF n = m THEN r ELSE 0)
                         /\ entry'[n].allocs = entry[n].allocs + (IF n = m THEN c ELSE 0)
                         /\ entry'[n].live = entry[n].live + (IF n = m THEN l ELSE 0)

\* A step that adds to the references of one entry.
LEMMA RefStep ==
  ASSUME entry \in [EntryIds -> EntryRecords], NEW m \in Nat, m # 0 => m \in EntryIds, NEW r \in Int,
         entry' = Ref(entry, m, r)
  PROVE  Adds(m, r, 0, 0)
<1>1. \A n \in EntryIds : entry[n].allocs \in Int /\ entry[n].live \in Int
  BY DEF EntryRecords
<1>2. QED
  BY <1>1, RefAdds DEF Adds

\* A step that adds to the counts of one entry.
LEMMA OwnsStep ==
  ASSUME entry \in [EntryIds -> EntryRecords], NEW m \in Nat, m # 0 => m \in EntryIds,
         NEW r \in Int, NEW c \in Int, NEW l \in Int,
         entry' = Owns(entry, m, r, c, l)
  PROVE  Adds(m, r, c, l)
BY OwnsAdds DEF Adds

\* The tables stay; an entry in hand is kept for the way back of a realloc.
Aside(t) ==
  /\ UNCHANGED <<blocks, stacks, entry, made>>
  /\ \/ hook[t].own = 0 /\ hook'[t].own = 0
     \/ hook'[t].own = hook[t].own /\ hook'[t].pc = "reinsert" /\ hook[t].pc = "taken"
        /\ hook'[t].from = hook[t].from

\* The call takes a reference to an entry that is there.
TakesStack(t) ==
  /\ UNCHANGED <<blocks, stacks, made>>
  /\ hook[t].own = 0 /\ hook'[t].own \in stacks /\ hook'[t].pc = "insert"
  /\ Adds(hook'[t].own, 1, 0, 0)

\* The call makes an entry, a dead one may have to go.
MakesStack(t) ==
  /\ UNCHANGED blocks /\ made' = made + 1 /\ made < MaxEntries
  /\ \E gone \in SUBSET Dead : stacks' = (stacks \ gone) \cup {made + 1}
  /\ hook[t].own = 0 /\ hook'[t].own = made + 1 /\ hook'[t].pc = "insert"
  /\ entry' \in [EntryIds -> EntryRecords]
  /\ \A n \in EntryIds \ {made + 1} : entry'[n] = entry[n]
  /\ entry'[made + 1].refs = 2 /\ entry'[made + 1].allocs = 0 /\ entry'[made + 1].live = 0

\* The call gives its reference up.
Drops(t) ==
  /\ UNCHANGED <<blocks, stacks, made>>
  /\ hook'[t].own = 0
  /\ Adds(hook[t].own, -1, 0, 0)

\* The call stores its block, in the place of an older record.
Stores(t, a) ==
  /\ UNCHANGED <<stacks, made>> /\ blocks' = With(a, hook[t].own)
  /\ ~Full /\ hook[t].pc = "insert"
  /\ hook'[t].own = hook[t].own
  /\ hook[t].own # 0 => hook'[t].pc = "held"
  /\ tally'.unknown = tally.unknown + Ind(hook[t].own = 0)
  /\ entry' \in [EntryIds -> EntryRecords]
  /\ \A n \in EntryIds :
       LET old == n = Slot(a)  new == n = hook[t].own IN
       /\ entry'[n].refs = entry[n].refs - Ind(old) + Ind(new)
       /\ entry'[n].allocs = entry[n].allocs + Ind(new)
       /\ entry'[n].live = entry[n].live - Ind(old) + Ind(new)

\* The call takes the record of its block with the reference.
Captures(t, a) ==
  /\ UNCHANGED <<stacks, made>> /\ blocks' = Without(a) /\ a \in DOMAIN blocks
  /\ hook[t].own = 0 /\ hook'[t].own = blocks[a]
  /\ hook'[t].pc = "taken" /\ hook'[t].from = "table"
  /\ Adds(blocks[a], 0, 0, -1)

\* The call puts the record back.
Restores(t, a) ==
  /\ UNCHANGED <<stacks, made>> /\ blocks' = With(a, hook[t].own)
  /\ ~Full /\ hook[t].pc = "reinsert" /\ hook[t].from = "table"
  /\ hook'[t].own = 0 /\ hook'[t].pc = "out"
  /\ window' = [window EXCEPT !.straddled = @ \/ Late(t)]
  /\ Adds(hook[t].own, 0, 0, 1)

\* A hook does one of these.
LEMMA HookKinds ==
  ASSUME HookTypes, TableTypes, OwnPlaces, OwnersStay, NEW t \in Threads, Hooks(t),
         NEW a, a = hook[t].a
  PROVE  \/ Aside(t) \/ TakesStack(t) \/ MakesStack(t) \/ Drops(t)
         \/ Stores(t, a) \/ Captures(t, a) \/ Restores(t, a)
<1> DEFINE h == hook[t]  m == hook[t].own
<1> USE DEF HookTypes, At
<1>1. h \in HookRecords /\ m \in Nat /\ entry \in [EntryIds -> EntryRecords] /\ stacks \subseteq EntryIds
  BY HeapAssumption DEF HookRecords, TableTypes, EntryIds
<1>2. m # 0 => m \in EntryIds /\ h.pc \in {"insert", "held", "taken", "reinsert"}
  BY <1>1 DEF OwnersStay, OwnPlaces
<1>3. ASSUME NEW b \in DOMAIN blocks PROVE blocks[b] \in Nat /\ (blocks[b] # 0 => blocks[b] \in EntryIds)
  BY <1>1 DEF OwnersStay, TableTypes
<1>4. ASSUME hook' = [hook EXCEPT ![t] = Out], UNCHANGED <<blocks, stacks, made>>, entry' = Ref(entry, m, -1)
      PROVE  Drops(t)
  <2>1. hook'[t].own = 0
    BY <1>4 DEF Out
  <2>2. Adds(m, -1, 0, 0)
    BY <1>1, <1>2, <1>4, RefStep
  <2>3. QED
    BY <1>4, <2>1, <2>2 DEF Drops
<1>5. ASSUME m = 0, UNCHANGED <<blocks, stacks, entry, made>>, hook'[t].own = 0
      PROVE  Aside(t)
  BY <1>5 DEF Aside
<1>6. ASSUME NEW held, NEW p, Obtain(t, held, p)
      PROVE  hook'[t].own = 0
  BY <1>6 DEF Obtain, Out
<1>7. CASE Bypass(t)
  BY <1>2, <1>5, <1>6, <1>7 DEF Bypass, Leave, Out, ledger
<1>8. CASE Enter(t)
  <2>1. UNCHANGED <<blocks, stacks, entry, made>> /\ m = 0
    BY <1>2, <1>8 DEF Enter, ledger
  <2>2. CASE h.op = "malloc"
    BY <1>5, <1>6, <1>8, <2>1, <2>2 DEF Enter
  <2>3. CASE h.op # "malloc"
    <3>1. hook' = [hook EXCEPT ![t] = [h EXCEPT !.pc = "remove", !.w = told.id]]
      BY <1>8, <2>3 DEF Enter
    <3>2. hook'[t].own = 0
      BY <1>1, <2>1, <3>1 DEF HookRecords
    <3>3. QED
      BY <1>5, <2>1, <3>2
  <2>4. QED
    BY <2>2, <2>3
<1>9. CASE PassOver(t)
  <2>1. m = 0 /\ hook' = [hook EXCEPT ![t] = Out] /\ UNCHANGED <<blocks, stacks, entry, made>>
    BY <1>2, <1>9 DEF PassOver, Leave
  <2>2. QED
    BY <1>5, <2>1 DEF Out
<1>10. CASE Unattributed(t)
  <2>1. m = 0 /\ hook' = [hook EXCEPT ![t] = [h EXCEPT !.pc = "insert", !.own = 0]]
        /\ UNCHANGED <<blocks, stacks, entry, made>>
    BY <1>2, <1>10 DEF Unattributed, Recording
  <2>2. QED
    BY <1>1, <1>5, <2>1 DEF HookRecords
<1>11. CASE LookupStack(t)
  <2>1. PICK k \in stacks : /\ entry' = Ref(entry, k, 1)
                            /\ hook' = [hook EXCEPT ![t] = [h EXCEPT !.pc = "insert", !.own = k]]
                            /\ m = 0 /\ UNCHANGED <<blocks, stacks, made>>
    BY <1>2, <1>11 DEF LookupStack, Recording
  <2>2. hook'[t].own = k /\ hook'[t].pc = "insert" /\ k \in EntryIds /\ k \in Nat
    BY <1>1, <2>1 DEF HookRecords
  <2>3. Adds(k, 1, 0, 0)
    BY <1>1, <2>1, <2>2, RefStep
  <2>4. QED
    BY <2>1, <2>2, <2>3 DEF TakesStack
<1>12. CASE Register(t)
  <2>1. PICK k \in Stacks, gone \in SUBSET Dead :
          /\ m = 0 /\ made < MaxEntries /\ made' = made + 1
          /\ stacks' = (stacks \ gone) \cup {made + 1}
          /\ entry' = [entry EXCEPT ![made + 1] = [Blank EXCEPT !.key = k, !.refs = 2]]
          /\ hook' = [hook EXCEPT ![t] = [h EXCEPT !.pc = "insert", !.own = made + 1]]
          /\ UNCHANGED blocks
    BY <1>2, <1>12, ZenonT(60) DEF Register, Recording
  <2> DEFINE x == [Blank EXCEPT !.key = k, !.refs = 2]
  <2>2. x \in EntryRecords /\ x.refs = 2 /\ x.allocs = 0 /\ x.live = 0
    <3> DEFINE y == [Blank EXCEPT !.key = k]
    <3>1. Blank \in EntryRecords /\ Blank.allocs = 0 /\ Blank.live = 0
      BY DEF Blank, EntryRecords
    <3>2. x = [y EXCEPT !.refs = 2]
      OBVIOUS
    <3>3. y \in EntryRecords /\ y.allocs = 0 /\ y.live = 0
      BY <3>1 DEF EntryRecords
    <3> HIDE DEF x, y
    <3>4. QED
      BY <3>2, <3>3 DEF EntryRecords
  <2>3. hook'[t].own = made + 1 /\ hook'[t].pc = "insert"
    BY <1>1, <2>1 DEF HookRecords
  <2>4. made + 1 \in EntryIds
    BY <2>1, HeapAssumption DEF EntryIds
  <2> HIDE DEF x
  <2>5. entry' = [entry EXCEPT ![made + 1] = x]
    BY <2>1 DEF x
  <2>6. /\ entry' \in [EntryIds -> EntryRecords] /\ \A n \in EntryIds \ {made + 1} : entry'[n] = entry[n]
        /\ entry'[made + 1] = x
    BY <1>1, <2>2, <2>4, <2>5
  <2>7. QED
    BY <2>1, <2>2, <2>3, <2>6 DEF MakesStack
<1>13. CASE InsertElsewhere(t) \/ Dispose(t) \/ LoseSight(t) \/ Release(t)
  <2>1. /\ hook' = [hook EXCEPT ![t] = Out] /\ UNCHANGED <<blocks, stacks, made>>
        /\ entry' = Ref(entry, m, -1)
    BY <1>13 DEF InsertElsewhere, Dispose, LoseSight, Release, Leave
  <2>2. QED
    BY <1>4, <2>1
<1>14. CASE Moved(t)
  <2>1. UNCHANGED <<blocks, stacks, made>> /\ entry' = Ref(entry, m, -1) /\ hook'[t].own = 0
    BY <1>6, <1>14 DEF Moved
  <2>2. Adds(m, -1, 0, 0)
    BY <1>1, <1>2, <2>1, RefStep
  <2>3. QED
    BY <2>1, <2>2 DEF Drops
<1>15. CASE Insert(t)
  <2>1. /\ UNCHANGED <<stacks, made>> /\ blocks' = With(a, m) /\ ~Full /\ h.pc = "insert"
        /\ IF m = 0 THEN hook' = [hook EXCEPT ![t] = Out] ELSE hook' = [hook EXCEPT ![t] = [h EXCEPT !.pc = "held"]]
    BY <1>15 DEF Insert, Leave, Go
  <2>2. hook'[t].own = m /\ (m # 0 => hook'[t].pc = "held")
    BY <1>1, <2>1 DEF Out, HookRecords
  <2> DEFINE e == IF Stale(a) THEN Owns(entry, blocks[a], -1, 0, -1) ELSE entry
  <2>3. entry' = Owns(e, m, 1, 1, 1)
    BY <1>15 DEF Insert
  <2>4. /\ e \in [EntryIds -> EntryRecords]
        /\ \A n \in EntryIds : /\ e[n].refs = entry[n].refs - Ind(n = Slot(a))
                               /\ e[n].allocs = entry[n].allocs
                               /\ e[n].live = entry[n].live - Ind(n = Slot(a))
    <3>1. \A n \in EntryIds : n # 0 /\ entry[n].refs \in Int /\ entry[n].allocs \in Int /\ entry[n].live \in Int
      BY <1>1, HeapAssumption DEF EntryIds, EntryRecords
    <3>2. CASE Stale(a)
      <4>1. blocks[a] \in Nat /\ (blocks[a] # 0 => blocks[a] \in EntryIds) /\ Slot(a) = blocks[a]
        BY <1>3, <3>2 DEF Stale, Slot
      <4>2. e = Owns(entry, Slot(a), -1, 0, -1) /\ Slot(a) \in Nat /\ (Slot(a) # 0 => Slot(a) \in EntryIds)
        BY <3>2, <4>1
      <4> HIDE DEF e
      <4>3. /\ e \in [EntryIds -> EntryRecords]
            /\ \A n \in EntryIds : /\ e[n].refs = entry[n].refs + (IF n = Slot(a) THEN -1 ELSE 0)
                                   /\ e[n].allocs = entry[n].allocs + (IF n = Slot(a) THEN 0 ELSE 0)
                                   /\ e[n].live = entry[n].live + (IF n = Slot(a) THEN -1 ELSE 0)
        BY <1>1, <4>2, OwnsAdds
      <4>4. QED
        BY <3>1, <4>3 DEF Ind
    <3>3. CASE ~Stale(a)
      <4>1. e = entry /\ \A n \in EntryIds : n # Slot(a)
        BY <3>1, <3>3 DEF Stale, Slot
      <4>2. QED
        BY <1>1, <3>1, <4>1 DEF Ind
    <3>4. QED
      BY <3>2, <3>3
  <2> HIDE DEF e
  <2>5. /\ entry' \in [EntryIds -> EntryRecords]
        /\ \A n \in EntryIds : /\ entry'[n].refs = e[n].refs + Ind(n = m)
                               /\ entry'[n].allocs = e[n].allocs + Ind(n = m)
                               /\ entry'[n].live = e[n].live + Ind(n = m)
    BY <1>1, <1>2, <2>3, <2>4, OwnsAdds DEF Ind
  <2>6. tally'.unknown = tally.unknown + Ind(m = 0)
    <3>1. tally' = [tally EXCEPT !.alloc = @ + 1, !.freed = IF Stale(a) THEN @ + 1 ELSE @,
                                 !.unknown = IF m = 0 THEN @ + 1 ELSE @]
      BY <1>15 DEF Insert
    <3>2. tally \in Tallies
      BY DEF TableTypes
    <3>3. Counts(tally', tally, 1, Ind(Stale(a)), Ind(m = 0), 0, 0, 0)
      BY <3>1, <3>2, StoredCounters, Zenon
    <3>4. QED
      BY <3>3 DEF Counts
  <2>7. QED
    BY <2>1, <2>2, <2>4, <2>5, <2>6 DEF Stores
<1>16. CASE Capture(t)
  <2>1. /\ h.pc = "remove" /\ a \in DOMAIN blocks
        /\ UNCHANGED <<stacks, made>> /\ blocks' = Without(a)
        /\ entry' = Owns(entry, blocks[a], 0, 0, -1)
        /\ hook' = [hook EXCEPT ![t] = [h EXCEPT !.pc = "taken", !.own = blocks[a], !.from = "table"]]
    BY <1>16 DEF Capture
  <2>2. hook'[t].own = blocks[a] /\ hook'[t].pc = "taken" /\ hook'[t].from = "table" /\ m = 0
    BY <1>1, <1>2, <2>1 DEF HookRecords
  <2>3. Adds(blocks[a], 0, 0, -1)
    <3>1. 0 \in Int /\ -1 \in Int
      OBVIOUS
    <3>2. blocks[a] \in Nat /\ (blocks[a] # 0 => blocks[a] \in EntryIds)
      BY <1>3, <2>1
    <3>3. QED
      BY <1>1, <2>1, <3>1, <3>2, OwnsStep, Zenon
  <2>4. QED
    BY <2>1, <2>2, <2>3 DEF Captures
<1>17. CASE CaptureOverflow(t)
  <2>1. /\ UNCHANGED <<blocks, stacks, entry, made>> /\ m = 0
        /\ hook' = [hook EXCEPT ![t] = [h EXCEPT !.pc = "taken", !.from = "overflow"]]
    BY <1>2, <1>17 DEF CaptureOverflow
  <2>2. hook'[t].own = 0
    BY <1>1, <2>1 DEF HookRecords
  <2>3. QED
    BY <1>5, <2>1, <2>2
<1>18. CASE CaptureNothing(t)
  <2>1. /\ UNCHANGED <<blocks, stacks, entry, made>> /\ m = 0
        /\ hook' = [hook EXCEPT ![t] = [h EXCEPT !.pc = "taken"]]
    BY <1>2, <1>18 DEF CaptureNothing, Go, ledger
  <2>2. hook'[t].own = 0
    BY <1>1, <2>1 DEF HookRecords
  <2>3. QED
    BY <1>5, <2>1, <2>2
<1>19. CASE Refused(t)
  <2>1. /\ UNCHANGED <<blocks, stacks, entry, made>> /\ h.pc = "taken"
        /\ IF h.from = "none" THEN hook' = [hook EXCEPT ![t] = Out]
           ELSE hook' = [hook EXCEPT ![t] = [h EXCEPT !.pc = "reinsert"]]
    BY <1>19 DEF Refused, Leave, Go, ledger
  <2>2. CASE h.from = "none"
    <3>1. m = 0
      BY <2>1, <2>2 DEF OwnPlaces
    <3>2. hook'[t].own = 0
      BY <2>1, <2>2 DEF Out
    <3>3. QED
      BY <1>5, <2>1, <3>1, <3>2
  <2>3. CASE h.from # "none"
    <3>1. hook'[t].own = m /\ hook'[t].pc = "reinsert" /\ hook'[t].from = h.from
      BY <1>1, <2>1, <2>3 DEF HookRecords
    <3>2. QED
      BY <2>1, <3>1 DEF Aside
  <2>4. QED
    BY <2>2, <2>3
<1>20. CASE Reinsert(t)
  <2>1. h.pc = "reinsert" /\ hook' = [hook EXCEPT ![t] = Out] /\ UNCHANGED <<stacks, made>> /\ hook'[t].own = 0
    BY <1>20 DEF Reinsert, Leave, Out
  <2>2. CASE h.from = "table" /\ ~Full /\ blocks' = With(a, m) /\ entry' = Owns(entry, m, 0, 0, 1)
    <3>1. Adds(m, 0, 0, 1)
      <4>1. 0 \in Int /\ 1 \in Int
        OBVIOUS
      <4>2. QED
        BY <1>1, <1>2, <2>2, <4>1, OwnsStep, Zenon
    <3>2. hook'[t].pc = "out" /\ window' = [window EXCEPT !.straddled = @ \/ Late(t)]
      BY <1>20, <2>1 DEF Reinsert, Out
    <3>3. QED
      BY <2>1, <2>2, <3>1, <3>2 DEF Restores
  <2>3. CASE UNCHANGED blocks /\ entry' = Ref(entry, m, -1)
    BY <1>4, <2>1, <2>3
  <2>4. CASE h.from = "overflow" /\ UNCHANGED <<blocks, entry>>
    <3>1. m = 0
      BY <2>1, <2>4 DEF OwnPlaces
    <3>2. QED
      BY <1>5, <2>1, <2>4, <3>1
  <2>5. QED
    BY <1>20, <2>2, <2>3, <2>4 DEF Reinsert
<1>21. QED
  BY <1>7, <1>8, <1>9, <1>10, <1>11, <1>12, <1>13, <1>14, <1>15, <1>16, <1>17, <1>18, <1>19, <1>20 DEF Hooks

-----------------------------------------------------------------------------
(* References stay counted *)

\* A hook keeps the types of the entries.
LEMMA HookEntries ==
  ASSUME HookTypes, TableTypes, OwnPlaces, OwnersStay, NEW t \in Threads, Hooks(t)
  PROVE  /\ entry' \in [EntryIds -> EntryRecords]
         /\ made' \in 0..MaxEntries /\ stacks' \subseteq 1..made'
<1>1. PICK a : a = hook[t].a
  OBVIOUS
<1>2. entry \in [EntryIds -> EntryRecords] /\ made \in 0..MaxEntries /\ stacks \subseteq 1..made
  BY DEF TableTypes
<1>3. CASE Aside(t) \/ TakesStack(t) \/ Drops(t) \/ Stores(t, a) \/ Captures(t, a) \/ Restores(t, a)
  BY <1>2, <1>3 DEF Aside, TakesStack, Drops, Stores, Captures, Restores, Adds
<1>4. CASE MakesStack(t)
  <2>1. PICK gone \in SUBSET Dead : stacks' = (stacks \ gone) \cup {made + 1}
    BY <1>4 DEF MakesStack
  <2>2. made' = made + 1 /\ made < MaxEntries /\ entry' \in [EntryIds -> EntryRecords]
    BY <1>4 DEF MakesStack
  <2>3. made' \in 0..MaxEntries
    BY <1>2, <2>2, HeapAssumption
  <2>4. 1..made \subseteq 1..made' /\ made + 1 \in 1..made'
    BY <1>2, <2>2, HeapAssumption
  <2>5. stacks' \subseteq 1..made'
    BY <1>2, <2>1, <2>4
  <2>6. QED
    BY <2>2, <2>3, <2>5
<1>5. QED
  BY <1>1, <1>3, <1>4, HookKinds

\* What a hook does to the references, entry by entry: an entry gains what its
\* blocks and calls gain; one that goes is dead; a new one is the call's.
LEMMA HookRefs ==
  ASSUME HookTypes, TableTypes, RefsInv, NEW t \in Threads, Hooks(t), NEW a, a = hook[t].a
  PROVE  /\ DOMAIN blocks' \ {a} = DOMAIN blocks \ {a}
         /\ \A b \in DOMAIN blocks \ {a} : blocks'[b] = blocks[b]
         /\ Slot(a)' # 0 => Slot(a)' \in stacks'
         /\ hook'[t].own # 0 => /\ hook'[t].own \in stacks'
                                /\ hook'[t].pc \in {"insert", "held", "taken", "reinsert"}
                                /\ (hook'[t].pc \in {"taken", "reinsert"} => hook'[t].from = "table")
         /\ stacks' \subseteq EntryIds
         /\ \A n \in stacks \cap stacks' :
              entry'[n].refs - Ind(n = Slot(a)') - Ind(n = hook'[t].own)
                >= entry[n].refs - Ind(n = Slot(a)) - Ind(n = hook[t].own)
         /\ \A n \in stacks \ stacks' : entry[n].refs = 1
         /\ \A n \in stacks' \ stacks : entry'[n].refs = 2 /\ n = hook'[t].own /\ n # Slot(a)'
         /\ \A n \in EntryIds \ stacks' : entry'[n].refs = entry[n].refs
<1> DEFINE m == hook[t].own  s == Slot(a)
<1>1. /\ m \in Nat /\ stacks \subseteq EntryIds /\ made + 1 \notin stacks
      /\ \A n \in EntryIds : n \in Nat /\ n # 0 /\ entry[n].refs \in Nat
  BY HeapAssumption DEF HookTypes, HookRecords, TableTypes, EntryIds, RefsInv
<1>2. (m # 0 => m \in stacks) /\ (s # 0 => s \in stacks)
  BY DEF RefsInv, OwnersStay, Slot
<1>3. m # 0 /\ hook[t].pc \in {"taken", "reinsert"} => hook[t].from = "table"
  BY DEF RefsInv, OwnPlaces
<1> USE DEF Slot, Ind
<1>4. CASE Aside(t)
  BY <1>1, <1>2, <1>3, <1>4 DEF Aside
<1>5. CASE TakesStack(t)
  BY <1>1, <1>2, <1>5 DEF TakesStack, Adds
<1>6. CASE MakesStack(t)
  <2>1. PICK gone \in SUBSET Dead : stacks' = (stacks \ gone) \cup {made + 1}
    BY <1>6 DEF MakesStack
  <2>2. ASSUME NEW n \in gone PROVE n \in stacks /\ entry[n].refs = 1 /\ n # s
    <3>1. n \in stacks /\ entry[n].refs = 1
      BY DEF Dead
    <3>2. \A b \in DOMAIN blocks : blocks[b] # n
      BY <3>1, DeadIsFree
    <3>3. QED
      BY <1>1, <3>1, <3>2
  <2>3. /\ UNCHANGED blocks /\ made + 1 \in EntryIds /\ m = 0 /\ hook'[t].own = made + 1 /\ hook'[t].pc = "insert"
        /\ \A n \in EntryIds \ {made + 1} : entry'[n] = entry[n]
        /\ entry'[made + 1].refs = 2
    BY <1>6, HeapAssumption DEF MakesStack, TableTypes, EntryIds
  <2>4. Slot(a)' = s
    BY <2>3
  <2>5. s # 0 => s \in stacks'
    BY <1>2, <2>1, <2>2
  <2>6. \A n \in stacks' : n \in stacks \/ n = made + 1
    BY <2>1
  <2>7. \A n \in stacks \ stacks' : n \in gone
    BY <2>1
  <2>8. made + 1 \in stacks' /\ stacks' \subseteq EntryIds
    BY <1>1, <2>1, <2>3
  <2> HIDE DEF s
  <2>9. \A n \in stacks \cap stacks' : n # made + 1 /\ entry'[n] = entry[n] /\ n # 0
    BY <1>1, <2>3
  <2>10. \A n \in stacks' \ stacks : n = made + 1 /\ n # s
    BY <1>1, <1>2, <2>3, <2>6
  <2>11. \A n \in EntryIds \ stacks' : entry'[n] = entry[n]
    BY <2>3, <2>8
  <2>12. QED
    BY <1>1, <2>2, <2>3, <2>4, <2>5, <2>7, <2>8, <2>9, <2>10, <2>11
<1>7. CASE Drops(t)
  BY <1>1, <1>2, <1>7 DEF Drops, Adds
<1>8. CASE Stores(t, a)
  <2>1. DOMAIN blocks' = DOMAIN blocks \cup {a} /\ blocks'[a] = m /\ \A b \in DOMAIN blocks \ {a} : blocks'[b] = blocks[b]
    BY <1>8 DEF Stores, With
  <2>2. Slot(a)' = m
    BY <2>1
  <2>3. QED
    BY <1>1, <1>2, <1>3, <1>8, <2>1, <2>2 DEF Stores
<1>9. CASE Captures(t, a)
  <2>1. DOMAIN blocks' = DOMAIN blocks \ {a} /\ \A b \in DOMAIN blocks \ {a} : blocks'[b] = blocks[b]
    BY <1>9 DEF Captures, Without
  <2>2. Slot(a)' = 0
    BY <2>1
  <2>3. QED
    BY <1>1, <1>2, <1>9, <2>1, <2>2 DEF Captures, Adds
<1>10. CASE Restores(t, a)
  <2>1. DOMAIN blocks' = DOMAIN blocks \cup {a} /\ blocks'[a] = m /\ \A b \in DOMAIN blocks \ {a} : blocks'[b] = blocks[b]
    BY <1>10 DEF Restores, With
  <2>2. Slot(a)' = m
    BY <2>1
  <2>3. QED
    BY <1>1, <1>2, <1>10, <2>1, <2>2 DEF Restores, Adds
<1>11. QED
  BY <1>4, <1>5, <1>6, <1>7, <1>8, <1>9, <1>10, HookKinds DEF RefsInv

\* The counts of RefsHeld move by the block and the call at hand only.
LEMMA HookKeepsRefs ==
  ASSUME HookTypes, TableTypes, RefsInv, NEW t \in Threads, Hooks(t)
  PROVE  RefsInv'
<1>1. PICK a : a = hook[t].a
  OBVIOUS
<1> DEFINE m == hook[t].own  s == Slot(a)
<1>2. \A u \in Threads \ {t} : hook'[u] = hook[u]
  BY OthersStay
<1>3. sampler' = sampler /\ sampler.pinned \subseteq stacks
  BY HooksKeepStages DEF RefsInv, OwnersStay
<1>4. /\ stacks \subseteq EntryIds
      /\ \A n \in EntryIds : n \in Nat /\ n # 0 /\ entry[n].refs \in Nat
  BY HeapAssumption DEF TableTypes, EntryIds, RefsInv
<1>5. /\ DOMAIN blocks' \ {a} = DOMAIN blocks \ {a}
      /\ \A b \in DOMAIN blocks \ {a} : blocks'[b] = blocks[b]
      /\ stacks' \subseteq EntryIds
  BY <1>1, HookRefs
<1>6. Slot(a)' # 0 => Slot(a)' \in stacks'
  BY <1>1, HookRefs
<1>7. hook'[t].own # 0 => /\ hook'[t].own \in stacks'
                         /\ hook'[t].pc \in {"insert", "held", "taken", "reinsert"}
                         /\ (hook'[t].pc \in {"taken", "reinsert"} => hook'[t].from = "table")
  BY <1>1, HookRefs
<1>8. \A n \in stacks \cap stacks' :
        entry'[n].refs - Ind(n = Slot(a)') - Ind(n = hook'[t].own) >= entry[n].refs - Ind(n = s) - Ind(n = m)
  BY <1>1, HookRefs
<1>9. /\ \A n \in stacks \ stacks' : entry[n].refs = 1
      /\ \A n \in stacks' \ stacks : entry'[n].refs = 2 /\ n = hook'[t].own /\ n # Slot(a)'
      /\ \A n \in EntryIds \ stacks' : entry'[n].refs = entry[n].refs
  BY <1>1, HookRefs
<1>10. ASSUME NEW n \in stacks, n \notin stacks'
       PROVE  /\ \A b \in DOMAIN blocks : blocks[b] # n
              /\ \A u \in Threads : hook[u].own # n
              /\ n \notin sampler.pinned
  <2>1. entry[n].refs = 1
    BY <1>9, <1>10
  <2>2. QED
    BY <2>1, DeadIsFree
<1>a. entry' \in [EntryIds -> EntryRecords]
  BY HookEntries DEF RefsInv
<1>11. OwnersStay'
  <2>1. ASSUME NEW b \in DOMAIN blocks', blocks'[b] # 0 PROVE blocks'[b] \in stacks'
    <3>1. CASE b = a
      BY <1>6, <2>1, <3>1 DEF Slot
    <3>2. CASE b # a
      <4>1. b \in DOMAIN blocks /\ blocks'[b] = blocks[b]
        BY <1>5, <3>2
      <4>2. blocks[b] \in stacks
        BY <2>1, <4>1 DEF RefsInv, OwnersStay
      <4>3. QED
        BY <1>10, <4>1, <4>2
    <3>3. QED
      BY <3>1, <3>2
  <2>2. ASSUME NEW u \in Threads, hook'[u].own # 0 PROVE hook'[u].own \in stacks'
    <3>1. CASE u = t
      BY <1>7, <2>2, <3>1
    <3>2. CASE u # t
      <4>1. hook'[u] = hook[u] /\ hook[u].own \in stacks
        BY <1>2, <2>2, <3>2 DEF RefsInv, OwnersStay
      <4>2. QED
        BY <1>10, <4>1
    <3>3. QED
      BY <3>1, <3>2
  <2>3. sampler'.pinned \subseteq stacks'
    <3>1. \A n \in sampler.pinned : n \in stacks /\ n \in stacks'
      BY <1>3, <1>10
    <3>2. QED
      BY <1>3, <3>1
  <2>4. QED
    BY <2>1, <2>2, <2>3 DEF OwnersStay
<1>12. OwnPlaces'
  BY <1>2, <1>7 DEF RefsInv, OwnPlaces
<1>13. ASSUME NEW n \in stacks \cap stacks'
       PROVE  /\ entry'[n].refs >= 1 + Cardinality(Owned(n)') + Cardinality(InFlight(n)') + Ind(n \in sampler'.pinned)
              /\ entry'[n].refs >= 1
  <2>1. n \in Nat /\ n # 0
    BY <1>4
  <2>2. IsFiniteSet(Owned(n)) /\ IsFiniteSet(InFlight(n))
    BY <2>1, CountsAreFinite DEF RefsInv
  <2>3. Owned(n)' \ {a} = Owned(n) \ {a}
    BY <1>5 DEF Owned
  <2>4. InFlight(n)' \ {t} = InFlight(n) \ {t}
    BY <1>2 DEF InFlight
  <2>5. /\ Cardinality(Owned(n)') = Cardinality(Owned(n)) - Ind(a \in Owned(n)) + Ind(a \in Owned(n)')
        /\ Cardinality(Owned(n)) \in Nat /\ Cardinality(Owned(n)') \in Nat
    BY <2>2, <2>3, OneMoves
  <2>6. /\ Cardinality(InFlight(n)') = Cardinality(InFlight(n)) - Ind(t \in InFlight(n)) + Ind(t \in InFlight(n)')
        /\ Cardinality(InFlight(n)) \in Nat /\ Cardinality(InFlight(n)') \in Nat
    BY <2>2, <2>4, OneMoves
  <2>7. (a \in Owned(n) <=> n = s) /\ (a \in Owned(n)' <=> n = Slot(a)')
    BY <2>1 DEF Owned, Slot
  <2>8. (t \in InFlight(n) <=> n = m) /\ (t \in InFlight(n)' <=> n = hook'[t].own)
    BY DEF InFlight
  <2>9. entry[n].refs >= 1 + Cardinality(Owned(n)) + Cardinality(InFlight(n)) + Ind(n \in sampler.pinned)
    BY DEF RefsInv, RefsHeld
  <2>10. entry'[n].refs - Ind(n = Slot(a)') - Ind(n = hook'[t].own) >= entry[n].refs - Ind(n = s) - Ind(n = m)
    BY <1>8
  <2>11. entry[n].refs \in Nat /\ sampler' = sampler /\ entry'[n].refs \in Int
    BY <1>3, <1>4, <1>a DEF EntryRecords
  <2> HIDE DEF m, s
  <2>12. QED
    BY <2>5, <2>6, <2>7, <2>8, <2>9, <2>10, <2>11 DEF Ind
<1>14. ASSUME NEW n \in stacks' \ stacks
       PROVE  /\ entry'[n].refs >= 1 + Cardinality(Owned(n)') + Cardinality(InFlight(n)') + Ind(n \in sampler'.pinned)
              /\ entry'[n].refs >= 1
  <2>1. n \in EntryIds /\ n # 0
    BY <1>4, <1>5
  <2>2. Owned(n)' = {}
    BY <1>5, <1>9, <2>1 DEF RefsInv, OwnersStay, Owned, Slot
  <2>3. InFlight(n)' = {t}
    BY <1>2, <1>9, <2>1 DEF RefsInv, OwnersStay, InFlight
  <2>4. Cardinality(Owned(n)') = 0 /\ Cardinality(InFlight(n)') = 1
    BY <2>2, <2>3, FS_EmptySet, FS_Singleton
  <2>5. n \notin sampler'.pinned /\ entry'[n].refs = 2
    BY <1>3, <1>9
  <2> QED
    BY <2>4, <2>5 DEF Ind
<1>15. RefsHeld'
  BY <1>13, <1>14 DEF RefsHeld
<1>16. ASSUME NEW n \in EntryIds PROVE entry'[n].refs \in Nat
  <2>1. CASE n \in stacks'
    <3>1. entry'[n].refs \in Int
      BY <1>a DEF EntryRecords
    <3>2. entry'[n].refs >= 1
      BY <2>1, <1>13, <1>14
    <3>3. QED
      BY <3>1, <3>2
  <2>2. CASE n \notin stacks'
    BY <1>4, <1>9, <2>2
  <2>3. QED
    BY <2>1, <2>2
<1>17. QED
  BY <1>11, <1>12, <1>15, <1>16 DEF RefsInv

\* The tables a hook does not share with the others' entries.
LEMMA HookLedgers ==
  ASSUME HookTypes, TableTypes, NEW t \in Threads, Hooks(t), NEW a, a = hook[t].a
  PROVE  /\ overflow' \subseteq overflow \/ (overflow' = overflow \cup {a} /\ Engaged(t))
         /\ tally' \in Tallies
         /\ cut' \subseteq {"stacks", "stopped"}
         /\ walked' = walked
<1>1. tally \in Tallies /\ cut \subseteq {"stacks", "stopped"}
  BY DEF TableTypes
<1>2. /\ [tally EXCEPT !.alloc = @ + 1, !.skipped = @ + 1] \in Tallies
      /\ [tally EXCEPT !.alloc = @ + 1, !.into = @ + 1] \in Tallies
      /\ [tally EXCEPT !.freed = @ + 1, !.outOf = @ + 1] \in Tallies
      /\ [tally EXCEPT !.freed = @ - 1, !.into = @ + 1] \in Tallies
      /\ [tally EXCEPT !.freed = @ - 1, !.outOf = @ - 1] \in Tallies
      /\ [tally EXCEPT !.freed = @ + 1] \in Tallies
      /\ [tally EXCEPT !.freed = @ - 1] \in Tallies
      /\ \A x \in Int : [tally EXCEPT !.unknown = @ + x] \in Tallies
  BY <1>1, OneCounter, TwoCounters, Zenon DEF Counts
<1>3. CASE Bypass(t) \/ Enter(t) \/ LookupStack(t) \/ CaptureNothing(t)
  BY <1>1, <1>3 DEF Bypass, Enter, LookupStack, CaptureNothing, ledger, control
<1>4. CASE PassOver(t) \/ Dispose(t) \/ LoseSight(t)
  BY <1>1, <1>2, <1>4 DEF PassOver, Dispose, LoseSight, control
<1>5. CASE Register(t)
  <2>1. UNCHANGED <<overflow, cut, walked>>
    BY <1>5 DEF Register, control
  <2>2. tally' = tally \/ \E n \in stacks : tally' = [tally EXCEPT !.unknown = @ + entry[n].allocs]
    BY <1>5 DEF Register, Dead
  <2>3. \A n \in stacks : entry[n].allocs \in Int
    BY HeapAssumption DEF TableTypes, EntryIds, EntryRecords
  <2>4. QED
    BY <1>1, <1>2, <2>1, <2>2, <2>3
<1>6. CASE Unattributed(t)
  BY <1>1, <1>6 DEF Unattributed, control
<1>7. CASE InsertElsewhere(t)
  BY <1>1, <1>2, <1>7 DEF InsertElsewhere, Divert, Engaged, At, control
<1>8. CASE Insert(t)
  <2>1. tally' = [tally EXCEPT !.alloc = @ + 1, !.freed = IF Stale(a) THEN @ + 1 ELSE @,
                               !.unknown = IF hook[t].own = 0 THEN @ + 1 ELSE @]
    BY <1>8 DEF Insert
  <2>2. tally' \in Tallies
    <3>1. Counts(tally', tally, 1, Ind(Stale(a)), Ind(hook[t].own = 0), 0, 0, 0)
      BY <1>1, <2>1, StoredCounters, Zenon
    <3>2. QED
      BY <3>1 DEF Counts
  <2>3. QED
    BY <1>1, <1>8, <2>2 DEF Insert, control
<1>9. CASE Capture(t) \/ CaptureOverflow(t)
  BY <1>1, <1>2, <1>9 DEF Capture, CaptureOverflow, control
<1>10. CASE Release(t) \/ Moved(t) \/ Refused(t)
  BY <1>1, <1>10 DEF Release, Moved, Refused, control, ledger
<1>11. CASE Reinsert(t)
  BY <1>1, <1>2, <1>11 DEF Reinsert, Engaged, At, control
<1>12. QED
  BY <1>3, <1>4, <1>5, <1>6, <1>7, <1>8, <1>9, <1>10, <1>11 DEF Hooks

\* A hook keeps the types of the tables.
LEMMA HookKeepsTables ==
  ASSUME StageInv, HookTypes, TableTypes, Apart, OwnPlaces, OwnersStay, NEW t \in Threads, Hooks(t)
  PROVE  TableTypes'
<1>1. PICK a : a = hook[t].a
  OBVIOUS
<1>2. Engaged(t) => a \in Addrs
  BY <1>1 DEF Apart, TableTypes
<1>3. entry' \in [EntryIds -> EntryRecords] /\ made' \in 0..MaxEntries /\ stacks' \subseteq 1..made'
  BY HookEntries
<1>4. heap' \subseteq Addrs
  BY HeapMoves DEF TableTypes
<1>5. /\ overflow' \subseteq Addrs /\ IsFiniteSet(overflow')
      /\ tally' \in Tallies /\ cut' \subseteq {"stacks", "stopped"} /\ walked' = walked
  <2>1. overflow' \subseteq overflow \/ (overflow' = overflow \cup {a} /\ Engaged(t))
    BY <1>1, HookLedgers
  <2>2. IsFiniteSet(overflow')
    BY <2>1, FS_Subset, FS_AddElement DEF TableTypes
  <2>3. QED
    BY <1>1, <1>2, <2>1, <2>2, HookLedgers DEF TableTypes
<1>6. sampler' = sampler /\ plan' = plan
  BY HooksKeepStages
<1>7. IsFiniteSet(Busy')
  <2>1. Busy' \ {t} = Busy \ {t}
    BY OthersStay DEF Busy
  <2>2. QED
    BY <2>1, OneMoves DEF TableTypes
<1>8. \/ blocks' = blocks
      \/ blocks' = With(a, hook[t].own) /\ ~Full /\ Engaged(t)
      \/ blocks' = Without(a)
  BY <1>1, HookKinds DEF Aside, TakesStack, MakesStack, Drops, Stores, Captures, Restores, Engaged
<1>9. made' >= made /\ made \in Nat /\ made' \in Nat
  BY <1>1, <1>3, HookKinds DEF TableTypes, Aside, TakesStack, MakesStack, Drops, Stores, Captures, Restores
<1>10. hook[t].own \in 0..made
  <2>1. hook[t].own = 0 \/ hook[t].own \in stacks
    BY DEF OwnersStay
  <2>2. stacks \subseteq 1..made
    BY DEF TableTypes
  <2>3. \A n \in 1..made : n \in 0..made
    BY <1>9
  <2>4. 0 \in 0..made
    BY <1>9
  <2>5. QED
    BY <2>1, <2>2, <2>3, <2>4
<1>11. /\ DOMAIN blocks' \subseteq Addrs /\ IsFiniteSet(DOMAIN blocks')
       /\ \A b \in DOMAIN blocks' : blocks'[b] \in 0..made'
       /\ Cardinality(DOMAIN blocks') <= plan.slots
  <2>1. CASE blocks' = blocks
    BY <1>9, <2>1 DEF TableTypes
  <2>2. CASE blocks' = With(a, hook[t].own) /\ ~Full /\ Engaged(t)
    <3>1. DOMAIN blocks' = DOMAIN blocks \cup {a}
      BY <2>2 DEF With
    <3>2. \A b \in DOMAIN blocks' : blocks'[b] \in 0..made
      BY <1>10, <2>2 DEF With, TableTypes
    <3>3. Cardinality(DOMAIN blocks) < plan.slots /\ plan.slots \in Nat /\ Cardinality(DOMAIN blocks) \in Nat
      <4>1. plan.slots \in Nat
        BY HeapAssumption DEF StageInv, StageTypes
      <4>2. Cardinality(DOMAIN blocks) \in Nat
        BY FS_CardinalityType DEF TableTypes
      <4>3. QED
        BY <2>2, <4>1, <4>2 DEF Full
    <3>4. IsFiniteSet(DOMAIN blocks') /\ Cardinality(DOMAIN blocks') <= plan.slots
      <4>1. IsFiniteSet(DOMAIN blocks)
        BY DEF TableTypes
      <4>2. /\ IsFiniteSet(DOMAIN blocks \cup {a})
            /\ Cardinality(DOMAIN blocks \cup {a})
                 = IF a \in DOMAIN blocks THEN Cardinality(DOMAIN blocks) ELSE Cardinality(DOMAIN blocks) + 1
        BY <4>1, FS_AddElement
      <4>3. QED
        BY <3>1, <3>3, <4>2
    <3>5. \A b \in DOMAIN blocks' : blocks'[b] \in 0..made'
      BY <1>9, <3>2
    <3>6. DOMAIN blocks' \subseteq Addrs
      BY <1>2, <2>2, <3>1 DEF TableTypes
    <3>7. QED
      BY <3>4, <3>5, <3>6
  <2>3. CASE blocks' = Without(a)
    <3>1. DOMAIN blocks' = DOMAIN blocks \ {a} /\ \A b \in DOMAIN blocks' : blocks'[b] = blocks[b]
      BY <2>3 DEF Without
    <3>2. DOMAIN blocks' \in SUBSET DOMAIN blocks /\ DOMAIN blocks' \subseteq Addrs
      BY <3>1 DEF TableTypes
    <3>3. IsFiniteSet(DOMAIN blocks') /\ Cardinality(DOMAIN blocks') <= Cardinality(DOMAIN blocks)
      BY <3>2, FS_Subset DEF TableTypes
    <3>4. Cardinality(DOMAIN blocks') <= plan.slots
      <4>1. plan.slots \in Nat
        BY HeapAssumption DEF StageInv, StageTypes
      <4>2. Cardinality(DOMAIN blocks') \in Nat /\ Cardinality(DOMAIN blocks) \in Nat
        BY <3>3, FS_CardinalityType DEF TableTypes
      <4>3. QED
        BY <3>3, <4>1, <4>2 DEF TableTypes
    <3>5. \A b \in DOMAIN blocks' : blocks'[b] \in 0..made'
      <4>1. \A b \in DOMAIN blocks' : blocks'[b] \in 0..made
        BY <3>1, <3>2 DEF TableTypes
      <4>2. QED
        BY <1>9, <4>1
    <3>6. QED
      BY <3>2, <3>3, <3>4, <3>5
  <2>4. QED
    BY <1>8, <2>1, <2>2, <2>3
<1>12. QED
  BY <1>3, <1>4, <1>5, <1>6, <1>7, <1>11 DEF TableTypes

\* What the opening of a window and the sampler make of an entry.
LEMMA ResetEntry ==
  ASSUME NEW e \in EntryRecords
  PROVE  /\ [e EXCEPT !.allocs = 0, !.live = 0] \in EntryRecords
         /\ [e EXCEPT !.allocs = 0, !.live = 0].refs = e.refs
         /\ [e EXCEPT !.allocs = 0, !.live = 0].allocs = 0
         /\ [e EXCEPT !.allocs = 0, !.live = 0].live = 0
         /\ [e EXCEPT !.refs = @ + 1] \in EntryRecords /\ [e EXCEPT !.refs = @ + 1].refs = e.refs + 1
         /\ [e EXCEPT !.refs = @ - 1] \in EntryRecords /\ [e EXCEPT !.refs = @ - 1].refs = e.refs - 1
         /\ [e EXCEPT !.refs = @ + 1].allocs = e.allocs /\ [e EXCEPT !.refs = @ + 1].live = e.live
         /\ [e EXCEPT !.refs = @ - 1].allocs = e.allocs /\ [e EXCEPT !.refs = @ - 1].live = e.live
<1> DEFINE b == [e EXCEPT !.allocs = 0]
<1>1. [e EXCEPT !.allocs = 0, !.live = 0] = [b EXCEPT !.live = 0]
  OBVIOUS
<1>2. b \in EntryRecords /\ b.allocs = 0 /\ b.refs = e.refs
  BY DEF EntryRecords
<1> HIDE DEF b
<1>3. [b EXCEPT !.live = 0] \in EntryRecords /\ [b EXCEPT !.live = 0].live = 0
      /\ [b EXCEPT !.live = 0].refs = b.refs /\ [b EXCEPT !.live = 0].allocs = b.allocs
  BY <1>2 DEF EntryRecords
<1>4. /\ [e EXCEPT !.refs = @ + 1] \in EntryRecords /\ [e EXCEPT !.refs = @ + 1].refs = e.refs + 1
      /\ [e EXCEPT !.refs = @ - 1] \in EntryRecords /\ [e EXCEPT !.refs = @ - 1].refs = e.refs - 1
      /\ [e EXCEPT !.refs = @ + 1].allocs = e.allocs /\ [e EXCEPT !.refs = @ + 1].live = e.live
      /\ [e EXCEPT !.refs = @ - 1].allocs = e.allocs /\ [e EXCEPT !.refs = @ - 1].live = e.live
  BY DEF EntryRecords
<1>5. QED
  BY <1>1, <1>2, <1>3, <1>4

\* Every step keeps the types of the tables.
LEMMA TablesStep ==
  ASSUME StageInv, HookTypes, TableTypes, Apart, OwnPlaces, OwnersStay, [Next]_vars
  PROVE  TableTypes'
<1>1. ASSUME NEW t \in Threads, Hooks(t) PROVE TableTypes'
  BY <1>1, HookKeepsTables
<1>2. ASSUME NEW t \in Threads, Call(t) PROVE TableTypes'
  <2>1. Busy' \ {t} = Busy \ {t}
    BY <1>2, OthersStay DEF Busy
  <2>2. IsFiniteSet(Busy')
    BY <2>1, OneMoves DEF TableTypes
  <2>3. UNCHANGED <<heap, blocks, overflow, walked, entry, made, stacks, tally, sampler, cut, plan>>
    BY <1>2 DEF Call, ledger, control
  <2>4. QED
    BY <2>2, <2>3 DEF TableTypes
<1>3. ASSUME NEW t \in Threads, Fork(t) PROVE TableTypes'
  <2>1. Busy' = {}
    BY <1>3 DEF Fork, Busy, Out
  <2>2. tally' \in Tallies
    BY <1>3 DEF Fork, TableTypes, Tallies
  <2>3. sampler' \in Samplers
    BY <1>3 DEF Fork, Samplers
  <2>4. UNCHANGED <<heap, blocks, overflow, walked, entry, made, stacks, cut, plan>>
    BY <1>3 DEF Fork, bounds
  <2>5. IsFiniteSet(Busy')
    BY <2>1, FS_EmptySet
  <2>6. QED
    BY <2>2, <2>3, <2>4, <2>5 DEF TableTypes
<1>4. CASE Open
  <2>1. /\ stacks' \subseteq stacks /\ made' = made /\ sampler' = sampler /\ plan' = plan /\ heap' = heap
        /\ hook' = hook /\ overflow' = {} /\ walked' = {} /\ cut' = {} /\ tally' = Zero
        /\ DOMAIN blocks' = {}
    BY <1>4 DEF Open, Cleared, Kept, bounds
  <2>2. entry' = [n \in EntryIds |-> IF n \in Kept THEN [entry[n] EXCEPT !.allocs = 0, !.live = 0] ELSE entry[n]]
    BY <1>4 DEF Open
  <2>3. \A n \in EntryIds : [entry[n] EXCEPT !.allocs = 0, !.live = 0] \in EntryRecords
    BY ResetEntry DEF TableTypes
  <2>4. entry' \in [EntryIds -> EntryRecords]
    BY <2>2, <2>3 DEF TableTypes
  <2>5. tally' \in Tallies
    BY <2>1 DEF Zero, Tallies
  <2>6. Busy' = Busy
    BY <2>1 DEF Busy
  <2>7. IsFiniteSet(DOMAIN blocks') /\ IsFiniteSet(overflow') /\ Cardinality(DOMAIN blocks') <= plan'.slots
    BY <2>1, FS_EmptySet, HeapAssumption DEF StageInv, StageTypes
  <2>8. QED
    BY <2>1, <2>4, <2>5, <2>6, <2>7 DEF TableTypes
<1>5. CASE Announce \/ Join
  BY <1>5 DEF Announce, Join, ledger, bounds, TableTypes, Samplers, Busy
<1>6. CASE Aggregate
  BY <1>6 DEF Aggregate, ledger, bounds, TableTypes, Busy
<1>7. CASE OpenGate \/ Close \/ ReportEnd \/ Closed \/ Freeze \/ Survey \/ Thaw \/ Thawed \/ Copied
  BY <1>7 DEF OpenGate, Close, ReportEnd, Closed, Freeze, Survey, Thaw, Thawed, Copied, ledger, bounds, TableTypes, Busy
<1>8. CASE Ask \/ Ready \/ MainStarts \/ Exit \/ UNCHANGED vars
  BY <1>8 DEF Ask, Ready, MainStarts, Exit, vars, ledger, control, bounds, TableTypes, Busy
<1>9. CASE Sample \/ Sampled
  <2>1. UNCHANGED <<heap, blocks, overflow, walked, made, stacks, tally, cut, plan, hook>>
    BY <1>9 DEF Sample, Sampled, bounds
  <2>2. sampler' \in Samplers
    <3>1. CASE Sample
      <4>1. PICK P \in SUBSET stacks : sampler' = [sampler EXCEPT !.pinned = P]
        BY <3>1 DEF Sample
      <4>2. P \in SUBSET Nat
        BY DEF TableTypes
      <4>3. QED
        BY <4>1, <4>2 DEF TableTypes, Samplers
    <3>2. CASE Sampled
      <4>1. PICK oom \in {FALSE, plan.oom} : sampler' = [sampler EXCEPT !.locked = oom, !.pinned = {}]
        BY <3>2 DEF Sampled
      <4>2. oom \in BOOLEAN
        BY HeapAssumption DEF StageInv, StageTypes
      <4>3. QED
        BY <4>1, <4>2 DEF TableTypes, Samplers
    <3>3. QED
      BY <1>9, <3>1, <3>2
  <2>3. entry' \in [EntryIds -> EntryRecords]
    <3>1. \A n \in EntryIds : [entry[n] EXCEPT !.refs = @ + 1] \in EntryRecords /\ [entry[n] EXCEPT !.refs = @ - 1] \in EntryRecords
      BY ResetEntry DEF TableTypes
    <3>2. QED
      BY <1>9, <3>1, ZenonT(60) DEF Sample, Sampled, TableTypes
  <2>4. Busy' = Busy
    BY <2>1 DEF Busy
  <2>5. QED
    BY <2>1, <2>2, <2>3, <2>4 DEF TableTypes
<1>10. QED
  BY <1>1, <1>2, <1>3, <1>4, <1>5, <1>6, <1>7, <1>8, <1>9 DEF Next, Service

\* Every step keeps the references counted.
LEMMA RefsStep ==
  ASSUME StageInv, HookTypes, TableTypes, RefsInv, [Next]_vars
  PROVE  RefsInv'
<1>1. /\ stacks \subseteq EntryIds
      /\ \A n \in EntryIds : n \in Nat /\ n # 0 /\ entry[n].refs \in Nat /\ entry[n] \in EntryRecords
  BY HeapAssumption DEF TableTypes, EntryIds, RefsInv
<1>2. ASSUME NEW n \in stacks
      PROVE  /\ Cardinality(Owned(n)) \in Nat /\ Cardinality(InFlight(n)) \in Nat
             /\ entry[n].refs >= 1 + Cardinality(Owned(n)) + Cardinality(InFlight(n)) + Ind(n \in sampler.pinned)
  BY <1>1, CountsAreFinite DEF RefsInv, RefsHeld
<1>3. ASSUME NEW t \in Threads, Hooks(t) PROVE RefsInv'
  BY <1>3, HookKeepsRefs
<1>4. ASSUME NEW t \in Threads, Call(t) PROVE RefsInv'
  <2>1. hook'[t].own = 0 /\ hook[t].own = 0
    BY <1>4 DEF Call, RefsInv, OwnPlaces, At, HookTypes, Out
  <2>2. \A u \in Threads \ {t} : hook'[u] = hook[u]
    BY <1>4, OthersStay
  <2>3. UNCHANGED <<blocks, stacks, entry, sampler>>
    BY <1>4 DEF Call, ledger, control
  <2>4. \A n \in stacks : Owned(n)' = Owned(n) /\ InFlight(n)' = InFlight(n)
    BY <2>1, <2>2, <2>3 DEF Owned, InFlight
  <2>5. OwnPlaces' /\ OwnersStay'
    BY <2>1, <2>2, <2>3 DEF RefsInv, OwnPlaces, OwnersStay
  <2>6. RefsHeld'
    BY <1>2, <2>3, <2>4 DEF RefsHeld
  <2>7. QED
    BY <2>3, <2>5, <2>6 DEF RefsInv
<1>5. ASSUME NEW t \in Threads, Fork(t) PROVE RefsInv'
  <2>1. \A u \in Threads : hook'[u].own = 0
    BY <1>5 DEF Fork, Out
  <2>2. UNCHANGED <<blocks, stacks, entry>> /\ sampler'.pinned = {}
    BY <1>5 DEF Fork
  <2>3. ASSUME NEW n \in stacks PROVE Owned(n)' = Owned(n) /\ Cardinality(InFlight(n)') = 0
    <3>1. InFlight(n)' = {} /\ Owned(n)' = Owned(n)
      BY <1>1, <2>1, <2>2 DEF InFlight, Owned
    <3>2. QED
      BY <3>1, FS_EmptySet
  <2>4. OwnPlaces' /\ OwnersStay'
    BY <2>1, <2>2 DEF RefsInv, OwnPlaces, OwnersStay
  <2>5. RefsHeld'
    <3>1. SUFFICES ASSUME NEW n \in stacks
                   PROVE  entry[n].refs >= 1 + Cardinality(Owned(n)) + 0 + 0
      BY <2>2, <2>3 DEF RefsHeld, Ind
    <3>2. entry[n].refs \in Nat
      BY <1>1
    <3>3. QED
      BY <1>2, <3>2 DEF Ind
  <2>6. QED
    BY <2>2, <2>4, <2>5 DEF RefsInv
<1>6. CASE Open
  <2>1. /\ DOMAIN blocks' = {} /\ stacks' = Kept /\ sampler' = sampler /\ hook' = hook
        /\ entry' = [n \in EntryIds |-> IF n \in Kept THEN [entry[n] EXCEPT !.allocs = 0, !.live = 0] ELSE entry[n]]
    BY <1>6 DEF Open, Cleared
  <2>2. \A n \in EntryIds : entry'[n].refs = entry[n].refs
    BY <1>1, <2>1, ResetEntry
  <2>3. ASSUME NEW n \in stacks, n \notin stacks'
        PROVE  n \notin sampler.pinned /\ \A t \in Threads : hook[t].own # n
    <3>1. entry[n].refs = 1
      BY <2>1, <2>3 DEF Kept
    <3>2. QED
      BY <3>1, DeadIsFree
  <2>4. OwnersStay'
    <3>1. sampler.pinned \subseteq stacks
      BY DEF RefsInv, OwnersStay
    <3>2. \A t \in Threads : hook[t].own # 0 => hook[t].own \in stacks
      BY DEF RefsInv, OwnersStay
    <3>3. QED
      BY <2>1, <2>3, <3>1, <3>2 DEF OwnersStay
  <2>5. OwnPlaces'
    BY <2>1 DEF RefsInv, OwnPlaces
  <2>6. RefsHeld'
    <3>1. SUFFICES ASSUME NEW n \in stacks'
                   PROVE  entry[n].refs >= 1 + Cardinality(Owned(n)') + Cardinality(InFlight(n)) + Ind(n \in sampler.pinned)
      <4>1. stacks' \subseteq EntryIds
        BY <1>1, <2>1 DEF Kept
      <4>2. \A n \in stacks' : InFlight(n)' = InFlight(n) /\ entry'[n].refs = entry[n].refs
        BY <2>1, <2>2, <4>1 DEF InFlight
      <4>3. QED
        BY <2>1, <4>2 DEF RefsHeld
    <3>2. Owned(n)' = {} /\ n \in stacks
      BY <2>1 DEF Owned, Kept
    <3>3. Cardinality(Owned(n)') = 0 /\ entry[n].refs \in Nat
      BY <1>1, <3>2, FS_EmptySet
    <3>4. QED
      BY <1>2, <3>2, <3>3 DEF Ind
  <2>7. QED
    BY <1>1, <2>2, <2>4, <2>5, <2>6 DEF RefsInv
<1>7. CASE Sample
  <2>1. PICK P \in SUBSET stacks :
          /\ sampler.pinned = {} /\ sampler' = [sampler EXCEPT !.pinned = P]
          /\ entry' = [n \in EntryIds |-> IF n \in P THEN [entry[n] EXCEPT !.refs = @ + 1] ELSE entry[n]]
          /\ UNCHANGED <<blocks, stacks, hook>>
    BY <1>7 DEF Sample
  <2>2. sampler'.pinned = P
    BY <2>1 DEF TableTypes, Samplers
  <2>3. ASSUME NEW n \in EntryIds PROVE entry'[n].refs = entry[n].refs + Ind(n \in P)
    <3>1. entry[n] \in EntryRecords /\ entry[n].refs \in Nat
      BY <1>1
    <3>2. [entry[n] EXCEPT !.refs = @ + 1].refs = entry[n].refs + 1
      BY <3>1, ResetEntry
    <3>3. entry'[n] = IF n \in P THEN [entry[n] EXCEPT !.refs = @ + 1] ELSE entry[n]
      BY <2>1
    <3>4. QED
      BY <3>1, <3>2, <3>3 DEF Ind
  <2>4. OwnPlaces' /\ OwnersStay'
    BY <2>1, <2>2 DEF RefsInv, OwnPlaces, OwnersStay
  <2>5. RefsHeld'
    <3>1. SUFFICES ASSUME NEW n \in stacks
                   PROVE  entry[n].refs + Ind(n \in P) >= 1 + Cardinality(Owned(n)) + Cardinality(InFlight(n)) + Ind(n \in P)
      BY <1>1, <2>1, <2>2, <2>3 DEF RefsHeld, Owned, InFlight
    <3>2. n \notin sampler.pinned /\ entry[n].refs \in Nat
      BY <1>1, <2>1
    <3>3. QED
      BY <1>2, <3>2 DEF Ind
  <2>6. \A n \in EntryIds : entry'[n].refs \in Nat
    BY <1>1, <2>3 DEF Ind
  <2>7. QED
    BY <2>4, <2>5, <2>6 DEF RefsInv
<1>8. CASE Sampled
  <2>1. /\ entry' = [n \in EntryIds |-> IF n \in sampler.pinned THEN [entry[n] EXCEPT !.refs = @ - 1] ELSE entry[n]]
        /\ UNCHANGED <<blocks, stacks, hook>>
        /\ \E oom : sampler' = [sampler EXCEPT !.locked = oom, !.pinned = {}]
    BY <1>8 DEF Sampled
  <2>2. sampler'.pinned = {}
    BY <2>1 DEF TableTypes, Samplers
  <2>3. ASSUME NEW n \in EntryIds PROVE entry'[n].refs = entry[n].refs - Ind(n \in sampler.pinned)
    <3>1. entry[n] \in EntryRecords /\ entry[n].refs \in Nat
      BY <1>1
    <3>2. [entry[n] EXCEPT !.refs = @ - 1].refs = entry[n].refs - 1
      BY <3>1, ResetEntry
    <3>3. entry'[n] = IF n \in sampler.pinned THEN [entry[n] EXCEPT !.refs = @ - 1] ELSE entry[n]
      BY <2>1
    <3>4. QED
      BY <3>1, <3>2, <3>3 DEF Ind
  <2>4. OwnPlaces' /\ OwnersStay'
    BY <2>1, <2>2 DEF RefsInv, OwnPlaces, OwnersStay
  <2>5. ASSUME NEW n \in stacks
        PROVE  /\ entry'[n].refs >= 1 + Cardinality(Owned(n)) + Cardinality(InFlight(n))
               /\ entry'[n].refs \in Nat
    <3>1. entry[n].refs \in Nat /\ entry'[n].refs = entry[n].refs - Ind(n \in sampler.pinned)
      BY <1>1, <2>3
    <3>2. QED
      BY <1>2, <3>1 DEF Ind
  <2>6. RefsHeld'
    <3>1. SUFFICES ASSUME NEW n \in stacks
                   PROVE  entry'[n].refs >= 1 + Cardinality(Owned(n)) + Cardinality(InFlight(n)) + 0
      BY <2>1, <2>2 DEF RefsHeld, Owned, InFlight, Ind
    <3>2. QED
      BY <1>2, <2>5
  <2>7. ASSUME NEW n \in EntryIds PROVE entry'[n].refs \in Nat
    <3>1. CASE n \in stacks
      BY <2>5, <3>1
    <3>2. CASE n \notin stacks
      <4>1. n \notin sampler.pinned
        BY <3>2 DEF RefsInv, OwnersStay
      <4>2. QED
        BY <1>1, <2>3, <4>1 DEF Ind
    <3>3. QED
      BY <3>1, <3>2
  <2>8. QED
    BY <2>4, <2>6, <2>7 DEF RefsInv
<1>9. ASSUME UNCHANGED <<blocks, stacks, entry, hook>>, sampler'.pinned = sampler.pinned PROVE RefsInv'
  BY <1>9 DEF RefsInv, OwnPlaces, OwnersStay, RefsHeld, Owned, InFlight
<1>10. CASE Announce \/ Join
  BY <1>9, <1>10 DEF Announce, Join, ledger, TableTypes, Samplers
<1>11. CASE OpenGate \/ Close \/ Aggregate \/ ReportEnd \/ Closed \/ Freeze \/ Survey \/ Thaw \/ Thawed \/ Copied
  BY <1>9, <1>11 DEF OpenGate, Close, Aggregate, ReportEnd, Closed, Freeze, Survey, Thaw, Thawed, Copied, ledger
<1>12. CASE Ask \/ Ready \/ MainStarts \/ Exit \/ UNCHANGED vars
  BY <1>9, <1>12 DEF Ask, Ready, MainStarts, Exit, vars, ledger, control
<1>13. QED
  BY <1>3, <1>4, <1>5, <1>6, <1>7, <1>8, <1>10, <1>11, <1>12 DEF Next, Service

\* The tables and the calls together.
TableInv == StageInv /\ HookTypes /\ Apart /\ TableTypes /\ RefsInv

\* The first state has empty tables.
LEMMA InitTables == Init => TableInv
<1> SUFFICES ASSUME Init PROVE TableInv
  OBVIOUS
<1>1. Apart
  BY DEF Init, Apart, Engaged, Out
<1>2. TableTypes
  <2>1. Busy = {} /\ DOMAIN blocks = {} /\ overflow = {} /\ stacks = {} /\ made = 0
    BY DEF Init, Busy, Out
  <2>2. IsFiniteSet(Busy) /\ IsFiniteSet(DOMAIN blocks) /\ IsFiniteSet(overflow) /\ Cardinality(DOMAIN blocks) <= plan.slots
    BY <2>1, FS_EmptySet, HeapAssumption DEF Init
  <2>3. Blank \in EntryRecords
    BY DEF Blank, EntryRecords
  <2>4. entry \in [EntryIds -> EntryRecords]
    BY <2>3 DEF Init
  <2>5. tally \in Tallies /\ sampler \in Samplers
    BY DEF Init, Zero, Tallies, Samplers
  <2>6. QED
    BY <2>1, <2>2, <2>4, <2>5, HeapAssumption DEF Init, TableTypes
<1>3. RefsInv
  BY DEF Init, RefsInv, OwnPlaces, OwnersStay, RefsHeld, Out, Blank
<1>4. QED
  BY <1>1, <1>2, <1>3, InitStaged, InitHooks DEF TableInv

\* Every step keeps the tables and the references.
LEMMA TableStep == TableInv /\ [Next]_vars => TableInv'
BY StagesStep, HooksStep, ApartStep, TablesStep, RefsStep DEF TableInv, RefsInv

\* No entry of the stack table goes while a block, a call or the sampler refers to
\* it, however evictions, the opening of a window, the sampler and a fork interleave
\* with the hooks (StackEntry::refs of host_mem_common.h).
THEOREM OwnersAreKept == Spec => []OwnersStay
<1>1. TableInv => OwnersStay
  BY DEF TableInv, RefsInv
<1>2. QED
  BY InitTables, TableStep, <1>1, PTL DEF Spec

-----------------------------------------------------------------------------
(* The ledger of a window *)

\* The call has the record of a block in its hands.
Holding(t) == hook[t].pc \in {"taken", "reinsert"} /\ hook[t].from = "table"

\* The calls that may put the record of a block of this entry back in this window.
Taken(n) == {t \in Threads : Holding(t) /\ hook[t].own = n /\ ~Late(t)}

\* What is in the hands of a call is in no ledger.
TakenAway == \A t \in Threads :
  hook[t].pc \in {"taken", "reinsert"} /\ hook[t].from # "none" => hook[t].a \notin Ledgers

\* Nor is what a call is about to store, in a window whose frees were all seen.
Fresh == gate.enabled /\ Clean =>
  \A t \in Threads : hook[t].pc \in {"lookup", "insert"} => hook[t].a \notin Ledgers

\* The allocations counted for an entry, and for none.
Bound(n) == IF n = 0 THEN tally.unknown ELSE entry[n].allocs

\* Entry by entry: its live blocks are those of the table, and the blocks on their
\* way back were counted too.
CountsHeld == ~window.straddled =>
  /\ \A n \in stacks : entry[n].live = Cardinality(Owned(n))
  /\ \A n \in stacks \cup {0} : Cardinality(Owned(n)) + Cardinality(Taken(n)) <= Bound(n)

\* In all: what was allocated is what was freed and what a ledger holds.
SumsHeld == Clean /\ ~gate.forked =>
  /\ tally.alloc = tally.freed + tally.skipped + Cardinality(DOMAIN blocks) + Cardinality(overflow)
  /\ tally.into - tally.outOf = Cardinality(overflow)
  /\ overflow \cap DOMAIN blocks = {}

\* Ledgers grow by the block of the call only.
LEMMA LedgersGrow ==
  ASSUME HookTypes, TableTypes, RefsInv, NEW t \in Threads, Hooks(t)
  PROVE  Ledgers' \subseteq Ledgers \/ (Ledgers' \subseteq Ledgers \cup {hook[t].a} /\ Engaged(t))
<1>1. PICK a : a = hook[t].a
  OBVIOUS
<1>2. overflow' \subseteq overflow \/ (overflow' = overflow \cup {a} /\ Engaged(t))
  BY <1>1, HookLedgers
<1>3. DOMAIN blocks' \subseteq DOMAIN blocks \/ (DOMAIN blocks' \subseteq DOMAIN blocks \cup {a} /\ Engaged(t))
  BY <1>1, HookKinds DEF RefsInv, Aside, TakesStack, MakesStack, Drops, Stores, Captures, Restores, With, Without, Engaged
<1>4. QED
  BY <1>1, <1>2, <1>3 DEF Ledgers

\* Where the record that a call has in its hands comes from.
LEMMA HoldingMoves ==
  ASSUME HookTypes, CallsInv, NEW t \in Threads, Hooks(t), NEW a, a = hook[t].a,
         hook'[t].pc \in {"taken", "reinsert"}, hook'[t].from # "none"
  PROVE  /\ hook'[t].a = a
         /\ \/ /\ hook[t].pc \in {"taken", "reinsert"} /\ UNCHANGED <<blocks, overflow>>
               /\ hook'[t].from = hook[t].from /\ hook'[t].own = hook[t].own /\ hook'[t].w = hook[t].w
            \/ /\ a \notin Ledgers'
               /\ hook'[t].from = "table" => a \in DOMAIN blocks /\ hook'[t].own = blocks[a]
<1> USE DEF HookTypes, At
<1>1. hook[t] \in HookRecords
  OBVIOUS
<1>2. ASSUME NEW held, NEW p \in {"lookup", "out"}, Obtain(t, held, p)
      PROVE  hook'[t].pc \notin {"taken", "reinsert"}
  BY <1>2 DEF Obtain, Out
<1>3. ~Bypass(t)
  BY <1>2 DEF Bypass, Leave, Out
<1>4. ~Enter(t)
  BY <1>1, <1>2 DEF Enter, HookRecords
<1>5. ~(PassOver(t) \/ InsertElsewhere(t) \/ Dispose(t) \/ LoseSight(t) \/ Reinsert(t) \/ Release(t))
  <2>1. ~(hook' = [hook EXCEPT ![t] = Out])
    BY DEF Out
  <2>2. QED
    BY <2>1 DEF PassOver, InsertElsewhere, Dispose, LoseSight, Reinsert, Release, Leave
<1>6. ~(LookupStack(t) \/ Register(t) \/ Unattributed(t))
  <2>1. ASSUME NEW n PROVE ~(hook' = [hook EXCEPT ![t] = [hook[t] EXCEPT !.pc = "insert", !.own = n]])
    BY <1>1 DEF HookRecords
  <2>2. ~LookupStack(t)
    BY <2>1 DEF LookupStack
  <2>3. ~Register(t)
    BY <2>1 DEF Register
  <2>4. ~Unattributed(t)
    BY <2>1 DEF Unattributed
  <2>5. QED
    BY <2>2, <2>3, <2>4
<1>7. ~Insert(t)
  BY <1>1 DEF Insert, Leave, Go, Out, HookRecords
<1>8. ~Moved(t)
  BY <1>2 DEF Moved
<1>9. CASE Capture(t)
  <2>1. /\ DOMAIN blocks' = DOMAIN blocks \ {a} /\ overflow' = overflow \ {a} /\ a \in DOMAIN blocks
    BY <1>9 DEF Capture, Without
  <2>2. hook'[t].a = a /\ hook'[t].own = blocks[a]
    BY <1>1, <1>9 DEF Capture, HookRecords
  <2>3. QED
    BY <2>1, <2>2 DEF Ledgers
<1>10. CASE CaptureOverflow(t)
  <2>1. /\ blocks' = blocks /\ overflow' = overflow \ {a} /\ a \notin DOMAIN blocks
    BY <1>10 DEF CaptureOverflow
  <2>2. hook'[t].a = a /\ hook'[t].from = "overflow"
    BY <1>1, <1>10 DEF CaptureOverflow, HookRecords
  <2>3. QED
    BY <2>1, <2>2 DEF Ledgers
<1>11. ~CaptureNothing(t)
  BY <1>1 DEF CaptureNothing, Go, HookRecords, CallsInv
<1>12. CASE Refused(t)
  BY <1>1, <1>12 DEF Refused, Leave, Go, Out, HookRecords, ledger
<1>13. QED
  BY <1>3, <1>4, <1>5, <1>6, <1>7, <1>8, <1>9, <1>10, <1>11, <1>12 DEF Hooks

\* A step of a call keeps its hands off what the others hold.
LEMMA TakenAwayStep ==
  ASSUME HookTypes, TableTypes, RefsInv, Apart, CallsInv, TakenAway, [Next]_vars
  PROVE  TakenAway'
<1> USE DEF TakenAway
<1>1. ASSUME NEW t \in Threads, Hooks(t) PROVE TakenAway'
  <2>1. \A u \in Threads \ {t} : hook'[u] = hook[u]
    BY <1>1, OthersStay
  <2>2. Ledgers' \subseteq Ledgers \/ (Ledgers' \subseteq Ledgers \cup {hook[t].a} /\ Engaged(t))
    BY <1>1, LedgersGrow
  <2>3. ASSUME NEW u \in Threads \ {t}, hook'[u].pc \in {"taken", "reinsert"}, hook'[u].from # "none"
        PROVE  hook'[u].a \notin Ledgers'
    <3>1. Engaged(u) /\ hook[u].a \notin Ledgers /\ hook'[u] = hook[u]
      BY <2>1, <2>3 DEF Engaged
    <3>2. Engaged(t) => hook[u].a # hook[t].a
      BY <3>1 DEF Apart
    <3>3. QED
      BY <2>2, <3>1, <3>2
  <2>4. ASSUME hook'[t].pc \in {"taken", "reinsert"}, hook'[t].from # "none"
        PROVE  hook'[t].a \notin Ledgers'
    BY <1>1, <2>4, HoldingMoves DEF Ledgers
  <2>5. QED
    BY <2>3, <2>4
<1>2. ASSUME NEW t \in Threads, Call(t) PROVE TakenAway'
  <2>1. \A u \in Threads \ {t} : hook'[u] = hook[u]
    BY <1>2, OthersStay
  <2>2. hook'[t].pc = "gate" /\ UNCHANGED <<blocks, overflow>>
    BY <1>2 DEF Call, HookTypes, Out, ledger
  <2>3. QED
    BY <2>1, <2>2 DEF Ledgers
<1>3. ASSUME NEW t \in Threads, Fork(t) PROVE TakenAway'
  BY <1>3 DEF Fork, Out
<1>4. CASE Open
  BY <1>4 DEF Open, Cleared, Ledgers
<1>5. CASE ~Open /\ (Service \/ Ask \/ Ready \/ MainStarts \/ Exit \/ Sample \/ Sampled \/ UNCHANGED vars)
  <2>1. UNCHANGED <<blocks, overflow, hook>>
    BY <1>5 DEF Service, Announce, OpenGate, Close, Join, Aggregate, ReportEnd, Closed, Freeze, Survey, Thaw, Thawed,
           Copied, Ask, Ready, MainStarts, Exit, Sample, Sampled, vars, ledger
  <2>2. QED
    BY <2>1 DEF Ledgers
<1>6. QED
  BY <1>1, <1>2, <1>3, <1>4, <1>5 DEF Next, Service

\* A block that is about to be stored was just obtained.
LEMMA FreshMoves ==
  ASSUME HookTypes, LeakInv, gate.enabled, Clean, NEW t \in Threads, Hooks(t),
         hook'[t].pc \in {"lookup", "insert"}
  PROVE  /\ UNCHANGED <<blocks, overflow>>
         /\ (hook[t].pc = "lookup" /\ hook'[t].a = hook[t].a) \/ hook'[t].a \notin Ledgers
<1> USE DEF HookTypes, At
<1>1. hook[t] \in HookRecords
  OBVIOUS
<1>2. ~(PassOver(t) \/ InsertElsewhere(t) \/ Dispose(t) \/ LoseSight(t) \/ Reinsert(t) \/ Release(t) \/ Bypass(t))
  <2>1. ~(hook' = [hook EXCEPT ![t] = Out])
    BY DEF Out
  <2>2. ~Bypass(t)
    BY DEF Bypass, Traced
  <2>3. QED
    BY <2>1, <2>2 DEF PassOver, InsertElsewhere, Dispose, LoseSight, Reinsert, Release, Leave
<1>3. CASE LookupStack(t) \/ Register(t) \/ Unattributed(t)
  <2>1. /\ UNCHANGED <<blocks, overflow>> /\ hook[t].pc = "lookup"
        /\ \E n : hook' = [hook EXCEPT ![t] = [hook[t] EXCEPT !.pc = "insert", !.own = n]]
    <3>1. CASE LookupStack(t)
      BY <3>1 DEF LookupStack, Recording
    <3>2. CASE Register(t)
      BY <3>2 DEF Register, Recording
    <3>3. CASE Unattributed(t)
      BY <3>3 DEF Unattributed, Recording
    <3>4. QED
      BY <1>3, <3>1, <3>2, <3>3
  <2>2. QED
    BY <1>1, <2>1 DEF HookRecords
<1>4. ~(Insert(t) \/ Capture(t) \/ CaptureOverflow(t) \/ CaptureNothing(t) \/ Refused(t))
  BY <1>1 DEF Insert, Capture, CaptureOverflow, CaptureNothing, Refused, Leave, Go, Out, HookRecords
<1>5. ASSUME NEW held, Obtain(t, held, "lookup") PROVE hook'[t].a \notin held
  BY <1>5 DEF Obtain, Out
<1>6. CASE Enter(t)
  <2>1. hook[t].op = "malloc"
    BY <1>1, <1>6 DEF Enter, HookRecords
  <2>2. QED
    BY <1>5, <1>6, <2>1 DEF Enter, ledger, LeakInv
<1>7. CASE Moved(t)
  <2>1. hook'[t].a \notin heap \ {hook[t].a} /\ UNCHANGED <<blocks, overflow>>
    BY <1>5, <1>7 DEF Moved
  <2>2. hook[t].a \notin Ledgers /\ Ledgers \subseteq heap
    BY <1>7 DEF Moved, LeakInv
  <2>3. QED
    BY <2>1, <2>2
<1>8. QED
  BY <1>2, <1>3, <1>4, <1>6, <1>7 DEF Hooks

\* Every step keeps what is about to be stored out of the ledgers.
LEMMA FreshStep ==
  ASSUME StageInv, HookTypes, TableTypes, RefsInv, Apart, LeakInv, Fresh, [Next]_vars
  PROVE  Fresh'
<1> USE DEF Fresh
<1>1. ASSUME NEW t \in Threads, Hooks(t) PROVE Fresh'
  <2> SUFFICES ASSUME gate'.enabled, Clean'
               PROVE  \A u \in Threads : hook'[u].pc \in {"lookup", "insert"} => hook'[u].a \notin Ledgers'
    OBVIOUS
  <2>1. gate.enabled /\ Clean
    BY <1>1, HooksKeepStages, WindowMoves DEF LeakInv
  <2>2. \A u \in Threads \ {t} : hook'[u] = hook[u]
    BY <1>1, OthersStay
  <2>3. Ledgers' \subseteq Ledgers \/ (Ledgers' \subseteq Ledgers \cup {hook[t].a} /\ Engaged(t))
    BY <1>1, LedgersGrow
  <2>4. ASSUME NEW u \in Threads \ {t}, hook'[u].pc \in {"lookup", "insert"}
        PROVE  hook'[u].a \notin Ledgers'
    <3>1. Engaged(u) /\ hook[u].a \notin Ledgers /\ hook'[u] = hook[u]
      BY <2>1, <2>2, <2>4 DEF Engaged
    <3>2. Engaged(t) => hook[u].a # hook[t].a
      BY <3>1 DEF Apart
    <3>3. QED
      BY <2>3, <3>1, <3>2
  <2>5. ASSUME hook'[t].pc \in {"lookup", "insert"} PROVE hook'[t].a \notin Ledgers'
    <3>1. /\ UNCHANGED <<blocks, overflow>>
          /\ (hook[t].pc = "lookup" /\ hook'[t].a = hook[t].a) \/ hook'[t].a \notin Ledgers
      BY <1>1, <2>1, <2>5, FreshMoves
    <3>2. Ledgers' = Ledgers
      BY <3>1 DEF Ledgers
    <3>3. QED
      BY <2>1, <3>1, <3>2
  <2>6. QED
    BY <2>4, <2>5
<1>2. ASSUME NEW t \in Threads, Call(t) PROVE Fresh'
  <2>1. \A u \in Threads \ {t} : hook'[u] = hook[u]
    BY <1>2, OthersStay
  <2>2. hook'[t].pc = "gate" /\ UNCHANGED <<blocks, overflow, gate, window>>
    BY <1>2 DEF Call, HookTypes, Out, ledger, control
  <2>3. QED
    BY <2>1, <2>2 DEF Ledgers, Clean
<1>3. ASSUME NEW t \in Threads, Fork(t) PROVE Fresh'
  BY <1>3 DEF Fork, Out
<1>4. CASE Open
  BY <1>4 DEF Open, StageInv, StageTypes, Gates
<1>5. CASE OpenGate
  BY <1>5 DEF OpenGate, ledger, LeakInv, Opening, Clean, Ledgers
<1>6. CASE Thaw
  BY <1>6 DEF Thaw, LeakInv, Snapshot, Clean
<1>7. CASE Freeze
  BY <1>7 DEF Freeze, LeakInv, Windows, Clean
<1>8. CASE Announce \/ Close \/ Join \/ Aggregate \/ ReportEnd \/ Closed \/ Survey \/ Thawed \/ Copied
  <2>1. /\ UNCHANGED <<blocks, overflow, hook, window>> /\ (gate'.enabled => gate.enabled)
    BY <1>8 DEF Announce, Close, Join, Aggregate, ReportEnd, Closed, Survey, Thawed, Copied, ledger, StageInv, StageTypes,
                Gates
  <2>2. QED
    BY <2>1 DEF Ledgers, Clean
<1>9. CASE Ask \/ Ready \/ MainStarts \/ Exit \/ Sample \/ Sampled \/ UNCHANGED vars
  <2>1. /\ UNCHANGED <<blocks, overflow, hook, window>> /\ (gate'.enabled => gate.enabled)
    BY <1>9 DEF Ask, Ready, MainStarts, Exit, Sample, Sampled, vars, ledger, control, StageInv, StageTypes, Gates
  <2>2. QED
    BY <2>1 DEF Ledgers, Clean
<1>10. QED
  BY <1>1, <1>2, <1>3, <1>4, <1>5, <1>6, <1>7, <1>8, <1>9 DEF Next, Service

\* The unknown bucket does not shrink in a window.
LEMMA UnknownGrows ==
  ASSUME TableTypes, \A n \in stacks : entry[n].allocs >= 0, NEW t \in Threads, Hooks(t)
  PROVE  tally'.unknown >= tally.unknown
<1>1. tally \in Tallies /\ tally.unknown \in Int
  BY DEF TableTypes, Tallies
<1> DEFINE T == {tally, [tally EXCEPT !.alloc = @ + 1, !.skipped = @ + 1],
                 [tally EXCEPT !.alloc = @ + 1, !.into = @ + 1],
                 [tally EXCEPT !.freed = @ + 1, !.outOf = @ + 1],
                 [tally EXCEPT !.freed = @ - 1, !.into = @ + 1],
                 [tally EXCEPT !.freed = @ - 1, !.outOf = @ - 1],
                 [tally EXCEPT !.freed = @ + 1], [tally EXCEPT !.freed = @ - 1]}
<1>2. \A d \in T : d.unknown >= tally.unknown
  <2>1. ASSUME NEW d, NEW x, NEW y, NEW z, NEW i, NEW o, Counts(d, tally, x, y, 0, z, i, o)
        PROVE  d.unknown >= tally.unknown
    BY <1>1, <2>1 DEF Counts
  <2>2. /\ tally.unknown >= tally.unknown
        /\ [tally EXCEPT !.freed = @ + 1].unknown >= tally.unknown
        /\ [tally EXCEPT !.freed = @ - 1].unknown >= tally.unknown
    BY <1>1, <2>1, OneCounter, Zenon
  <2>3. /\ [tally EXCEPT !.alloc = @ + 1, !.skipped = @ + 1].unknown >= tally.unknown
        /\ [tally EXCEPT !.alloc = @ + 1, !.into = @ + 1].unknown >= tally.unknown
        /\ [tally EXCEPT !.freed = @ + 1, !.outOf = @ + 1].unknown >= tally.unknown
        /\ [tally EXCEPT !.freed = @ - 1, !.into = @ + 1].unknown >= tally.unknown
        /\ [tally EXCEPT !.freed = @ - 1, !.outOf = @ - 1].unknown >= tally.unknown
    BY <1>1, <2>1, TwoCounters, Zenon
  <2>4. QED
    BY <2>2, <2>3, Zenon
<1>3. CASE Bypass(t) \/ Enter(t) \/ LookupStack(t) \/ CaptureNothing(t) \/ Unattributed(t)
  <2>1. tally' \in T
    BY <1>3, Zenon DEF Bypass, Enter, LookupStack, CaptureNothing, Unattributed, ledger
  <2> HIDE DEF T
  <2>2. QED
    BY <1>2, <2>1
<1>4. CASE PassOver(t) \/ Dispose(t) \/ LoseSight(t)
  <2>1. tally' \in T
    BY <1>4, Zenon DEF PassOver, Dispose, LoseSight
  <2> HIDE DEF T
  <2>2. QED
    BY <1>2, <2>1
<1>5. CASE Register(t)
  <2>1. tally' = tally \/ \E n \in stacks : tally' = [tally EXCEPT !.unknown = @ + entry[n].allocs]
    BY <1>5 DEF Register, Dead
  <2>2. ASSUME NEW n \in stacks, tally' = [tally EXCEPT !.unknown = @ + entry[n].allocs]
        PROVE  tally'.unknown >= tally.unknown
    <3>1. entry[n].allocs \in Int /\ entry[n].allocs >= 0
      BY HeapAssumption DEF TableTypes, EntryIds, EntryRecords
    <3>2. tally'.unknown = tally.unknown + entry[n].allocs
      BY <1>1, <2>2 DEF Tallies
    <3>3. QED
      BY <1>1, <3>1, <3>2
  <2>3. QED
    BY <1>1, <2>1, <2>2
<1>6. CASE InsertElsewhere(t)
  <2>1. tally' \in T
    BY <1>6, Zenon DEF InsertElsewhere, Divert
  <2> HIDE DEF T
  <2>2. QED
    BY <1>2, <2>1
<1>7. CASE Insert(t)
  <2>1. PICK a : a = hook[t].a
    OBVIOUS
  <2>2. tally' = [tally EXCEPT !.alloc = @ + 1, !.freed = IF Stale(a) THEN @ + 1 ELSE @,
                               !.unknown = IF hook[t].own = 0 THEN @ + 1 ELSE @]
    BY <1>7, <2>1 DEF Insert
  <2>3. Counts(tally', tally, 1, Ind(Stale(a)), Ind(hook[t].own = 0), 0, 0, 0)
    BY <1>1, <2>2, StoredCounters, Zenon
  <2>4. QED
    BY <1>1, <2>3 DEF Counts, Ind
<1>8. CASE Capture(t) \/ CaptureOverflow(t)
  <2>1. tally' \in T
    BY <1>8, Zenon DEF Capture, CaptureOverflow
  <2> HIDE DEF T
  <2>2. QED
    BY <1>2, <2>1
<1>9. CASE Release(t) \/ Moved(t) \/ Refused(t)
  <2>1. tally' \in T
    BY <1>9, Zenon DEF Release, Moved, Refused, ledger
  <2> HIDE DEF T
  <2>2. QED
    BY <1>2, <2>1
<1>10. CASE Reinsert(t)
  <2>1. tally' \in T
    BY <1>10, Zenon DEF Reinsert
  <2> HIDE DEF T
  <2>2. QED
    BY <1>2, <2>1
<1>11. QED
  BY <1>3, <1>4, <1>5, <1>6, <1>7, <1>8, <1>9, <1>10 DEF Hooks

\* The sets that CountsHeld and SumsHeld count are finite.
LEMMA TakenIsFinite ==
  ASSUME TableTypes, NEW n
  PROVE  /\ IsFiniteSet(Owned(n)) /\ IsFiniteSet(Taken(n))
         /\ Cardinality(Owned(n)) \in Nat /\ Cardinality(Taken(n)) \in Nat
<1>1. Owned(n) \in SUBSET DOMAIN blocks /\ Taken(n) \in SUBSET Busy
  BY DEF Owned, Taken, Holding, Busy
<1>2. QED
  BY <1>1, FS_Subset, FS_CardinalityType DEF TableTypes

\* What a hook does to the counts, entry by entry: an entry has a live block more
\* for a block more in the table, and what it has allocated covers both those in
\* the table and those in the hands of a call.
LEMMA HookCounts ==
  ASSUME HookTypes, TableTypes, RefsInv, CallsInv, LeakInv, TakenAway, NEW t \in Threads, Hooks(t),
         ~window'.straddled, \A n \in stacks : entry[n].allocs >= 0,
         NEW a, a = hook[t].a,
         NEW n \in Nat, n # 0 => n \in stacks /\ n \in stacks'
  PROVE  /\ n # 0 => entry'[n].live - Ind(a \in Owned(n)') = entry[n].live - Ind(a \in Owned(n))
         /\ Bound(n)' - Ind(a \in Owned(n)') - Ind(t \in Taken(n)')
              >= Bound(n) - Ind(a \in Owned(n)) - Ind(t \in Taken(n))
<1> DEFINE m == hook[t].own
<1>1. /\ n # 0 => n \in EntryIds /\ entry[n].live \in Int /\ entry[n].allocs \in Int
      /\ Bound(n) \in Int /\ tally.unknown \in Int
  BY HeapAssumption DEF TableTypes, Tallies, EntryIds, EntryRecords, Bound
<1>2. tally'.unknown >= tally.unknown
  BY UnknownGrows
<1>3. tally'.unknown \in Int
  BY HookLedgers DEF Tallies
<1>4. t \in Taken(n)' => t \in Taken(n) \/ (a \in Owned(n) /\ a \notin Owned(n)')
  <2>1. told' = told /\ final' = final
    BY HooksKeepStages
  <2>2. SUFFICES ASSUME hook'[t].pc \in {"taken", "reinsert"}, hook'[t].from = "table", hook'[t].own = n, ~Late(t)'
                 PROVE  t \in Taken(n) \/ (a \in Owned(n) /\ a \notin Owned(n)')
    BY DEF Taken, Holding
  <2>3. \/ /\ hook[t].pc \in {"taken", "reinsert"} /\ UNCHANGED <<blocks, overflow>>
           /\ hook'[t].from = hook[t].from /\ hook'[t].own = hook[t].own /\ hook'[t].w = hook[t].w
        \/ /\ a \notin Ledgers' /\ a \in DOMAIN blocks /\ hook'[t].own = blocks[a]
    BY <2>2, HoldingMoves
  <2>4. QED
    BY <2>1, <2>2, <2>3 DEF Taken, Holding, Late, Owned, Ledgers
<1>5. ASSUME blocks' = blocks,
             n # 0 => entry'[n].live = entry[n].live /\ entry'[n].allocs = entry[n].allocs
      PROVE  /\ n # 0 => entry'[n].live - Ind(a \in Owned(n)') = entry[n].live - Ind(a \in Owned(n))
             /\ Bound(n)' - Ind(a \in Owned(n)') - Ind(t \in Taken(n)')
                  >= Bound(n) - Ind(a \in Owned(n)) - Ind(t \in Taken(n))
  <2>1. Owned(n)' = Owned(n)
    BY <1>5 DEF Owned
  <2>2. Bound(n)' >= Bound(n) /\ Bound(n)' \in Int
    BY <1>1, <1>2, <1>3, <1>5 DEF Bound
  <2>3. QED
    BY <1>1, <1>4, <1>5, <2>1, <2>2 DEF Ind
<1>6. CASE Aside(t)
  BY <1>5, <1>6 DEF Aside
<1>7. CASE TakesStack(t) \/ Drops(t)
  BY <1>1, <1>5, <1>7 DEF TakesStack, Drops, Adds
<1>8. CASE MakesStack(t)
  <2>1. n # 0 => n # made + 1
    BY DEF TableTypes
  <2>2. QED
    BY <1>1, <1>5, <1>8, <2>1 DEF MakesStack
<1>9. CASE Stores(t, a)
  <2>1. (a \in Owned(n)' <=> m = n) /\ (n # 0 => (a \in Owned(n) <=> n = Slot(a)))
    BY <1>9 DEF Stores, With, Owned, Slot
  <2>2. /\ n # 0 => /\ entry'[n].live = entry[n].live - Ind(n = Slot(a)) + Ind(n = m)
                    /\ entry'[n].allocs = entry[n].allocs + Ind(n = m)
        /\ tally'.unknown = tally.unknown + Ind(m = 0)
    BY <1>1, <1>9 DEF Stores
  <2>3. Bound(n)' = Bound(n) + Ind(n = m)
    BY <2>2 DEF Bound, Ind
  <2>4. QED
    BY <1>1, <1>4, <2>1, <2>2, <2>3 DEF Ind
<1>10. CASE Captures(t, a)
  <2>1. a \notin Owned(n)' /\ (a \in Owned(n) <=> n = blocks[a])
    BY <1>10 DEF Captures, Without, Owned
  <2>2. n # 0 => /\ entry'[n].live = entry[n].live - Ind(n = blocks[a])
                 /\ entry'[n].allocs = entry[n].allocs
    BY <1>1, <1>10 DEF Captures, Adds, Ind
  <2>3. Bound(n)' >= Bound(n) /\ Bound(n)' \in Int
    BY <1>1, <1>2, <1>3, <2>2 DEF Bound
  <2>4. QED
    BY <1>1, <1>4, <2>1, <2>2, <2>3 DEF Ind
<1>11. CASE Restores(t, a)
  <2>1. a \in Owned(n)' <=> m = n
    BY <1>11 DEF Restores, With, Owned
  <2>2. a \notin Owned(n)
    BY <1>11 DEF Restores, TakenAway, Ledgers, Owned
  <2>3. ~Late(t)
    BY <1>11 DEF Restores, LeakInv, Windows
  <2>4. (t \in Taken(n) <=> m = n) /\ t \notin Taken(n)'
    BY <1>11, <2>3 DEF Restores, Taken, Holding
  <2>5. n # 0 => /\ entry'[n].live = entry[n].live + Ind(n = m)
                 /\ entry'[n].allocs = entry[n].allocs
    BY <1>1, <1>11 DEF Restores, Adds, Ind
  <2>6. Bound(n)' >= Bound(n) /\ Bound(n)' \in Int
    BY <1>1, <1>2, <1>3, <2>5 DEF Bound
  <2>7. QED
    BY <1>1, <2>1, <2>2, <2>4, <2>5, <2>6 DEF Ind
<1>12. QED
  BY <1>6, <1>7, <1>8, <1>9, <1>10, <1>11, HookKinds DEF RefsInv

\* A hook keeps the counts of the entries.
LEMMA HookKeepsCounts ==
  ASSUME HookTypes, TableTypes, TableTypes', RefsInv, RefsInv', CallsInv, LeakInv, TakenAway, CountsHeld,
         NEW t \in Threads, Hooks(t)
  PROVE  CountsHeld'
<1> SUFFICES ASSUME ~window'.straddled
             PROVE  /\ \A n \in stacks' : entry'[n].live = Cardinality(Owned(n)')
                    /\ \A n \in stacks' \cup {0} : Cardinality(Owned(n)') + Cardinality(Taken(n)') <= Bound(n)'
  BY DEF CountsHeld
<1>1. PICK a : a = hook[t].a
  OBVIOUS
<1>2. ~window.straddled
  BY WindowMoves DEF LeakInv
<1>3. /\ \A n \in stacks : entry[n].live = Cardinality(Owned(n))
      /\ \A n \in stacks \cup {0} : Cardinality(Owned(n)) + Cardinality(Taken(n)) <= Bound(n)
  BY <1>2 DEF CountsHeld
<1>4. /\ stacks \subseteq EntryIds /\ stacks' \subseteq EntryIds
      /\ \A n \in EntryIds : n \in Nat /\ n # 0
      /\ tally \in Tallies /\ tally' \in Tallies
      /\ \A n \in EntryIds : entry[n] \in EntryRecords /\ entry'[n] \in EntryRecords
  BY HeapAssumption DEF TableTypes, EntryIds
<1>5. \A n \in stacks : entry[n].allocs >= 0
  <2>1. SUFFICES ASSUME NEW n \in stacks PROVE entry[n].allocs >= 0
    OBVIOUS
  <2>2. Cardinality(Owned(n)) + Cardinality(Taken(n)) <= entry[n].allocs
    BY <1>3, <1>4 DEF Bound
  <2>3. Cardinality(Owned(n)) \in Nat /\ Cardinality(Taken(n)) \in Nat
    BY TakenIsFinite
  <2>4. entry[n].allocs \in Int
    BY <1>4 DEF EntryRecords
  <2>5. QED
    BY <2>2, <2>3, <2>4
<1>6. \A u \in Threads \ {t} : hook'[u] = hook[u]
  BY OthersStay
<1>7. /\ DOMAIN blocks' \ {a} = DOMAIN blocks \ {a}
      /\ \A b \in DOMAIN blocks \ {a} : blocks'[b] = blocks[b]
  BY <1>1, HookRefs
<1>8. told' = told /\ final' = final
  BY HooksKeepStages
<1>9. ASSUME NEW n \in Nat
      PROVE  /\ Cardinality(Owned(n)') = Cardinality(Owned(n)) - Ind(a \in Owned(n)) + Ind(a \in Owned(n)')
             /\ Cardinality(Taken(n)') = Cardinality(Taken(n)) - Ind(t \in Taken(n)) + Ind(t \in Taken(n)')
             /\ Cardinality(Owned(n)) \in Nat /\ Cardinality(Taken(n)) \in Nat
             /\ Cardinality(Owned(n)') \in Nat /\ Cardinality(Taken(n)') \in Nat
  <2>1. Owned(n)' \ {a} = Owned(n) \ {a}
    BY <1>7 DEF Owned
  <2>2. Taken(n)' \ {t} = Taken(n) \ {t}
    BY <1>6, <1>8 DEF Taken, Holding, Late
  <2>3. IsFiniteSet(Owned(n)) /\ IsFiniteSet(Taken(n))
    BY TakenIsFinite
  <2>4. QED
    BY <2>1, <2>2, <2>3, OneMoves
<1>10. ASSUME NEW n \in Nat, n # 0 => n \in stacks /\ n \in stacks'
       PROVE  /\ n # 0 => entry'[n].live = Cardinality(Owned(n)')
              /\ Cardinality(Owned(n)') + Cardinality(Taken(n)') <= Bound(n)'
  <2>1. /\ n # 0 => entry'[n].live - Ind(a \in Owned(n)') = entry[n].live - Ind(a \in Owned(n))
        /\ Bound(n)' - Ind(a \in Owned(n)') - Ind(t \in Taken(n)')
             >= Bound(n) - Ind(a \in Owned(n)) - Ind(t \in Taken(n))
    BY <1>1, <1>5, <1>10, HookCounts
  <2>2. Cardinality(Owned(n)) + Cardinality(Taken(n)) <= Bound(n) /\ (n # 0 => entry[n].live = Cardinality(Owned(n)))
    BY <1>3, <1>10
  <2>3. Bound(n) \in Int /\ Bound(n)' \in Int /\ (n # 0 => entry'[n].live \in Int)
    BY <1>4, <1>10 DEF Bound, Tallies, EntryRecords
  <2>4. /\ Cardinality(Owned(n)') = Cardinality(Owned(n)) - Ind(a \in Owned(n)) + Ind(a \in Owned(n)')
        /\ Cardinality(Taken(n)') = Cardinality(Taken(n)) - Ind(t \in Taken(n)) + Ind(t \in Taken(n)')
        /\ Cardinality(Owned(n)) \in Nat /\ Cardinality(Taken(n)) \in Nat
    BY <1>9
  <2>5. /\ Ind(a \in Owned(n)) \in Int /\ Ind(a \in Owned(n)') \in Int
        /\ Ind(t \in Taken(n)) \in Int /\ Ind(t \in Taken(n)') \in Int
    BY DEF Ind
  <2>6. n # 0 => entry'[n].live = Cardinality(Owned(n)')
    BY <2>1, <2>2, <2>3, <2>4, <2>5
  <2>7. Cardinality(Owned(n)') + Cardinality(Taken(n)') <= Bound(n)'
    BY <2>1, <2>2, <2>3, <2>4, <2>5
  <2>8. QED
    BY <2>6, <2>7
<1>11. ASSUME NEW n \in stacks', n \notin stacks
       PROVE  /\ entry'[n].live = Cardinality(Owned(n)')
              /\ Cardinality(Owned(n)') + Cardinality(Taken(n)') <= Bound(n)'
  <2>1. MakesStack(t) /\ n = made + 1
    <3>1. stacks' # stacks
      BY <1>11
    <3>2. MakesStack(t)
      BY <1>1, <3>1, HookKinds DEF RefsInv, Aside, TakesStack, Drops, Stores, Captures, Restores
    <3>3. QED
      BY <1>11, <3>2 DEF MakesStack
  <2>2. entry'[n].live = 0 /\ entry'[n].allocs = 0 /\ hook'[t].pc = "insert" /\ blocks' = blocks
    BY <2>1 DEF MakesStack
  <2>3. n # 0
    BY <1>4
  <2>4. Owned(n)' = {}
    BY <1>11, <2>2, <2>3 DEF Owned, RefsInv, OwnersStay
  <2>5. Taken(n)' = {}
    <3>1. \A u \in Threads \ {t} : hook'[u].own # n
      BY <1>6, <1>11, <2>3 DEF RefsInv, OwnersStay
    <3>2. QED
      BY <2>2, <3>1 DEF Taken, Holding
  <2>6. QED
    BY <2>2, <2>3, <2>4, <2>5, FS_EmptySet DEF Bound
<1>12. ASSUME NEW n \in stacks' PROVE entry'[n].live = Cardinality(Owned(n)')
  BY <1>4, <1>10, <1>11
<1>13. ASSUME NEW n \in stacks' \cup {0} PROVE Cardinality(Owned(n)') + Cardinality(Taken(n)') <= Bound(n)'
  BY <1>4, <1>10, <1>11
<1>14. QED
  BY <1>12, <1>13

\* Every step keeps the counts of the entries.
LEMMA CountsStep ==
  ASSUME StageInv, HookTypes, TableTypes, TableTypes', RefsInv, RefsInv', CallsInv, LeakInv, TakenAway, CountsHeld,
         [Next]_vars
  PROVE  CountsHeld'
<1>1. ASSUME NEW t \in Threads, Hooks(t) PROVE CountsHeld'
  BY <1>1, HookKeepsCounts
<1>2. /\ stacks \subseteq EntryIds
      /\ \A n \in EntryIds : n \in Nat /\ n # 0 /\ entry[n] \in EntryRecords
      /\ tally \in Tallies
  BY HeapAssumption DEF TableTypes, EntryIds
<1>3. ASSUME NEW n PROVE Cardinality(Owned(n)) \in Nat /\ Cardinality(Taken(n)) \in Nat
  BY TakenIsFinite
\* No hook of the application takes the step.
<1>4. ASSUME UNCHANGED <<blocks, stacks>>, tally'.unknown = tally.unknown,
             \A n \in stacks : entry'[n].live = entry[n].live /\ entry'[n].allocs = entry[n].allocs,
             \A u \in Threads : hook'[u] = hook[u] \/ ~Holding(u)',
             \A u \in Threads : Late(u) /\ Holding(u)' => Late(u)',
             window'.straddled = window.straddled
      PROVE  CountsHeld'
  <2>1. ASSUME NEW n PROVE Owned(n)' = Owned(n) /\ Cardinality(Taken(n)') <= Cardinality(Taken(n)) /\ Cardinality(Taken(n)') \in Nat
    <3>1. Owned(n)' = Owned(n)
      BY <1>4 DEF Owned
    <3>2. Taken(n)' \in SUBSET Taken(n)
      BY <1>4 DEF Taken, Holding
    <3>3. QED
      BY <3>1, <3>2, TakenIsFinite, FS_Subset, FS_CardinalityType
  <2>2. ASSUME NEW n \in stacks \cup {0} PROVE Bound(n)' = Bound(n) /\ Bound(n) \in Int
    BY <1>2, <1>4 DEF Bound, Tallies, EntryRecords
  <2>3. SUFFICES ASSUME ~window.straddled
                 PROVE  /\ \A n \in stacks : entry'[n].live = Cardinality(Owned(n)')
                        /\ \A n \in stacks \cup {0} : Cardinality(Owned(n)') + Cardinality(Taken(n)') <= Bound(n)'
    BY <1>4 DEF CountsHeld
  <2>4. /\ \A n \in stacks : entry[n].live = Cardinality(Owned(n))
        /\ \A n \in stacks \cup {0} : Cardinality(Owned(n)) + Cardinality(Taken(n)) <= Bound(n)
    BY <2>3 DEF CountsHeld
  <2>5. ASSUME NEW n \in stacks \cup {0} PROVE Cardinality(Owned(n)') + Cardinality(Taken(n)') <= Bound(n)'
    BY <1>3, <2>1, <2>2, <2>4
  <2>6. QED
    BY <1>4, <2>1, <2>4, <2>5
<1>5. ASSUME NEW t \in Threads, Call(t) PROVE CountsHeld'
  <2>1. \A u \in Threads \ {t} : hook'[u] = hook[u]
    BY <1>5, OthersStay
  <2>2. hook'[t].pc = "gate" /\ UNCHANGED <<blocks, stacks, entry, tally, window, told, final>>
    BY <1>5 DEF Call, HookTypes, Out, ledger, control
  <2>3. ~Holding(t)'
    BY <2>2 DEF Holding
  <2>4. \A u \in Threads \ {t} : Late(u)' = Late(u)
    BY <2>1, <2>2 DEF Late
  <2>5. QED
    BY <1>4, <2>1, <2>2, <2>3, <2>4
<1>6. ASSUME NEW t \in Threads, Fork(t) PROVE CountsHeld'
  <2>1. \A u \in Threads : ~Holding(u)'
    BY <1>6 DEF Fork, Out, Holding
  <2>2. UNCHANGED <<blocks, stacks, entry, window>> /\ tally'.unknown = tally.unknown
    BY <1>2, <1>6 DEF Fork, Tallies
  <2>3. QED
    BY <1>4, <2>1, <2>2
<1>7. CASE Open
  <2>1. /\ DOMAIN blocks' = {} /\ stacks' = Kept /\ hook' = hook /\ told' = told
        /\ entry' = [n \in EntryIds |-> IF n \in Kept THEN [entry[n] EXCEPT !.allocs = 0, !.live = 0] ELSE entry[n]]
        /\ tally' = Zero
    BY <1>7 DEF Open, Cleared
  <2>2. told.kind = "END"
    BY <1>7 DEF Open, Asleep, StageInv, Staged
  <2>3. ASSUME NEW n PROVE Cardinality(Owned(n)') = 0 /\ Cardinality(Taken(n)') = 0
    <3>1. Owned(n)' = {} /\ Taken(n)' = {}
      BY <2>1, <2>2 DEF Owned, Taken, Late
    <3>2. QED
      BY <3>1, FS_EmptySet
  <2>4. ASSUME NEW n \in stacks' PROVE entry'[n].live = 0 /\ entry'[n].allocs = 0
    <3>1. n \in EntryIds /\ n \in Kept
      BY <1>2, <2>1 DEF Kept
    <3>2. entry'[n] = [entry[n] EXCEPT !.allocs = 0, !.live = 0] /\ entry[n] \in EntryRecords
      BY <1>2, <2>1, <3>1
    <3>3. QED
      BY <3>2, ResetEntry
  <2>5. tally'.unknown = 0
    BY <2>1 DEF Zero
  <2>6. QED
    BY <2>3, <2>4, <2>5 DEF CountsHeld, Bound
<1>8. CASE Announce \/ ReportEnd \/ Aggregate
  <2>1. UNCHANGED <<blocks, stacks, entry, tally, window, hook>>
    BY <1>8 DEF Announce, ReportEnd, Aggregate, ledger
  <2>2. ASSUME NEW u \in Threads, Late(u) PROVE Late(u)'
    <3>1. CASE Announce
      <4>1. told.id \in Nat /\ hook[u].w \in Nat /\ hook[u].w <= told.id
        BY DEF StageInv, StageTypes, CallsInv, HookTypes, HookRecords
      <4>2. told'.id = told.id + 1
        BY <3>1 DEF Announce
      <4>3. QED
        BY <2>1, <4>1, <4>2 DEF Late
    <3>2. CASE ReportEnd
      BY <3>2 DEF ReportEnd, Late, StageInv, StageTypes
    <3>3. CASE Aggregate
      BY <2>1, <2>2, <3>3 DEF Aggregate, Late, StageInv, Staged
    <3>4. QED
      BY <1>8, <3>1, <3>2, <3>3
  <2>3. QED
    BY <1>4, <2>1, <2>2
<1>9. CASE OpenGate \/ Close \/ Join \/ Closed \/ Freeze \/ Survey \/ Thaw \/ Thawed \/ Copied
  <2>1. UNCHANGED <<blocks, stacks, entry, tally, hook, told, final>> /\ window'.straddled = window.straddled
    BY <1>9 DEF OpenGate, Close, Join, Closed, Freeze, Survey, Thaw, Thawed, Copied, ledger, LeakInv, Windows
  <2>2. \A u \in Threads : Late(u)' = Late(u)
    BY <2>1 DEF Late
  <2>3. QED
    BY <1>4, <2>1, <2>2
<1>10. CASE Sample \/ Sampled
  <2>1. UNCHANGED <<blocks, stacks, tally, hook, told, final, window>>
    BY <1>10 DEF Sample, Sampled
  <2>2. ASSUME NEW n \in stacks PROVE entry'[n].live = entry[n].live /\ entry'[n].allocs = entry[n].allocs
    <3>1. n \in EntryIds /\ entry[n] \in EntryRecords
      BY <1>2
    <3>2. \/ entry'[n] = entry[n] \/ entry'[n] = [entry[n] EXCEPT !.refs = @ + 1]
          \/ entry'[n] = [entry[n] EXCEPT !.refs = @ - 1]
      BY <1>10, <3>1 DEF Sample, Sampled
    <3>3. QED
      BY <3>1, <3>2, ResetEntry
  <2>3. \A u \in Threads : Late(u)' = Late(u)
    BY <2>1 DEF Late
  <2>4. QED
    BY <1>4, <2>1, <2>2, <2>3
<1>11. CASE Ask \/ Ready \/ MainStarts \/ Exit \/ UNCHANGED vars
  <2>1. UNCHANGED <<blocks, stacks, entry, tally, hook, told, final, window>>
    BY <1>11 DEF Ask, Ready, MainStarts, Exit, vars, ledger, control
  <2>2. \A u \in Threads : Late(u)' = Late(u)
    BY <2>1 DEF Late
  <2>3. QED
    BY <1>4, <2>1, <2>2
<1>12. QED
  BY <1>1, <1>5, <1>6, <1>7, <1>8, <1>9, <1>10, <1>11 DEF Next, Service

\* A hook changes the sums with the ledgers, in a window whose frees were all seen.
LEMMA HookKeepsSums ==
  ASSUME StageInv, HookTypes, TableTypes, RefsInv, LeakInv, TakenAway, Fresh, SumsHeld,
         NEW t \in Threads, Hooks(t)
  PROVE  SumsHeld'
<1> SUFFICES ASSUME Clean', ~gate'.forked
             PROVE  /\ tally'.alloc = tally'.freed + tally'.skipped + Cardinality(DOMAIN blocks') + Cardinality(overflow')
                    /\ tally'.into - tally'.outOf = Cardinality(overflow')
                    /\ overflow' \cap DOMAIN blocks' = {}
  BY DEF SumsHeld
<1> USE DEF At, HookTypes
<1>1. PICK a : a = hook[t].a
  OBVIOUS
<1>2. Clean /\ ~gate.forked
  BY HooksKeepStages, WindowMoves DEF LeakInv
<1>3. /\ tally.alloc = tally.freed + tally.skipped + Cardinality(DOMAIN blocks) + Cardinality(overflow)
      /\ tally.into - tally.outOf = Cardinality(overflow)
      /\ overflow \cap DOMAIN blocks = {}
  BY <1>2 DEF SumsHeld
<1>4. /\ tally \in Tallies
      /\ tally.alloc \in Int /\ tally.freed \in Int /\ tally.skipped \in Int /\ tally.into \in Int /\ tally.outOf \in Int
      /\ IsFiniteSet(DOMAIN blocks) /\ IsFiniteSet(overflow)
      /\ 0 \in Int /\ 1 \in Int /\ -1 \in Int
  BY DEF TableTypes, Tallies
<1> DEFINE D == Ind(a \in DOMAIN blocks') - Ind(a \in DOMAIN blocks)
           O == Ind(a \in overflow') - Ind(a \in overflow)
           Goal == /\ tally'.alloc = tally'.freed + tally'.skipped + Cardinality(DOMAIN blocks') + Cardinality(overflow')
                   /\ tally'.into - tally'.outOf = Cardinality(overflow')
                   /\ overflow' \cap DOMAIN blocks' = {}
<1> SUFFICES Goal
  OBVIOUS
\* The counters of the window move as the ledgers do.
<1>5. ASSUME NEW al \in Int, NEW fr \in Int, NEW un \in Int, NEW sk \in Int, NEW into \in Int, NEW outOf \in Int,
             Counts(tally', tally, al, fr, un, sk, into, outOf),
             DOMAIN blocks' \ {a} = DOMAIN blocks \ {a}, overflow' \ {a} = overflow \ {a},
             ~(a \in DOMAIN blocks' /\ a \in overflow'),
             al - fr - sk = D + O, into - outOf = O
      PROVE  Goal
  <2>1. /\ Cardinality(DOMAIN blocks') = Cardinality(DOMAIN blocks) - Ind(a \in DOMAIN blocks) + Ind(a \in DOMAIN blocks')
        /\ Cardinality(DOMAIN blocks) \in Nat
    BY <1>4, <1>5, OneMoves
  <2>2. /\ Cardinality(overflow') = Cardinality(overflow) - Ind(a \in overflow) + Ind(a \in overflow')
        /\ Cardinality(overflow) \in Nat
    BY <1>4, <1>5, OneMoves, Zenon
  <2>3. PICK d \in Int, o \in Int : d = D /\ o = O
    <3>1. D \in Int /\ O \in Int
      BY DEF Ind
    <3> HIDE DEF D, O
    <3>2. QED
      BY <3>1
  <2>4. /\ Cardinality(DOMAIN blocks') = Cardinality(DOMAIN blocks) + d
        /\ Cardinality(overflow') = Cardinality(overflow) + o
    <3>1. /\ Ind(a \in DOMAIN blocks) \in Int /\ Ind(a \in DOMAIN blocks') \in Int
          /\ Ind(a \in overflow) \in Int /\ Ind(a \in overflow') \in Int
      BY DEF Ind
    <3>2. QED
      BY <2>1, <2>2, <2>3, <3>1
  <2>5. /\ tally'.alloc = tally.alloc + al /\ tally'.freed = tally.freed + fr /\ tally'.skipped = tally.skipped + sk
        /\ tally'.into = tally.into + into /\ tally'.outOf = tally.outOf + outOf
    BY <1>5 DEF Counts
  <2>6. al - fr - sk = d + o /\ into - outOf = o
    BY <1>5, <2>3
  <2>7. overflow' \cap DOMAIN blocks' = {}
    BY <1>3, <1>5
  <2> HIDE DEF D, O
  <2>8. tally'.alloc = tally'.freed + tally'.skipped + Cardinality(DOMAIN blocks') + Cardinality(overflow')
    <3>1. tally.alloc = tally.freed + tally.skipped + Cardinality(DOMAIN blocks) + Cardinality(overflow)
      BY <1>3
    <3>2. al = fr + sk + d + o
      BY <2>6
    <3>3. QED
      BY <1>4, <2>1, <2>2, <2>4, <2>5, <3>1, <3>2
  <2>9. tally'.into - tally'.outOf = Cardinality(overflow')
    BY <1>3, <1>4, <2>2, <2>4, <2>5, <2>6
  <2>10. QED
    BY <2>7, <2>8, <2>9
<1>6. ASSUME NEW al \in Int, NEW un \in Int, NEW sk \in Int, Counts(tally', tally, al, 0, un, sk, 0, 0), al = sk,
             UNCHANGED <<blocks, overflow>>
      PROVE  Goal
  <2>1. D = 0 /\ O = 0
    BY <1>6 DEF Ind
  <2>2. al - 0 - sk = D + O /\ 0 - 0 = O
    BY <1>6, <2>1
  <2>3. DOMAIN blocks' \ {a} = DOMAIN blocks \ {a} /\ overflow' \ {a} = overflow \ {a}
    BY <1>6
  <2>4. ~(a \in DOMAIN blocks' /\ a \in overflow')
    BY <1>3, <1>6
  <2> HIDE DEF D, O, Goal
  <2>5. QED
    BY <1>4, <1>5, <1>6, <2>2, <2>3, <2>4, Zenon
<1>7. ASSUME UNCHANGED <<blocks, overflow>>,
             tally' = tally \/ tally' = [tally EXCEPT !.alloc = @ + 1, !.skipped = @ + 1]
      PROVE  Goal
  <2> HIDE DEF D, O, Goal
  <2>1. CASE tally' = tally
    <3>1. Counts(tally', tally, 0, 0, 0, 0, 0, 0)
      BY <1>4, <2>1, OneCounter, Zenon
    <3>2. QED
      BY <1>4, <1>6, <1>7, <3>1, Zenon
  <2>2. CASE tally' = [tally EXCEPT !.alloc = @ + 1, !.skipped = @ + 1]
    <3>1. Counts(tally', tally, 1, 0, 0, 1, 0, 0)
      BY <1>4, <2>2, TwoCounters, Zenon
    <3>2. QED
      BY <1>4, <1>6, <1>7, <3>1, Zenon
  <2>3. QED
    BY <1>7, <2>1, <2>2
\* What does not touch a ledger.
<1>8. CASE Bypass(t) \/ Enter(t) \/ PassOver(t) \/ LookupStack(t) \/ Unattributed(t) \/ Dispose(t) \/ CaptureNothing(t)
  <2> HIDE DEF D, O, Goal
  <2>1. UNCHANGED <<blocks, overflow>>
    BY <1>8 DEF Bypass, Enter, PassOver, LookupStack, Unattributed, Dispose, CaptureNothing, ledger
  <2>2. tally' = tally \/ tally' = [tally EXCEPT !.alloc = @ + 1, !.skipped = @ + 1]
    BY <1>8 DEF Bypass, Enter, PassOver, LookupStack, Unattributed, Dispose, CaptureNothing, ledger
  <2>3. QED
    BY <1>7, <2>1, <2>2
<1>9. CASE Release(t) \/ Moved(t) \/ Refused(t) \/ LoseSight(t)
  <2> HIDE DEF D, O, Goal
  <2>1. UNCHANGED <<blocks, overflow, tally>>
    BY <1>9 DEF Release, Moved, Refused, LoseSight, ledger
  <2>2. QED
    BY <1>7, <2>1
<1>10. CASE Register(t)
  <2> HIDE DEF D, O, Goal
  <2>1. UNCHANGED <<blocks, overflow>>
    BY <1>10 DEF Register
  <2>2. tally' = tally \/ \E n \in stacks : tally' = [tally EXCEPT !.unknown = @ + entry[n].allocs]
    BY <1>10 DEF Register, Dead
  <2>3. ASSUME NEW n \in stacks, tally' = [tally EXCEPT !.unknown = @ + entry[n].allocs] PROVE Goal
    <3>1. entry[n].allocs \in Int
      BY HeapAssumption DEF TableTypes, EntryIds, EntryRecords
    <3>2. Counts(tally', tally, 0, 0, entry[n].allocs, 0, 0, 0)
      BY <1>4, <2>3, <3>1, OneCounter, Zenon
    <3>3. QED
      BY <1>4, <1>6, <2>1, <3>1, <3>2, Zenon
  <2>4. QED
    BY <1>7, <2>1, <2>2, <2>3
\* A block that nobody recorded goes into the overflow ledger.
<1>11. CASE InsertElsewhere(t)
  <2>1. CASE UNCHANGED overflow /\ (tally' = tally \/ tally' = [tally EXCEPT !.alloc = @ + 1, !.skipped = @ + 1])
    <3> HIDE DEF D, O, Goal
    <3>1. UNCHANGED blocks
      BY <1>11 DEF InsertElsewhere
    <3>2. QED
      BY <1>7, <2>1, <3>1
  <2>2. CASE gate.enabled /\ overflow' = overflow \cup {a} /\ tally' = [tally EXCEPT !.alloc = @ + 1, !.into = @ + 1]
    <3>1. a \notin DOMAIN blocks /\ a \notin overflow /\ blocks' = blocks
      BY <1>1, <1>2, <1>11, <2>2 DEF InsertElsewhere, Fresh, Ledgers
    <3>2. D = 0 /\ O = 1
      BY <2>2, <3>1 DEF Ind
    <3>3. 1 - 0 - 0 = D + O /\ 1 - 0 = O
      BY <3>2
    <3>4. Counts(tally', tally, 1, 0, 0, 0, 1, 0)
      BY <1>4, <2>2, TwoCounters, Zenon
    <3>5. /\ DOMAIN blocks' \ {a} = DOMAIN blocks \ {a} /\ overflow' \ {a} = overflow \ {a}
          /\ ~(a \in DOMAIN blocks' /\ a \in overflow')
      BY <2>2, <3>1
    <3> HIDE DEF D, O, Goal
    <3>6. QED
      BY <1>4, <1>5, <3>3, <3>4, <3>5, Zenon
  <2> HIDE DEF Goal
  <2>3. QED
    BY <1>1, <1>11, <2>1, <2>2 DEF InsertElsewhere, Divert, Admitted
\* A block that nobody recorded goes into the table.
<1>12. CASE Insert(t)
  <2>1. a \notin DOMAIN blocks /\ a \notin overflow
    BY <1>1, <1>2, <1>12 DEF Insert, Admitted, Fresh, Ledgers
  <2>2. blocks' = With(a, hook[t].own) /\ overflow' = overflow \ {a}
    BY <1>1, <1>12 DEF Insert
  <2>3. DOMAIN blocks' = DOMAIN blocks \cup {a} /\ overflow' = overflow
    BY <2>1, <2>2 DEF With
  <2>4. tally' = [tally EXCEPT !.alloc = @ + 1, !.freed = IF Stale(a) THEN @ + 1 ELSE @,
                               !.unknown = IF hook[t].own = 0 THEN @ + 1 ELSE @]
    BY <1>1, <1>12 DEF Insert
  <2>5. Counts(tally', tally, 1, Ind(Stale(a)), Ind(hook[t].own = 0), 0, 0, 0)
    BY <1>4, <2>4, StoredCounters, Zenon
  <2>6. D = 1 /\ O = 0 /\ Ind(Stale(a)) = 0
    BY <2>1, <2>3 DEF Ind, Stale
  <2>7. 1 - 0 - 0 = D + O /\ 0 - 0 = O
    BY <2>6
  <2>8. PICK un \in Int : un = Ind(hook[t].own = 0)
    BY DEF Ind
  <2>9. Counts(tally', tally, 1, 0, un, 0, 0, 0)
    BY <2>5, <2>6, <2>8
  <2>10. /\ DOMAIN blocks' \ {a} = DOMAIN blocks \ {a} /\ overflow' \ {a} = overflow \ {a}
         /\ ~(a \in DOMAIN blocks' /\ a \in overflow')
    BY <2>1, <2>3
  <2> HIDE DEF D, O, Goal
  <2>11. QED
    BY <1>4, <1>5, <2>7, <2>9, <2>10, Zenon
<1>13. CASE Capture(t)
  <2>1. a \in DOMAIN blocks /\ a \notin overflow /\ blocks' = Without(a) /\ overflow' = overflow \ {a}
    BY <1>1, <1>3, <1>13 DEF Capture
  <2>2. DOMAIN blocks' = DOMAIN blocks \ {a} /\ overflow' = overflow
    BY <2>1 DEF Without
  <2>3. tally' = [tally EXCEPT !.freed = @ + 1]
    BY <1>13 DEF Capture
  <2>4. Counts(tally', tally, 0, 1, 0, 0, 0, 0)
    BY <1>4, <2>3, OneCounter, Zenon
  <2>5. D = -1 /\ O = 0
    BY <2>1, <2>2 DEF Ind
  <2>6. 0 - 1 - 0 = D + O /\ 0 - 0 = O
    BY <2>5
  <2>7. /\ DOMAIN blocks' \ {a} = DOMAIN blocks \ {a} /\ overflow' \ {a} = overflow \ {a}
        /\ ~(a \in DOMAIN blocks' /\ a \in overflow')
    BY <2>1, <2>2
  <2> HIDE DEF D, O, Goal
  <2>8. QED
    BY <1>4, <1>5, <2>4, <2>6, <2>7, Zenon
<1>14. CASE CaptureOverflow(t)
  <2>1. a \notin DOMAIN blocks /\ a \in overflow /\ blocks' = blocks /\ overflow' = overflow \ {a}
    BY <1>1, <1>14 DEF CaptureOverflow
  <2>2. tally' = [tally EXCEPT !.freed = @ + 1, !.outOf = @ + 1]
    BY <1>14 DEF CaptureOverflow
  <2>3. Counts(tally', tally, 0, 1, 0, 0, 0, 1)
    BY <1>4, <2>2, TwoCounters, Zenon
  <2>4. D = 0 /\ O = -1
    BY <2>1 DEF Ind
  <2>5. 0 - 1 - 0 = D + O /\ 0 - 1 = O
    BY <2>4
  <2>6. /\ DOMAIN blocks' \ {a} = DOMAIN blocks \ {a} /\ overflow' \ {a} = overflow \ {a}
        /\ ~(a \in DOMAIN blocks' /\ a \in overflow')
    BY <2>1
  <2> HIDE DEF D, O, Goal
  <2>7. QED
    BY <1>4, <1>5, <2>3, <2>5, <2>6, Zenon
\* What a refused realloc puts back was in no ledger meanwhile.
<1>15. CASE Reinsert(t)
  <2>1. hook[t].from # "none" => a \notin DOMAIN blocks /\ a \notin overflow
    BY <1>1, <1>15 DEF Reinsert, TakenAway, Ledgers
  <2>2. CASE hook[t].from = "table" /\ blocks' = With(a, hook[t].own) /\ tally' = [tally EXCEPT !.freed = @ - 1] /\ UNCHANGED overflow
    <3>1. DOMAIN blocks' = DOMAIN blocks \cup {a}
      BY <2>2 DEF With
    <3>2. Counts(tally', tally, 0, -1, 0, 0, 0, 0)
      BY <1>4, <2>2, OneCounter, Zenon
    <3>3. D = 1 /\ O = 0
      BY <2>1, <2>2, <3>1 DEF Ind
    <3>4. 0 - (-1) - 0 = D + O /\ 0 - 0 = O
      BY <3>3
    <3>5. /\ DOMAIN blocks' \ {a} = DOMAIN blocks \ {a} /\ overflow' \ {a} = overflow \ {a}
          /\ ~(a \in DOMAIN blocks' /\ a \in overflow')
      BY <2>1, <2>2, <3>1
    <3> HIDE DEF D, O, Goal
    <3>6. QED
      BY <1>4, <1>5, <3>2, <3>4, <3>5, Zenon
  <2>3. CASE UNCHANGED <<blocks, overflow, tally>>
    <3> HIDE DEF D, O, Goal
    <3>1. QED
      BY <1>7, <2>3
  <2>4. CASE hook[t].from = "table" /\ overflow' = overflow \cup {a} /\ tally' = [tally EXCEPT !.freed = @ - 1, !.into = @ + 1]
             /\ UNCHANGED blocks
    <3>1. Counts(tally', tally, 0, -1, 0, 0, 1, 0)
      BY <1>4, <2>4, TwoCounters, Zenon
    <3>2. D = 0 /\ O = 1
      BY <2>1, <2>4 DEF Ind
    <3>3. 0 - (-1) - 0 = D + O /\ 1 - 0 = O
      BY <3>2
    <3>4. /\ DOMAIN blocks' \ {a} = DOMAIN blocks \ {a} /\ overflow' \ {a} = overflow \ {a}
          /\ ~(a \in DOMAIN blocks' /\ a \in overflow')
      BY <2>1, <2>4
    <3> HIDE DEF D, O, Goal
    <3>5. QED
      BY <1>4, <1>5, <3>1, <3>3, <3>4, Zenon
  <2>5. CASE hook[t].from = "overflow" /\ overflow' = overflow \cup {a} /\ tally' = [tally EXCEPT !.freed = @ - 1, !.outOf = @ - 1]
             /\ UNCHANGED blocks
    <3>1. Counts(tally', tally, 0, -1, 0, 0, 0, -1)
      BY <1>4, <2>5, TwoCounters, Zenon
    <3>2. D = 0 /\ O = 1
      BY <2>1, <2>5 DEF Ind
    <3>3. 0 - (-1) - 0 = D + O /\ 0 - (-1) = O
      BY <3>2
    <3>4. /\ DOMAIN blocks' \ {a} = DOMAIN blocks \ {a} /\ overflow' \ {a} = overflow \ {a}
          /\ ~(a \in DOMAIN blocks' /\ a \in overflow')
      BY <2>1, <2>5
    <3> HIDE DEF D, O, Goal
    <3>5. QED
      BY <1>4, <1>5, <3>1, <3>3, <3>4, Zenon
  <2> HIDE DEF Goal
  <2>6. QED
    BY <1>1, <1>15, <2>2, <2>3, <2>4, <2>5 DEF Reinsert
<1> HIDE DEF Goal
<1>16. QED
  BY <1>8, <1>9, <1>10, <1>11, <1>12, <1>13, <1>14, <1>15 DEF Hooks

\* Every step keeps the sums.
LEMMA SumsStep ==
  ASSUME StageInv, HookTypes, TableTypes, RefsInv, LeakInv, TakenAway, Fresh, SumsHeld, [Next]_vars
  PROVE  SumsHeld'
<1>1. ASSUME NEW t \in Threads, Hooks(t) PROVE SumsHeld'
  BY <1>1, HookKeepsSums
<1>2. ASSUME UNCHANGED <<blocks, overflow, tally>>, gate'.forked = gate.forked, Clean' => Clean PROVE SumsHeld'
  BY <1>2 DEF SumsHeld
<1>3. ASSUME NEW t \in Threads, Call(t) PROVE SumsHeld'
  <2>1. UNCHANGED <<blocks, overflow, tally, gate, window>>
    BY <1>3 DEF Call, ledger, control
  <2>2. QED
    BY <1>2, <2>1 DEF Clean
<1>4. ASSUME NEW t \in Threads, Fork(t) PROVE SumsHeld'
  BY <1>4 DEF Fork, ChildGate, SumsHeld, StageInv, StageTypes, Gates
<1>5. CASE Open
  <2>1. DOMAIN blocks' = {} /\ overflow' = {} /\ tally' = Zero
    BY <1>5 DEF Open, Cleared
  <2>2. Cardinality(DOMAIN blocks') = 0 /\ Cardinality(overflow') = 0
    BY <2>1, FS_EmptySet
  <2>3. QED
    BY <2>1, <2>2 DEF SumsHeld, Zero
<1>6. CASE Freeze
  BY <1>6 DEF Freeze, SumsHeld, Clean, LeakInv, Windows
<1>7. CASE Announce \/ OpenGate \/ Close \/ Join \/ Aggregate \/ ReportEnd \/ Closed \/ Survey \/ Thaw \/ Thawed \/ Copied
  <2>1. UNCHANGED <<blocks, overflow, tally, window>> /\ gate'.forked = gate.forked
    BY <1>7 DEF Announce, OpenGate, Close, Join, Aggregate, ReportEnd, Closed, Survey, Thaw, Thawed, Copied, ledger,
                StageInv, StageTypes, Gates
  <2>2. QED
    BY <1>2, <2>1 DEF Clean
<1>8. CASE Ask \/ Ready \/ MainStarts \/ Exit \/ Sample \/ Sampled \/ UNCHANGED vars
  <2>1. UNCHANGED <<blocks, overflow, tally, window>> /\ gate'.forked = gate.forked
    BY <1>8 DEF Ask, Ready, MainStarts, Exit, Sample, Sampled, vars, ledger, control, StageInv, StageTypes, Gates
  <2>2. QED
    BY <1>2, <2>1 DEF Clean
<1>9. QED
  BY <1>1, <1>3, <1>4, <1>5, <1>6, <1>7, <1>8 DEF Next, Service

\* Everything that keeps the books of a window.
LedgerInv ==
  /\ TableInv /\ CallsInv /\ LeakInv
  /\ TakenAway /\ Fresh /\ CountsHeld /\ SumsHeld

\* The first state has empty books.
LEMMA InitLedgers == Init => LedgerInv
<1> SUFFICES ASSUME Init PROVE LedgerInv
  OBVIOUS
<1>1. CallsInv /\ LeakInv
  BY DEF Init, CallsInv, Out, LeakInv, Calm, Windows, Opening, Snapshot
<1>2. TakenAway /\ Fresh
  BY DEF Init, TakenAway, Fresh, Out
<1>3. CountsHeld
  <2>1. Owned(0) = {} /\ Taken(0) = {} /\ stacks = {} /\ tally.unknown = 0
    BY DEF Init, Owned, Taken, Holding, Out, Zero
  <2>2. QED
    BY <2>1, FS_EmptySet DEF CountsHeld, Bound
<1>4. SumsHeld
  <2>1. DOMAIN blocks = {} /\ overflow = {} /\ tally = Zero
    BY DEF Init
  <2>2. QED
    BY <2>1, FS_EmptySet DEF SumsHeld, Zero
<1>5. QED
  BY <1>1, <1>2, <1>3, <1>4, InitTables DEF LedgerInv

\* Every step keeps them.
LEMMA LedgerStep == LedgerInv /\ [Next]_vars => LedgerInv'
<1> SUFFICES ASSUME LedgerInv, [Next]_vars PROVE LedgerInv'
  OBVIOUS
<1> USE DEF LedgerInv
<1>1. TableInv'
  BY TableStep
<1>2. CallsInv' /\ LeakInv'
  BY CallsStep, LeakStep DEF TableInv
<1>3. TakenAway' /\ Fresh'
  BY TakenAwayStep, FreshStep DEF TableInv
<1>4. CountsHeld' /\ SumsHeld'
  BY <1>1, CountsStep, SumsStep DEF TableInv
<1>5. QED
  BY <1>1, <1>2, <1>3, <1>4

\* What the invariant says of the books of a window.
LEMMA LedgerIsExact == LedgerInv => BooksAreExact
<1> SUFFICES ASSUME LedgerInv PROVE BooksAreExact
  OBVIOUS
<1> USE DEF LedgerInv, TableInv
<1>1. TypeOK
  <2>1. \A n \in EntryIds : entry[n].refs \in Nat
    BY DEF RefsInv
  <2>2. \A f \in DOMAIN tally : tally[f] \in Int
    BY DEF TableTypes, Tallies
  <2>3. stacks \subseteq 1..made /\ sampler.pinned \subseteq 1..made
    BY DEF TableTypes, RefsInv, OwnersStay
  <2>4. QED
    BY <2>1, <2>2, <2>3 DEF TableTypes, TypeOK
<1>2. LedgerExact
  <2> SUFFICES ASSUME ~window.straddled PROVE LedgerExact
    BY DEF LedgerExact
  <2>1. /\ \A n \in stacks : entry[n].live = Cardinality(Owned(n))
        /\ \A n \in stacks \cup {0} : Cardinality(Owned(n)) + Cardinality(Taken(n)) <= Bound(n)
    BY DEF CountsHeld
  <2>2. ASSUME NEW n PROVE Cardinality(Owned(n)) \in Nat /\ Cardinality(Taken(n)) \in Nat
    BY TakenIsFinite
  <2>3. ASSUME NEW n \in stacks PROVE entry[n].live <= entry[n].allocs
    <3>1. n \in EntryIds /\ n # 0 /\ entry[n].allocs \in Int
      BY HeapAssumption DEF TableTypes, EntryIds, EntryRecords
    <3>2. Cardinality(Owned(n)) + Cardinality(Taken(n)) <= entry[n].allocs /\ entry[n].live = Cardinality(Owned(n))
      BY <2>1, <3>1 DEF Bound
    <3>3. QED
      BY <2>2, <3>1, <3>2
  <2>4. Cardinality(Owned(0)) <= tally.unknown
    <3>1. Cardinality(Owned(0)) + Cardinality(Taken(0)) <= tally.unknown /\ tally.unknown \in Int
      BY <2>1 DEF Bound, TableTypes, Tallies
    <3>2. QED
      BY <2>2, <3>1
  <2>5. QED
    BY <2>1, <2>3, <2>4 DEF LedgerExact, SumsHeld, Clean
<1>3. QED
  BY <1>1, <1>2 DEF BooksAreExact

\* What a window allocated is what it freed, passed over and still holds, in the
\* table and in the overflow ledger, and stack by stack, for every interleaving of
\* the hooks with evictions, snapshots and the opening of the next window (the
\* counters of host_mem_hooks.cpp).
THEOREM BooksStayExact == Spec => []BooksAreExact
BY InitLedgers, LedgerStep, LedgerIsExact, PTL DEF Spec
=============================================================================
