--------------------------- MODULE TracePipeline ---------------------------
(***************************************************************************)
(* The same pipeline between threads.  Any thread of the application may   *)
(* be inside the halMemAlloc or halMemFree hook, and the control thread    *)
(* may start or stop tracing meanwhile (src/csrc/event_trace/hal_hooks,    *)
(* event_trace/trace_manager, framework/process.cpp).                      *)
(*                                                                         *)
(* Three locks order the steps: mutex_ of EventReport guards halPtrs_,     *)
(* processMutex_ (router) is held for a whole event, mtx_ of               *)
(* MemoryStateManager only for one table operation.  Promotion takes mtx_  *)
(* alone, so it runs between the table operations of an event whose        *)
(* thread still holds a MemoryState pointer; a pointer is modelled by the  *)
(* id of the block it points to.                                           *)
(***************************************************************************)
EXTENDS MemoryStates

CONSTANTS
  Hooks,            \* application threads
  Reuses,           \* when drivers hand an address out again, see MayReuse
  Restarts,         \* TRUE: the control thread starts and stops tracing
  MaxAllocations,   \* bound on the allocations of the application
  MaxStarts         \* bound on the starts of the control thread

None == "none"
Ctl  == "ctl"

\* The hooks are the driver's: its pools are those whose FREE takes its size from
\* the block.
ASSUME PipelineAssumption ==
  /\ Pools \subseteq BackfillPools
  /\ None \notin Hooks
  /\ Reuses \subseteq {"never", "reported", "early"}
  /\ Restarts \in BOOLEAN
  /\ MaxAllocations \in Nat /\ MaxStarts \in Nat

\* One id per allocation, and at most one for a ghost of its FREE.
Ids == 1..(2 * MaxAllocations)

VARIABLES
  heap,        \* the driver's live allocations, with their sizes
  past,        \* keys the driver handed out before
  allocations, \* how often it did
  reuse,       \* its policy
  registered,  \* halPtrs_, as keys
  status,      \* EventTraceStatus
  states,      \* the table of blocks
  count,       \* MemoryState::count
  used,        \* current usage
  writes,      \* times the dump wrote a block
  pc,          \* per hook: where its call is
  job,         \* per hook: the event it reports and the state it points to
  router,      \* owner of processMutex_
  mtx,         \* owner of mtx_, when held over a step
  ctl,         \* where the control thread is
  starts,      \* starts so far
  calm         \* no hook was under way during the last start

driver  == <<heap, past, allocations, reuse>>
table   == <<states, count, used, writes>>
calls   == <<pc, job, registered>>
control == <<status, ctl, starts, mtx>>
vars    == <<driver, table, calls, control, router, calm>>

NoJob == [kind |-> "MALLOC", key |-> <<>>, size |-> 0, shadow |-> FALSE, hold |-> 0]

Idle(h) == pc[h] = "idle"
Goto(h, label) == pc' = [pc EXCEPT ![h] = label]
Forget(h) == job' = [job EXCEPT ![h] = NoJob]

\* A hook is inside a call of this kind for this key.
Busy(kind, k) == \E h \in Hooks : ~Idle(h) /\ job[h].kind = kind /\ job[h].key = k

\* The driver frees an address before its FREE is reported; whether another
\* thread gets it at once, after the report, or not at all.
MayReuse(k) ==
  CASE reuse = "early"    -> TRUE
    [] reuse = "reported" -> ~Busy("FREE", k)
    [] reuse = "never"    -> k \notin past

Starting == ctl \in {"promoting", "announce", "switch"}

-----------------------------------------------------------------------------
(* A hook up to the event: driver call, trace mode, registration *)

Call(h, kind, k, size) ==
  /\ Goto(h, "decide")
  /\ job' = [job EXCEPT ![h] = [NoJob EXCEPT !.kind = kind, !.key = k, !.size = size]]
  /\ calm' = (calm /\ ~Starting)
  /\ UNCHANGED <<registered, table, control, router>>

CallMalloc(h, k, size) ==
  /\ Idle(h)
  /\ \A j \in DOMAIN heap :
       AddrOf(k) + size <= AddrOf(j) \/ AddrOf(j) + heap[j] <= AddrOf(k)
  /\ MayReuse(k)
  /\ allocations < MaxAllocations
  /\ allocations' = allocations + 1
  /\ heap' = Put(heap, k, size)
  /\ past' = past \cup {k}
  /\ UNCHANGED reuse
  /\ Call(h, "MALLOC", k, size)

\* The application knows an address only after the allocating call returned.
CallFree(h, k) ==
  /\ Idle(h)
  /\ k \in DOMAIN heap
  /\ ~Busy("MALLOC", k)
  /\ heap' = Delete(heap, k)
  /\ UNCHANGED <<past, allocations, reuse>>
  /\ Call(h, "FREE", k, 0)

\* DetermineTraceMode
Decide(h) ==
  /\ pc[h] = "decide"
  /\ job' = [job EXCEPT ![h].shadow = status # "IN_TRACING"]
  /\ Goto(h, "register")
  /\ UNCHANGED <<driver, table, registered, control, router, calm>>

\* Mutant: a FREE leaves its address registered.
Register_KeepsFreed(h) ==
  /\ pc[h] = "register"
  /\ Goto(h, "send")
  /\ registered' = IF job[h].kind = "MALLOC" THEN registered \cup {job[h].key} ELSE registered
  /\ UNCHANGED <<driver, table, job, control, router, calm>>

\* halPtrs_, under mutex_: emplace, or find and erase; a FREE of an address that
\* is not registered is dropped.
Register(h) ==
  LET k == job[h].key
  IN /\ pc[h] = "register"
     /\ IF job[h].kind = "MALLOC"
        THEN registered' = registered \cup {k} /\ Goto(h, "send") /\ UNCHANGED job
        ELSE /\ registered' = registered \ {k}
             /\ IF k \in registered
                THEN Goto(h, "send") /\ UNCHANGED job
                ELSE Goto(h, "idle") /\ Forget(h)
     /\ UNCHANGED <<driver, table, control, router, calm>>

-----------------------------------------------------------------------------
(* SendEvent, under processMutex_ *)

Free == mtx = None

Return(h) == Goto(h, "idle") /\ Forget(h) /\ router' = None
Hold(h, n, label) ==
  /\ job' = [job EXCEPT ![h].hold = n]
  /\ Goto(h, label)

HeldKeys(h) == {k \in DOMAIN states : states[k].id = job[h].hold}

\* AddEvent of a MALLOC into table tbl whose key is vacant, and the end of the event.
AddMalloc(h, tbl) ==
  LET k == job[h].key
      s == IF job[h].shadow THEN "SHADOW_CREATED" ELSE "NORMAL"
  IN /\ count' = count + 1
     /\ states' = Put(tbl, k, NewBlock(count + 1, "MALLOC", job[h].size, s))
     /\ used' = IF job[h].shadow THEN used ELSE Charged(used, MeterOf(k), job[h].size)
     /\ UNCHANGED writes
     /\ Return(h)

\* Mutant: the event does not wait for processMutex_.
SendMalloc_Unlocked(h) ==
  /\ pc[h] = "send" /\ job[h].kind = "MALLOC" /\ Free
  /\ IF job[h].key \in DOMAIN states
     THEN router' = h /\ Goto(h, "residue") /\ UNCHANGED <<table, job>>
     ELSE AddMalloc(h, states)
  /\ UNCHANGED <<driver, registered, control, calm>>

\* A MALLOC event: its key is vacant, or a residual block has to go first.
SendMalloc(h) ==
  /\ pc[h] = "send" /\ job[h].kind = "MALLOC"
  /\ router = None /\ Free
  /\ IF job[h].key \in DOMAIN states
     THEN /\ router' = h
          /\ Goto(h, "residue")
          /\ UNCHANGED <<table, job>>
     ELSE AddMalloc(h, states)
  /\ UNCHANGED <<driver, registered, control, calm>>

\* A FREE event: AddEvent locates its block, or makes a ghost, and charges it.
SendFree(h) ==
  LET k == job[h].key
      found == Located(states, k, 0)
  IN /\ pc[h] = "send" /\ job[h].kind = "FREE"
     /\ router = None /\ Free
     /\ router' = h
     /\ IF found = {}
        THEN /\ count' = count + 1
             /\ states' = Put(states, k, NewBlock(count + 1, "FREE", 0, "NORMAL"))
             /\ UNCHANGED used
             /\ Hold(h, count + 1, "handle")
        ELSE \E j \in found :
               /\ states' = [states EXCEPT ![j] = WithEvent(@, "FREE")]
               /\ used' = IF job[h].shadow THEN used
                          ELSE Charged(used, MeterOf(j), -FreedSize(states, j, 0))
               /\ UNCHANGED count
               /\ Hold(h, states[j].id, "handle")
     /\ UNCHANGED <<driver, registered, writes, control, calm>>

\* CLEAN_UP of a residual block: GetState under mtx_.  Promotion may have
\* removed the block already; then there is nothing to write.
FindResidue(h) ==
  LET k == job[h].key
  IN /\ pc[h] = "residue" /\ Free
     /\ IF k \in DOMAIN states
        THEN Hold(h, states[k].id, "close")
        ELSE Goto(h, "erase") /\ UNCHANGED job
     /\ UNCHANGED <<driver, registered, table, control, router, calm>>

\* HandleCleanUpEvent reads and extends the block through its pointer, unlocked.
CloseResidue(h) ==
  /\ pc[h] = "close"
  /\ \E k \in HeldKeys(h) :
       IF states[k].shadow = "SHADOW_CREATED"
       THEN Goto(h, "erase") /\ UNCHANGED states
       ELSE /\ Goto(h, "dump")
            /\ states' = IF states[k].shadow = "SHADOW_FREED" THEN states
                         ELSE [states EXCEPT ![k] = WithEvent(@, "FREE")]
  /\ UNCHANGED <<driver, registered, job, count, used, writes, control, router, calm>>

\* HandleShadowEvent, or the dispatch of a traced FREE, through the pointer.
HandleFree(h) ==
  /\ pc[h] = "handle"
  /\ \E k \in HeldKeys(h) :
       IF ~job[h].shadow
       THEN Goto(h, "dump") /\ UNCHANGED <<states, job, router>>
       ELSE IF states[k].shadow = "SHADOW_CREATED"
            THEN Goto(h, "erase") /\ UNCHANGED <<states, job, router>>
            ELSE states' = [states EXCEPT ![k].shadow = "SHADOW_FREED"] /\ Return(h)
  /\ UNCHANGED <<driver, registered, count, used, writes, control, calm>>

\* Dump::EventHandle writes the block through the pointer.
DumpBlock(h) ==
  /\ pc[h] = "dump"
  /\ HeldKeys(h) # {}
  /\ writes' = [writes EXCEPT ![job[h].hold] = @ + 1]
  /\ Goto(h, "erase")
  /\ UNCHANGED <<driver, registered, job, states, count, used, control, router, calm>>

\* Mutant: processMutex_ stays locked.
EraseBlock_KeepsLock(h) ==
  /\ pc[h] = "erase" /\ Free /\ job[h].kind = "FREE"
  /\ states' = Delete(states, job[h].key)
  /\ Goto(h, "idle") /\ Forget(h)
  /\ UNCHANGED <<driver, registered, count, used, writes, router, control, calm>>

\* DeteleState under mtx_; a MALLOC is then added again (joined in one step).
EraseBlock(h) ==
  /\ pc[h] = "erase" /\ Free
  /\ IF job[h].kind = "MALLOC"
     THEN AddMalloc(h, Delete(states, job[h].key))
     ELSE /\ states' = Delete(states, job[h].key)
          /\ Return(h)
          /\ UNCHANGED <<count, used, writes>>
  /\ UNCHANGED <<driver, registered, control, calm>>

HookStep(h) ==
  \/ Decide(h) \/ Register(h)
  \/ SendMalloc(h) \/ SendFree(h)
  \/ FindResidue(h) \/ CloseResidue(h) \/ HandleFree(h) \/ DumpBlock(h) \/ EraseBlock(h)

-----------------------------------------------------------------------------
(* SetTraceStatus, on the control thread *)

\* PromoteShadowStates holds mtx_ while it writes through Dump, but neither
\* processMutex_ nor the dispatcher's lock.
StartBegin ==
  /\ Restarts /\ ctl = "idle" /\ Free
  /\ starts < MaxStarts
  /\ starts' = starts + 1
  /\ mtx' = Ctl
  /\ ctl' = "promoting"
  /\ calm' = \A h \in Hooks : Idle(h)
  /\ UNCHANGED <<driver, table, calls, router, status>>

Promote ==
  /\ ctl = "promoting"
  /\ states' = Promoted(states)
  /\ writes' = [n \in Ids |->
                  IF \E k \in Expired(states) : states[k].id = n THEN writes[n] + 1 ELSE writes[n]]
  /\ mtx' = None
  /\ ctl' = "announce"
  /\ UNCHANGED <<driver, calls, count, used, router, status, starts, calm>>

\* Mutant: TRACE_START does not rebuild the usage.
AnnounceStart_NoBaseline ==
  /\ ctl = "announce" /\ router = None /\ Free
  /\ ctl' = "switch"
  /\ UNCHANGED <<driver, calls, table, router, status, starts, mtx, calm>>

\* The TRACE_START event: SendEvent, ResetUsageBaseline.
AnnounceStart ==
  /\ ctl = "announce" /\ router = None /\ Free
  /\ used' = Baseline(states)
  /\ ctl' = "switch"
  /\ UNCHANGED <<driver, calls, states, count, writes, router, status, starts, mtx, calm>>

SwitchOn ==
  /\ ctl = "switch"
  /\ status' = "IN_TRACING"
  /\ ctl' = "idle"
  /\ UNCHANGED <<driver, calls, table, router, starts, mtx, calm>>

\* The TRACE_STOP event, the status, then WritePublicEventToFile.
AnnounceStop ==
  /\ Restarts /\ ctl = "idle" /\ router = None
  /\ status = "IN_TRACING"
  /\ ctl' = "stopped"
  /\ UNCHANGED <<driver, calls, table, router, status, starts, mtx, calm>>

SwitchOff ==
  /\ ctl = "stopped"
  /\ status' = "NOT_IN_TRACING"
  /\ ctl' = "flushing"
  /\ UNCHANGED <<driver, calls, table, router, starts, mtx, calm>>

Flushed ==
  /\ ctl = "flushing"
  /\ ctl' = "idle"
  /\ UNCHANGED <<driver, calls, table, router, status, starts, mtx, calm>>

ControlStep == Promote \/ AnnounceStart \/ SwitchOn \/ SwitchOff \/ Flushed

-----------------------------------------------------------------------------
Init ==
  /\ heap = <<>> /\ past = {} /\ allocations = 0 /\ reuse \in Reuses /\ registered = {}
  /\ status \in {"IN_TRACING", "NOT_IN_TRACING"}
  /\ states = <<>> /\ count = 0
  /\ used = [m \in Meters |-> 0]
  /\ writes = [n \in Ids |-> 0]
  /\ pc = [h \in Hooks |-> "idle"]
  /\ job = [h \in Hooks |-> NoJob]
  /\ router = None /\ mtx = None
  /\ ctl = "idle" /\ starts = 0
  /\ calm = TRUE

Next ==
  \/ \E h \in Hooks :
       \/ \E k \in Keys, size \in Sizes : CallMalloc(h, k, size)
       \/ \E k \in Keys : CallFree(h, k)
       \/ HookStep(h)
  \/ StartBegin \/ AnnounceStop \/ ControlStep

\* A thread inside a call runs on; nobody has to make a call.
Spec ==
  /\ Init /\ [][Next]_vars
  /\ \A h \in Hooks : WF_vars(HookStep(h))
  /\ WF_vars(ControlStep)
-----------------------------------------------------------------------------
(* Properties *)

TypeOK ==
  /\ IsPartial(heap, Keys, Sizes) /\ past \subseteq Keys /\ allocations \in 0..MaxAllocations /\ reuse \in Reuses
  /\ registered \subseteq Keys
  /\ status \in {"IN_TRACING", "NOT_IN_TRACING"}
  /\ IsTable(states) /\ count \in {0} \cup Ids
  /\ used \in [Meters -> Nat] /\ writes \in [Ids -> Nat]
  /\ pc \in [Hooks -> {"idle", "decide", "register", "send", "residue", "close", "handle", "dump", "erase"}]
  /\ \A h \in Hooks : job[h].hold \in {0} \cup Ids /\ (~Idle(h) => job[h].key \in Keys)
  /\ router \in Hooks \cup {None} /\ mtx \in {None, Ctl}
  /\ ctl \in {"idle", "promoting", "announce", "switch", "stopped", "flushing"}
  /\ starts \in 0..MaxStarts /\ calm \in BOOLEAN

Quiet == \A h \in Hooks : Idle(h)

\* A thread that works on a block through a MemoryState pointer works on a
\* block that is still in the table: nobody erased it since AddEvent or
\* GetState returned the pointer and released mtx_.
HeldStateIsLive == \A h \in Hooks : pc[h] \in {"close", "handle", "dump"} => HeldKeys(h) # {}

\* The events of a block are written at most once, whoever writes them.
WrittenOnce == \A n \in Ids : writes[n] <= 1

\* When no call is under way, and the driver reuses an address only after its
\* FREE was reported, the hooks' view is the driver's: registered addresses,
\* live blocks and usage are those of the heap.
BooksAgree ==
  Quiet /\ reuse # "early" =>
    /\ registered = DOMAIN heap
    /\ status = "IN_TRACING" =>
         /\ Live(states) = DOMAIN heap
         /\ \A m \in Meters :
              used[m] = SumFunctionOnSet(heap, {k \in DOMAIN heap : MeterOf(k) = m})

\* Whatever races happened before, a start that finds no call under way puts
\* the books right, and they stay right for the session.
CalmStartSettles ==
  status = "IN_TRACING" /\ calm /\ Quiet /\ ~Starting =>
    /\ Live(states) = DOMAIN heap
    /\ \A m \in Meters :
         used[m] = SumFunctionOnSet(heap, {k \in DOMAIN heap : MeterOf(k) = m})

\* The FREE filter drops no block that halMemAlloc registered: what the driver
\* freed through the hook is registered when its FREE is looked up.
OnlyForeignFiltered ==
  \A h \in Hooks : pc[h] = "register" /\ job[h].kind = "FREE" => job[h].key \in registered

\* Hooks that race with starts and stops keep the types, lose neither the block
\* they point to nor a FREE to the filter, and write no block twice.
HooksAreSafe == TypeOK /\ HeldStateIsLive /\ OnlyForeignFiltered /\ WrittenOnce

\* Every hooked call returns to the application: no thread is left waiting for
\* processMutex_ or mtx_.
CallsReturn == \A h \in Hooks : ~Idle(h) ~> Idle(h)
=============================================================================
