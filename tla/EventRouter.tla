---------------------------- MODULE EventRouter ----------------------------
(***************************************************************************)
(* The event pipeline of one profiled process, one event at a time: an     *)
(* application allocates, frees and touches memory and starts and stops    *)
(* tracing; every report becomes an event that Process::SendEvent routes   *)
(* under processMutex_ (src/csrc/framework/{process,event_router}.cpp)     *)
(* through MemoryStateManager to the dump.                                 *)
(*                                                                         *)
(* Here one thread does all of this, so an event is one step.  The module  *)
(* TracePipeline splits the same handlers between threads.                 *)
(***************************************************************************)
EXTENDS MemoryStates

CONSTANTS
  StepFilter,         \* TRUE: --steps is configured, so a report may be dropped
  DumpOutlivesTable,  \* FALSE: Dump was constructed after MemoryStateManager
  MaxAllocations,     \* bound on the allocation ids handed out
  MaxFrees            \* bound on the FREE events one block collects

ASSUME RouterAssumption ==
  /\ StepFilter \in BOOLEAN
  /\ DumpOutlivesTable \in BOOLEAN
  /\ MaxAllocations \in Nat
  /\ MaxFrees \in Nat

Ids == 1..MaxAllocations

VARIABLES
  app,        \* what the application holds: allocated keys, with their sizes
  ptrs,       \* halPtrs_: driver addresses reported as allocated, with their device,
              \* which tells the pool (DEVICE_ID_CPU: HOST, else HAL)
  status,     \* EventTraceStatus of EventTraceManager
  states,     \* poolsMap_: the table of blocks
  count,      \* MemoryState::count, the last allocation id handed out
  used,       \* current usage per pool and device
  peak,       \* its historical maximum
  writes,     \* how many times the dump wrote the events of a block
  freeRows,   \* how many FREE rows of a block were written
  seen,       \* ids of the blocks that a tracing session has to account for
  phase,      \* running, then the static destructors: exiting, done
  leftover    \* keys ~MemoryStateManager has still to clean up

table == <<states, count, used, peak, writes, freeRows, seen>>
exiting == <<phase, leftover>>
vars == <<app, ptrs, status, table, exiting>>

Statuses == {"IN_TRACING", "NOT_IN_TRACING"}

\* DetermineTraceMode: outside a session the hooks report shadow events.
Shadow == status = "NOT_IN_TRACING"

\* IsNeedSkip: without --steps no report is dropped; with it any may be.
Skips == IF StepFilter THEN BOOLEAN ELSE {FALSE}

-----------------------------------------------------------------------------
(* Parts of a routed event *)

IdsIn(tbl, K) == {tbl[k].id : k \in K}

\* The blocks that are not merely shadow allocations.
Traced(tbl) == {k \in DOMAIN tbl : tbl[k].shadow # "SHADOW_CREATED"}

\* DumpMemoryState, for every block of tbl in K: all its events are written.
Dumped(tbl, K) ==
  /\ writes' = [n \in Ids |-> IF n \in IdsIn(tbl, K) THEN writes[n] + 1 ELSE writes[n]]
  /\ freeRows' = [n \in Ids |->
        IF n \in IdsIn(tbl, K)
        THEN freeRows[n] + tbl[CHOOSE k \in K : tbl[k].id = n].frees
        ELSE freeRows[n]]

\* Put the new table in place; tbl and K as for Dumped.
Settled(new, tbl, K) ==
  /\ states' = new
  /\ Dumped(tbl, K)
  /\ seen' = seen \cup IdsIn(new, Traced(new)) \cup IdsIn(tbl, K)

\* HandleCleanUpEvent: a block freed in the shadow has its FREE already.
Closed(b) == IF b.shadow = "SHADOW_FREED" THEN b ELSE WithEvent(b, "FREE")
CleanedUp(tbl, k) == [tbl EXCEPT ![k] = Closed(@)]

\* Mutant: a CLEAN_UP writes only unfreed blocks.
Residue_Unfreed(k) == {j \in {k} \cap Traced(states) : states[j].shadow # "SHADOW_FREED"}

\* The keys whose block a CLEAN_UP of k writes out.
Residue(k) == {k} \cap Traced(states)

\* A MALLOC event, after the CLEAN_UP of the block that still occupies its key.
RouteMalloc(k, size, shadow) ==
  LET block == NewBlock(count + 1, "MALLOC", size,
                        IF shadow THEN "SHADOW_CREATED" ELSE "NORMAL")
  IN /\ count < MaxAllocations
     /\ count' = count + 1
     /\ IF k \in DOMAIN states
        THEN Settled(Put(states, k, block), CleanedUp(states, k), Residue(k))
        ELSE Settled(Put(states, k, block), states, {})
     /\ IF shadow
        THEN UNCHANGED <<used, peak>>
        ELSE /\ used' = Charged(used, MeterOf(k), size)
             /\ peak' = Raised(peak, MeterOf(k), used'[MeterOf(k)])

\* UpdateUsage of a FREE: the peak follows, though it can only stay.
Uncharged(m, size) ==
  /\ used' = Charged(used, m, -size)
  /\ peak' = Raised(peak, m, used'[m])

\* A FREE event that finds its block j; k is the key the event carries, which
\* is also the key the pipeline deletes.
RouteFreeOf(j, k, size, shadow) ==
  LET appended == [states EXCEPT ![j] = WithEvent(@, "FREE")]
  IN /\ states[j].frees < MaxFrees
     /\ UNCHANGED count
     /\ IF shadow
        THEN /\ UNCHANGED <<used, peak>>
             /\ IF states[j].shadow = "SHADOW_CREATED"
                THEN Settled(Delete(appended, k), appended, {})
                ELSE Settled([appended EXCEPT ![j].shadow = "SHADOW_FREED"], appended, {})
        ELSE /\ Uncharged(MeterOf(j), FreedSize(states, j, size))
             /\ Settled(Delete(appended, k), appended, {j})

\* A FREE event of an address without a state gets a state of its own.
RouteGhostFree(k, size, shadow) ==
  LET ghost == NewBlock(count + 1, "FREE", size, IF shadow THEN "SHADOW_FREED" ELSE "NORMAL")
  IN /\ count < MaxAllocations
     /\ count' = count + 1
     /\ IF shadow
        THEN /\ Settled(Put(states, k, ghost), states, {})
             /\ UNCHANGED <<used, peak>>
        ELSE /\ Settled(states, Put(states, k, ghost), {k})
             /\ Uncharged(MeterOf(k), size)

RouteFree(k, size, shadow) ==
  LET found == Located(states, k, size)
  IN IF found = {} THEN RouteGhostFree(k, size, shadow)
                   ELSE \E j \in found : RouteFreeOf(j, k, size, shadow)

\* An ACCESS event joins the block that covers it, or opens a block of its own.
RouteAccess(k, size) ==
  LET found == Located(states, k, size)
  IN /\ IF found = {}
        THEN /\ count < MaxAllocations
             /\ count' = count + 1
             /\ Settled(Put(states, k, NewBlock(count + 1, "ACCESS", size, "NORMAL")), states, {})
        ELSE /\ UNCHANGED count
             /\ \E j \in found : Settled([states EXCEPT ![j] = WithEvent(@, "ACCESS")], states, {})
     /\ UNCHANGED <<used, peak>>

-----------------------------------------------------------------------------
(* What the application does, and what the hooks report of it *)

DriverPool(k) == PoolOf(k) \in BackfillPools

\* The driver hands out disjoint ranges, on whichever device, and so does the
\* framework out of each pool of its own.
Disjoint(k, size) ==
  \A j \in DOMAIN app :
    PoolOf(j) = PoolOf(k) \/ (DriverPool(j) /\ DriverPool(k)) =>
      \/ AddrOf(k) + size <= AddrOf(j)
      \/ AddrOf(j) + app[j] <= AddrOf(k)

\* ReportHalMalloc, ReportMemPoolRecord.  halPtrs_.emplace keeps an old entry.
AppMalloc(k, size) ==
  /\ phase = "running"
  /\ Disjoint(k, size)
  /\ app' = Put(app, k, size)
  /\ \E skip \in Skips :
       IF skip
       THEN UNCHANGED <<ptrs, table>>
       ELSE /\ ptrs' = IF DriverPool(k) /\ AddrOf(k) \notin DOMAIN ptrs
                       THEN Put(ptrs, AddrOf(k), MeterOf(k))
                       ELSE ptrs
            /\ RouteMalloc(k, size, Shadow)
  /\ UNCHANGED <<status, exiting>>

\* The key of a registered address: its device names the pool, HOST for the CPU.
Registered(a) == <<ptrs[a][1], ptrs[a][2], a>>

\* ReportHalFree: an address that is not registered is ignored, the event takes
\* the registered pool and device and has no size; only a traced FREE can be skipped.
ReportDriverFree(k) ==
  \E skip \in Skips :
    IF (skip /\ ~Shadow) \/ AddrOf(k) \notin DOMAIN ptrs
    THEN UNCHANGED <<ptrs, table>>
    ELSE /\ ptrs' = Delete(ptrs, AddrOf(k))
         /\ RouteFree(Registered(AddrOf(k)), 0, Shadow)

\* ReportMemPoolRecord of a FREE.
ReportPoolFree(k) ==
  /\ UNCHANGED ptrs
  /\ \E skip \in Skips :
       IF skip THEN UNCHANGED table ELSE RouteFree(k, app[k], Shadow)

AppFree(k) ==
  /\ phase = "running"
  /\ k \in DOMAIN app
  /\ app' = Delete(app, k)
  /\ IF DriverPool(k) THEN ReportDriverFree(k) ELSE ReportPoolFree(k)
  /\ UNCHANGED <<status, exiting>>

\* An operator touches memory: reported in a session only, never of driver pools.
AppAccess(k, size) ==
  /\ phase = "running"
  /\ ~Shadow
  /\ ~DriverPool(k)
  /\ RouteAccess(k, size)
  /\ UNCHANGED <<app, ptrs, status, exiting>>

-----------------------------------------------------------------------------
(* Sessions *)

\* SetTraceStatus(IN_TRACING): promote the shadow blocks, then TRACE_START
\* (which --steps can drop) rebuilds the usage, then the status.
Start ==
  /\ phase = "running"
  /\ Settled(Promoted(states), states, Expired(states))
  /\ \E skip \in Skips :
       used' = IF skip THEN used ELSE Baseline(Promoted(states))
  /\ status' = "IN_TRACING"
  /\ UNCHANGED <<app, ptrs, count, peak, exiting>>

\* SetTraceStatus(NOT_IN_TRACING): the table stays as it is.
Stop ==
  /\ phase = "running"
  /\ status' = "NOT_IN_TRACING"
  /\ UNCHANGED <<app, ptrs, table, exiting>>

-----------------------------------------------------------------------------
(* ~MemoryStateManager: a CLEAN_UP event for every key it finds *)

\* Mutants: clean up live blocks only; stop at a shadow block.
ExitBegin_LiveOnly ==
  /\ phase = "running"
  /\ phase' = "exiting"
  /\ leftover' = Live(states)
  /\ UNCHANGED <<app, ptrs, status, table>>
ExitCleanUp_Stuck(k) ==
  /\ phase = "exiting"
  /\ k \in leftover \cap Traced(states)
  /\ leftover' = leftover \ {k}
  /\ Settled(Delete(states, k), CleanedUp(states, k), {k})
  /\ UNCHANGED <<app, ptrs, status, count, used, peak, phase>>

ExitBegin ==
  /\ phase = "running"
  /\ phase' = "exiting"
  /\ leftover' = DOMAIN states
  /\ UNCHANGED <<app, ptrs, status, table>>

ExitCleanUp(k) ==
  /\ phase = "exiting"
  /\ k \in leftover
  /\ leftover' = leftover \ {k}
  /\ Settled(Delete(states, k), CleanedUp(states, k),
             IF DumpOutlivesTable THEN Residue(k) ELSE {})
  /\ UNCHANGED <<app, ptrs, status, count, used, peak, phase>>

ExitEnd ==
  /\ phase = "exiting"
  /\ leftover = {}
  /\ phase' = "done"
  /\ UNCHANGED <<app, ptrs, status, table, leftover>>

-----------------------------------------------------------------------------
Zero == [m \in Meters |-> 0]
None == [n \in Ids |-> 0]

Init ==
  /\ app = <<>>
  /\ ptrs = <<>>
  /\ status \in Statuses
  /\ states = <<>>
  /\ count = 0
  /\ used = Zero
  /\ peak = Zero
  /\ writes = None
  /\ freeRows = None
  /\ seen = {}
  /\ phase = "running"
  /\ leftover = {}

Exit == ExitBegin \/ ExitEnd \/ \E k \in Keys : ExitCleanUp(k)

Next ==
  \/ \E k \in Keys, size \in Sizes : AppMalloc(k, size) \/ AppAccess(k, size)
  \/ \E k \in Keys : AppFree(k)
  \/ Start
  \/ Stop
  \/ Exit

\* The destructor runs to its end once it has begun.
Spec == Init /\ [][Next]_vars /\ WF_vars(ExitEnd \/ \E k \in Keys : ExitCleanUp(k))
-----------------------------------------------------------------------------
(* Properties *)

RecordsTyped ==
  /\ IsPartial(app, Keys, Sizes)
  /\ IsPartial(ptrs, Addrs, Meters)
  /\ status \in Statuses
  /\ IsTable(states)
  /\ count \in 0..MaxAllocations
  /\ writes \in [Ids -> Nat]
  /\ freeRows \in [Ids -> Nat]
  /\ seen \subseteq Ids
  /\ phase \in {"running", "exiting", "done"}
  /\ leftover \subseteq Keys

MetersTyped ==
  /\ used \in [Meters -> Nat]
  /\ peak \in [Meters -> Nat]

\* Type correctness of the pipeline's state; no meter of MemoryStateManager
\* ever shows a negative value.
TypeOK == RecordsTyped /\ MetersTyped

Present == IdsIn(states, DOMAIN states)

\* Every block that a session has to account for is either still in the table
\* or was written to the dump: no erase of the table (stage-three clean-up,
\* shadow free, residual clean-up, promotion, destructor) loses a record, not
\* even when --steps drops reports.
NothingLost == \A n \in seen : n \in Present \/ writes[n] > 0

\* Two entries of the table are never one allocation.
IdsUnique == \A j, k \in DOMAIN states : states[j].id = states[k].id => j = k

\* While a session runs no block is left in a shadow state: promotion and the
\* handlers of traced events leave nothing that only the next start resolves.
NoUnpromotedWhileTracing ==
  status = "IN_TRACING" =>
    \A k \in DOMAIN states : states[k].shadow \in {"NORMAL", "SHADOW_PROMOTED"}

\* A block's events are written at most once, across restarts of tracing,
\* residual clean-ups and exit.
WrittenOnce == \A n \in Ids : writes[n] <= 1

\* What is written of a block closes it exactly once: every record has one FREE
\* row, whether the application, the clean-up or a shadow FREE supplied it.
OneFreePerRecord == \A n \in Ids : freeRows[n] = writes[n]

\* In a session the live blocks are exactly what the application holds, also
\* what it allocated before the session and whatever it freed between two.
LiveIsHeld == status = "IN_TRACING" /\ phase = "running" => Live(states) = DOMAIN app

\* In a session the usage meters equal the sizes the application holds, though
\* shadow events never touch them.
UsedIsHeld ==
  status = "IN_TRACING" =>
    \A m \in Meters :
      used[m] = SumFunctionOnSet(app, {k \in DOMAIN app : MeterOf(k) = m})

\* After the destructor nothing is left behind: the table is empty and every
\* block a session has to account for was written.
ExitFlushes ==
  phase = "done" => DOMAIN states = {} /\ \A n \in seen : writes[n] > 0

\* What makes NothingLost and ExitFlushes inductive: ids come from the counter,
\* a block is accounted for exactly from the moment it leaves SHADOW_CREATED,
\* and the destructor's keys are those of the table.
IdsIssued ==
  /\ \A k \in DOMAIN states : states[k].id \in 1..count
  /\ \A n \in seen : n \in 1..count
SeenIsTraced ==
  \A k \in DOMAIN states : states[k].id \in seen <=> states[k].shadow # "SHADOW_CREATED"
ExitCovers ==
  /\ phase # "running" => leftover = DOMAIN states
  /\ phase = "done" => leftover = {}

Accounting == IdsIssued /\ IdsUnique /\ SeenIsTraced /\ NothingLost

\* A FREE attaches only to the block that holds its address: the block of an
\* address the application still holds never ends in a FREE.
HeldNotFreed ==
  status = "IN_TRACING" =>
    \A k \in DOMAIN app \cap DOMAIN states :
      states[k].head = "MALLOC" /\ states[k].size = app[k] => states[k].tail # "FREE"

\* What is written is a history of allocations: no two entries are one, none is
\* written twice, each with one FREE.
RecordedOnce == IdsUnique /\ WrittenOnce /\ OneFreePerRecord

\* In a session the table and the meters are what the application holds.
TableIsHeld == LiveIsHeld /\ UsedIsHeld

\* With dropped reports the state keeps its types (no meter below zero), and
\* what is recorded is recorded once and not ended while it is held.
RecordsAreWhole == TypeOK /\ WrittenOnce /\ OneFreePerRecord /\ HeldNotFreed

\* The destructor's clean-up reaches its end.
ExitEnds == phase = "exiting" ~> phase = "done"
=============================================================================
