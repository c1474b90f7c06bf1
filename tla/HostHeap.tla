----------------------------- MODULE HostHeap -----------------------------
(***************************************************************************)
(* The heap hooks of the host (src/csrc/event_trace/host_mem_hooks):       *)
(* threads of the application inside malloc, free and realloc, the block   *)
(* and stack tables they share, and the control thread that opens and      *)
(* closes a monitoring window and takes a snapshot in the middle of one.   *)
(*                                                                         *)
(* A step is one critical section of a shard lock or one access to the     *)
(* gates.  There is one shard of each table; a block counts for 1 byte; a  *)
(* captured stack is a member of Stacks.                                   *)
(***************************************************************************)
EXTENDS Integers, FiniteSets

CONSTANTS
  Threads, Addrs, Stacks,
  Does,         \* the calls each thread makes
  MaxBlocks,    \* bound on the capacity of the block table
  MaxOverflow,  \* capacity of the overflow ledger
  MaxStacks,    \* capacity of the stack table
  MaxEntries,   \* bound on the stack entries ever made
  MaxWindows,   \* bound on the windows opened
  MaxCalls,     \* bound on the calls of the application
  Plans         \* what a run may meet: windows, calls, capacity of the block table,
                \* snapshots in a window, a fork, a sampler without memory

ASSUME HeapAssumption ==
  /\ Does \in [Threads -> SUBSET {"malloc", "free", "realloc"}]
  /\ MaxBlocks \in Nat /\ MaxOverflow \in Nat /\ MaxStacks \in Nat
  /\ MaxEntries \in Nat /\ MaxWindows \in Nat /\ MaxCalls \in Nat
  /\ Plans \subseteq [windows : 0..MaxWindows, calls : 0..MaxCalls, slots : 0..MaxBlocks,
                      snapshots : BOOLEAN, forks : BOOLEAN, oom : BOOLEAN]

VARIABLES
  heap,      \* the addresses the application holds (the real allocator)
  blocks,    \* the block table: address to the entry that owns it, 0 unknown
  overflow,  \* the ledger of the blocks that found the table full
  stacks,    \* the entries in the stack table
  entry,     \* every entry made: its stack, references and counts
  made,      \* the number of entries made
  tally,     \* the counters of the window
  cut,       \* g_truncated: the capacities reached
  gate,      \* the flags that decide whether a call is recorded
  svc,       \* where the control thread is in SvcSetEnabled or a snapshot
  sampler,   \* the warm-up thread: does it run, the entries it has pinned
  told,      \* the last boundary reported to the analyzer
  final,     \* the window whose closing snapshot is valid
  walked,    \* the blocks the last aggregate found
  hook,      \* where each thread is inside a hook
  calls,     \* the calls made
  plan,      \* the member of Plans this run follows
  window     \* what happened in this window that its report cannot know

ledger == <<blocks, overflow, stacks, entry, made, tally, cut>>
control == <<gate, svc, sampler, told, final, walked>>
bounds == <<calls, plan>>
vars == <<heap, ledger, control, hook, window, bounds>>

EntryIds == 1..MaxEntries
Blank == [key |-> CHOOSE k \in Stacks : TRUE, refs |-> 0, allocs |-> 0, live |-> 0]
Zero == [alloc |-> 0, freed |-> 0, unknown |-> 0, skipped |-> 0, into |-> 0, outOf |-> 0]
Out == [pc |-> "out", op |-> "none", a |-> 0, own |-> 0, seen |-> FALSE,
        from |-> "none", w |-> 0]
Calm == [missed |-> FALSE, frozen |-> FALSE, straddled |-> FALSE]

-----------------------------------------------------------------------------
(* Operators on the tables *)

At(t, p) == hook[t].pc = p
Go(t, p) == hook' = [hook EXCEPT ![t].pc = p]
Leave(t) == hook' = [hook EXCEPT ![t] = Out]

Walking == svc \in {"walking", "surveying"}

\* A shard lock is held: by the aggregate that walks it, or for an instant by
\* another thread that is at a critical section of the block table.
Contended(t) ==
  \/ Walking
  \/ \E u \in Threads \ {t} : hook[u].pc \in {"insert", "remove", "reinsert"}

\* fetch_add on the references of an entry; 0 is no entry.
Ref(e, n, d) == IF n = 0 THEN e ELSE [e EXCEPT ![n].refs = @ + d]

\* Mutant: a block does not keep its entry.
Owns_Unpinned(e, n, refs, allocs, live) ==
  IF n = 0 THEN e ELSE [e EXCEPT ![n].allocs = @ + allocs, ![n].live = @ + live]

\* The counts an entry keeps of its blocks.
Owns(e, n, refs, allocs, live) ==
  IF n = 0 THEN e
  ELSE [e EXCEPT ![n].refs = @ + refs, ![n].allocs = @ + allocs, ![n].live = @ + live]

Without(a) == [b \in DOMAIN blocks \ {a} |-> blocks[b]]
With(a, n) == [b \in DOMAIN blocks \cup {a} |-> IF b = a THEN n ELSE blocks[b]]

\* Mutant: the record of a lost free is not noticed.
Stale_Unseen(a) == FALSE

\* The address has a record from an earlier allocation.
Stale(a) == a \in DOMAIN blocks

Full == Cardinality(DOMAIN blocks) >= plan.slots
OverflowFull == Cardinality(overflow) >= MaxOverflow

\* ShouldTrace reads the freeze first and the window's gate afterwards.
Traced(t) == hook[t].seen \/ gate.enabled

-----------------------------------------------------------------------------
(* The hooks: malloc, free and realloc of the application *)

\* An address whose call is still under way belongs to that call.
InCall(a) == \E t \in Threads :
  hook[t].a = a /\ ~At(t, "out") /\ ~(At(t, "gate") /\ hook[t].op = "malloc")

Call(t) == \E op \in Does[t], a \in Addrs :
  /\ At(t, "out")
  /\ gate.mainStarted /\ ~gate.exiting
  /\ IF op = "malloc" THEN a = CHOOSE b \in Addrs : TRUE ELSE a \in heap /\ ~InCall(a)
  /\ calls < plan.calls /\ calls' = calls + 1 /\ UNCHANGED plan
  /\ hook' = [hook EXCEPT ![t] =
       [Out EXCEPT !.pc = "gate", !.op = op, !.a = a, !.seen = gate.frozen]]
  /\ UNCHANGED <<heap, ledger, control, window>>

\* The allocator's own work: it may hand out any address nobody holds.
Obtain(t, held, p) == \E b \in Addrs \ held :
  /\ heap' = held \cup {b}
  /\ hook' = [hook EXCEPT ![t] =
       IF p = "out" THEN Out ELSE [Out EXCEPT !.pc = p, !.op = hook[t].op, !.a = b]]

Bypass(t) ==
  /\ At(t, "gate") /\ ~Traced(t)
  /\ \/ hook[t].op = "malloc" /\ Obtain(t, heap, "out")
     \/ hook[t].op = "realloc" /\ Obtain(t, heap \ {hook[t].a}, "out")
     \/ hook[t].op = "free" /\ heap' = heap \ {hook[t].a} /\ Leave(t)
  /\ UNCHANGED <<ledger, control, window, bounds>>

\* Mutant: the block is freed before it is taken from the table.
Enter_FreesFirst(t) ==
  /\ At(t, "gate") /\ Traced(t)
  /\ IF hook[t].op = "malloc" THEN Obtain(t, heap, "lookup")
     ELSE /\ hook' = [hook EXCEPT ![t].pc = "remove", ![t].w = told.id]
          /\ heap' = heap \ {hook[t].a}
  /\ UNCHANGED <<ledger, control, window, bounds>>

Enter(t) ==
  /\ At(t, "gate") /\ Traced(t)
  /\ IF hook[t].op = "malloc" THEN Obtain(t, heap, "lookup")
     ELSE /\ hook' = [hook EXCEPT ![t].pc = "remove", ![t].w = told.id]
          /\ UNCHANGED heap
  /\ UNCHANGED <<ledger, control, window, bounds>>

\* RecordMalloc gives a block up before it looks at a table: recording has
\* stopped, a snapshot is being taken, or the block is small or not sampled.
PassOver(t) ==
  /\ At(t, "lookup")
  /\ Leave(t)
  /\ \/ "stopped" \in cut /\ UNCHANGED tally
     \/ /\ "stopped" \notin cut /\ gate.frozen
        /\ tally' = [tally EXCEPT !.alloc = @ + 1, !.skipped = @ + 1]
     \/ "stopped" \notin cut /\ ~gate.frozen /\ UNCHANGED tally
  /\ UNCHANGED <<heap, blocks, overflow, stacks, entry, made, cut, control, window, bounds>>

Recording(t) == At(t, "lookup") /\ "stopped" \notin cut /\ ~gate.frozen

Entries(k) == {n \in stacks : entry[n].key = k}

\* A stack seen before gets a reference for the call in flight.
LookupStack(t) == \E k \in Stacks, n \in stacks :
  /\ Recording(t) /\ n \in Entries(k)
  /\ entry' = Ref(entry, n, 1)
  /\ hook' = [hook EXCEPT ![t].pc = "insert", ![t].own = n]
  /\ UNCHANGED <<heap, blocks, overflow, stacks, made, tally, cut, control, window, bounds>>

\* A stack entry without blocks or calls is dead; the eviction samples some of
\* them and takes the one with the fewest allocations.
Dead == {n \in stacks : entry[n].refs = 1}

\* LookupOrRegisterStack for a stack not seen before.
Register(t) == \E k \in Stacks, gone \in SUBSET Dead :
  /\ Recording(t) /\ Entries(k) = {} /\ made < MaxEntries
  /\ IF Cardinality(stacks) < MaxStacks THEN gone = {} /\ UNCHANGED tally
     ELSE \E n \in Dead : gone = {n} /\ tally' = [tally EXCEPT !.unknown = @ + entry[n].allocs]
  /\ made' = made + 1
  /\ stacks' = (stacks \ gone) \cup {made + 1}
  /\ entry' = [entry EXCEPT ![made + 1] = [Blank EXCEPT !.key = k, !.refs = 2]]
  /\ hook' = [hook EXCEPT ![t].pc = "insert", ![t].own = made + 1]
  /\ UNCHANGED <<heap, blocks, overflow, cut, control, window, bounds>>

\* No stack captured, no memory for an entry, or a full table in which the
\* sample met no dead entry: the block goes to the unknown bucket.
Unattributed(t) ==
  /\ Recording(t)
  /\ cut' \in {cut} \cup (IF Cardinality(stacks) >= MaxStacks THEN {cut \cup {"stacks"}} ELSE {})
  /\ hook' = [hook EXCEPT ![t].pc = "insert", ![t].own = 0]
  /\ UNCHANGED <<heap, blocks, overflow, stacks, entry, made, tally, control, window, bounds>>

\* InsertOverflowLocked, when the block table is full.
Divert(a) ==
  IF OverflowFull THEN cut' = cut \cup {"stopped"} /\ UNCHANGED <<overflow, tally>>
  ELSE /\ overflow' = overflow \cup {a}
       /\ tally' = [tally EXCEPT !.alloc = @ + 1, !.into = @ + 1]
       /\ UNCHANGED cut

\* Mutant: the gate is not looked at again.
Admitted_Earlier == TRUE

\* InsertBlock looks at the gate again once it holds the lock the aggregate takes.
Admitted == gate.enabled

\* InsertBlock that stores nothing in the table; the reference of the call goes.
InsertElsewhere(t) ==
  /\ At(t, "insert")
  /\ \/ Contended(t) /\ UNCHANGED <<overflow, tally, cut>>
     \/ /\ ~Walking /\ ~Admitted /\ UNCHANGED <<overflow, cut>>
        /\ tally' = IF gate.frozen THEN [tally EXCEPT !.alloc = @ + 1, !.skipped = @ + 1] ELSE tally
     \/ ~Walking /\ Admitted /\ Full /\ Divert(hook[t].a)
  /\ entry' = Ref(entry, hook[t].own, -1)
  /\ Leave(t)
  /\ UNCHANGED <<heap, blocks, stacks, made, control, window, bounds>>

\* InsertBlock into the table.  A stale record of the same address counts as
\* freed, in the overflow ledger it is dropped.
Insert(t) == LET a == hook[t].a  n == hook[t].own IN
  /\ At(t, "insert") /\ Admitted /\ ~Full /\ ~Walking
  /\ blocks' = With(a, n)
  /\ overflow' = overflow \ {a}
  /\ entry' = LET e == IF Stale(a) THEN Owns(entry, blocks[a], -1, 0, -1) ELSE entry
              IN Owns(e, n, 1, 1, 1)
  /\ tally' = [tally EXCEPT !.alloc = @ + 1,
                            !.freed = IF Stale(a) THEN @ + 1 ELSE @,
                            !.unknown = IF n = 0 THEN @ + 1 ELSE @]
  /\ IF n = 0 THEN Leave(t) ELSE Go(t, "held")
  /\ UNCHANGED <<heap, stacks, made, cut, control, window, bounds>>

\* The Python stack is captured under the reference of the call, which goes last.
Dispose(t) ==
  /\ At(t, "held")
  /\ entry' = Ref(entry, hook[t].own, -1)
  /\ Leave(t)
  /\ UNCHANGED <<heap, blocks, overflow, stacks, made, tally, cut, control, window, bounds>>

\* CaptureAndRemoveBlock: the record leaves the table and its reference passes
\* to the call.
Capture(t) == LET a == hook[t].a IN
  /\ At(t, "remove") /\ ~Walking /\ a \in DOMAIN blocks
  /\ blocks' = Without(a)
  /\ overflow' = overflow \ {a}
  /\ entry' = Owns(entry, blocks[a], 0, 0, -1)
  /\ tally' = [tally EXCEPT !.freed = @ + 1]
  /\ hook' = [hook EXCEPT ![t].pc = "taken", ![t].own = blocks[a], ![t].from = "table"]
  /\ UNCHANGED <<heap, stacks, made, cut, control, window, bounds>>

CaptureOverflow(t) == LET a == hook[t].a IN
  /\ At(t, "remove") /\ ~Walking
  /\ a \in overflow \ DOMAIN blocks
  /\ overflow' = overflow \ {a}
  /\ tally' = [tally EXCEPT !.freed = @ + 1, !.outOf = @ + 1]
  /\ hook' = [hook EXCEPT ![t].pc = "taken", ![t].from = "overflow"]
  /\ UNCHANGED <<heap, blocks, stacks, entry, made, cut, control, window, bounds>>

\* Nothing recorded under the address, or the lock was not free in 64 tries.
CaptureNothing(t) == LET recorded == hook[t].a \in DOMAIN blocks \cup overflow IN
  /\ At(t, "remove")
  /\ Contended(t) \/ ~recorded
  /\ window' = [window EXCEPT !.missed = @ \/ recorded]
  /\ Go(t, "taken")
  /\ UNCHANGED <<heap, ledger, control, bounds>>

\* free: the reference goes, then the memory.
Release(t) ==
  /\ At(t, "taken") /\ hook[t].op = "free"
  /\ entry' = Ref(entry, hook[t].own, -1)
  /\ heap' = heap \ {hook[t].a}
  /\ Leave(t)
  /\ UNCHANGED <<blocks, overflow, stacks, made, tally, cut, control, window, bounds>>

\* realloc: the allocator moved the block, which is recorded anew.
Moved(t) ==
  /\ At(t, "taken") /\ hook[t].op = "realloc"
  /\ entry' = Ref(entry, hook[t].own, -1)
  /\ Obtain(t, heap \ {hook[t].a}, "lookup")
  /\ UNCHANGED <<blocks, overflow, stacks, made, tally, cut, control, window, bounds>>

\* The allocator refused: the block is still there and its record returns.
Refused(t) ==
  /\ At(t, "taken") /\ hook[t].op = "realloc"
  /\ IF hook[t].from = "none" THEN Leave(t) ELSE Go(t, "reinsert")
  /\ UNCHANGED <<heap, ledger, control, window, bounds>>

Late(t) == hook[t].w # told.id \/ told.kind = "END" \/ final # 0

\* ReinsertBlock and ReinsertOverflowBlock.
Reinsert(t) == LET a == hook[t].a  n == hook[t].own IN
  /\ At(t, "reinsert") /\ ~Walking
  /\ \/ /\ hook[t].from = "table" /\ ~Full
        /\ blocks' = With(a, n)
        /\ entry' = Owns(entry, n, 0, 0, 1)
        /\ tally' = [tally EXCEPT !.freed = @ - 1]
        /\ UNCHANGED <<overflow, cut>>
     \/ /\ hook[t].from = "table" /\ Full /\ UNCHANGED blocks
        /\ entry' = Ref(entry, n, -1)
        /\ IF OverflowFull
           THEN cut' = cut \cup {"stopped"} /\ UNCHANGED <<overflow, tally>>
           ELSE /\ overflow' = overflow \cup {a}
                /\ tally' = [tally EXCEPT !.freed = @ - 1, !.into = @ + 1]
                /\ UNCHANGED cut
     \/ /\ hook[t].from = "overflow" /\ UNCHANGED <<blocks, entry, cut>>
        /\ overflow' = overflow \cup {a}
        /\ tally' = [tally EXCEPT !.freed = @ - 1, !.outOf = @ - 1]
  /\ window' = [window EXCEPT !.straddled = @ \/ Late(t)]
  /\ Leave(t)
  /\ UNCHANGED <<heap, stacks, made, control, bounds>>

\* The lock was not free in 64 tries: the block is out of sight from here on.
LoseSight(t) ==
  /\ At(t, "reinsert") /\ Contended(t)
  /\ entry' = Ref(entry, hook[t].own, -1)
  /\ Leave(t)
  /\ UNCHANGED <<heap, blocks, overflow, stacks, made, tally, cut, control, window, bounds>>

Hooks(t) ==
  \/ Bypass(t) \/ Enter(t) \/ PassOver(t) \/ LookupStack(t) \/ Register(t)
  \/ Unattributed(t) \/ InsertElsewhere(t) \/ Insert(t) \/ Dispose(t) \/ Capture(t)
  \/ CaptureOverflow(t) \/ CaptureNothing(t) \/ Release(t) \/ Moved(t) \/ Refused(t)
  \/ Reinsert(t) \/ LoseSight(t)

-----------------------------------------------------------------------------
(* SvcSetEnabled and SvcDumpInterimSnapshot, which g_svcMtx serialises; the  *)
(* end of a window is reported without it.                                   *)

Asleep == svc = "idle" /\ gate.ready

\* Before the constructor has run, a request to open or close is only kept.
Ask == \E on \in BOOLEAN :
  /\ ~gate.ready
  /\ gate' = [gate EXCEPT !.pending = on]
  /\ UNCHANGED <<heap, ledger, svc, sampler, told, final, walked, hook, window, bounds>>

\* HostMemHookInit, and later the first line of main.
Ready ==
  /\ ~gate.ready
  /\ gate' = [gate EXCEPT !.ready = TRUE, !.pending = FALSE]
  /\ svc' = IF gate.pending THEN "requested" ELSE "idle"
  /\ UNCHANGED <<heap, ledger, sampler, told, final, walked, hook, window, bounds>>

MainStarts ==
  /\ gate.ready /\ ~gate.mainStarted
  /\ gate' = [gate EXCEPT !.mainStarted = TRUE]
  /\ UNCHANGED <<heap, ledger, svc, sampler, told, final, walked, hook, window, bounds>>

\* An entry that is still referenced is kept and reset where it stands.
Kept == {n \in stacks : entry[n].refs # 1}

\* Mutant: the closing snapshot is not withdrawn.
Cleared_KeepsFinal ==
  /\ blocks' = [a \in {} |-> 0] /\ overflow' = {} /\ cut' = {} /\ tally' = Zero
  /\ walked' = {} /\ UNCHANGED final

\* ClearTables empties the ledgers and withdraws the closing snapshot.
Cleared ==
  /\ blocks' = [a \in {} |-> 0] /\ overflow' = {} /\ cut' = {} /\ tally' = Zero
  /\ walked' = {} /\ final' = 0

\* The first step of an opening.
Open ==
  /\ svc = "requested" \/ Asleep
  /\ told.id < plan.windows
  /\ ~gate.enabled /\ ~gate.exiting /\ ~gate.forked /\ ~gate.closing
  /\ stacks' = Kept
  /\ entry' = [n \in EntryIds |->
       IF n \in Kept THEN [entry[n] EXCEPT !.allocs = 0, !.live = 0] ELSE entry[n]]
  /\ Cleared
  /\ window' = Calm
  /\ gate' = [gate EXCEPT !.frozen = FALSE]
  /\ svc' = "opening"
  /\ UNCHANGED <<heap, made, sampler, told, hook, bounds>>

\* The warm-up thread is started, or cannot be; then the start is reported.
Announce == \E runs \in BOOLEAN :
  /\ svc = "opening"
  /\ sampler' = [sampler EXCEPT !.runs = runs]
  /\ told' = [kind |-> "START", id |-> told.id + 1]
  /\ svc' = "opened"
  /\ UNCHANGED <<heap, ledger, gate, final, walked, hook, window, bounds>>

OpenGate ==
  /\ svc = "opened"
  /\ gate' = [gate EXCEPT !.enabled = TRUE]
  /\ svc' = "idle"
  /\ UNCHANGED <<heap, ledger, sampler, told, final, walked, hook, window, bounds>>

Close ==
  /\ Asleep /\ gate.enabled
  /\ gate' = [gate EXCEPT !.enabled = FALSE, !.closing = TRUE]
  /\ svc' = "joining"
  /\ UNCHANGED <<heap, ledger, sampler, told, final, walked, hook, window, bounds>>

\* StopWarmupThread: the loop ends between two samples.
Join ==
  /\ svc = "joining" /\ sampler.pinned = {}
  /\ sampler' = [sampler EXCEPT !.runs = FALSE]
  /\ svc' = "walking"
  /\ UNCHANGED <<heap, ledger, gate, told, final, walked, hook, window, bounds>>

\* CloseAggregate, which holds the lock of the block table.
Aggregate ==
  /\ svc = "walking"
  /\ walked' = DOMAIN blocks \cup overflow
  /\ final' = told.id
  /\ svc' = "reporting"
  /\ UNCHANGED <<heap, ledger, gate, sampler, told, hook, window, bounds>>

ReportEnd ==
  /\ svc = "reporting"
  /\ told' = [told EXCEPT !.kind = "END"]
  /\ svc' = "ended"
  /\ UNCHANGED <<heap, ledger, gate, sampler, final, walked, hook, window, bounds>>

Closed ==
  /\ svc = "ended"
  /\ gate' = [gate EXCEPT !.closing = FALSE]
  /\ svc' = "idle"
  /\ UNCHANGED <<heap, ledger, sampler, told, final, walked, hook, window, bounds>>

\* A snapshot: calls go on, but what they allocate is only counted.
Freeze ==
  /\ plan.snapshots /\ Asleep /\ gate.enabled
  /\ gate' = [gate EXCEPT !.frozen = TRUE]
  /\ window' = [window EXCEPT !.frozen = TRUE]
  /\ svc' = "freezing"
  /\ UNCHANGED <<heap, ledger, sampler, told, final, walked, hook, bounds>>

Survey ==
  /\ svc = "freezing"
  /\ gate' = [gate EXCEPT !.enabled = FALSE]
  /\ svc' = "surveying"
  /\ UNCHANGED <<heap, ledger, sampler, told, final, walked, hook, window, bounds>>

Thaw ==
  /\ svc = "surveying"
  /\ gate' = [gate EXCEPT !.enabled = TRUE]
  /\ svc' = "thawing"
  /\ UNCHANGED <<heap, ledger, sampler, told, final, walked, hook, window, bounds>>

Thawed ==
  /\ svc = "thawing"
  /\ gate' = [gate EXCEPT !.frozen = FALSE]
  /\ svc' = "copying"
  /\ UNCHANGED <<heap, ledger, sampler, told, final, walked, hook, window, bounds>>

\* The rows of the series are read last, under g_seriesMtx.
Copied ==
  /\ svc = "copying" /\ ~sampler.locked
  /\ svc' = "idle"
  /\ UNCHANGED <<heap, ledger, gate, sampler, told, final, walked, hook, window, bounds>>

\* exit: nothing is recorded from here on, and the window is closed.
Exit ==
  /\ gate.mainStarted /\ ~gate.exiting
  /\ gate' = [gate EXCEPT !.exiting = TRUE]
  /\ UNCHANGED <<heap, ledger, svc, sampler, told, final, walked, hook, window, bounds>>

\* SampleTopLeaks pins the entries with live blocks while it reads them.
Sample ==
  /\ sampler.runs /\ sampler.pinned = {}
  /\ ~gate.closing /\ ~gate.exiting
  /\ \E P \in SUBSET {n \in stacks : entry[n].live > 0} :
       /\ P # {}
       /\ sampler' = [sampler EXCEPT !.pinned = P]
       /\ entry' = [n \in EntryIds |-> IF n \in P THEN [entry[n] EXCEPT !.refs = @ + 1] ELSE entry[n]]
  /\ UNCHANGED <<heap, blocks, overflow, stacks, made, tally, cut, gate, svc, told, final,
                 walked, hook, window, bounds>>

\* RecordSeriesRow for each of them under g_seriesMtx, which it keeps when there
\* is no memory for a new series: the next row, of this sample or a later one,
\* waits for it.
Sampled ==
  /\ sampler.pinned # {} /\ ~sampler.locked
  /\ \E oom \in {FALSE, plan.oom} : sampler' = [sampler EXCEPT !.locked = oom, !.pinned = {}]
  /\ entry' = [n \in EntryIds |-> IF n \in sampler.pinned THEN [entry[n] EXCEPT !.refs = @ - 1]
                                                         ELSE entry[n]]
  /\ UNCHANGED <<heap, blocks, overflow, stacks, made, tally, cut, gate, svc, told, final,
                 walked, hook, window, bounds>>

\* Mutant: the child keeps the gate.
ChildGate_AsBefore == gate

\* fork, seen from the child: the calling thread alone goes on.  The prepare
\* handler has every shard lock, so no walk is under way.
ChildGate == [gate EXCEPT !.enabled = FALSE, !.closing = FALSE, !.frozen = FALSE]

Fork(t) ==
  /\ plan.forks /\ ~gate.forked /\ gate.mainStarted /\ At(t, "out") /\ ~Walking
  /\ gate' = [ChildGate EXCEPT !.forked = TRUE]
  /\ svc' = "idle"
  /\ sampler' = [runs |-> FALSE, pinned |-> {}, locked |-> FALSE]
  /\ hook' = [u \in Threads |-> IF u = t THEN Out ELSE [Out EXCEPT !.pc = "gone"]]
  /\ tally' = [tally EXCEPT !.skipped = 0]
  /\ UNCHANGED <<heap, blocks, overflow, stacks, entry, made, cut, told, final, walked, window, bounds>>

-----------------------------------------------------------------------------
Init ==
  /\ heap = {} /\ blocks = [a \in {} |-> 0] /\ overflow = {} /\ stacks = {}
  /\ entry = [n \in EntryIds |-> Blank] /\ made = 0 /\ tally = Zero /\ cut = {}
  /\ gate = [ready |-> FALSE, pending |-> FALSE, mainStarted |-> FALSE, enabled |-> FALSE,
             frozen |-> FALSE, closing |-> FALSE, exiting |-> FALSE, forked |-> FALSE]
  /\ svc = "idle" /\ sampler = [runs |-> FALSE, pinned |-> {}, locked |-> FALSE]
  /\ told = [kind |-> "END", id |-> 0] /\ final = 0 /\ walked = {}
  /\ hook = [t \in Threads |-> Out] /\ window = Calm /\ calls = 0 /\ plan \in Plans

Service ==
  \/ Open \/ Announce \/ OpenGate \/ Close \/ Join \/ Aggregate \/ ReportEnd \/ Closed
  \/ Freeze \/ Survey \/ Thaw \/ Thawed \/ Copied

Next ==
  \/ Ask \/ Ready \/ MainStarts \/ Service \/ Exit \/ Sample \/ Sampled
  \/ \E t \in Threads : Call(t) \/ Hooks(t) \/ Fork(t)

\* A request in progress is carried on, the warm-up thread ends its sample.
Fairness == WF_vars(Service /\ svc # "idle") /\ WF_vars(Sampled)

Spec == Init /\ [][Next]_vars /\ Fairness

-----------------------------------------------------------------------------
(* Properties *)

InFlight(n) == {t \in Threads : hook[t].own = n}
Owned(n) == {a \in DOMAIN blocks : blocks[a] = n}

\* The table keeps to its capacity, no reference is
\* dropped twice.
TypeOK ==
  /\ heap \subseteq Addrs /\ overflow \subseteq Addrs /\ walked \subseteq Addrs
  /\ DOMAIN blocks \subseteq Addrs /\ Cardinality(DOMAIN blocks) <= plan.slots
  /\ \A n \in EntryIds : entry[n].refs \in Nat
  /\ \A a \in DOMAIN blocks : blocks[a] \in 0..made
  /\ stacks \subseteq 1..made /\ made \in 0..MaxEntries
  /\ sampler.pinned \subseteq 1..made
  /\ cut \subseteq {"stacks", "stopped"}
  /\ \A f \in DOMAIN tally : tally[f] \in Int

\* A call in flight, a block of the table and the sampler only ever refer to an
\* entry that is still in the stack table: neither the eviction nor the opening
\* of a window frees memory that somebody will still touch.
OwnersStay ==
  /\ \A a \in DOMAIN blocks : blocks[a] # 0 => blocks[a] \in stacks
  /\ \A t \in Threads : hook[t].own # 0 => hook[t].own \in stacks
  /\ sampler.pinned \subseteq stacks

\* What the window allocated is what it freed and what it still holds, in both
\* ledgers and stack by stack, as long as no free went unrecorded and no refused
\* realloc came back after its window had ended.
LedgerExact == ~window.straddled =>
  /\ \A n \in stacks : entry[n].live = Cardinality(Owned(n)) /\ entry[n].live <= entry[n].allocs
  /\ Cardinality(Owned(0)) <= tally.unknown
  /\ ~window.missed /\ ~window.frozen /\ ~gate.forked =>
       /\ tally.alloc = tally.freed + tally.skipped + Cardinality(DOMAIN blocks) + Cardinality(overflow)
       /\ tally.into - tally.outOf = Cardinality(overflow)
       /\ overflow \cap DOMAIN blocks = {}

\* The ledger of a window is exact and its tables keep to their capacities.
BooksAreExact == TypeOK /\ LedgerExact

\* While a window is open, a block in either ledger is one the application
\* holds: no freed block is going to be reported as a leak.
NoFalseLeak ==
  gate.enabled /\ ~window.missed /\ ~window.frozen /\ ~window.straddled =>
  DOMAIN blocks \cup overflow \subseteq heap

\* Nothing enters a ledger behind the aggregate of a closed window.
NothingBehindReport == final # 0 /\ ~window.straddled =>
  DOMAIN blocks \cup overflow \subseteq walked

\* In a forked child nothing is recorded any more.
ChildRecordsNothing == [][gate.forked => UNCHANGED <<blocks, overflow, tally, told>>]_vars

\* A close that was begun is carried through.
CloseEnds == gate.closing ~> ~gate.closing

\* The windows are announced as the analyzer expects.
Stages == INSTANCE HostWindow WITH MaxWindows <- MaxWindows, told <- told, final <- final
StagesInOrder == Stages!WindowSpec

\* host_mem_common.h on StackEntry::refs: the pin of the table, the live blocks
\* and the lookups in flight.
RefsCounted == \A n \in stacks :
  entry[n].refs = 1 + Cardinality(Owned(n)) + Cardinality(InFlight(n))
                    + (IF n \in sampler.pinned THEN 1 ELSE 0)

\* The comment of ShouldTrace: a free during a snapshot is let through, so that
\* it leaves no block behind that looks like a leak.
FreezeLosesNoFree == gate.enabled /\ ~window.missed /\ ~window.straddled => DOMAIN blocks \cup overflow \subseteq heap
=============================================================================
