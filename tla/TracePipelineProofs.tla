------------------------ MODULE TracePipelineProofs ------------------------
(***************************************************************************)
(* Theorems of TracePipeline, for all threads, pools, devices, addresses,  *)
(* sizes and bounds:                                                       *)
(*                                                                         *)
(*   - the state keeps its types, whatever races;                          *)
(*   - without restarts no hook loses the block it points to, however the  *)
(*     driver reuses addresses;                                            *)
(*   - in a tame run (Tame below) the hooks write no block twice and drop  *)
(*     no FREE, and the books are those of the driver's heap.              *)
(*                                                                         *)
(* PipelineInv holds of every run: types, ids and locks.  That the ids are *)
(* enough is a count: every call that may still take one, and every live   *)
(* allocation, has its own reserve (CountBound).  TameInv says, for a call *)
(* in each place, what the heap, halPtrs_ and the table hold of its key    *)
(* (Stage), and for a key that no call is about, that they agree (Rest).   *)
(* A step of a hook then has to look at its own key only (KeepsTo).        *)
(***************************************************************************)
EXTENDS TracePipeline, MemoryStatesProofs, TLAPS

\* Where a call can be, and where it has processMutex_.
Places == {"idle", "decide", "register", "send", "residue", "close", "handle", "dump", "erase"}
Inside == {"residue", "close", "handle", "dump", "erase"}

\* The events of the hooks.
Jobs ==
  [kind : {"MALLOC", "FREE"}, key : Keys \cup {<<>>}, size : Nat, shadow : BOOLEAN, hold : {0} \cup Ids]

\* The types, part by part.
DriverTypes ==
  /\ IsPartial(heap, Keys, Sizes) /\ past \subseteq Keys
  /\ allocations \in 0..MaxAllocations /\ reuse \in Reuses

TableTypes ==
  /\ IsTable(states) /\ count \in Nat
  /\ used \in [Meters -> Nat] /\ writes \in [Ids -> Nat]
  /\ IsFiniteSet(DOMAIN states)

CallTypes ==
  /\ pc \in [Hooks -> Places] /\ job \in [Hooks -> Jobs]
  /\ \A h \in Hooks : ~Idle(h) => job[h].key \in Keys
  /\ registered \subseteq Keys

ControlTypes ==
  /\ status \in {"IN_TRACING", "NOT_IN_TRACING"}
  /\ router \in Hooks \cup {None} /\ mtx \in {None, Ctl}
  /\ ctl \in {"idle", "promoting", "announce", "switch", "stopped", "flushing"}
  /\ starts \in 0..MaxStarts /\ calm \in BOOLEAN

\* A hook that may still use up an id.
Owes(h) == pc[h] \in {"decide", "register", "send"} \/ (~Idle(h) /\ job[h].kind = "MALLOC")
Owing == {h \in Hooks : Owes(h)}

\* Each allocation has two ids: its own, and one for a ghost of its FREE.
CountBound ==
  /\ IsFiniteSet(Owing) /\ IsFiniteSet(DOMAIN heap)
  /\ count + Cardinality(Owing) + Cardinality(DOMAIN heap) <= 2 * allocations

\* Ids come from the counter.
IdsIssued == \A k \in DOMAIN states : states[k].id \in 1..count
\* No two blocks share one.
IdsUnique == \A j, k \in DOMAIN states : states[j].id = states[k].id => j = k

\* Who is inside an event has processMutex_.
Locks ==
  /\ \A h \in Hooks : pc[h] \in Inside => router = h
  /\ mtx = Ctl <=> ctl = "promoting"
  /\ ~Restarts => ctl = "idle" /\ calm

\* The inductive invariant of every run.
PipelineInv ==
  /\ DriverTypes /\ TableTypes /\ CallTypes /\ ControlTypes
  /\ CountBound /\ IdsIssued /\ IdsUnique /\ Locks

\* Addresses come back after the FREE was reported at the earliest, and not over
\* a start.
Tame == reuse = "never" \/ (reuse = "reported" /\ ~Restarts)

\* The table has a block at k whose FREE is to come.
Open(k) ==
  /\ k \in DOMAIN states /\ states[k].head = "MALLOC"
  /\ states[k].tail # "FREE" /\ states[k].shadow # "SHADOW_FREED"

\* The FREE of the block at k is being handled.
Freed(k) ==
  /\ k \in DOMAIN states /\ states[k].head = "MALLOC"
  /\ states[k].tail = "FREE" /\ states[k].shadow # "SHADOW_FREED"

\* What is known of the key of a call, place by place.
Stage(h) == LET k == job[h].key IN
  IF job[h].kind = "MALLOC"
  THEN /\ pc[h] \in {"decide", "register", "send"}
       /\ k \in DOMAIN heap /\ heap[k] = job[h].size
       /\ k \notin DOMAIN states
       /\ k \in registered <=> pc[h] = "send"
  ELSE /\ pc[h] \notin {"residue", "close"}
       /\ k \notin DOMAIN heap
       /\ k \in registered <=> pc[h] \in {"decide", "register"}
       /\ pc[h] \in {"decide", "register", "send"} => Open(k)
       /\ pc[h] \in {"handle", "dump", "erase"} => Freed(k) /\ job[h].hold = states[k].id

\* No call is about k.
Untouched(k) == \A h \in Hooks : ~Idle(h) => job[h].key # k

\* A key no call is about.
Rest(k) ==
  IF k \in DOMAIN heap
  THEN k \in registered /\ Open(k) /\ states[k].size = heap[k]
  ELSE k \notin registered /\ (k \in DOMAIN states => states[k].shadow = "SHADOW_FREED")

\* No two calls are about one key.
Lone == \A g, h \in Hooks : ~Idle(g) /\ ~Idle(h) /\ job[g].key = job[h].key => g = h

\* The driver handed out every address the hooks know of.
Past ==
  /\ DOMAIN heap \subseteq past /\ DOMAIN states \subseteq past
  /\ \A h \in Hooks : ~Idle(h) => job[h].key \in past

\* Its block was written, or needs no row, and is about to go.
Erasing(k) == \E h \in Hooks : pc[h] = "erase" /\ job[h].key = k
\* A block is written when it leaves, so what is in the table is not written yet.
Rows ==
  /\ WrittenOnce
  /\ \A k \in DOMAIN states : ~Erasing(k) => writes[states[k].id] = 0
  /\ \A n \in Ids : n > count => writes[n] = 0

\* Without restarts shadow mode stays what it is.
ShadowStays ==
  ~Restarts /\ status # "IN_TRACING" =>
    /\ \A k \in DOMAIN states : states[k].shadow = "SHADOW_CREATED"
    /\ \A h \in Hooks : pc[h] \notin {"idle", "decide"} => job[h].shadow

\* A session that began with a start no call raced with, or with the process.
InSession == calm /\ status = "IN_TRACING" /\ ~Starting

\* The usage is the sum of the live blocks.
LiveSizes == [k \in Live(states) |-> states[k].size]
UsedIsLive == \A m \in Meters : used[m] = SumOf(LiveSizes, m)

\* A start that met no call.
Session ==
  /\ calm /\ Starting => Quiet
  /\ ctl = "stopped" => status = "IN_TRACING"
  /\ ctl = "flushing" => status # "IN_TRACING"
  /\ InSession \/ (calm /\ ctl \in {"announce", "switch"}) =>
       \A k \in DOMAIN states : states[k].shadow \in {"NORMAL", "SHADOW_PROMOTED"}
  /\ InSession => \A h \in Hooks : pc[h] \notin {"idle", "decide"} => ~job[h].shadow
  /\ InSession \/ (calm /\ ctl = "switch") => UsedIsLive

\* The inductive invariant of tame runs.
TameInv ==
  /\ Lone /\ Past /\ Rows /\ ShadowStays /\ Session
  /\ \A h \in Hooks : ~Idle(h) => Stage(h)
  /\ \A k \in Keys : Untouched(k) => Rest(k)

\* As an invariant of every run.
TameBooks == Tame => TameInv

-----------------------------------------------------------------------------
(* Calls *)

\* A job with other contents.
LEMMA JobTypes ==
  ASSUME NEW j \in Jobs
  PROVE  /\ \A n \in {0} \cup Ids : /\ [j EXCEPT !.hold = n] \in Jobs
                                    /\ [j EXCEPT !.hold = n].hold = n
                                    /\ [j EXCEPT !.hold = n].kind = j.kind
                                    /\ [j EXCEPT !.hold = n].key = j.key
                                    /\ [j EXCEPT !.hold = n].size = j.size
                                    /\ [j EXCEPT !.hold = n].shadow = j.shadow
         /\ \A b \in BOOLEAN : /\ [j EXCEPT !.shadow = b] \in Jobs
                               /\ [j EXCEPT !.shadow = b].shadow = b
                               /\ [j EXCEPT !.shadow = b].hold = j.hold
                               /\ [j EXCEPT !.shadow = b].kind = j.kind
                               /\ [j EXCEPT !.shadow = b].key = j.key
                               /\ [j EXCEPT !.shadow = b].size = j.size
BY DEF Jobs

\* The other hooks stay where they are.
OthersStay(h) == \A g \in Hooks \ {h} : pc'[g] = pc[g] /\ job'[g] = job[g]

\* Hook h goes on to a place with a job.
Moves(h, label, j) ==
  /\ CallTypes' /\ OthersStay(h) /\ pc'[h] = label /\ job'[h] = j

\* A step puts one hook elsewhere, with a job,
LEMMA HookMoves ==
  ASSUME CallTypes, NEW h \in Hooks, NEW label \in Places, NEW j \in Jobs,
         label # "idle" => j.key \in Keys,
         pc' = [pc EXCEPT ![h] = label], job' = [job EXCEPT ![h] = j], registered' \subseteq Keys
  PROVE  Moves(h, label, j)
<1>1. /\ pc'[h] = label /\ job'[h] = j
      /\ \A g \in Hooks \ {h} : pc'[g] = pc[g] /\ job'[g] = job[g]
      /\ pc' \in [Hooks -> Places] /\ job' \in [Hooks -> Jobs]
  BY DEF CallTypes
<1>2. \A g \in Hooks : pc'[g] # "idle" => job'[g].key \in Keys
  BY <1>1 DEF CallTypes, Idle
<1> QED
  BY <1>1, <1>2 DEF CallTypes, Idle, Moves, OthersStay

\* with the job it has,
LEMMA HookGoes ==
  ASSUME CallTypes, NEW h \in Hooks, NEW label \in Places, ~Idle(h), label # "idle",
         Goto(h, label), UNCHANGED job, registered' \subseteq Keys
  PROVE  Moves(h, label, job[h])
<1>1. job[h] \in Jobs /\ job[h].key \in Keys /\ job' = [job EXCEPT ![h] = job[h]]
  BY DEF CallTypes
<1> QED
  BY <1>1, HookMoves DEF Goto

\* with the pointer it got,
LEMMA HookHolds ==
  ASSUME CallTypes, NEW h \in Hooks, NEW label \in Places, ~Idle(h),
         NEW n \in {0} \cup Ids, Hold(h, n, label), registered' \subseteq Keys
  PROVE  Moves(h, label, [job[h] EXCEPT !.hold = n])
<1>1. job[h] \in Jobs /\ job[h].key \in Keys
  BY DEF CallTypes
<1>2. [job[h] EXCEPT !.hold = n] \in Jobs /\ [job[h] EXCEPT !.hold = n].key = job[h].key
  BY <1>1, JobTypes
<1>3. job' = [job EXCEPT ![h] = [job[h] EXCEPT !.hold = n]] /\ pc' = [pc EXCEPT ![h] = label]
  BY DEF Hold, Goto
<1> QED
  BY <1>1, <1>2, <1>3, HookMoves

\* or back in the application.
LEMMA HookReturns ==
  ASSUME CallTypes, NEW h \in Hooks,
         Goto(h, "idle"), Forget(h), registered' \subseteq Keys
  PROVE  Moves(h, "idle", NoJob)
<1>1. NoJob \in Jobs /\ "idle" \in Places
  BY DEF NoJob, Jobs, Places
<1>2. job' = [job EXCEPT ![h] = NoJob] /\ pc' = [pc EXCEPT ![h] = "idle"]
  BY DEF Forget, Goto
<1> QED
  BY <1>1, <1>2, HookMoves

\* Where the steps up to the event take a hook.
LEMMA CallMoves ==
  ASSUME CallTypes, NEW h \in Hooks, NEW kind \in {"MALLOC", "FREE"}, NEW k \in Keys,
         NEW size \in Nat, Call(h, kind, k, size)
  PROVE  \E j \in Jobs : /\ Moves(h, "decide", j)
                         /\ j.kind = kind /\ j.key = k /\ j.size = size
<1> DEFINE j == [NoJob EXCEPT !.kind = kind, !.key = k, !.size = size]
<1>1. j \in Jobs /\ j.kind = kind /\ j.key = k /\ j.size = size
  BY DEF NoJob, Jobs
<1>2. /\ pc' = [pc EXCEPT ![h] = "decide"] /\ job' = [job EXCEPT ![h] = j]
      /\ "decide" \in Places /\ registered' \subseteq Keys
  BY DEF Call, Goto, Places, CallTypes
<1> HIDE DEF j
<1>3. Moves(h, "decide", j)
  BY <1>1, <1>2, HookMoves
<1> QED
  BY <1>1, <1>3

\* The trace mode goes into the job.
LEMMA DecideMoves ==
  ASSUME CallTypes, NEW h \in Hooks, Decide(h)
  PROVE  Moves(h, "register", [job[h] EXCEPT !.shadow = (status # "IN_TRACING")])
<1> DEFINE b == status # "IN_TRACING"
<1>1. b \in BOOLEAN /\ job[h] \in Jobs /\ job[h].key \in Keys
  BY DEF Decide, CallTypes, Idle
<1>2. [job[h] EXCEPT !.shadow = b] \in Jobs /\ [job[h] EXCEPT !.shadow = b].key = job[h].key
  BY <1>1 DEF Jobs
<1>3. /\ job' = [job EXCEPT ![h] = [job[h] EXCEPT !.shadow = b]]
      /\ pc' = [pc EXCEPT ![h] = "register"]
      /\ "register" \in Places /\ registered' \subseteq Keys
  BY DEF Decide, Goto, Places, CallTypes
<1> HIDE DEF b
<1>4. Moves(h, "register", [job[h] EXCEPT !.shadow = b])
  BY <1>1, <1>2, <1>3, HookMoves
<1> QED
  BY <1>4 DEF b

\* A MALLOC is registered; a FREE is looked up, and dropped when it is not found.
LEMMA RegisterMoves ==
  ASSUME CallTypes, NEW h \in Hooks, Register(h)
  PROVE  LET k == job[h].key IN
         \/ /\ job[h].kind = "MALLOC" /\ registered' = registered \cup {k}
            /\ Moves(h, "send", job[h])
         \/ /\ job[h].kind = "FREE" /\ registered' = registered \ {k} /\ k \in registered
            /\ Moves(h, "send", job[h])
         \/ /\ job[h].kind = "FREE" /\ registered' = registered \ {k} /\ k \notin registered
            /\ Moves(h, "idle", NoJob)
<1>1. /\ ~Idle(h) /\ job[h].key \in Keys /\ job[h].kind \in {"MALLOC", "FREE"}
      /\ registered \subseteq Keys /\ "send" \in Places
  BY DEF Register, CallTypes, Idle, Jobs, Places
<1>2. CASE job[h].kind = "MALLOC"
  <2>1. Goto(h, "send") /\ UNCHANGED job /\ registered' = registered \cup {job[h].key}
    BY <1>2 DEF Register
  <2> QED
    BY <1>1, <1>2, <2>1, HookGoes
<1>3. CASE job[h].kind = "FREE" /\ job[h].key \in registered
  <2>1. Goto(h, "send") /\ UNCHANGED job /\ registered' = registered \ {job[h].key}
    BY <1>3 DEF Register
  <2> QED
    BY <1>1, <1>3, <2>1, HookGoes
<1>4. CASE job[h].kind = "FREE" /\ job[h].key \notin registered
  <2>1. Goto(h, "idle") /\ Forget(h) /\ registered' = registered \ {job[h].key}
    BY <1>4 DEF Register
  <2> QED
    BY <1>1, <1>4, <2>1, HookReturns
<1> QED
  BY <1>1, <1>2, <1>3, <1>4

-----------------------------------------------------------------------------
(* The table *)

\* At most the block of k is new.
OneNew(k) ==
  \A j \in DOMAIN states' :
    \/ j \in DOMAIN states /\ states'[j].id = states[j].id
    \/ j = k /\ states'[j].id = count + 1 /\ count' = count + 1

\* A step of the table keeps its types and the ids.
TableMoves(k) == TableTypes' /\ count' \in {count, count + 1} /\ OneNew(k)

\* Then ids stay issued and unique.
LEMMA IdsMove ==
  ASSUME TableTypes, IdsIssued, IdsUnique, NEW k, TableMoves(k)
  PROVE  IdsIssued' /\ IdsUnique'
<1>1. /\ count \in Nat /\ count' \in {count, count + 1}
      /\ \A j \in DOMAIN states : states[j].id \in 1..count
  BY DEF TableTypes, IdsIssued, TableMoves
<1>2. OneNew(k)
  BY DEF TableMoves
<1>3. IdsIssued'
  BY <1>1, <1>2 DEF IdsIssued, OneNew
<1>4. IdsUnique'
  <2> SUFFICES ASSUME NEW i \in DOMAIN states', NEW j \in DOMAIN states', states'[i].id = states'[j].id
               PROVE  i = j
    BY DEF IdsUnique
  <2> QED
    BY <1>1, <1>2 DEF IdsUnique, OneNew
<1> QED
  BY <1>3, <1>4

\* Where the table is left alone.
LEMMA TableStays ==
  ASSUME TableTypes, UNCHANGED <<states, count, used, writes>>
  PROVE  TableMoves(<<>>)
BY DEF TableTypes, TableMoves, OneNew, IsTable, IsPartial

\* A new block, in place of none or of a residual one.
NewOf(h) ==
  NewBlock(count + 1, "MALLOC", job[h].size, IF job[h].shadow THEN "SHADOW_CREATED" ELSE "NORMAL")

\* Adding the block of a MALLOC ends its call.
LEMMA AddMallocMoves ==
  ASSUME TableTypes, CallTypes, NEW h \in Hooks, ~Idle(h), NEW tbl, UNCHANGED registered,
         tbl = states \/ tbl = Delete(states, job[h].key), AddMalloc(h, tbl)
  PROVE  /\ TableMoves(job[h].key) /\ Moves(h, "idle", NoJob) /\ router' = None
         /\ states' = Put(tbl, job[h].key, NewOf(h)) /\ count' = count + 1 /\ UNCHANGED writes
         /\ used' = IF job[h].shadow THEN used ELSE Charged(used, MeterOf(job[h].key), job[h].size)
         /\ NewOf(h) \in Blocks /\ NewOf(h).id = count + 1
<1> DEFINE k == job[h].key
           b == NewOf(h)
<1>1. /\ k \in Keys /\ job[h].size \in Nat /\ job[h].shadow \in BOOLEAN
      /\ count \in Nat /\ count + 1 \in Nat /\ IsTable(states) /\ IsFiniteSet(DOMAIN states)
  BY DEF CallTypes, Jobs, TableTypes
<1>2. b \in Blocks /\ b.id = count + 1
  <2>1. (IF job[h].shadow THEN "SHADOW_CREATED" ELSE "NORMAL") \in ShadowStates /\ "MALLOC" \in Kinds
    BY DEF ShadowStates, Kinds
  <2> QED
    BY <1>1, <2>1, NewBlockType DEF NewOf
<1>3. /\ IsTable(tbl) /\ IsFiniteSet(DOMAIN tbl) /\ DOMAIN tbl \subseteq DOMAIN states
      /\ \A j \in DOMAIN tbl : tbl[j] = states[j]
  <2>1. CASE tbl = states
    BY <1>1, <2>1
  <2>2. CASE tbl = Delete(states, k)
    <3>1. /\ IsTable(tbl) /\ DOMAIN tbl = DOMAIN states \ {k}
          /\ \A j \in DOMAIN states \ {k} : tbl[j] = states[j]
      BY <1>1, <2>2, DeleteTable, Zenon
    <3>2. IsFiniteSet(DOMAIN states \ {k})
      BY <1>1, FS_RemoveElement, Zenon
    <3> QED
      BY <3>1, <3>2
  <2> QED
    BY <2>1, <2>2
<1>4. states' = Put(tbl, k, b) /\ count' = count + 1 /\ UNCHANGED writes
  BY DEF AddMalloc, NewOf
<1>5. used' = IF job[h].shadow THEN used ELSE Charged(used, MeterOf(k), job[h].size)
  BY DEF AddMalloc
<1>6. used' \in [Meters -> Nat]
  <2>1. used \in [Meters -> Nat] /\ job[h].size \in Int
    BY <1>1 DEF TableTypes
  <2>2. Charged(used, MeterOf(k), job[h].size) \in [Meters -> Nat]
    BY <2>1, ChargedType
  <2> QED
    BY <1>5, <2>1, <2>2
<1> HIDE DEF b, k
<1>7. /\ IsTable(Put(tbl, k, b)) /\ DOMAIN Put(tbl, k, b) = DOMAIN tbl \cup {k}
      /\ \A j \in DOMAIN tbl \cup {k} : Put(tbl, k, b)[j] = IF j = k THEN b ELSE tbl[j]
  <2>1. k \in Keys /\ b \in Blocks /\ IsTable(tbl)
    BY <1>1, <1>2, <1>3
  <2> QED
    BY <2>1 DEF Put, IsTable, IsPartial
<1>8. IsFiniteSet(DOMAIN states')
  BY <1>3, <1>4, <1>7, FS_AddElement
<1>9. TableMoves(k)
  BY <1>1, <1>2, <1>3, <1>4, <1>6, <1>7, <1>8 DEF TableMoves, TableTypes, OneNew
<1>10. Moves(h, "idle", NoJob) /\ router' = None
  BY HookReturns DEF AddMalloc, Return, CallTypes
<1> QED
  BY <1>2, <1>4, <1>5, <1>9, <1>10 DEF b, k

\* A new event on a block, or another shadow state.
LEMMA RewriteMoves ==
  ASSUME TableTypes, NEW k \in DOMAIN states, NEW b \in Blocks, b.id = states[k].id,
         states' = [states EXCEPT ![k] = b], UNCHANGED <<count, writes>>, used' \in [Meters -> Nat]
  PROVE  /\ TableMoves(k) /\ DOMAIN states' = DOMAIN states /\ states'[k] = b
         /\ \A j \in DOMAIN states \ {k} : states'[j] = states[j]
<1>1. /\ DOMAIN states' = DOMAIN states /\ states'[k] = b
      /\ \A j \in DOMAIN states \ {k} : states'[j] = states[j]
  BY DEF TableTypes, IsTable, IsPartial
<1>2. IsTable(states)'
  <2>1. \A j \in DOMAIN states : states'[j] \in Blocks
    BY <1>1 DEF TableTypes, IsTable, IsPartial
  <2>2. states' = [j \in DOMAIN states |-> states'[j]]
    BY DEF TableTypes, IsTable, IsPartial
  <2> QED
    BY <1>1, <2>1, <2>2 DEF TableTypes, IsTable, IsPartial
<1> QED
  BY <1>1, <1>2 DEF TableTypes, TableMoves, OneNew

\* The residue of a key, or the state of an event that was handled, goes.
LEMMA DeleteMoves ==
  ASSUME TableTypes, NEW k, states' = Delete(states, k), UNCHANGED <<count, used, writes>>
  PROVE  /\ TableMoves(k) /\ DOMAIN states' = DOMAIN states \ {k}
         /\ \A j \in DOMAIN states \ {k} : states'[j] = states[j]
<1>1. /\ IsTable(states)' /\ DOMAIN states' = DOMAIN states \ {k}
      /\ \A j \in DOMAIN states \ {k} : states'[j] = states[j]
  BY DeleteTable DEF TableTypes, IsTable
<1>2. IsFiniteSet(DOMAIN states')
  BY <1>1, FS_RemoveElement DEF TableTypes
<1> QED
  BY <1>1, <1>2 DEF TableTypes, TableMoves, OneNew

\* There is an id left for whoever needs one.
LEMMA IdsSuffice ==
  ASSUME PipelineAssumption, DriverTypes, TableTypes, CountBound
  PROVE  /\ count \in {0} \cup Ids /\ 1..count \subseteq Ids
         /\ \A h \in Owing : count + 1 \in Ids
<1>1. /\ allocations \in Nat /\ allocations <= MaxAllocations /\ MaxAllocations \in Nat
      /\ count \in Nat
      /\ Cardinality(Owing) \in Nat /\ Cardinality(DOMAIN heap) \in Nat
      /\ count + Cardinality(Owing) + Cardinality(DOMAIN heap) <= 2 * allocations
  BY FS_CardinalityType DEF PipelineAssumption, DriverTypes, TableTypes, CountBound
<1>2. \A h \in Owing : Cardinality(Owing) # 0
  BY FS_EmptySet DEF CountBound
<1>3. count <= 2 * MaxAllocations /\ \A h \in Owing : count + 1 <= 2 * MaxAllocations
  BY <1>1, <1>2
<1> QED
  BY <1>1, <1>3 DEF Ids

\* Which state a FREE attaches to.
Ghost == NewBlock(count + 1, "FREE", 0, "NORMAL")
\* The block after its FREE.
Ended(j) == WithEvent(states[j], "FREE")

\* A FREE makes a ghost or ends the block it located; the call then points to it.
LEMMA SendFreeMoves ==
  ASSUME PipelineAssumption, DriverTypes, TableTypes, CallTypes, CountBound, IdsIssued,
         NEW h \in Hooks, SendFree(h)
  PROVE  LET k == job[h].key IN
         /\ router' = h /\ UNCHANGED writes
         /\ \/ /\ Located(states, k, 0) = {}
               /\ states' = Put(states, k, Ghost) /\ count' = count + 1 /\ UNCHANGED used
               /\ TableMoves(k) /\ k \in DOMAIN states' /\ states'[k].id = count + 1
               /\ count + 1 \in Ids
               /\ Moves(h, "handle", [job[h] EXCEPT !.hold = count + 1])
            \/ \E j \in Located(states, k, 0) :
               /\ j \in DOMAIN states
               /\ states' = [states EXCEPT ![j] = Ended(j)] /\ UNCHANGED count
               /\ used' = IF job[h].shadow THEN used
                          ELSE Charged(used, MeterOf(j), -FreedSize(states, j, 0))
               /\ TableMoves(j) /\ states'[j] = Ended(j) /\ Ended(j).id = states[j].id
               /\ states[j].id \in Ids
               /\ Moves(h, "handle", [job[h] EXCEPT !.hold = states[j].id])
<1> DEFINE k == job[h].key
<1>1. /\ ~Idle(h) /\ k \in Keys /\ router' = h /\ UNCHANGED writes /\ UNCHANGED registered
      /\ registered' \subseteq Keys /\ "handle" \in Places /\ h \in Owing
      /\ count \in Nat /\ IsTable(states) /\ IsFiniteSet(DOMAIN states)
  BY DEF SendFree, Idle, CallTypes, Places, Owing, Owes, TableTypes
<1>2. count + 1 \in Ids /\ 1..count \subseteq Ids
  BY <1>1, IdsSuffice
<1>3. CASE Located(states, k, 0) = {}
  <2>1. /\ states' = Put(states, k, Ghost) /\ count' = count + 1 /\ UNCHANGED used
        /\ Hold(h, count + 1, "handle")
    BY <1>3 DEF SendFree, Ghost
  <2>2. Ghost \in Blocks /\ Ghost.id = count + 1
    BY <1>1, NewBlockType DEF Ghost, Kinds, ShadowStates
  <2> HIDE DEF k
  <2>3. /\ IsTable(states)' /\ DOMAIN states' = DOMAIN states \cup {k}
        /\ states'[k] = Ghost /\ \A j \in DOMAIN states \ {k} : states'[j] = states[j]
    BY <1>1, <2>1, <2>2 DEF Put, IsTable, IsPartial
  <2>4. IsFiniteSet(DOMAIN states')
    BY <1>1, <2>3, FS_AddElement
  <2>5. TableMoves(k)
    BY <1>1, <2>1, <2>2, <2>3, <2>4 DEF TableMoves, TableTypes, OneNew
  <2>6. Moves(h, "handle", [job[h] EXCEPT !.hold = count + 1])
    BY <1>1, <1>2, <2>1, HookHolds
  <2> QED
    BY <1>1, <1>2, <1>3, <2>1, <2>2, <2>3, <2>5, <2>6 DEF k
<1>4. CASE Located(states, k, 0) # {}
  <2>1. PICK j \in Located(states, k, 0) :
          /\ states' = [states EXCEPT ![j] = WithEvent(@, "FREE")]
          /\ used' = IF job[h].shadow THEN used
                     ELSE Charged(used, MeterOf(j), -FreedSize(states, j, 0))
          /\ UNCHANGED count
          /\ Hold(h, states[j].id, "handle")
    BY <1>4 DEF SendFree
  <2>2. j \in DOMAIN states /\ states[j] \in Blocks
    BY <1>1 DEF Located, IsTable, IsPartial
  <2>3. Ended(j) \in Blocks /\ Ended(j).id = states[j].id
    BY <2>2, WithEventType DEF Ended, Kinds
  <2>4. states' = [states EXCEPT ![j] = Ended(j)]
    BY <2>1 DEF Ended
  <2>5. used' \in [Meters -> Nat]
    <3>1. FreedSize(states, j, 0) \in Nat /\ used \in [Meters -> Nat]
      BY <2>2 DEF FreedSize, Blocks, TableTypes
    <3>2. -FreedSize(states, j, 0) \in Int
      BY <3>1
    <3>3. Charged(used, MeterOf(j), -FreedSize(states, j, 0)) \in [Meters -> Nat]
      BY <3>1, <3>2, ChargedType, Zenon
    <3> QED
      BY <2>1, <3>1, <3>3
  <2>6. TableMoves(j) /\ states'[j] = Ended(j)
    BY <1>1, <2>1, <2>2, <2>3, <2>4, <2>5, RewriteMoves
  <2>7. states[j].id \in Ids
    BY <1>2, <2>2 DEF IdsIssued
  <2>8. Moves(h, "handle", [job[h] EXCEPT !.hold = states[j].id])
    BY <1>1, <2>1, <2>7, HookHolds
  <2> QED
    BY <1>1, <2>1, <2>2, <2>3, <2>4, <2>6, <2>7, <2>8
<1> QED
  BY <1>3, <1>4

\* The block a hook points to.
LEMMA HeldOne ==
  ASSUME TableTypes, NEW h \in Hooks, NEW k \in HeldKeys(h)
  PROVE  k \in DOMAIN states /\ states[k] \in Blocks /\ states[k].id = job[h].hold
BY DEF HeldKeys, TableTypes, IsTable, IsPartial

\* The residue is there, and the call points to it, or it is gone.
LEMMA FindResidueMoves ==
  ASSUME PipelineAssumption, DriverTypes, TableTypes, CallTypes, CountBound, IdsIssued,
         NEW h \in Hooks, FindResidue(h)
  PROVE  LET k == job[h].key IN
         /\ UNCHANGED <<states, count, used, writes, router>>
         /\ \/ /\ k \in DOMAIN states
               /\ Moves(h, "close", [job[h] EXCEPT !.hold = states[k].id])
               /\ states[k].id \in Ids
            \/ Moves(h, "erase", job[h])
<1> DEFINE k == job[h].key
<1>1. /\ ~Idle(h) /\ registered' \subseteq Keys /\ {"close", "erase"} \subseteq Places
      /\ UNCHANGED <<states, count, used, writes, router>>
  BY DEF FindResidue, Idle, CallTypes, Places, table
<1>2. CASE k \in DOMAIN states
  <2>1. Hold(h, states[k].id, "close")
    BY <1>2 DEF FindResidue
  <2>2. states[k].id \in Ids
    BY <1>2, IdsSuffice DEF IdsIssued
  <2> QED
    BY <1>1, <1>2, <2>1, <2>2, HookHolds
<1>3. CASE k \notin DOMAIN states
  <2>1. Goto(h, "erase") /\ UNCHANGED job
    BY <1>3 DEF FindResidue
  <2> QED
    BY <1>1, <2>1, HookGoes
<1> QED
  BY <1>2, <1>3

\* The residue may get its FREE.
LEMMA CloseResidueMoves ==
  ASSUME TableTypes, CallTypes, NEW h \in Hooks, CloseResidue(h)
  PROVE  /\ UNCHANGED <<count, used, writes, router>>
         /\ DOMAIN states' = DOMAIN states
         /\ \A j \in DOMAIN states : states'[j].id = states[j].id
         /\ \E k \in HeldKeys(h) : TableMoves(k)
         /\ \E label \in {"dump", "erase"} : Moves(h, label, job[h])
<1>1. PICK k \in HeldKeys(h) :
        IF states[k].shadow = "SHADOW_CREATED"
        THEN Goto(h, "erase") /\ UNCHANGED states
        ELSE /\ Goto(h, "dump")
             /\ states' = IF states[k].shadow = "SHADOW_FREED" THEN states
                          ELSE [states EXCEPT ![k] = WithEvent(@, "FREE")]
  BY DEF CloseResidue
<1>2. k \in DOMAIN states /\ states[k] \in Blocks
  BY HeldOne
<1>3. /\ UNCHANGED <<count, used, writes, router>>
      /\ ~Idle(h) /\ registered' \subseteq Keys /\ {"dump", "erase"} \subseteq Places /\ UNCHANGED job
  BY DEF CloseResidue, Idle, CallTypes, Places
<1>4. \E label \in {"dump", "erase"} : Moves(h, label, job[h])
  BY <1>1, <1>3, HookGoes
<1>5. CASE UNCHANGED states
  BY <1>3, <1>4, <1>5 DEF TableTypes, TableMoves, OneNew, IsTable, IsPartial
<1>6. CASE states' = [states EXCEPT ![k] = WithEvent(@, "FREE")]
  <2>1. WithEvent(states[k], "FREE") \in Blocks /\ WithEvent(states[k], "FREE").id = states[k].id
    BY <1>2, WithEventType DEF Kinds
  <2>2. states' = [states EXCEPT ![k] = WithEvent(states[k], "FREE")] /\ used' \in [Meters -> Nat]
    BY <1>3, <1>6 DEF TableTypes
  <2>3. /\ TableMoves(k) /\ DOMAIN states' = DOMAIN states
        /\ states'[k] = WithEvent(states[k], "FREE")
        /\ \A j \in DOMAIN states \ {k} : states'[j] = states[j]
    BY <1>2, <1>3, <2>1, <2>2, RewriteMoves
  <2> QED
    BY <1>3, <1>4, <2>1, <2>3
<1> QED
  BY <1>1, <1>5, <1>6

\* A traced FREE goes to the dump; in shadow mode its block is forgotten or marked.
LEMMA HandleFreeMoves ==
  ASSUME TableTypes, CallTypes, NEW h \in Hooks, HandleFree(h)
  PROVE  /\ UNCHANGED <<count, used, writes>>
         /\ \E k \in HeldKeys(h) :
              /\ TableMoves(k)
              /\ \/ /\ UNCHANGED <<states, router>> /\ ~job[h].shadow
                    /\ Moves(h, "dump", job[h])
                 \/ /\ UNCHANGED <<states, router>> /\ job[h].shadow
                    /\ states[k].shadow = "SHADOW_CREATED" /\ Moves(h, "erase", job[h])
                 \/ /\ DOMAIN states' = DOMAIN states /\ job[h].shadow
                    /\ states[k].shadow # "SHADOW_CREATED"
                    /\ states'[k] = [states[k] EXCEPT !.shadow = "SHADOW_FREED"]
                    /\ \A j \in DOMAIN states \ {k} : states'[j] = states[j]
                    /\ router' = None /\ Moves(h, "idle", NoJob)
<1>1. PICK k \in HeldKeys(h) :
        IF ~job[h].shadow
        THEN Goto(h, "dump") /\ UNCHANGED <<states, job, router>>
        ELSE IF states[k].shadow = "SHADOW_CREATED"
             THEN Goto(h, "erase") /\ UNCHANGED <<states, job, router>>
             ELSE states' = [states EXCEPT ![k].shadow = "SHADOW_FREED"] /\ Return(h)
  BY DEF HandleFree
<1>2. k \in DOMAIN states /\ states[k] \in Blocks
  BY HeldOne
<1>3. /\ UNCHANGED <<count, used, writes>>
      /\ ~Idle(h) /\ registered' \subseteq Keys /\ {"dump", "erase"} \subseteq Places
  BY DEF HandleFree, Idle, CallTypes, Places
<1>4. CASE UNCHANGED <<states, job, router>>
  <2>1. TableMoves(k)
    BY <1>3, <1>4 DEF TableTypes, TableMoves, OneNew, IsTable, IsPartial
  <2>2. CASE ~job[h].shadow
    <3>1. Goto(h, "dump")
      BY <1>1, <2>2
    <3> QED
      BY <1>3, <1>4, <2>1, <2>2, <3>1, HookGoes
  <2>3. CASE job[h].shadow /\ states[k].shadow = "SHADOW_CREATED"
    <3>1. Goto(h, "erase")
      BY <1>1, <2>3
    <3> QED
      BY <1>3, <1>4, <2>1, <2>3, <3>1, HookGoes
  <2>4. CASE job[h].shadow /\ states[k].shadow # "SHADOW_CREATED"
    <3>1. pc' = [pc EXCEPT ![h] = "idle"] /\ job' = [job EXCEPT ![h] = NoJob] /\ UNCHANGED job
          /\ states' = [states EXCEPT ![k].shadow = "SHADOW_FREED"] /\ Return(h)
      BY <1>1, <1>4, <2>4 DEF Return, Goto, Forget
    <3>2. FALSE
      <4>1. job[h] = NoJob
        BY <3>1 DEF CallTypes
      <4>2. job[h].key \in Keys /\ job[h].shadow = FALSE
        BY <1>3, <4>1 DEF CallTypes, NoJob
      <4> QED
        BY <2>4, <4>2
    <3> QED
      BY <3>2
  <2> QED
    BY <2>2, <2>3, <2>4
<1>5. CASE /\ job[h].shadow /\ states[k].shadow # "SHADOW_CREATED"
           /\ states' = [states EXCEPT ![k].shadow = "SHADOW_FREED"] /\ Return(h)
  <2> DEFINE b == [states[k] EXCEPT !.shadow = "SHADOW_FREED"]
  <2>1. b \in Blocks /\ b.id = states[k].id
    BY <1>2 DEF Blocks, ShadowStates
  <2>2. states' = [states EXCEPT ![k] = b] /\ used' \in [Meters -> Nat]
    BY <1>3, <1>5 DEF TableTypes
  <2> HIDE DEF b
  <2>3. /\ TableMoves(k) /\ DOMAIN states' = DOMAIN states /\ states'[k] = b
        /\ \A j \in DOMAIN states \ {k} : states'[j] = states[j]
    BY <1>2, <1>3, <2>1, <2>2, RewriteMoves
  <2>4. Moves(h, "idle", NoJob) /\ router' = None
    BY <1>3, <1>5, HookReturns DEF Return
  <2> QED
    BY <1>3, <1>5, <2>3, <2>4 DEF b
<1> QED
  BY <1>1, <1>4, <1>5

\* The dump leaves the table alone.
LEMMA DumpBlockMoves ==
  ASSUME TableTypes, CallTypes, NEW h \in Hooks, DumpBlock(h)
  PROVE  /\ UNCHANGED <<states, count, used, router>> /\ TableMoves(<<>>)
         /\ writes' = [writes EXCEPT ![job[h].hold] = @ + 1]
         /\ Moves(h, "erase", job[h])
<1>1. /\ ~Idle(h) /\ registered' \subseteq Keys /\ "erase" \in Places /\ UNCHANGED job
      /\ Goto(h, "erase") /\ UNCHANGED <<states, count, used, router>>
      /\ writes' = [writes EXCEPT ![job[h].hold] = @ + 1]
  BY DEF DumpBlock, Idle, CallTypes, Places
<1>2. writes' \in [Ids -> Nat]
  <2>1. writes \in [Ids -> Nat]
    BY DEF TableTypes
  <2>2. writes' = [n \in Ids |-> IF n = job[h].hold THEN writes[n] + 1 ELSE writes[n]]
    BY <1>1, <2>1
  <2> QED
    BY <2>1, <2>2
<1>3. TableMoves(<<>>)
  BY <1>1, <1>2 DEF TableTypes, TableMoves, OneNew, IsTable, IsPartial
<1> QED
  BY <1>1, <1>3, HookGoes

\* The block of a FREE is deleted; that of a MALLOC is replaced.
LEMMA EraseBlockMoves ==
  ASSUME TableTypes, CallTypes, NEW h \in Hooks, EraseBlock(h)
  PROVE  LET k == job[h].key IN
         /\ TableMoves(k) /\ Moves(h, "idle", NoJob) /\ router' = None /\ UNCHANGED writes
         /\ \/ /\ job[h].kind = "MALLOC"
               /\ count' = count + 1
            \/ /\ job[h].kind = "FREE"
               /\ UNCHANGED <<count, used>>
               /\ DOMAIN states' = DOMAIN states \ {k}
               /\ \A j \in DOMAIN states \ {k} : states'[j] = states[j]
<1>1. ~Idle(h) /\ UNCHANGED registered /\ job[h].kind \in {"MALLOC", "FREE"} /\ registered' \subseteq Keys
  BY DEF EraseBlock, Idle, CallTypes, Jobs
<1>2. CASE job[h].kind = "MALLOC"
  <2>1. AddMalloc(h, Delete(states, job[h].key))
    BY <1>2 DEF EraseBlock
  <2> QED
    BY <1>1, <1>2, <2>1, AddMallocMoves
<1>3. CASE job[h].kind = "FREE"
  <2>1. states' = Delete(states, job[h].key) /\ Return(h) /\ UNCHANGED <<count, used, writes>>
    BY <1>3 DEF EraseBlock
  <2>2. Moves(h, "idle", NoJob) /\ router' = None
    BY <1>1, <2>1, HookReturns DEF Return
  <2>3. /\ TableMoves(job[h].key) /\ DOMAIN states' = DOMAIN states \ {job[h].key}
        /\ \A j \in DOMAIN states \ {job[h].key} : states'[j] = states[j]
    BY <2>1, DeleteMoves
  <2> QED
    BY <1>3, <2>1, <2>2, <2>3
<1> QED
  BY <1>1, <1>2, <1>3

\* A promotion.
LEMMA PromoteMoves ==
  ASSUME TableTypes, Promote
  PROVE  /\ TableMoves(<<>>) /\ UNCHANGED <<count, used>>
         /\ DOMAIN states' = DOMAIN states \ Expired(states)
         /\ \A k \in DOMAIN states' :
              /\ states'[k] = PromotedBlock(states[k])
              /\ states'[k].id = states[k].id /\ states'[k].head = states[k].head
              /\ states'[k].tail = states[k].tail /\ states'[k].size = states[k].size
              /\ states'[k].shadow \in {"NORMAL", "SHADOW_PROMOTED"}
              /\ states[k].shadow # "SHADOW_FREED"
<1>1. /\ states' = Promoted(states) /\ UNCHANGED <<count, used>>
      /\ writes' = [n \in Ids |->
                      IF \E k \in Expired(states) : states[k].id = n THEN writes[n] + 1 ELSE writes[n]]
  BY DEF Promote
<1>2. /\ DOMAIN states' = DOMAIN states \ Expired(states) /\ Expired(states) \subseteq DOMAIN states
      /\ \A k \in DOMAIN states' : states'[k] = PromotedBlock(states[k])
      /\ states' = [k \in DOMAIN states' |-> states'[k]]
  BY <1>1 DEF Promoted, Expired
<1>3. ASSUME NEW k \in DOMAIN states'
      PROVE  /\ states'[k] \in Blocks
             /\ states'[k].id = states[k].id /\ states'[k].head = states[k].head
             /\ states'[k].tail = states[k].tail /\ states'[k].size = states[k].size
             /\ states'[k].shadow \in {"NORMAL", "SHADOW_PROMOTED"}
             /\ states[k].shadow # "SHADOW_FREED"
  <2>1. states[k] \in Blocks /\ states[k].shadow # "SHADOW_FREED" /\ states'[k] = PromotedBlock(states[k])
    BY <1>2 DEF TableTypes, IsTable, IsPartial, Expired
  <2> QED
    BY <2>1 DEF PromotedBlock, Blocks, ShadowStates
<1>4. IsTable(states)'
  BY <1>2, <1>3 DEF TableTypes, IsTable, IsPartial
<1>5. IsFiniteSet(DOMAIN states')
  BY <1>2, FS_Subset DEF TableTypes
<1>6. writes' \in [Ids -> Nat]
  BY <1>1 DEF TableTypes
<1>7. TableMoves(<<>>)
  BY <1>1, <1>2, <1>3, <1>4, <1>5, <1>6 DEF TableTypes, TableMoves, OneNew
<1> QED
  BY <1>1, <1>2, <1>3, <1>7

\* The announcement of a start.
LEMMA AnnounceStartMoves ==
  ASSUME TableTypes, AnnounceStart
  PROVE  /\ TableMoves(<<>>) /\ UNCHANGED <<states, count, writes>>
         /\ used' = Baseline(states)
<1>1. UNCHANGED <<states, count, writes>> /\ used' = Baseline(states)
  BY DEF AnnounceStart
<1>2. used' \in [Meters -> Nat]
  BY <1>1, BaselineType DEF TableTypes
<1> QED
  BY <1>1, <1>2 DEF TableTypes, TableMoves, OneNew, IsTable, IsPartial

-----------------------------------------------------------------------------
(* Types, ids and locks *)

\* A step of a hook that uses up at most the id it owed.
LEMMA OwingDrops ==
  ASSUME CountBound, UNCHANGED driver, count \in Nat, allocations \in Nat, NEW h \in Hooks, OthersStay(h),
         Owes(h)' => Owes(h) /\ count' = count,
         ~Owes(h)' => count' = count \/ (Owes(h) /\ count' = count + 1)
  PROVE  CountBound'
<1>1. Owing' = IF Owes(h)' THEN Owing ELSE Owing \ {h}
  <2>1. \A g \in Hooks \ {h} : Owes(g)' <=> Owes(g)
    BY DEF OthersStay, Owes, Idle
  <2> QED
    BY <2>1 DEF Owing
<1>2. IsFiniteSet(Owing) /\ Cardinality(Owing) \in Nat /\ Cardinality(DOMAIN heap) \in Nat
  BY FS_CardinalityType DEF CountBound
<1>3. /\ IsFiniteSet(Owing \ {h})
      /\ Cardinality(Owing \ {h}) = IF h \in Owing THEN Cardinality(Owing) - 1 ELSE Cardinality(Owing)
  BY <1>2, FS_RemoveElement
<1>4. UNCHANGED <<heap, allocations>>
  BY DEF driver
<1>5. CASE Owes(h)'
  <2>1. Owing' = Owing /\ count' = count
    BY <1>1, <1>5
  <2> QED
    BY <1>4, <2>1 DEF CountBound
<1>6. CASE ~Owes(h)'
  <2>1. Owing' = Owing \ {h}
    BY <1>1, <1>6
  <2>2. h \in Owing <=> Owes(h)
    BY DEF Owing
  <2>3. count + Cardinality(Owing) + Cardinality(DOMAIN heap) <= 2 * allocations
    BY DEF CountBound
  <2>4. IsFiniteSet(Owing') /\ IsFiniteSet(DOMAIN heap')
    BY <1>3, <1>4, <2>1 DEF CountBound
  <2>5. count' + Cardinality(Owing') + Cardinality(DOMAIN heap) <= 2 * allocations
    <3>1. Cardinality(Owing') = IF Owes(h) THEN Cardinality(Owing) - 1 ELSE Cardinality(Owing)
      BY <1>3, <2>1, <2>2
    <3>2. count' = count \/ (Owes(h) /\ count' = count + 1)
      BY <1>6
    <3> HIDE DEF Owing
    <3> QED
      BY <1>2, <2>3, <3>1, <3>2
  <2> QED
    BY <1>4, <2>4, <2>5 DEF CountBound
<1> QED
  BY <1>5, <1>6

\* processMutex_ stays with whoever is inside.
LEMMA LocksKept ==
  ASSUME PipelineAssumption, Locks, UNCHANGED control, calm' = (calm /\ ~Starting) \/ UNCHANGED calm,
         NEW h \in Hooks, OthersStay(h),
         pc[h] \in Inside \/ router = None \/ UNCHANGED router,
         pc'[h] \in Inside => router' = h
  PROVE  Locks'
<1>1. \A g \in Hooks : pc'[g] \in Inside => router' = g
  <2> SUFFICES ASSUME NEW g \in Hooks \ {h}, pc'[g] \in Inside
               PROVE  router' = g
    OBVIOUS
  <2>1. pc[g] \in Inside /\ router = g
    BY DEF OthersStay, Locks
  <2> QED
    BY <2>1 DEF Locks, PipelineAssumption
<1>2. (mtx = Ctl <=> ctl = "promoting")' /\ (~Restarts => ctl = "idle" /\ calm)'
  BY DEF Locks, control, Starting
<1> QED
  BY <1>1, <1>2 DEF Locks

\* The driver hands out or takes back an address.
LEMMA MallocCalls ==
  ASSUME MemoryAssumption, PipelineAssumption, PipelineInv,
         NEW h \in Hooks, NEW k \in Keys, NEW size \in Sizes, CallMalloc(h, k, size)
  PROVE  /\ PipelineInv' /\ k \notin DOMAIN heap
         /\ DOMAIN heap' = DOMAIN heap \cup {k} /\ heap'[k] = size
         /\ \A j \in DOMAIN heap : heap'[j] = heap[j]
<1>1. /\ DriverTypes /\ TableTypes /\ CallTypes /\ ControlTypes
      /\ CountBound /\ IdsIssued /\ IdsUnique /\ Locks
      /\ size \in Nat \ {0} /\ Idle(h) /\ heap' = Put(heap, k, size) /\ past' = past \cup {k}
      /\ allocations < MaxAllocations /\ allocations' = allocations + 1 /\ UNCHANGED reuse
      /\ Call(h, "MALLOC", k, size)
  BY DEF PipelineInv, CallMalloc, MemoryAssumption
<1>2. k \notin DOMAIN heap
  <2> SUFFICES ASSUME k \in DOMAIN heap PROVE FALSE
    OBVIOUS
  <2>1. AddrOf(k) \in Nat /\ heap[k] \in Nat \ {0}
    BY DEF PipelineInv, DriverTypes, IsPartial, MemoryAssumption, Keys, AddrOf
  <2>2. AddrOf(k) + size <= AddrOf(k) \/ AddrOf(k) + heap[k] <= AddrOf(k)
    BY DEF CallMalloc
  <2> QED
    BY <1>1, <2>1, <2>2
<1>3. /\ DOMAIN heap' = DOMAIN heap \cup {k} /\ heap'[k] = size
      /\ \A j \in DOMAIN heap : heap'[j] = heap[j]
      /\ heap' = [j \in DOMAIN heap' |-> heap'[j]]
  BY <1>1, <1>2 DEF Put
<1>4. DriverTypes'
  <2>1. IsPartial(heap, Keys, Sizes)'
    BY <1>1, <1>3 DEF DriverTypes, IsPartial
  <2> QED
    BY <1>1, <2>1 DEF DriverTypes, PipelineAssumption
<1>5. PICK j \in Jobs : Moves(h, "decide", j) /\ j.kind = "MALLOC" /\ j.key = k /\ j.size = size
  BY <1>1, CallMoves
<1>6. /\ CallTypes' /\ OthersStay(h) /\ pc'[h] = "decide" /\ job'[h] = j
  BY <1>5 DEF Moves
<1>7. /\ UNCHANGED <<states, count, used, writes, status, ctl, starts, mtx, router>>
      /\ calm' = (calm /\ ~Starting)
  BY <1>1 DEF Call, table, control
<1>8. TableTypes' /\ IdsIssued' /\ IdsUnique'
  BY <1>1, <1>7, TableStays, IdsMove DEF TableMoves
<1>9. CountBound'
  <2>1. h \notin Owing /\ Owing' = Owing \cup {h}
    <3>1. \A g \in Hooks \ {h} : Owes(g)' <=> Owes(g)
      BY <1>6 DEF OthersStay, Owes, Idle
    <3>2. Owes(h)' /\ ~Owes(h)
      BY <1>1, <1>6 DEF Owes, Idle
    <3> QED
      BY <3>1, <3>2 DEF Owing
  <2>2. IsFiniteSet(Owing) /\ IsFiniteSet(DOMAIN heap)
    BY <1>1 DEF CountBound
  <2>3. IsFiniteSet(Owing') /\ Cardinality(Owing') = Cardinality(Owing) + 1 /\ Cardinality(Owing) \in Nat
    BY <2>1, <2>2, FS_AddElement, FS_CardinalityType
  <2>4. /\ IsFiniteSet(DOMAIN heap') /\ Cardinality(DOMAIN heap') = Cardinality(DOMAIN heap) + 1
        /\ Cardinality(DOMAIN heap) \in Nat
    BY <1>2, <1>3, <2>2, FS_AddElement, FS_CardinalityType
  <2>5. count' = count /\ count \in Nat /\ allocations \in Nat /\ allocations' = allocations + 1
    BY <1>1, <1>7 DEF TableTypes, DriverTypes
  <2>6. count + Cardinality(Owing) + Cardinality(DOMAIN heap) <= 2 * allocations
    BY <1>1 DEF CountBound
  <2> HIDE DEF Owing
  <2>7. count' + Cardinality(Owing') + Cardinality(DOMAIN heap') <= 2 * allocations'
    BY <2>3, <2>4, <2>5, <2>6
  <2> QED
    BY <2>3, <2>4, <2>7 DEF CountBound
<1>10. Locks'
  BY <1>1, <1>6, <1>7, LocksKept DEF control, Inside
<1>11. ControlTypes'
  BY <1>1, <1>7 DEF ControlTypes
<1> QED
  BY <1>2, <1>3, <1>4, <1>6, <1>8, <1>9, <1>10, <1>11 DEF PipelineInv

\* The driver takes an address back.
LEMMA FreeCalls ==
  ASSUME MemoryAssumption, PipelineAssumption, PipelineInv,
         NEW h \in Hooks, NEW k \in Keys, CallFree(h, k)
  PROVE  /\ PipelineInv'
         /\ DOMAIN heap' = DOMAIN heap \ {k}
         /\ \A j \in DOMAIN heap \ {k} : heap'[j] = heap[j]
<1>1. /\ DriverTypes /\ TableTypes /\ CallTypes /\ ControlTypes
      /\ CountBound /\ IdsIssued /\ IdsUnique /\ Locks
      /\ Idle(h) /\ heap' = Delete(heap, k) /\ k \in DOMAIN heap
      /\ UNCHANGED <<past, allocations, reuse>>
      /\ Call(h, "FREE", k, 0)
  BY DEF PipelineInv, CallFree
<1>3. /\ DOMAIN heap' = DOMAIN heap \ {k}
      /\ \A j \in DOMAIN heap \ {k} : heap'[j] = heap[j]
      /\ heap' = [j \in DOMAIN heap' |-> heap'[j]]
  BY <1>1 DEF Delete, Restrict
<1>4. DriverTypes'
  <2>1. IsPartial(heap, Keys, Sizes)'
    BY <1>1, <1>3 DEF DriverTypes, IsPartial
  <2> QED
    BY <1>1, <2>1 DEF DriverTypes
<1>5. PICK j \in Jobs : Moves(h, "decide", j) /\ j.kind = "FREE" /\ j.key = k /\ j.size = 0
  BY <1>1, CallMoves
<1>6. /\ CallTypes' /\ OthersStay(h) /\ pc'[h] = "decide" /\ job'[h] = j
  BY <1>5 DEF Moves
<1>7. /\ UNCHANGED <<states, count, used, writes, status, ctl, starts, mtx, router>>
      /\ calm' = (calm /\ ~Starting)
  BY <1>1 DEF Call, table, control
<1>8. TableTypes' /\ IdsIssued' /\ IdsUnique'
  BY <1>1, <1>7, TableStays, IdsMove DEF TableMoves
<1>9. CountBound'
  <2>1. h \notin Owing /\ Owing' = Owing \cup {h}
    <3>1. \A g \in Hooks \ {h} : Owes(g)' <=> Owes(g)
      BY <1>6 DEF OthersStay, Owes, Idle
    <3>2. Owes(h)' /\ ~Owes(h)
      BY <1>1, <1>6 DEF Owes, Idle
    <3> QED
      BY <3>1, <3>2 DEF Owing
  <2>2. IsFiniteSet(Owing) /\ IsFiniteSet(DOMAIN heap)
    BY <1>1 DEF CountBound
  <2>3. IsFiniteSet(Owing') /\ Cardinality(Owing') = Cardinality(Owing) + 1 /\ Cardinality(Owing) \in Nat
    BY <2>1, <2>2, FS_AddElement, FS_CardinalityType
  <2>4. /\ IsFiniteSet(DOMAIN heap') /\ Cardinality(DOMAIN heap') = Cardinality(DOMAIN heap) - 1
        /\ Cardinality(DOMAIN heap) \in Nat
    BY <1>1, <1>3, <2>2, FS_RemoveElement, FS_CardinalityType
  <2>5. count' = count /\ count \in Nat /\ allocations \in Nat /\ allocations' = allocations
    BY <1>1, <1>7 DEF TableTypes, DriverTypes
  <2>6. count + Cardinality(Owing) + Cardinality(DOMAIN heap) <= 2 * allocations
    BY <1>1 DEF CountBound
  <2> HIDE DEF Owing
  <2>7. count' + Cardinality(Owing') + Cardinality(DOMAIN heap') <= 2 * allocations'
    BY <2>3, <2>4, <2>5, <2>6
  <2> QED
    BY <2>3, <2>4, <2>7 DEF CountBound
<1>10. Locks'
  BY <1>1, <1>6, <1>7, LocksKept DEF control, Inside
<1>11. ControlTypes'
  BY <1>1, <1>7 DEF ControlTypes
<1> QED
  BY <1>3, <1>4, <1>6, <1>8, <1>9, <1>10, <1>11 DEF PipelineInv

\* What a step of a hook has to show for it.
LEMMA HookKeeps ==
  ASSUME PipelineAssumption, PipelineInv, UNCHANGED <<driver, control, calm>>,
         NEW h \in Hooks, NEW label, NEW j, NEW k, Moves(h, label, j), TableMoves(k),
         label = "idle" \/ (j.kind = job[h].kind /\ ~Idle(h)), label # "decide",
         label \in {"register", "send"} => pc[h] \in {"decide", "register"},
         count' = count + 1 => Owes(h) /\ ~Owes(h)',
         pc[h] \in Inside \/ router = None \/ UNCHANGED router,
         label \in Inside => router' = h, router' \in Hooks \cup {None}
  PROVE  PipelineInv'
<1>1. /\ DriverTypes /\ TableTypes /\ CallTypes /\ ControlTypes
      /\ CountBound /\ IdsIssued /\ IdsUnique /\ Locks
  BY DEF PipelineInv
<1>2. CallTypes' /\ OthersStay(h) /\ pc'[h] = label /\ job'[h] = j /\ label \in Places
  <2>1. CallTypes' /\ OthersStay(h) /\ pc'[h] = label /\ job'[h] = j
    BY DEF Moves
  <2> QED
    BY <2>1 DEF CallTypes
<1>3. TableTypes' /\ IdsIssued' /\ IdsUnique' /\ count' \in {count, count + 1}
  BY <1>1, IdsMove DEF TableMoves
<1>4. CountBound'
  <2>1. Owes(h)' => Owes(h)
    BY <1>2 DEF Owes, Idle, CallTypes, Places
  <2> QED
    BY <1>1, <1>2, <1>3, <2>1, OwingDrops DEF TableTypes, DriverTypes
<1>5. Locks'
  BY <1>1, <1>2, LocksKept
<1>6. DriverTypes' /\ ControlTypes'
  BY <1>1 DEF DriverTypes, ControlTypes, driver, control
<1> QED
  BY <1>2, <1>3, <1>4, <1>5, <1>6 DEF PipelineInv

\* The steps of a hook.
LEMMA HookStepInv ==
  ASSUME MemoryAssumption, PipelineAssumption, PipelineInv, NEW h \in Hooks, HookStep(h)
  PROVE  PipelineInv'
<1>1. /\ DriverTypes /\ TableTypes /\ CallTypes /\ ControlTypes
      /\ CountBound /\ IdsIssued /\ IdsUnique /\ Locks
      /\ router \in Hooks \cup {None} /\ h \in Hooks \cup {None} /\ job[h] \in Jobs
  BY DEF PipelineInv, ControlTypes, CallTypes
<1>2. CASE Decide(h)
  <2>1. PICK j : Moves(h, "register", j) /\ j.kind = job[h].kind
    <3>1. Moves(h, "register", [job[h] EXCEPT !.shadow = (status # "IN_TRACING")])
      BY <1>1, <1>2, DecideMoves
    <3>2. [job[h] EXCEPT !.shadow = (status # "IN_TRACING")].kind = job[h].kind
      BY <1>1 DEF Jobs
    <3> QED
      BY <3>1, <3>2
  <2>2. TableMoves(<<>>) /\ UNCHANGED <<driver, control, calm, router, count>> /\ pc[h] = "decide"
    BY <1>1, <1>2, TableStays DEF Decide, table
  <2> QED
    BY <1>1, <2>1, <2>2, HookKeeps DEF Inside, Idle, TableTypes
<1>3. CASE Register(h)
  <2>1. PICK label \in {"send", "idle"}, j \in {job[h], NoJob} :
          Moves(h, label, j) /\ (label = "idle" \/ j = job[h])
    BY <1>1, <1>3, RegisterMoves
  <2>2. TableMoves(<<>>) /\ UNCHANGED <<driver, control, calm, router, count>> /\ pc[h] = "register"
    BY <1>1, <1>3, TableStays DEF Register, table
  <2> QED
    BY <1>1, <2>1, <2>2, HookKeeps DEF Inside, Idle, TableTypes
<1>4. CASE SendMalloc(h)
  <2>1. /\ pc[h] = "send" /\ router = None /\ UNCHANGED <<driver, control, calm, registered>>
        /\ job[h].kind = "MALLOC" /\ ~Idle(h) /\ Owes(h)
    BY <1>4 DEF SendMalloc, Idle, Owes
  <2>2. CASE job[h].key \in DOMAIN states
    <3>1. router' = h /\ Goto(h, "residue") /\ UNCHANGED <<table, job>>
      BY <1>4, <2>2 DEF SendMalloc
    <3>2. Moves(h, "residue", job[h])
      BY <1>1, <2>1, <3>1, HookGoes DEF Places, CallTypes
    <3>3. TableMoves(<<>>) /\ count' = count
      BY <1>1, <3>1, TableStays DEF table
    <3> QED
      BY <1>1, <2>1, <3>1, <3>2, <3>3, HookKeeps DEF Inside, TableTypes
  <2>3. CASE job[h].key \notin DOMAIN states
    <3>1. AddMalloc(h, states)
      BY <1>4, <2>3 DEF SendMalloc
    <3>2. TableMoves(job[h].key) /\ Moves(h, "idle", NoJob) /\ router' = None
      BY <1>1, <2>1, <3>1, AddMallocMoves
    <3>3. ~Owes(h)'
      BY <3>2 DEF Moves, Owes, Idle
    <3> QED
      BY <1>1, <2>1, <3>2, <3>3, HookKeeps DEF Inside
  <2> QED
    BY <2>2, <2>3
<1>5. CASE SendFree(h)
  <2>1. /\ pc[h] = "send" /\ router = None /\ UNCHANGED <<driver, control, calm>> /\ router' = h
        /\ ~Idle(h) /\ Owes(h) /\ job[h].kind = "FREE"
    BY <1>5 DEF SendFree, Idle, Owes
  <2>2. PICK n, k :
          n \in Ids /\ TableMoves(k) /\ Moves(h, "handle", [job[h] EXCEPT !.hold = n])
    BY <1>1, <1>5, SendFreeMoves
  <2>3. [job[h] EXCEPT !.hold = n].kind = job[h].kind
    BY <1>1 DEF Jobs
  <2>4. ~Owes(h)'
    BY <2>1, <2>2, <2>3 DEF Moves, Owes, Idle
  <2> QED
    BY <1>1, <2>1, <2>2, <2>3, <2>4, HookKeeps DEF Inside
<1>6. CASE FindResidue(h)
  <2>1. /\ pc[h] = "residue" /\ UNCHANGED <<driver, control, calm>> /\ router = h
        /\ ~Idle(h) /\ UNCHANGED <<states, count, used, writes, router>>
    BY <1>1, <1>6, FindResidueMoves DEF FindResidue, Idle, Locks, Inside
  <2>2. PICK label \in {"close", "erase"}, j \in Jobs : Moves(h, label, j) /\ j.kind = job[h].kind
    <3>1. CASE Moves(h, "close", [job[h] EXCEPT !.hold = states[job[h].key].id]) /\ states[job[h].key].id \in Ids
      <4>1. /\ [job[h] EXCEPT !.hold = states[job[h].key].id] \in Jobs
            /\ [job[h] EXCEPT !.hold = states[job[h].key].id].kind = job[h].kind
        BY <1>1, <3>1 DEF Jobs
      <4> QED
        BY <3>1, <4>1
    <3>2. CASE Moves(h, "erase", job[h])
      BY <1>1, <3>2
    <3> QED
      BY <1>1, <1>6, <3>1, <3>2, FindResidueMoves
  <2>3. TableMoves(<<>>) /\ count' = count
    BY <1>1, <2>1, TableStays
  <2> QED
    BY <1>1, <2>1, <2>2, <2>3, HookKeeps DEF Inside, TableTypes
<1>7. CASE CloseResidue(h)
  <2>1. /\ pc[h] = "close" /\ UNCHANGED <<driver, control, calm>> /\ router = h /\ ~Idle(h)
        /\ UNCHANGED <<count, router>>
    BY <1>1, <1>7 DEF CloseResidue, Idle, Locks, Inside
  <2>2. PICK label, k : label \in {"dump", "erase"} /\ Moves(h, label, job[h]) /\ TableMoves(k)
    BY <1>1, <1>7, CloseResidueMoves
  <2> QED
    BY <1>1, <2>1, <2>2, HookKeeps DEF Inside, TableTypes
<1>8. CASE HandleFree(h)
  <2>1. /\ pc[h] = "handle" /\ UNCHANGED <<driver, control, calm>> /\ router = h /\ ~Idle(h)
        /\ UNCHANGED <<count>>
    BY <1>1, <1>8 DEF HandleFree, Idle, Locks, Inside
  <2>2. PICK label, j, k :
          /\ label \in {"dump", "erase", "idle"} /\ j \in {job[h], NoJob} /\ Moves(h, label, j) /\ TableMoves(k)
          /\ IF label = "idle" THEN router' = None ELSE router' = router /\ j = job[h]
    BY <1>1, <1>8, HandleFreeMoves
  <2> QED
    BY <1>1, <2>1, <2>2, HookKeeps DEF Inside, TableTypes
<1>9. CASE DumpBlock(h)
  <2>1. /\ pc[h] = "dump" /\ UNCHANGED <<driver, control, calm>> /\ router = h /\ ~Idle(h)
    BY <1>1, <1>9 DEF DumpBlock, Idle, Locks, Inside
  <2>2. TableMoves(<<>>) /\ Moves(h, "erase", job[h]) /\ UNCHANGED <<count, router>>
    BY <1>1, <1>9, DumpBlockMoves
  <2> QED
    BY <1>1, <2>1, <2>2, HookKeeps DEF Inside, TableTypes
<1>10. CASE EraseBlock(h)
  <2>1. /\ pc[h] = "erase" /\ UNCHANGED <<driver, control, calm>> /\ router = h /\ ~Idle(h)
    BY <1>1, <1>10 DEF EraseBlock, Idle, Locks, Inside
  <2>2. /\ TableMoves(job[h].key) /\ Moves(h, "idle", NoJob) /\ router' = None
        /\ count' = count \/ job[h].kind = "MALLOC"
    BY <1>1, <1>10, EraseBlockMoves
  <2>3. ~Owes(h)' /\ (job[h].kind = "MALLOC" => Owes(h)) /\ count \in Nat
    BY <1>1, <2>1, <2>2 DEF Moves, Owes, Idle, TableTypes
  <2> QED
    BY <1>1, <2>1, <2>2, <2>3, HookKeeps DEF Inside
<1> QED
  BY <1>2, <1>3, <1>4, <1>5, <1>6, <1>7, <1>8, <1>9, <1>10 DEF HookStep

\* The steps of the control thread.
LEMMA ControlStepInv ==
  ASSUME PipelineAssumption, PipelineInv, StartBegin \/ AnnounceStop \/ ControlStep
  PROVE  PipelineInv'
<1>1. /\ DriverTypes /\ TableTypes /\ CallTypes /\ ControlTypes
      /\ CountBound /\ IdsIssued /\ IdsUnique /\ Locks
  BY DEF PipelineInv
<1>2. UNCHANGED <<driver, calls, router>>
  BY DEF StartBegin, AnnounceStop, ControlStep, Promote, AnnounceStart, SwitchOn, SwitchOff, Flushed
<1>3. \E k : TableMoves(k) /\ count' = count
  <2>1. CASE Promote
    BY <1>1, <2>1, PromoteMoves
  <2>2. CASE AnnounceStart
    BY <1>1, <2>2, AnnounceStartMoves
  <2>3. CASE StartBegin \/ AnnounceStop \/ SwitchOn \/ SwitchOff \/ Flushed
    <3>1. UNCHANGED <<states, count, used, writes>>
      BY <2>3 DEF StartBegin, AnnounceStop, SwitchOn, SwitchOff, Flushed, table
    <3> QED
      BY <1>1, <3>1, TableStays
  <2> QED
    BY <2>1, <2>2, <2>3 DEF ControlStep
<1>4. TableTypes' /\ IdsIssued' /\ IdsUnique' /\ count' = count
  BY <1>1, <1>3, IdsMove DEF TableMoves
<1>5. DriverTypes' /\ CallTypes' /\ CountBound'
  <2>1. DriverTypes' /\ CallTypes'
    BY <1>1, <1>2 DEF DriverTypes, CallTypes, Idle, driver, calls
  <2>2. Owing' = Owing /\ UNCHANGED <<heap, allocations>>
    BY <1>2 DEF Owing, Owes, Idle, calls, driver
  <2> HIDE DEF Owing
  <2>3. CountBound'
    BY <1>1, <1>4, <2>2 DEF CountBound
  <2> QED
    BY <2>1, <2>3
<1>6. ControlTypes' /\ Locks'
  <2>1. UNCHANGED <<pc, router>>
    BY <1>2 DEF calls
  <2>2. \A h \in Hooks : pc'[h] \in Inside => router' = h
    BY <1>1, <2>1 DEF Locks
  <2>3. ControlTypes' /\ (mtx = Ctl <=> ctl = "promoting")' /\ (~Restarts => ctl = "idle" /\ calm)'
    <3>1. CASE StartBegin
      BY <1>1, <2>1, <3>1 DEF StartBegin, ControlTypes, Locks, Idle, Ctl, None, PipelineAssumption
    <3>2. CASE Promote
      BY <1>1, <2>1, <3>2 DEF Promote, ControlTypes, Locks, Ctl, None, PipelineAssumption
    <3>3. CASE AnnounceStart \/ AnnounceStop \/ SwitchOn \/ SwitchOff \/ Flushed
      BY <1>1, <2>1, <3>3
         DEF AnnounceStart, AnnounceStop, SwitchOn, SwitchOff, Flushed, ControlTypes, Locks, Ctl, None, PipelineAssumption
    <3> QED
      BY <3>1, <3>2, <3>3 DEF ControlStep
  <2> QED
    BY <2>2, <2>3 DEF Locks
<1> QED
  BY <1>1, <1>4, <1>5, <1>6 DEF PipelineInv

\* The invariant holds at the start.
LEMMA InitInv ==
  ASSUME MemoryAssumption, PipelineAssumption, Init
  PROVE  PipelineInv
<1>1. DriverTypes
  BY DEF Init, DriverTypes, IsPartial, PipelineAssumption
<1>2. TableTypes
  <2>1. IsFiniteSet(DOMAIN states)
    BY FS_EmptySet DEF Init
  <2> QED
    BY <2>1 DEF Init, TableTypes, IsTable, IsPartial
<1>3. CallTypes
  BY DEF Init, CallTypes, Places, Jobs, NoJob, Idle
<1>4. ControlTypes /\ Locks
  BY DEF Init, ControlTypes, Locks, PipelineAssumption, Inside, None, Ctl
<1>5. CountBound
  <2>1. Owing = {} /\ DOMAIN heap = {} /\ count = 0 /\ allocations = 0
    BY DEF Init, Owing, Owes, Idle
  <2> QED
    BY <2>1, FS_EmptySet DEF CountBound
<1>6. IdsIssued /\ IdsUnique
  BY DEF Init, IdsIssued, IdsUnique
<1> QED
  BY <1>1, <1>2, <1>3, <1>4, <1>5, <1>6 DEF PipelineInv

\* Every step keeps the invariant of every run.
LEMMA StepInv ==
  ASSUME MemoryAssumption, PipelineAssumption, PipelineInv, [Next]_vars
  PROVE  PipelineInv'
<1>1. CASE Next
  BY <1>1, MallocCalls, FreeCalls, HookStepInv, ControlStepInv DEF Next
<1>2. CASE UNCHANGED vars
  BY <1>2 DEF vars, driver, table, calls, control, PipelineInv, DriverTypes, TableTypes, CallTypes,
              ControlTypes, CountBound, Owing, Owes, Idle, IdsIssued, IdsUnique, Locks
<1> QED
  BY <1>1, <1>2

\* The invariant implies the types.
LEMMA TypesOK ==
  ASSUME PipelineAssumption, PipelineInv
  PROVE  TypeOK
<1>1. count \in {0} \cup Ids
  BY IdsSuffice DEF PipelineInv
<1> QED
  BY <1>1 DEF PipelineInv, DriverTypes, TableTypes, CallTypes, ControlTypes, TypeOK, Jobs, Places

\* The state of the pipeline keeps its types, whatever races: in particular ids
\* never run out and every pointer is to an id.
THEOREM PipelineStaysTyped == Spec => []TypeOK
<1>1. Init => PipelineInv
  BY InitInv, MemoryAssumption, PipelineAssumption
<1>2. PipelineInv /\ [Next]_vars => PipelineInv'
  BY StepInv, MemoryAssumption, PipelineAssumption
<1>3. PipelineInv => TypeOK
  BY TypesOK, PipelineAssumption
<1> QED
  BY <1>1, <1>2, <1>3, PTL DEF Spec

-----------------------------------------------------------------------------
(* Pointers, without restarts *)

\* A step of one hook leaves the block another one points to.
LEMMA HookKeepsHeld ==
  ASSUME MemoryAssumption, PipelineAssumption, PipelineInv, HeldStateIsLive, ~Restarts,
         NEW h \in Hooks, HookStep(h)
  PROVE  HeldStateIsLive'
<1>1. /\ DriverTypes /\ TableTypes /\ CallTypes /\ ControlTypes /\ CountBound /\ IdsIssued /\ Locks
      /\ job[h] \in Jobs
  BY DEF PipelineInv, CallTypes
<1> DEFINE Points(g) == pc[g] \in {"close", "handle", "dump"}
           Held(g) == \E k \in DOMAIN states : states[k].id = job[g].hold
<1>2. \A g \in Hooks : Points(g) => Held(g) /\ router = g
  BY <1>1 DEF HeldStateIsLive, HeldKeys, Locks, Inside
<1>3. (\A g \in Hooks : Points(g)' => Held(g)') => HeldStateIsLive'
  BY DEF HeldStateIsLive, HeldKeys
<1>4. CASE Decide(h) \/ Register(h)
  <2>1. UNCHANGED states
    BY <1>4 DEF Decide, Register, table
  <2>2. OthersStay(h) /\ ~Points(h)'
    <3>1. CASE Decide(h)
      BY <1>1, <3>1, DecideMoves DEF Moves
    <3>2. CASE Register(h)
      <4>1. PICK label, j : label \in {"send", "idle"} /\ Moves(h, label, j)
        BY <1>1, <3>2, RegisterMoves
      <4> QED
        BY <4>1 DEF Moves
    <3> QED
      BY <1>4, <3>1, <3>2
  <2> QED
    BY <1>2, <1>3, <2>1, <2>2 DEF OthersStay
<1>5. ASSUME pc[h] \in Inside \/ router = None, OthersStay(h), Points(h)' => Held(h)'
      PROVE  HeldStateIsLive'
  <2>1. \A g \in Hooks \ {h} : ~Points(g)
    BY <1>1, <1>2, <1>5 DEF Locks, PipelineAssumption
  <2> QED
    BY <1>3, <1>5, <2>1 DEF OthersStay
<1> HIDE DEF Points, Held
<1>6. CASE SendMalloc(h)
  <2>1. pc[h] = "send" /\ router = None /\ ~Idle(h) /\ UNCHANGED registered
    BY <1>6 DEF SendMalloc, Idle
  <2>2. PICK label, j : label \in {"residue", "idle"} /\ Moves(h, label, j)
    <3>1. CASE job[h].key \in DOMAIN states
      <4>1. Goto(h, "residue") /\ UNCHANGED job
        BY <1>6, <3>1 DEF SendMalloc
      <4>2. "residue" \in Places /\ registered' \subseteq Keys
        BY <1>1, <2>1 DEF Places, CallTypes
      <4>3. Moves(h, "residue", job[h])
        BY <1>1, <2>1, <4>1, <4>2, HookGoes
      <4> QED
        BY <4>3
    <3>2. CASE job[h].key \notin DOMAIN states
      <4>1. AddMalloc(h, states)
        BY <1>6, <3>2 DEF SendMalloc
      <4> QED
        BY <1>1, <2>1, <4>1, AddMallocMoves
    <3> QED
      BY <3>1, <3>2
  <2> QED
    BY <1>5, <2>1, <2>2 DEF Moves, Points
<1>7. CASE SendFree(h)
  <2>1. router = None
    BY <1>7 DEF SendFree
  <2>2. PICK n, k : /\ n \in Ids /\ Moves(h, "handle", [job[h] EXCEPT !.hold = n])
                    /\ k \in DOMAIN states' /\ states'[k].id = n
    <3>1. CASE \E j \in Located(states, job[h].key, 0) :
               /\ j \in DOMAIN states
               /\ TableMoves(j) /\ states'[j] = Ended(j) /\ Ended(j).id = states[j].id
               /\ states' = [states EXCEPT ![j] = Ended(j)]
               /\ states[j].id \in Ids
               /\ Moves(h, "handle", [job[h] EXCEPT !.hold = states[j].id])
      BY <3>1
    <3>2. CASE /\ job[h].key \in DOMAIN states' /\ states'[job[h].key].id = count + 1
               /\ count + 1 \in Ids
               /\ Moves(h, "handle", [job[h] EXCEPT !.hold = count + 1])
      BY <3>2
    <3> QED
      BY <1>1, <1>7, <3>1, <3>2, SendFreeMoves
  <2>3. job'[h].hold = n
    BY <1>1, <2>2 DEF Moves, Jobs
  <2> QED
    BY <1>5, <2>1, <2>2, <2>3 DEF Moves, Held
<1>8. CASE FindResidue(h)
  <2>1. pc[h] \in Inside /\ UNCHANGED states
    BY <1>8 DEF FindResidue, Inside, table
  <2>2. OthersStay(h) /\ (Points(h)' => Held(h)')
    <3>1. CASE /\ job[h].key \in DOMAIN states /\ states[job[h].key].id \in Ids
               /\ Moves(h, "close", [job[h] EXCEPT !.hold = states[job[h].key].id])
      <4>1. job'[h].hold = states[job[h].key].id
        BY <1>1, <3>1 DEF Moves, Jobs
      <4> QED
        BY <2>1, <3>1, <4>1 DEF Moves, Held
    <3>2. CASE Moves(h, "erase", job[h])
      BY <3>2 DEF Moves, Points
    <3> QED
      BY <1>1, <1>8, <3>1, <3>2, FindResidueMoves
  <2> QED
    BY <1>5, <2>1, <2>2
<1>9. CASE CloseResidue(h)
  <2>1. /\ pc[h] = "close" /\ DOMAIN states' = DOMAIN states
        /\ \A j \in DOMAIN states : states'[j].id = states[j].id
        /\ OthersStay(h) /\ job'[h] = job[h]
    BY <1>1, <1>9, CloseResidueMoves DEF Moves, CloseResidue
  <2>2. Held(h)
    BY <1>2, <2>1 DEF Points
  <2>3. Held(h)'
    BY <2>1, <2>2 DEF Held
  <2> QED
    BY <1>5, <2>1, <2>3 DEF Inside
<1>10. CASE HandleFree(h)
  <2>1. pc[h] = "handle"
    BY <1>10 DEF HandleFree
  <2>2. Held(h)
    BY <1>2, <2>1 DEF Points
  <2>3. \/ UNCHANGED states /\ OthersStay(h) /\ job'[h] = job[h]
        \/ OthersStay(h) /\ pc'[h] = "idle"
    BY <1>1, <1>10, HandleFreeMoves DEF Moves
  <2>4. Points(h)' => Held(h)'
    BY <2>2, <2>3 DEF Held, Points
  <2> QED
    BY <1>5, <2>1, <2>3, <2>4 DEF Inside
<1>11. CASE DumpBlock(h) \/ EraseBlock(h)
  <2>1. pc[h] \in Inside
    BY <1>11 DEF DumpBlock, EraseBlock, Inside
  <2>2. PICK label, j : label \in {"erase", "idle"} /\ Moves(h, label, j)
    <3>1. CASE DumpBlock(h)
      BY <1>1, <3>1, DumpBlockMoves
    <3>2. CASE EraseBlock(h)
      <4>1. Moves(h, "idle", NoJob)
        BY <1>1, <3>2, EraseBlockMoves
      <4> QED
        BY <4>1
    <3> QED
      BY <1>11, <3>1, <3>2
  <2> QED
    BY <1>5, <2>1, <2>2 DEF Moves, Points
<1> QED
  BY <1>4, <1>6, <1>7, <1>8, <1>9, <1>10, <1>11 DEF HookStep

\* Without restarts a hook's pointer stays good, whenever the driver hands
\* addresses out again.
THEOREM HeldStatesStay ==
  ASSUME ~Restarts
  PROVE  Spec => []HeldStateIsLive
<1>1. Init => PipelineInv /\ HeldStateIsLive
  <2>1. Init => HeldStateIsLive
    BY DEF Init, HeldStateIsLive
  <2> QED
    BY <2>1, InitInv, MemoryAssumption, PipelineAssumption
<1>2. (PipelineInv /\ HeldStateIsLive) /\ [Next]_vars => (PipelineInv /\ HeldStateIsLive)'
  <2> SUFFICES ASSUME PipelineInv, HeldStateIsLive, [Next]_vars
               PROVE  HeldStateIsLive'
    BY StepInv, MemoryAssumption, PipelineAssumption
  <2>1. ASSUME NEW h \in Hooks, NEW k \in Keys, \/ \E size \in Sizes : CallMalloc(h, k, size)
                                                \/ CallFree(h, k)
        PROVE  HeldStateIsLive'
    <3>1. PICK kind, size : kind \in {"MALLOC", "FREE"} /\ Call(h, kind, k, size)
      BY <2>1 DEF CallMalloc, CallFree
    <3>2. /\ UNCHANGED states
          /\ \A g \in Hooks \ {h} : pc'[g] = pc[g] /\ job'[g] = job[g]
          /\ pc'[h] = "decide"
      BY <3>1 DEF Call, Goto, table, PipelineInv, CallTypes
    <3> QED
      BY <3>2 DEF HeldStateIsLive, HeldKeys
  <2>2. ASSUME NEW h \in Hooks, HookStep(h)
        PROVE  HeldStateIsLive'
    BY <2>2, HookKeepsHeld, MemoryAssumption, PipelineAssumption
  <2>3. CASE StartBegin \/ AnnounceStop \/ ControlStep
    <3>1. ctl = "idle"
      BY DEF PipelineInv, Locks
    <3> QED
      BY <2>3, <3>1 DEF StartBegin, AnnounceStop, ControlStep, Promote, AnnounceStart, SwitchOn,
                        SwitchOff, Flushed
  <2>4. CASE UNCHANGED vars
    BY <2>4 DEF vars, table, calls, HeldStateIsLive, HeldKeys
  <2> QED
    BY <2>1, <2>2, <2>3, <2>4 DEF Next
<1> QED
  BY <1>1, <1>2, PTL DEF Spec

-----------------------------------------------------------------------------
(* Tame runs: what a call does to its key *)

\* Nothing is said of another key.
OnlyKey(k) == \A j \in Keys \ {k} :
  /\ j \in DOMAIN heap' <=> j \in DOMAIN heap
  /\ j \in DOMAIN heap => heap'[j] = heap[j]
  /\ j \in DOMAIN states' <=> j \in DOMAIN states
  /\ j \in DOMAIN states => states'[j] = states[j]
  /\ j \in registered' <=> j \in registered

\* A call keeps to its key: it is where its stage says, or it is over and leaves
\* the key at rest.
KeepsTo(h, k) ==
  /\ OthersStay(h) /\ OnlyKey(k)
  /\ pc'[h] # "idle" => job'[h].key = k /\ Stage(h)'
  /\ pc'[h] = "idle" => Rest(k)'

\* Only one call is about a key.
LEMMA KeyIsTheirs ==
  ASSUME Lone, NEW h \in Hooks, NEW k,
         (~Idle(h) /\ job[h].key = k) \/ (Idle(h) /\ Untouched(k))
  PROVE  \A g \in Hooks \ {h} : ~Idle(g) => job[g].key # k
BY DEF Lone, Untouched

\* A call that keeps to its key leaves the stages of the others and the keys at
\* rest alone.
LEMMA StagesKept ==
  ASSUME CallTypes, TameInv, NEW h \in Hooks, NEW k \in Keys, KeepsTo(h, k),
         (~Idle(h) /\ job[h].key = k) \/ (Idle(h) /\ Untouched(k))
  PROVE  /\ Lone'
         /\ \A g \in Hooks : ~Idle(g)' => Stage(g)'
         /\ \A j \in Keys : Untouched(j)' => Rest(j)'
<1>1. /\ Lone /\ \A g \in Hooks : ~Idle(g) => Stage(g)
      /\ \A j \in Keys : Untouched(j) => Rest(j)
      /\ OthersStay(h) /\ OnlyKey(k)
      /\ pc'[h] # "idle" => job'[h].key = k /\ Stage(h)'
      /\ pc'[h] = "idle" => Rest(k)'
  BY DEF TameInv, KeepsTo
<1>2. \A g \in Hooks \ {h} : ~Idle(g) => job[g].key # k
  BY <1>1, KeyIsTheirs
<1>3. \A g \in Hooks \ {h} : pc'[g] = pc[g] /\ job'[g] = job[g]
  BY <1>1 DEF OthersStay
<1>4. Lone'
  BY <1>1, <1>2, <1>3 DEF Lone, Idle
<1>5. ASSUME NEW g \in Hooks, ~Idle(g)'
      PROVE  Stage(g)'
  <2>1. CASE g = h
    BY <1>1, <1>5, <2>1 DEF Idle
  <2>2. CASE g # h
    <3>1. Stage(g) /\ job[g].key \in Keys \ {k} /\ pc'[g] = pc[g] /\ job'[g] = job[g]
      BY <1>1, <1>2, <1>3, <1>5, <2>2 DEF Idle, CallTypes
    <3> QED
      BY <1>1, <3>1 DEF Stage, Open, Freed, OnlyKey
  <2> QED
    BY <2>1, <2>2
<1>6. ASSUME NEW j \in Keys, Untouched(j)'
      PROVE  Rest(j)'
  <2>1. CASE j = k
    BY <1>1, <1>6, <2>1 DEF Untouched, Idle
  <2>2. CASE j # k
    <3>1. Untouched(j)
      BY <1>3, <1>6, <2>2 DEF Untouched, Idle
    <3>2. Rest(j)
      BY <1>1, <3>1
    <3> QED
      BY <1>1, <2>2, <3>2 DEF Rest, Open, OnlyKey
  <2> QED
    BY <2>1, <2>2
<1> QED
  BY <1>4, <1>5, <1>6

\* What an event writes: its block as it leaves, or nothing.
RowMoves(h, k) ==
  /\ OneNew(k) /\ count' \in {count, count + 1}
  /\ \/ UNCHANGED writes /\ (pc[h] = "erase" => k \notin DOMAIN states')
     \/ /\ pc[h] = "dump" /\ pc'[h] = "erase" /\ job'[h].key = k
        /\ UNCHANGED <<states, count>> /\ k \in DOMAIN states
        /\ writes' = [writes EXCEPT ![states[k].id] = @ + 1]

\* No block is written again.
LEMMA RowsKept ==
  ASSUME PipelineAssumption, TableTypes, CallTypes, IdsIssued, IdsUnique, TameInv,
         NEW h \in Hooks, NEW k, OthersStay(h), RowMoves(h, k), count \in {0} \cup Ids, count' \in {0} \cup Ids,
         (~Idle(h) /\ job[h].key = k) \/ (Idle(h) /\ Untouched(k))
  PROVE  Rows'
<1>1. /\ writes \in [Ids -> Nat] /\ \A n \in Ids : writes[n] <= 1
      /\ \A j \in DOMAIN states : ~Erasing(j) => writes[states[j].id] = 0
      /\ \A n \in Ids : n > count => writes[n] = 0
      /\ \A j \in DOMAIN states : states[j].id \in 1..count
      /\ Lone
  BY DEF TameInv, Rows, WrittenOnce, TableTypes, IdsIssued
<1>2. count \in Nat /\ 1..count \subseteq Ids /\ \A n \in Ids : n \in Nat
  BY DEF Ids, TableTypes, PipelineAssumption
<1>3. CASE UNCHANGED writes /\ (pc[h] = "erase" => k \notin DOMAIN states')
  <2>1. ASSUME NEW j \in DOMAIN states', ~Erasing(j)'
        PROVE  writes[states'[j].id] = 0
    <3>1. CASE j \in DOMAIN states /\ states'[j].id = states[j].id
      <4>1. ~Erasing(j)
        BY <1>3, <2>1 DEF Erasing, OthersStay, Idle
      <4> QED
        BY <1>1, <3>1, <4>1
    <3>2. CASE states'[j].id = count + 1 /\ count' = count + 1
      BY <1>1, <1>2, <3>2
    <3> QED
      BY <3>1, <3>2 DEF RowMoves, OneNew
  <2>2. \A n \in Ids : n > count' => writes[n] = 0
    BY <1>1, <1>2 DEF RowMoves
  <2> QED
    BY <1>1, <1>3, <2>1, <2>2 DEF Rows, WrittenOnce
<1>4. CASE /\ pc[h] = "dump" /\ pc'[h] = "erase" /\ job'[h].key = k
           /\ UNCHANGED <<states, count>> /\ k \in DOMAIN states
           /\ writes' = [writes EXCEPT ![states[k].id] = @ + 1]
  <2>1. ~Erasing(k)
    BY <1>1, <1>4, KeyIsTheirs DEF Erasing, Idle
  <2>2. /\ states[k].id \in Ids /\ writes[states[k].id] = 0 /\ states[k].id <= count
        /\ writes'[states[k].id] = 1
        /\ \A n \in Ids : n # states[k].id => writes'[n] = writes[n]
    BY <1>1, <1>2, <1>4, <2>1
  <2>3. ASSUME NEW j \in DOMAIN states, ~Erasing(j)'
        PROVE  writes'[states[j].id] = 0
    <3>1. j # k
      BY <1>4, <2>3 DEF Erasing
    <3>2. states[j].id # states[k].id /\ states[j].id \in Ids
      BY <1>1, <1>2, <1>4, <3>1 DEF IdsUnique
    <3>3. ~Erasing(j)
      BY <1>4, <2>3 DEF Erasing, OthersStay
    <3> QED
      BY <1>1, <2>2, <3>2, <3>3
  <2> QED
    BY <1>1, <1>2, <1>4, <2>2, <2>3 DEF Rows, WrittenOnce
<1> QED
  BY <1>3, <1>4 DEF RowMoves

\* What an event does to the shadow states, and where its own trace mode is from.
ShadowMoves(h, k) ==
  /\ \A j \in DOMAIN states' : j # k => j \in DOMAIN states /\ states'[j].shadow = states[j].shadow
  /\ k \in DOMAIN states' =>
       \/ k \in DOMAIN states /\ states'[k].shadow = states[k].shadow
       \/ pc[h] = "send" /\ states'[k].shadow = IF job[h].shadow THEN "SHADOW_CREATED" ELSE "NORMAL"
       \/ pc[h] = "handle" /\ job[h].shadow /\ k \in DOMAIN states /\ states[k].shadow # "SHADOW_CREATED"
  /\ pc'[h] \notin {"idle", "decide"} =>
       job'[h].shadow = IF pc[h] = "decide" THEN status # "IN_TRACING" ELSE job[h].shadow

\* Without restarts an untraced process stays in shadow mode.
LEMMA ShadowKept ==
  ASSUME TameInv, NEW h \in Hooks, ~Idle(h), UNCHANGED control, NEW k, OthersStay(h), ShadowMoves(h, k)
  PROVE  ShadowStays'
<1>1. SUFFICES ASSUME ~Restarts, status # "IN_TRACING"
               PROVE  /\ \A j \in DOMAIN states' : states'[j].shadow = "SHADOW_CREATED"
                      /\ \A g \in Hooks : pc'[g] \notin {"idle", "decide"} => job'[g].shadow
  BY DEF ShadowStays, control
<1>2. /\ \A j \in DOMAIN states : states[j].shadow = "SHADOW_CREATED"
      /\ \A g \in Hooks : pc[g] \notin {"idle", "decide"} => job[g].shadow
  BY <1>1 DEF TameInv, ShadowStays
<1> QED
  BY <1>1, <1>2 DEF ShadowMoves, OthersStay, Idle

\* A session stays free of shadow states, and its usage exact.
LEMMA SessionKept ==
  ASSUME TameInv, NEW h \in Hooks, ~Idle(h), UNCHANGED <<control, calm>>, NEW k, OthersStay(h),
         ShadowMoves(h, k), InSession => UsedIsLive'
  PROVE  Session'
<1>1. /\ calm /\ Starting => Quiet
      /\ ctl = "stopped" => status = "IN_TRACING"
      /\ ctl = "flushing" => status # "IN_TRACING"
      /\ UNCHANGED <<calm, ctl, status>>
  BY DEF TameInv, Session, control
<1>2. ~(calm /\ Starting)
  BY <1>1 DEF Quiet
<1>3. ~(calm /\ Starting)' /\ (InSession' <=> InSession) /\ (calm' => ctl' \notin {"announce", "switch"})
  BY <1>1, <1>2 DEF Starting, InSession
<1>4. ASSUME InSession
      PROVE  /\ \A j \in DOMAIN states' : states'[j].shadow \in {"NORMAL", "SHADOW_PROMOTED"}
             /\ \A g \in Hooks : pc'[g] \notin {"idle", "decide"} => ~job'[g].shadow
  <2>1. /\ \A j \in DOMAIN states : states[j].shadow \in {"NORMAL", "SHADOW_PROMOTED"}
        /\ \A g \in Hooks : pc[g] \notin {"idle", "decide"} => ~job[g].shadow
        /\ status = "IN_TRACING"
    BY <1>4 DEF TameInv, Session, InSession
  <2> QED
    BY <2>1 DEF ShadowMoves, OthersStay, Idle
<1> QED
  BY <1>1, <1>3, <1>4 DEF Session

\* What a hook's step after its call has to show for it.
TameMoves(h, k) ==
  /\ KeepsTo(h, k) /\ RowMoves(h, k) /\ ShadowMoves(h, k)
  /\ InSession => UsedIsLive'

\* That is enough for the invariant.
LEMMA TameKept ==
  ASSUME PipelineAssumption, PipelineInv, PipelineInv', TameInv, NEW h \in Hooks, ~Idle(h),
         UNCHANGED <<driver, control, calm>>, NEW k, k = job[h].key, TameMoves(h, k)
  PROVE  TameInv'
<1>1. /\ CallTypes /\ TableTypes /\ IdsIssued /\ IdsUnique /\ k \in Keys
      /\ count \in {0} \cup Ids /\ OthersStay(h)
  BY IdsSuffice DEF PipelineInv, CallTypes, TameMoves, KeepsTo
<1>2. count' \in {0} \cup Ids
  <2>1. /\ count \in {0} \cup Ids /\ DriverTypes' /\ TableTypes' /\ CountBound'
    BY <1>1 DEF PipelineInv
  <2>2. /\ allocations' \in Nat /\ allocations' <= MaxAllocations /\ MaxAllocations \in Nat
        /\ count' \in Nat /\ IsFiniteSet(Owing') /\ IsFiniteSet(DOMAIN heap')
        /\ count' + Cardinality(Owing') + Cardinality(DOMAIN heap') <= 2 * allocations'
    BY <2>1 DEF PipelineAssumption, DriverTypes, TableTypes, CountBound
  <2>3. Cardinality(Owing') \in Nat /\ Cardinality(DOMAIN heap') \in Nat
    BY <2>2, FS_CardinalityType
  <2> HIDE DEF Owing
  <2> QED
    BY <2>2, <2>3 DEF Ids
<1>3. /\ Lone' /\ \A g \in Hooks : ~Idle(g)' => Stage(g)'
      /\ \A j \in Keys : Untouched(j)' => Rest(j)'
  BY <1>1, StagesKept DEF TameMoves
<1>4. Rows'
  BY <1>1, <1>2, RowsKept DEF TameMoves
<1>5. ShadowStays' /\ Session'
  BY <1>1, ShadowKept, SessionKept DEF TameMoves
<1>6. Past'
  <2>1. /\ Past /\ past' = past /\ heap' = heap /\ k \in past
        /\ DOMAIN states' \subseteq DOMAIN states \cup {k}
    BY DEF TameInv, Past, driver, TameMoves, ShadowMoves
  <2>2. \A g \in Hooks : ~Idle(g)' => job'[g].key \in past
    BY <1>1, <2>1 DEF Past, Idle, OthersStay, TameMoves, KeepsTo
  <2> QED
    BY <2>1, <2>2 DEF Past
<1> QED
  BY <1>3, <1>4, <1>5, <1>6 DEF TameInv

-----------------------------------------------------------------------------
(* Tame runs: the meters *)

\* The sizes of the live blocks.
LEMMA LiveSizesType ==
  ASSUME TableTypes
  PROVE  /\ DOMAIN LiveSizes = Live(states) /\ IsFiniteSet(DOMAIN LiveSizes)
         /\ \A k \in DOMAIN LiveSizes : LiveSizes[k] \in Nat
<1>1. DOMAIN LiveSizes = Live(states) /\ Live(states) \subseteq DOMAIN states
  BY DEF LiveSizes, Live
<1>2. IsFiniteSet(DOMAIN LiveSizes)
  BY <1>1, FS_Subset DEF TableTypes
<1>3. \A k \in Live(states) : states[k].size \in Nat
  BY <1>1 DEF TableTypes, IsTable, IsPartial, Blocks
<1> QED
  BY <1>1, <1>2, <1>3 DEF LiveSizes

\* Nothing live comes or goes.
LEMMA UsedSame ==
  ASSUME UsedIsLive, UNCHANGED used, Live(states)' = Live(states),
         \A k \in Live(states) : states'[k].size = states[k].size
  PROVE  UsedIsLive'
<1>1. LiveSizes' = LiveSizes
  BY DEF LiveSizes
<1> QED
  BY <1>1 DEF UsedIsLive

\* A block comes.
LEMMA UsedTakes ==
  ASSUME TableTypes, UsedIsLive, NEW k \in Keys, NEW size \in Nat, k \notin Live(states),
         Live(states)' = Live(states) \cup {k}, states'[k].size = size,
         \A j \in Live(states) : states'[j].size = states[j].size,
         used' = Charged(used, MeterOf(k), size)
  PROVE  UsedIsLive'
<1> DEFINE f == LiveSizes
<1>1. /\ DOMAIN f = Live(states) /\ IsFiniteSet(DOMAIN f) /\ \A j \in DOMAIN f : f[j] \in Nat
      /\ used \in [Meters -> Nat] /\ size \in Int
  BY LiveSizesType DEF TableTypes
<1>2. LiveSizes' = Put(f, k, size)
  BY <1>1 DEF LiveSizes, Put
<1>3. \A m \in Meters : used[m] = SumOf(f, m)
  BY DEF UsedIsLive
<1> HIDE DEF f
<1>4. ASSUME NEW m \in Meters
      PROVE  used'[m] = SumOf(Put(f, k, size), m)
  <2>1. SumOf(Put(f, k, size), m) = (IF m = MeterOf(k) THEN size ELSE 0) + SumOf(f, m)
    BY <1>1, SumOfPut
  <2>2. used'[m] = IF m = MeterOf(k) THEN IF used[m] + size < 0 THEN 0 ELSE used[m] + size ELSE used[m]
    BY <1>1, ChargedType
  <2>3. used[m] \in Nat /\ used[m] = SumOf(f, m)
    BY <1>1, <1>3
  <2> QED
    BY <2>1, <2>2, <2>3
<1> QED
  BY <1>2, <1>4 DEF UsedIsLive

\* A block goes.
LEMMA UsedGives ==
  ASSUME TableTypes, UsedIsLive, NEW k \in Live(states), NEW size \in Nat, size = states[k].size,
         Live(states)' = Live(states) \ {k},
         \A j \in Live(states) \ {k} : states'[j].size = states[j].size,
         used' = Charged(used, MeterOf(k), -size)
  PROVE  UsedIsLive'
<1> DEFINE f == LiveSizes
<1>1. /\ DOMAIN f = Live(states) /\ IsFiniteSet(DOMAIN f) /\ \A j \in DOMAIN f : f[j] \in Nat
      /\ used \in [Meters -> Nat] /\ -size \in Int /\ k \in DOMAIN f /\ f[k] = size
  BY LiveSizesType DEF TableTypes, LiveSizes
<1>2. LiveSizes' = Delete(f, k)
  BY <1>1 DEF LiveSizes, Delete, Restrict
<1>3. \A m \in Meters : used[m] = SumOf(f, m)
  BY DEF UsedIsLive
<1> HIDE DEF f
<1>4. ASSUME NEW m \in Meters
      PROVE  used'[m] = SumOf(Delete(f, k), m)
  <2>1. /\ SumOf(Delete(f, k), m) \in Nat
        /\ SumOf(f, m) = (IF m = MeterOf(k) THEN f[k] ELSE 0) + SumOf(Delete(f, k), m)
    BY <1>1, SumOfDelete
  <2>2. used'[m] = IF m = MeterOf(k) THEN IF used[m] + -size < 0 THEN 0 ELSE used[m] + -size ELSE used[m]
    BY <1>1, ChargedType
  <2>3. used[m] \in Nat /\ used[m] = SumOf(f, m) /\ f[k] = size
    BY <1>1, <1>3
  <2> QED
    BY <2>1, <2>2, <2>3
<1> QED
  BY <1>2, <1>4 DEF UsedIsLive

\* What a step owes to an event it leaves alone.
LEMMA TableUntouched ==
  ASSUME TameInv, TableTypes, NEW h \in Hooks, NEW k, UNCHANGED table, pc[h] # "erase",
         pc'[h] \notin {"idle", "decide"} =>
           job'[h].shadow = IF pc[h] = "decide" THEN status # "IN_TRACING" ELSE job[h].shadow
  PROVE  RowMoves(h, k) /\ ShadowMoves(h, k) /\ (InSession => UsedIsLive')
<1>1. UNCHANGED <<states, count, used, writes>>
  BY DEF table
<1>2. RowMoves(h, k) /\ ShadowMoves(h, k)
  BY <1>1 DEF RowMoves, OneNew, ShadowMoves
<1>3. InSession => UsedIsLive'
  BY <1>1, UsedSame DEF TameInv, Session
<1> QED
  BY <1>2, <1>3

-----------------------------------------------------------------------------
(* Tame runs: the steps of a hook *)

\* What is known of a hook inside a call.
Knows(h, k) ==
  /\ ~Idle(h) /\ Stage(h) /\ job[h] \in Jobs /\ k = job[h].key /\ k \in Keys

\* Its stage says it.
LEMMA KnowsStage ==
  ASSUME CallTypes, TameInv, NEW h \in Hooks, ~Idle(h), NEW k, k = job[h].key
  PROVE  Knows(h, k)
BY DEF Knows, CallTypes, TameInv

\* The trace mode is read.
LEMMA DecideTame ==
  ASSUME PipelineInv, TameInv, NEW h \in Hooks, NEW k, k = job[h].key, Decide(h)
  PROVE  TameMoves(h, k)
<1>1. /\ CallTypes /\ TableTypes /\ pc[h] = "decide" /\ ~Idle(h)
      /\ UNCHANGED <<heap, registered, states, table>>
  BY DEF PipelineInv, Decide, Idle, driver, table
<1>2. Knows(h, k)
  BY <1>1, KnowsStage
<1>3. /\ OthersStay(h) /\ pc'[h] = "register" /\ job'[h] = [job[h] EXCEPT !.shadow = (status # "IN_TRACING")]
  BY <1>1, DecideMoves DEF Moves
<1>4. /\ job'[h].kind = job[h].kind /\ job'[h].key = k /\ job'[h].size = job[h].size
      /\ job'[h].shadow = (status # "IN_TRACING") /\ job'[h].hold = job[h].hold
  BY <1>2, <1>3 DEF Knows, Jobs
<1>5. Stage(h)'
  BY <1>1, <1>2, <1>3, <1>4 DEF Knows, Stage, Open
<1>6. KeepsTo(h, k)
  BY <1>1, <1>3, <1>4, <1>5 DEF KeepsTo, OnlyKey
<1>7. RowMoves(h, k) /\ ShadowMoves(h, k) /\ (InSession => UsedIsLive')
  BY <1>1, <1>3, <1>4, TableUntouched
<1> QED
  BY <1>6, <1>7 DEF TameMoves

\* The FREE that is looked up is registered.
LEMMA RegisterTame ==
  ASSUME PipelineInv, TameInv, NEW h \in Hooks, NEW k, k = job[h].key, Register(h)
  PROVE  TameMoves(h, k)
<1>1. /\ CallTypes /\ TableTypes /\ pc[h] = "register" /\ ~Idle(h)
      /\ UNCHANGED <<heap, states, table>>
  BY DEF PipelineInv, Register, Idle, driver, table
<1>2. Knows(h, k)
  BY <1>1, KnowsStage
<1>3. /\ job[h].kind = "FREE" => k \in registered
      /\ job[h].kind \in {"MALLOC", "FREE"}
  BY <1>1, <1>2 DEF Knows, Stage, Jobs
<1>4. /\ OthersStay(h) /\ pc'[h] = "send" /\ job'[h] = job[h]
      /\ registered' = IF job[h].kind = "MALLOC" THEN registered \cup {k} ELSE registered \ {k}
  BY <1>1, <1>3, RegisterMoves DEF Moves
<1>5. Stage(h)'
  BY <1>1, <1>2, <1>3, <1>4 DEF Knows, Stage, Open
<1>6. KeepsTo(h, k)
  BY <1>1, <1>2, <1>4, <1>5 DEF KeepsTo, OnlyKey, Knows
<1>7. RowMoves(h, k) /\ ShadowMoves(h, k) /\ (InSession => UsedIsLive')
  BY <1>1, <1>4, TableUntouched
<1> QED
  BY <1>6, <1>7 DEF TameMoves

\* The key of a new block is vacant.
LEMMA SendMallocTame ==
  ASSUME PipelineAssumption, PipelineInv, TameInv, NEW h \in Hooks, NEW k, k = job[h].key, SendMalloc(h)
  PROVE  TameMoves(h, k)
<1>1. /\ CallTypes /\ TableTypes /\ pc[h] = "send" /\ job[h].kind = "MALLOC" /\ ~Idle(h)
      /\ UNCHANGED <<heap, registered>>
  BY DEF PipelineInv, SendMalloc, Idle, driver
<1>2. Knows(h, k)
  BY <1>1, KnowsStage
<1>3. /\ k \notin DOMAIN states /\ k \in DOMAIN heap /\ heap[k] = job[h].size /\ k \in registered
      /\ k \in Keys /\ job[h].size \in Nat
  BY <1>1, <1>2 DEF Knows, Stage, Jobs
<1>4. AddMalloc(h, states)
  BY <1>3 DEF SendMalloc
<1> DEFINE b == NewOf(h)
<1>5. /\ TableMoves(k) /\ OthersStay(h) /\ pc'[h] = "idle"
      /\ states' = Put(states, k, b) /\ count' = count + 1 /\ UNCHANGED writes
      /\ used' = IF job[h].shadow THEN used ELSE Charged(used, MeterOf(k), job[h].size)
  BY <1>1, <1>4, AddMallocMoves DEF Moves
<1>6. /\ b.head = "MALLOC" /\ b.tail = "MALLOC" /\ b.size = job[h].size
      /\ b.shadow = IF job[h].shadow THEN "SHADOW_CREATED" ELSE "NORMAL"
  BY DEF NewOf, NewBlock
<1> HIDE DEF b
<1>7. /\ DOMAIN states' = DOMAIN states \cup {k} /\ states'[k] = b
      /\ \A j \in DOMAIN states : states'[j] = states[j]
  BY <1>3, <1>5 DEF Put
<1>8. Rest(k)'
  BY <1>1, <1>3, <1>6, <1>7 DEF Rest, Open
<1>9. KeepsTo(h, k)
  BY <1>1, <1>5, <1>7, <1>8 DEF KeepsTo, OnlyKey
<1>10. RowMoves(h, k)
  BY <1>1, <1>5 DEF RowMoves, TableMoves
<1>11. ShadowMoves(h, k)
  BY <1>1, <1>5, <1>6, <1>7 DEF ShadowMoves
<1>12. ASSUME InSession
       PROVE  UsedIsLive'
  <2>1. ~job[h].shadow /\ UsedIsLive
    BY <1>1, <1>12 DEF TameInv, Session
  <2>2. k \notin Live(states) /\ Live(states)' = Live(states) \cup {k} /\ Live(states) \subseteq DOMAIN states
    BY <1>3, <1>6, <1>7, <2>1 DEF Live
  <2> QED
    BY <1>1, <1>3, <1>5, <1>6, <1>7, <2>1, <2>2, UsedTakes
<1> QED
  BY <1>9, <1>10, <1>11, <1>12 DEF TameMoves

\* A FREE finds the block of its own allocation.
LEMMA SendFreeTame ==
  ASSUME PipelineAssumption, PipelineInv, TameInv, NEW h \in Hooks, NEW k, k = job[h].key, SendFree(h)
  PROVE  TameMoves(h, k)
<1>1. /\ CallTypes /\ TableTypes /\ DriverTypes /\ CountBound /\ IdsIssued
      /\ pc[h] = "send" /\ job[h].kind = "FREE" /\ ~Idle(h)
      /\ UNCHANGED <<heap, registered, writes>>
  BY DEF PipelineInv, SendFree, Idle, driver
<1>2. Knows(h, k)
  BY <1>1, KnowsStage
<1>3. /\ Open(k) /\ k \notin DOMAIN heap /\ k \notin registered
      /\ k \in Keys /\ k \in DOMAIN states /\ states[k] \in Blocks
  BY <1>1, <1>2 DEF Knows, Stage, Open, TableTypes, IsTable, IsPartial
<1>4. Located(states, k, 0) = {k}
  BY <1>3 DEF Located
<1> DEFINE b == Ended(k)
<1>5. /\ states' = [states EXCEPT ![k] = b] /\ UNCHANGED count
      /\ used' = IF job[h].shadow THEN used ELSE Charged(used, MeterOf(k), -FreedSize(states, k, 0))
      /\ TableMoves(k) /\ b.id = states[k].id
      /\ states[k].id \in Ids
      /\ Moves(h, "handle", [job[h] EXCEPT !.hold = states[k].id])
  BY <1>1, <1>4, SendFreeMoves
<1>6. /\ b.head = states[k].head /\ b.tail = "FREE" /\ b.size = states[k].size
      /\ b.shadow = states[k].shadow
  BY <1>3 DEF Ended, WithEvent, Blocks
<1> HIDE DEF b
<1>7. /\ DOMAIN states' = DOMAIN states /\ states'[k] = b
      /\ \A j \in DOMAIN states \ {k} : states'[j] = states[j]
  BY <1>1, <1>3, <1>5 DEF TableTypes, IsTable, IsPartial
<1>8. /\ OthersStay(h) /\ pc'[h] = "handle" /\ job'[h].hold = states[k].id
      /\ job'[h].key = k /\ job'[h].kind = "FREE" /\ job'[h].shadow = job[h].shadow
  BY <1>1, <1>2, <1>5 DEF Moves, Knows, Jobs
<1>9. Stage(h)'
  BY <1>1, <1>3, <1>5, <1>6, <1>7, <1>8 DEF Stage, Freed, Open
<1>10. KeepsTo(h, k)
  BY <1>1, <1>7, <1>8, <1>9 DEF KeepsTo, OnlyKey
<1>11. RowMoves(h, k)
  BY <1>1, <1>5 DEF RowMoves, TableMoves
<1>12. ShadowMoves(h, k)
  BY <1>1, <1>3, <1>6, <1>7, <1>8 DEF ShadowMoves
<1>13. ASSUME InSession
       PROVE  UsedIsLive'
  <2>1. ~job[h].shadow /\ UsedIsLive /\ states[k].shadow \in {"NORMAL", "SHADOW_PROMOTED"}
    BY <1>1, <1>3, <1>13 DEF TameInv, Session
  <2>2. /\ k \in Live(states) /\ Live(states)' = Live(states) \ {k} /\ Live(states) \subseteq DOMAIN states
    BY <1>3, <1>6, <1>7, <2>1 DEF Live, Open
  <2>3. FreedSize(states, k, 0) = states[k].size /\ states[k].size \in Nat
    BY <1>3 DEF FreedSize, PoolOf, Keys, PipelineAssumption, Open, Blocks
  <2>4. used' = Charged(used, MeterOf(k), -states[k].size)
    BY <1>5, <2>1, <2>3
  <2>5. \A j \in Live(states) \ {k} : states'[j].size = states[j].size
    BY <1>7, <2>2
  <2> QED
    BY <1>1, <2>1, <2>2, <2>3, <2>4, <2>5, UsedGives
<1> QED
  BY <1>10, <1>11, <1>12, <1>13 DEF TameMoves

\* The pointer is to that block.
LEMMA HandleFreeTame ==
  ASSUME PipelineInv, TameInv, NEW h \in Hooks, NEW k, k = job[h].key, HandleFree(h)
  PROVE  TameMoves(h, k)
<1>1. /\ CallTypes /\ TableTypes /\ IdsUnique /\ pc[h] = "handle" /\ ~Idle(h)
      /\ UNCHANGED <<heap, registered>>
  BY DEF PipelineInv, HandleFree, Idle, driver
<1>2. Knows(h, k)
  BY <1>1, KnowsStage
<1>3. /\ job[h].kind = "FREE" /\ Freed(k) /\ job[h].hold = states[k].id
      /\ k \notin DOMAIN heap /\ k \notin registered /\ k \in Keys /\ k \in DOMAIN states
      /\ states[k] \in Blocks
  BY <1>1, <1>2 DEF Knows, Stage, Freed, Jobs, TableTypes, IsTable, IsPartial
<1>4. /\ UNCHANGED <<count, used, writes>> /\ TableMoves(k)
      /\ \/ /\ UNCHANGED states /\ ~job[h].shadow /\ Moves(h, "dump", job[h])
         \/ /\ UNCHANGED states /\ job[h].shadow /\ Moves(h, "erase", job[h])
         \/ /\ DOMAIN states' = DOMAIN states /\ job[h].shadow
            /\ states[k].shadow # "SHADOW_CREATED"
            /\ states'[k] = [states[k] EXCEPT !.shadow = "SHADOW_FREED"]
            /\ \A j \in DOMAIN states \ {k} : states'[j] = states[j]
            /\ Moves(h, "idle", NoJob)
  <2>1. HeldKeys(h) \subseteq {k}
    BY <1>1, <1>3 DEF HeldKeys, IdsUnique
  <2> QED
    BY <1>1, <2>1, HandleFreeMoves
<1>5. CASE UNCHANGED states /\ \E label \in {"dump", "erase"} : Moves(h, label, job[h])
  <2>1. OthersStay(h) /\ pc'[h] \in {"dump", "erase"} /\ job'[h] = job[h]
    BY <1>5 DEF Moves
  <2>2. Stage(h)'
    BY <1>1, <1>3, <1>5, <2>1 DEF Stage, Freed
  <2>3. KeepsTo(h, k)
    BY <1>1, <1>5, <2>1, <2>2 DEF KeepsTo, OnlyKey
  <2>4. RowMoves(h, k) /\ ShadowMoves(h, k) /\ (InSession => UsedIsLive')
    BY <1>1, <1>4, <1>5, <2>1, TableUntouched DEF table
  <2> QED
    BY <2>3, <2>4 DEF TameMoves
<1>6. CASE /\ DOMAIN states' = DOMAIN states /\ job[h].shadow
           /\ states[k].shadow # "SHADOW_CREATED"
           /\ states'[k] = [states[k] EXCEPT !.shadow = "SHADOW_FREED"]
           /\ \A j \in DOMAIN states \ {k} : states'[j] = states[j]
           /\ Moves(h, "idle", NoJob)
  <2>1. OthersStay(h) /\ pc'[h] = "idle"
    BY <1>6 DEF Moves
  <2>2. states'[k].shadow = "SHADOW_FREED"
    BY <1>3, <1>6 DEF Blocks
  <2>3. Rest(k)'
    BY <1>1, <1>3, <2>2 DEF Rest
  <2>4. KeepsTo(h, k)
    BY <1>1, <1>6, <2>1, <2>3 DEF KeepsTo, OnlyKey
  <2>5. RowMoves(h, k)
    BY <1>1, <1>4 DEF RowMoves, TableMoves
  <2>6. ShadowMoves(h, k)
    BY <1>1, <1>3, <1>6, <2>1 DEF ShadowMoves
  <2>7. ~InSession
    BY <1>1, <1>6 DEF TameInv, Session
  <2> QED
    BY <2>4, <2>5, <2>6, <2>7 DEF TameMoves
<1> QED
  BY <1>4, <1>5, <1>6

\* The dump writes that block, for the first time.
LEMMA DumpBlockTame ==
  ASSUME PipelineInv, TameInv, NEW h \in Hooks, NEW k, k = job[h].key, DumpBlock(h)
  PROVE  TameMoves(h, k)
<1>1. /\ CallTypes /\ TableTypes /\ pc[h] = "dump" /\ ~Idle(h)
      /\ UNCHANGED <<heap, registered>>
  BY DEF PipelineInv, DumpBlock, Idle, driver
<1>2. Knows(h, k)
  BY <1>1, KnowsStage
<1>3. /\ UNCHANGED <<states, count, used>> /\ OthersStay(h) /\ pc'[h] = "erase" /\ job'[h] = job[h]
      /\ writes' = [writes EXCEPT ![job[h].hold] = @ + 1]
  BY <1>1, DumpBlockMoves DEF Moves
<1>4. /\ job[h].kind = "FREE" /\ Freed(k) /\ job[h].hold = states[k].id
      /\ k \notin DOMAIN heap /\ k \notin registered /\ k \in DOMAIN states
  BY <1>1, <1>2 DEF Knows, Stage, Freed, Jobs
<1>5. Stage(h)'
  BY <1>1, <1>3, <1>4 DEF Stage, Freed
<1>6. KeepsTo(h, k)
  BY <1>1, <1>3, <1>5 DEF KeepsTo, OnlyKey
<1>7. RowMoves(h, k)
  BY <1>1, <1>3, <1>4 DEF RowMoves, OneNew
<1>8. ShadowMoves(h, k)
  BY <1>1, <1>3 DEF ShadowMoves
<1>9. InSession => UsedIsLive'
  BY <1>3, UsedSame DEF TameInv, Session
<1> QED
  BY <1>6, <1>7, <1>8, <1>9 DEF TameMoves

\* And that block leaves the table.
LEMMA EraseBlockTame ==
  ASSUME PipelineInv, TameInv, NEW h \in Hooks, NEW k, k = job[h].key, EraseBlock(h)
  PROVE  TameMoves(h, k)
<1>1. /\ CallTypes /\ TableTypes /\ pc[h] = "erase" /\ ~Idle(h)
      /\ UNCHANGED <<heap, registered>>
  BY DEF PipelineInv, EraseBlock, Idle, driver
<1>2. Knows(h, k)
  BY <1>1, KnowsStage
<1>3. /\ job[h].kind = "FREE" /\ Freed(k)
      /\ k \notin DOMAIN heap /\ k \notin registered /\ k \in DOMAIN states
  BY <1>1, <1>2 DEF Knows, Stage, Freed, Jobs
<1>4. /\ UNCHANGED <<count, used, writes>> /\ TableMoves(k) /\ OthersStay(h) /\ pc'[h] = "idle"
      /\ DOMAIN states' = DOMAIN states \ {k}
      /\ \A j \in DOMAIN states \ {k} : states'[j] = states[j]
  BY <1>1, <1>3, EraseBlockMoves DEF Moves
<1>5. Rest(k)'
  BY <1>1, <1>3, <1>4 DEF Rest
<1>6. KeepsTo(h, k)
  BY <1>1, <1>4, <1>5 DEF KeepsTo, OnlyKey
<1>7. RowMoves(h, k)
  BY <1>1, <1>4 DEF RowMoves, TableMoves
<1>8. ShadowMoves(h, k)
  BY <1>1, <1>4 DEF ShadowMoves
<1>9. InSession => UsedIsLive'
  <2>1. Live(states)' = Live(states) /\ \A j \in Live(states) : states'[j].size = states[j].size
    BY <1>3, <1>4 DEF Live, Freed
  <2> QED
    BY <1>4, <2>1, UsedSame DEF TameInv, Session
<1> QED
  BY <1>6, <1>7, <1>8, <1>9 DEF TameMoves

\* In a tame run no event meets a residual block, and every step of a hook
\* keeps the books.
LEMMA HookTame ==
  ASSUME MemoryAssumption, PipelineAssumption, PipelineInv, TameInv, NEW h \in Hooks, HookStep(h)
  PROVE  TameInv'
<1>1. CallTypes /\ ~Idle(h) /\ UNCHANGED <<driver, control, calm>>
  BY DEF PipelineInv, HookStep, Decide, Register, SendMalloc, SendFree, FindResidue, CloseResidue,
         HandleFree, DumpBlock, EraseBlock, Idle
<1>2. PICK k : k = job[h].key
  OBVIOUS
<1>3. Stage(h) /\ pc[h] \notin {"residue", "close"}
  BY <1>1 DEF TameInv, Stage
<1>4. ~FindResidue(h) /\ ~CloseResidue(h)
  BY <1>3 DEF FindResidue, CloseResidue
<1>5. TameMoves(h, k)
  BY <1>2, <1>4, DecideTame, RegisterTame, SendMallocTame, SendFreeTame, HandleFreeTame, DumpBlockTame,
     EraseBlockTame DEF HookStep
<1>6. PipelineInv'
  BY HookStepInv
<1> QED
  BY <1>1, <1>2, <1>5, <1>6, TameKept

-----------------------------------------------------------------------------
(* Tame runs: calls and the control thread *)

\* A call leaves the table and the trace mode alone.
LEMMA CallKeeps ==
  ASSUME PipelineAssumption, PipelineInv, TameInv, NEW h \in Hooks, Idle(h), NEW k \in Keys, Untouched(k),
         KeepsTo(h, k), pc'[h] = "decide", job'[h].key = k, UNCHANGED <<table, control>>,
         calm' = (calm /\ ~Starting),
         DOMAIN heap' \subseteq DOMAIN heap \cup {k}, past \subseteq past', k \in past'
  PROVE  TameInv'
<1>1. /\ CallTypes /\ TableTypes /\ IdsIssued /\ IdsUnique /\ count \in {0} \cup Ids
      /\ UNCHANGED <<states, count, used, writes, status, ctl>> /\ OthersStay(h)
  BY IdsSuffice DEF PipelineInv, table, control, KeepsTo
<1>2. /\ Lone' /\ \A g \in Hooks : ~Idle(g)' => Stage(g)'
      /\ \A j \in Keys : Untouched(j)' => Rest(j)'
  BY <1>1, StagesKept
<1>3. RowMoves(h, k)
  BY <1>1 DEF RowMoves, OneNew, Idle
<1>4. Rows'
  BY <1>1, <1>3, RowsKept
<1>5. ShadowStays'
  BY <1>1 DEF TameInv, ShadowStays, OthersStay
<1>6. Session'
  <2>1. /\ calm /\ Starting => Quiet
        /\ ctl = "stopped" => status = "IN_TRACING"
        /\ ctl = "flushing" => status # "IN_TRACING"
    BY DEF TameInv, Session
  <2>2. ~(calm /\ Starting)' /\ (InSession' => InSession) /\ (calm' => ctl' \notin {"announce", "switch"})
    BY <1>1 DEF Starting, InSession
  <2>3. ASSUME InSession
        PROVE  /\ \A j \in DOMAIN states : states[j].shadow \in {"NORMAL", "SHADOW_PROMOTED"}
               /\ \A g \in Hooks : pc'[g] \notin {"idle", "decide"} => ~job'[g].shadow
               /\ UsedIsLive'
    <3>1. /\ \A j \in DOMAIN states : states[j].shadow \in {"NORMAL", "SHADOW_PROMOTED"}
          /\ \A g \in Hooks : pc[g] \notin {"idle", "decide"} => ~job[g].shadow
          /\ UsedIsLive
      BY <2>3 DEF TameInv, Session
    <3>2. UsedIsLive'
      BY <1>1, <3>1, UsedSame
    <3> QED
      BY <1>1, <3>1, <3>2 DEF OthersStay
  <2> QED
    BY <1>1, <2>1, <2>2, <2>3 DEF Session
<1>7. Past'
  BY <1>1 DEF TameInv, Past, Idle, OthersStay
<1> QED
  BY <1>2, <1>4, <1>5, <1>6, <1>7 DEF TameInv

\* In a tame run the driver hands out an address when nothing is left of the
\* allocation that had it.
LEMMA CallMallocTame ==
  ASSUME MemoryAssumption, PipelineAssumption, PipelineInv, Tame, TameInv,
         NEW h \in Hooks, NEW k \in Keys, NEW size \in Sizes, CallMalloc(h, k, size)
  PROVE  TameInv'
<1>1. /\ k \notin DOMAIN heap /\ DOMAIN heap' = DOMAIN heap \cup {k} /\ heap'[k] = size
      /\ \A j \in DOMAIN heap : heap'[j] = heap[j]
  BY MallocCalls
<1>2. /\ CallTypes /\ ControlTypes /\ Locks /\ Idle(h) /\ size \in Nat /\ MayReuse(k) /\ past' = past \cup {k}
      /\ Call(h, "MALLOC", k, size)
  BY DEF PipelineInv, CallMalloc, MemoryAssumption
<1>3. PICK j \in Jobs : Moves(h, "decide", j) /\ j.kind = "MALLOC" /\ j.key = k /\ j.size = size
  BY <1>2, CallMoves
<1>4. /\ OthersStay(h) /\ pc'[h] = "decide" /\ job'[h] = j
      /\ UNCHANGED <<table, control, states, registered>> /\ calm' = (calm /\ ~Starting)
  BY <1>2, <1>3 DEF Moves, Call, table
<1>5. Untouched(k) /\ k \notin DOMAIN states
  <2>1. CASE reuse = "never"
    BY <1>2, <2>1 DEF MayReuse, TameInv, Past, Untouched
  <2>2. CASE reuse = "reported" /\ ~Restarts
    <3>1. ~Busy("FREE", k)
      BY <1>2, <2>2 DEF MayReuse
    <3>2. Untouched(k)
      <4> SUFFICES ASSUME NEW g \in Hooks, ~Idle(g), job[g].key = k
                   PROVE  FALSE
        BY DEF Untouched
      <4>1. Stage(g) /\ job[g].kind \in {"MALLOC", "FREE"}
        BY <1>2 DEF TameInv, CallTypes, Jobs
      <4> QED
        BY <1>1, <3>1, <4>1 DEF Stage, Busy
    <3>3. Rest(k)
      BY <3>2 DEF TameInv
    <3>4. \A i \in DOMAIN states : states[i].shadow # "SHADOW_FREED"
      <4>1. CASE status = "IN_TRACING"
        <5>1. InSession
          BY <1>2, <2>2, <4>1 DEF Locks, InSession, Starting
        <5> QED
          BY <5>1 DEF TameInv, Session
      <4>2. CASE status # "IN_TRACING"
        BY <2>2, <4>2 DEF TameInv, ShadowStays
      <4> QED
        BY <4>1, <4>2
    <3> QED
      BY <1>1, <3>2, <3>3, <3>4 DEF Rest
  <2> QED
    BY <2>1, <2>2 DEF Tame
<1>6. k \notin registered
  BY <1>1, <1>5 DEF TameInv, Rest
<1>7. Stage(h)'
  BY <1>1, <1>3, <1>4, <1>5, <1>6 DEF Stage
<1>8. KeepsTo(h, k)
  BY <1>1, <1>3, <1>4, <1>7 DEF KeepsTo, OnlyKey
<1> QED
  BY <1>1, <1>2, <1>3, <1>4, <1>5, <1>8, CallKeeps

\* The application frees an allocation whose MALLOC is reported.
LEMMA CallFreeTame ==
  ASSUME MemoryAssumption, PipelineAssumption, PipelineInv, TameInv,
         NEW h \in Hooks, NEW k \in Keys, CallFree(h, k)
  PROVE  TameInv'
<1>1. /\ DOMAIN heap' = DOMAIN heap \ {k}
      /\ \A j \in DOMAIN heap \ {k} : heap'[j] = heap[j]
  BY FreeCalls
<1>2. /\ CallTypes /\ Idle(h) /\ k \in DOMAIN heap /\ ~Busy("MALLOC", k) /\ past' = past
      /\ Call(h, "FREE", k, 0)
  BY DEF PipelineInv, CallFree
<1>3. PICK j \in Jobs : Moves(h, "decide", j) /\ j.kind = "FREE" /\ j.key = k
  BY <1>2, CallMoves
<1>4. /\ OthersStay(h) /\ pc'[h] = "decide" /\ job'[h] = j
      /\ UNCHANGED <<table, control, states, registered>> /\ calm' = (calm /\ ~Starting)
  BY <1>2, <1>3 DEF Moves, Call, table
<1>5. Untouched(k)
  <2> SUFFICES ASSUME NEW g \in Hooks, ~Idle(g), job[g].key = k
               PROVE  FALSE
    BY DEF Untouched
  <2>1. Stage(g) /\ job[g].kind \in {"MALLOC", "FREE"}
    BY <1>2 DEF TameInv, CallTypes, Jobs
  <2> QED
    BY <1>2, <2>1 DEF Stage, Busy
<1>6. k \in registered /\ Open(k)
  BY <1>2, <1>5 DEF TameInv, Rest
<1>7. Stage(h)'
  BY <1>1, <1>3, <1>4, <1>6 DEF Stage, Open
<1>8. KeepsTo(h, k)
  BY <1>1, <1>3, <1>4, <1>7 DEF KeepsTo, OnlyKey
<1>9. k \in past
  BY <1>2 DEF TameInv, Past
<1> QED
  BY <1>1, <1>2, <1>3, <1>4, <1>5, <1>8, <1>9, CallKeeps

\* A start promotes what is in the table; no block of a call is among those it
\* writes out.
LEMMA PromoteTame ==
  ASSUME PipelineAssumption, PipelineInv, TameInv, Promote
  PROVE  /\ Lone' /\ Past' /\ Rows'
         /\ \A h \in Hooks : ~Idle(h)' => Stage(h)'
         /\ \A k \in Keys : Untouched(k)' => Rest(k)'
<1>1. /\ TableTypes /\ CallTypes /\ IdsIssued /\ IdsUnique
      /\ UNCHANGED <<heap, past, registered, pc, job, count>>
      /\ DOMAIN states' = DOMAIN states \ Expired(states)
      /\ \A k \in DOMAIN states' :
           /\ states'[k].id = states[k].id /\ states'[k].head = states[k].head
           /\ states'[k].tail = states[k].tail /\ states'[k].size = states[k].size
           /\ states'[k].shadow \in {"NORMAL", "SHADOW_PROMOTED"}
      /\ writes' = [n \in Ids |->
                      IF \E k \in Expired(states) : states[k].id = n THEN writes[n] + 1 ELSE writes[n]]
  BY PromoteMoves DEF PipelineInv, Promote, driver, calls
<1>2. /\ Lone /\ Past /\ Rows /\ \A h \in Hooks : ~Idle(h) => Stage(h)
      /\ \A k \in Keys : Untouched(k) => Rest(k)
  BY DEF TameInv
<1>3. /\ Lone' /\ Past' /\ \A h \in Hooks : Idle(h)' <=> Idle(h)
      /\ \A k : Untouched(k)' <=> Untouched(k)
  BY <1>1, <1>2 DEF Lone, Past, Idle, Untouched
<1>4. ASSUME NEW k, k \in DOMAIN states, states[k].shadow # "SHADOW_FREED"
      PROVE  k \in DOMAIN states' /\ states'[k].shadow # "SHADOW_FREED"
  BY <1>1, <1>4 DEF Expired
<1>5. ASSUME NEW h \in Hooks, ~Idle(h)
      PROVE  Stage(h)'
  BY <1>1, <1>2, <1>4, <1>5 DEF Stage, Open, Freed
<1>6. ASSUME NEW k \in Keys, Untouched(k)
      PROVE  Rest(k)'
  <2>1. Rest(k)
    BY <1>2, <1>6
  <2>2. CASE k \in DOMAIN heap
    BY <1>1, <1>4, <2>1, <2>2 DEF Rest, Open
  <2>3. CASE k \notin DOMAIN heap
    BY <1>1, <2>1, <2>3 DEF Rest, Expired
  <2> QED
    BY <2>2, <2>3
<1>7. Rows'
  <2>1. /\ writes \in [Ids -> Nat] /\ \A n \in Ids : writes[n] <= 1
        /\ \A j \in DOMAIN states : ~Erasing(j) => writes[states[j].id] = 0
        /\ \A n \in Ids : n > count => writes[n] = 0
        /\ \A j \in DOMAIN states : states[j].id \in 1..count
        /\ count \in Nat
    BY <1>1, <1>2 DEF Rows, WrittenOnce, TableTypes, IdsIssued
  <2>2. \A k \in Expired(states) : k \in DOMAIN states /\ ~Erasing(k)
    <3> SUFFICES ASSUME NEW k \in Expired(states), NEW h \in Hooks, pc[h] = "erase", job[h].key = k
                 PROVE  FALSE
      BY DEF Erasing, Expired
    <3>1. Stage(h) /\ job[h].kind \in {"MALLOC", "FREE"}
      BY <1>1, <1>2 DEF Idle, CallTypes, Jobs
    <3> QED
      BY <3>1 DEF Stage, Freed, Expired
  <2>3. WrittenOnce'
    <3> SUFFICES ASSUME NEW n \in Ids
                 PROVE  writes'[n] <= 1
      BY DEF WrittenOnce
    <3> QED
      BY <1>1, <2>1, <2>2
  <2>4. ASSUME NEW j \in DOMAIN states', ~Erasing(j)'
        PROVE  writes'[states'[j].id] = 0
    <3>1. j \in DOMAIN states /\ j \notin Expired(states) /\ states'[j].id = states[j].id /\ ~Erasing(j)
      BY <1>1, <2>4 DEF Erasing
    <3>2. writes[states[j].id] = 0 /\ states[j].id \in Nat \ {0} /\ states[j].id <= count
      BY <2>1, <3>1
    <3>3. ~ \E k \in Expired(states) : states[k].id = states[j].id
      BY <1>1, <2>2, <3>1 DEF IdsUnique
    <3>4. count \in {0} \cup Ids
      BY IdsSuffice DEF PipelineInv
    <3>5. states[j].id \in Ids
      BY <3>2, <3>4 DEF Ids, PipelineAssumption
    <3> QED
      BY <1>1, <3>1, <3>2, <3>3, <3>5
  <2>5. \A n \in Ids : n > count' => writes'[n] = 0
    <3> SUFFICES ASSUME NEW n \in Ids, n > count
                 PROVE  writes'[n] = 0
      BY <1>1
    <3>1. \A k \in Expired(states) : states[k].id # n
      BY <2>1, <2>2 DEF Ids
    <3> QED
      BY <1>1, <2>1, <3>1
  <2> QED
    BY <2>3, <2>4, <2>5 DEF Rows
<1> QED
  BY <1>3, <1>5, <1>6, <1>7

\* Starts and stops keep the books, and a start that met no call makes them exact.
LEMMA ControlTame ==
  ASSUME MemoryAssumption, PipelineAssumption, PipelineInv, TameInv, StartBegin \/ AnnounceStop \/ ControlStep
  PROVE  TameInv'
<1>1. /\ TableTypes /\ CallTypes /\ Locks /\ UNCHANGED <<heap, past, registered, pc, job, count>>
  BY DEF PipelineInv, StartBegin, AnnounceStop, ControlStep, Promote, AnnounceStart, SwitchOn, SwitchOff,
         Flushed, driver, calls, table
<1>2. Restarts
  BY <1>1 DEF Locks, StartBegin, AnnounceStop, ControlStep, Promote, AnnounceStart, SwitchOn, SwitchOff, Flushed
<1>3. ShadowStays'
  BY <1>2 DEF ShadowStays
<1>4. /\ Lone' /\ Past' /\ Rows'
      /\ \A h \in Hooks : ~Idle(h)' => Stage(h)'
      /\ \A k \in Keys : Untouched(k)' => Rest(k)'
  <2>1. CASE Promote
    BY <2>1, PromoteTame
  <2>2. CASE StartBegin \/ AnnounceStop \/ AnnounceStart \/ SwitchOn \/ SwitchOff \/ Flushed
    <3>1. UNCHANGED <<states, writes>>
      BY <2>2 DEF StartBegin, AnnounceStop, AnnounceStart, SwitchOn, SwitchOff, Flushed, table
    <3> QED
      BY <1>1, <3>1 DEF TameInv, Lone, Past, Rows, WrittenOnce, Erasing, Idle, Stage, Open, Freed,
                        Untouched, Rest
  <2> QED
    BY <2>1, <2>2 DEF ControlStep
<1>5. Session'
  <2>1. /\ calm /\ Starting => Quiet
        /\ ctl = "stopped" => status = "IN_TRACING"
        /\ ctl = "flushing" => status # "IN_TRACING"
        /\ InSession \/ (calm /\ ctl \in {"announce", "switch"}) =>
             \A k \in DOMAIN states : states[k].shadow \in {"NORMAL", "SHADOW_PROMOTED"}
        /\ InSession => \A h \in Hooks : pc[h] \notin {"idle", "decide"} => ~job[h].shadow
        /\ InSession \/ (calm /\ ctl = "switch") => UsedIsLive
    BY DEF TameInv, Session
  <2>2. Quiet' <=> Quiet
    BY <1>1 DEF Quiet, Idle
  <2>3. UNCHANGED <<states, used>> => (UsedIsLive' <=> UsedIsLive)
    BY DEF UsedIsLive, LiveSizes
  <2>4. CASE StartBegin
    BY <2>2, <2>4 DEF StartBegin, Session, InSession, Starting, Quiet, Idle
  <2>5. CASE Promote
    <3>1. \A k \in DOMAIN states' : states'[k].shadow \in {"NORMAL", "SHADOW_PROMOTED"}
      BY <1>1, <2>5, PromoteMoves
    <3> QED
      BY <2>1, <2>2, <2>5, <3>1 DEF Promote, Session, InSession, Starting
  <2>6. CASE AnnounceStart
    <3>1. UsedIsLive'
      <4>1. /\ DOMAIN LiveSizes = Live(states) /\ IsFiniteSet(DOMAIN LiveSizes)
            /\ \A k \in DOMAIN LiveSizes : states[k].size = LiveSizes[k]
        BY <1>1, LiveSizesType DEF LiveSizes
      <4>2. used' = Baseline(states) /\ LiveSizes' = LiveSizes
        BY <2>6 DEF AnnounceStart, LiveSizes
      <4>3. ASSUME NEW m \in Meters
            PROVE  Baseline(states)[m] = SumOf(LiveSizes, m)
        BY <4>1, BaselineIsHeld
      <4> QED
        BY <4>2, <4>3 DEF UsedIsLive
    <3> QED
      BY <2>1, <2>2, <2>6, <3>1 DEF AnnounceStart, Session, InSession, Starting
  <2>7. CASE SwitchOn
    <3>1. calm => \A h \in Hooks : pc[h] = "idle"
      BY <2>1, <2>7 DEF SwitchOn, Starting, Quiet, Idle
    <3> QED
      BY <1>1, <2>1, <2>3, <2>7, <3>1 DEF SwitchOn, Session, InSession, Starting, table
  <2>8. CASE AnnounceStop
    BY <1>1, <2>1, <2>3, <2>8 DEF AnnounceStop, Session, InSession, Starting, table
  <2>9. CASE SwitchOff
    BY <1>1, <2>1, <2>3, <2>9 DEF SwitchOff, Session, InSession, Starting, table
  <2>10. CASE Flushed
    BY <1>1, <2>1, <2>3, <2>10 DEF Flushed, Session, InSession, Starting, table
  <2> QED
    BY <2>4, <2>5, <2>6, <2>7, <2>8, <2>9, <2>10 DEF ControlStep
<1> QED
  BY <1>3, <1>4, <1>5 DEF TameInv

\* The books are empty at the start.
LEMMA InitTame ==
  ASSUME MemoryAssumption, PipelineAssumption, Init
  PROVE  TameInv
<1>1. Lone /\ Past /\ (\A h \in Hooks : ~Idle(h) => Stage(h)) /\ \A k \in Keys : Rest(k)
  BY DEF Init, Lone, Past, Idle, Rest
<1>2. Rows
  BY DEF Init, Rows, WrittenOnce, Ids
<1>3. UsedIsLive
  <2> SUFFICES ASSUME NEW m \in Meters
               PROVE  used[m] = SumOf(LiveSizes, m)
    BY DEF UsedIsLive
  <2>1. OfMeter(LiveSizes, m) = {}
    BY DEF Init, LiveSizes, Live, OfMeter
  <2>2. SumFunctionOnSet(LiveSizes, {}) = 0
    BY SumType, FS_EmptySet
  <2> QED
    BY <2>1, <2>2 DEF Init, SumOf
<1>4. ShadowStays /\ Session
  BY <1>3 DEF Init, ShadowStays, Session, InSession, Starting, Idle
<1> QED
  BY <1>1, <1>2, <1>4 DEF TameInv

\* Every step of a tame run keeps its invariant.
LEMMA TameStep ==
  ASSUME MemoryAssumption, PipelineAssumption, PipelineInv, TameBooks, [Next]_vars
  PROVE  TameBooks'
<1>1. UNCHANGED reuse
  BY DEF Next, vars, driver, CallMalloc, CallFree, HookStep, Decide, Register, SendMalloc, SendFree,
         FindResidue, CloseResidue, HandleFree, DumpBlock, EraseBlock, StartBegin, AnnounceStop,
         ControlStep, Promote, AnnounceStart, SwitchOn, SwitchOff, Flushed
<1> SUFFICES ASSUME Tame, TameInv
             PROVE  TameInv'
  BY <1>1 DEF TameBooks, Tame
<1>2. CASE Next
  BY <1>2, CallMallocTame, CallFreeTame, HookTame, ControlTame DEF Next
<1>3. CASE UNCHANGED vars
  <2>1. UNCHANGED <<heap, past, registered, pc, job, count, states, writes, used, status, ctl, calm>>
    BY <1>3 DEF vars, driver, table, calls, control
  <2> QED
    BY <2>1 DEF TameInv, Lone, Past, Rows, WrittenOnce, Erasing, Idle, Stage, Open, Freed,
                Untouched, Rest, ShadowStays, Session, Starting, InSession, Quiet, UsedIsLive, LiveSizes
<1> QED
  BY <1>2, <1>3

\* What a run shows at rest, with the usage as the sum of the heap.
Settled ==
  /\ Live(states) = DOMAIN heap
  /\ \A m \in Meters :
       used[m] = SumFunctionOnSet(heap, {k \in DOMAIN heap : MeterOf(k) = m})

\* At rest in such a session the table is the heap.
LEMMA SessionSettles ==
  ASSUME PipelineInv, TameInv, Quiet, InSession
  PROVE  Settled
<1>1. /\ TableTypes /\ DriverTypes /\ \A k \in Keys : Rest(k)
      /\ \A k \in DOMAIN states : states[k].shadow \in {"NORMAL", "SHADOW_PROMOTED"}
      /\ UsedIsLive /\ DOMAIN heap \subseteq Keys /\ DOMAIN states \subseteq Keys
  BY DEF PipelineInv, TameInv, Session, Quiet, Untouched, DriverTypes, TableTypes, IsTable, IsPartial
<1>2. Live(states) = DOMAIN heap
  <2>1. Live(states) \subseteq DOMAIN states
    BY DEF Live
  <2>2. DOMAIN heap \subseteq Live(states)
    BY <1>1 DEF Live, Rest, Open
  <2>3. Live(states) \subseteq DOMAIN heap
    BY <1>1, <2>1 DEF Rest
  <2> QED
    BY <2>2, <2>3
<1>3. ASSUME NEW m \in Meters
      PROVE  used[m] = SumFunctionOnSet(heap, {k \in DOMAIN heap : MeterOf(k) = m})
  <2> DEFINE S == {k \in DOMAIN heap : MeterOf(k) = m}
             f == LiveSizes
  <2>1. used[m] = SumOf(f, m)
    BY <1>1 DEF UsedIsLive
  <2>2. OfMeter(f, m) = S
    BY <1>2 DEF OfMeter, LiveSizes
  <2>3. IsFiniteSet(S) /\ \A x \in S : f[x] = heap[x]
    <3>1. IsFiniteSet(DOMAIN heap)
      BY DEF PipelineInv, CountBound
    <3>2. \A x \in S : f[x] = heap[x]
      BY <1>1, <1>2 DEF LiveSizes, Rest
    <3> QED
      BY <3>1, <3>2, FS_Subset
  <2> HIDE DEF S, f
  <2>4. SumFunctionOnSet(f, S) = SumFunctionOnSet(heap, S)
    BY <2>3, SumSame
  <2> QED
    BY <2>1, <2>2, <2>4 DEF SumOf, S
<1> QED
  BY <1>2, <1>3 DEF Settled

\* Tame runs, as invariants of the specification.
LEMMA BooksKept == Spec => [](PipelineInv /\ TameBooks)
<1>1. Init => PipelineInv /\ TameBooks
  BY InitInv, InitTame, MemoryAssumption, PipelineAssumption DEF TameBooks
<1>2. (PipelineInv /\ TameBooks) /\ [Next]_vars => (PipelineInv /\ TameBooks)'
  BY StepInv, TameStep, MemoryAssumption, PipelineAssumption
<1> QED
  BY <1>1, <1>2, PTL DEF Spec

\* Where the driver hands an address out only once, or after its FREE was
\* reported and nothing is started or stopped, hooks that race with each other
\* and with starts and stops keep the types, lose neither the block they point
\* to nor a FREE to the filter, and write no block twice.
THEOREM HooksStaySafe ==
  ASSUME Reuses \subseteq {"never"} \/ (Reuses \subseteq {"never", "reported"} /\ ~Restarts)
  PROVE  Spec => []HooksAreSafe
<1>1. PipelineInv /\ TameBooks => HooksAreSafe
  <2> SUFFICES ASSUME PipelineInv, TameBooks
               PROVE  HooksAreSafe
    OBVIOUS
  <2>1. TameInv /\ CallTypes
    BY DEF PipelineInv, DriverTypes, TameBooks, Tame
  <2>2. TypeOK
    BY TypesOK, PipelineAssumption
  <2>3. WrittenOnce
    BY <2>1 DEF TameInv, Rows
  <2>4. \A h \in Hooks : ~Idle(h) => Stage(h) /\ job[h].kind \in {"MALLOC", "FREE"}
    BY <2>1 DEF TameInv, CallTypes, Jobs
  <2>5. HeldStateIsLive
    BY <2>4 DEF HeldStateIsLive, HeldKeys, Stage, Freed, Idle
  <2>6. OnlyForeignFiltered
    BY <2>4 DEF OnlyForeignFiltered, Stage, Idle
  <2> QED
    BY <2>2, <2>3, <2>5, <2>6 DEF HooksAreSafe
<1> QED
  BY <1>1, BooksKept, PTL

\* Without restarts, whenever no call is under way and addresses are not reused
\* early, the registered addresses, the live blocks and the usage are those of
\* the driver's heap.
THEOREM BooksStayAgreed ==
  ASSUME ~Restarts
  PROVE  Spec => []BooksAgree
<1>1. PipelineInv /\ TameBooks => BooksAgree
  <2> SUFFICES ASSUME PipelineInv, TameBooks, Quiet, reuse # "early"
               PROVE  /\ registered = DOMAIN heap
                      /\ status = "IN_TRACING" => Settled
    BY DEF BooksAgree, Settled
  <2>1. TameInv
    BY PipelineAssumption DEF PipelineInv, DriverTypes, PipelineAssumption, TameBooks, Tame
  <2>2. registered = DOMAIN heap
    <3>1. /\ \A k \in Keys : Rest(k)
          /\ registered \subseteq Keys /\ DOMAIN heap \subseteq Keys
      BY <2>1 DEF TameInv, Quiet, Untouched, PipelineInv, CallTypes, DriverTypes, IsPartial
    <3> QED
      BY <3>1 DEF Rest
  <2>3. status = "IN_TRACING" => InSession
    BY DEF PipelineInv, Locks, InSession, Starting
  <2> QED
    BY <2>1, <2>2, <2>3, SessionSettles
<1> QED
  BY <1>1, BooksKept, PTL

\* Where the driver hands an address out only once, a start that finds no call
\* under way puts live blocks and usage right, and at every moment of that
\* session without a call they are those of the heap.
THEOREM CalmStartsSettle ==
  ASSUME Reuses \subseteq {"never"} \/ (Reuses \subseteq {"never", "reported"} /\ ~Restarts)
  PROVE  Spec => []CalmStartSettles
<1>1. PipelineInv /\ TameBooks => CalmStartSettles
  <2> SUFFICES ASSUME PipelineInv, TameBooks, Quiet, InSession
               PROVE  Settled
    BY DEF CalmStartSettles, Settled, InSession
  <2>1. TameInv
    BY DEF PipelineInv, DriverTypes, TameBooks, Tame
  <2> QED
    BY <2>1, SessionSettles
<1> QED
  BY <1>1, BooksKept, PTL
====
