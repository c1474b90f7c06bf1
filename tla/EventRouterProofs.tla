------------------------- MODULE EventRouterProofs -------------------------
(***************************************************************************)
(* Theorems of EventRouter, for all pools, devices, addresses, sizes and   *)
(* bounds, with and without --steps:                                       *)
(*                                                                         *)
(*   - the records of the pipeline keep their types;                       *)
(*   - no record of a block is lost, and no two states share an id;        *)
(*   - a session never holds a block in an unresolved shadow state;        *)
(*   - the destructor leaves an empty table and a complete dump;           *)
(*   - an allocation is written once, with one FREE;                       *)
(*   - the table of a session is what the application holds, and the       *)
(*     meters are the sums of it;                                          *)
(*   - also when --steps drops reports, no meter falls below zero and no   *)
(*     FREE ends a block that is still held.                               *)
(*                                                                         *)
(* All steps change the table by Settled, so the argument is made once, in *)
(* SettledKeepsTable, and each event only has to show which ids it keeps,  *)
(* writes and adds.                                                        *)
(***************************************************************************)
EXTENDS EventRouter, MemoryStatesProofs, TLAPS

\* The part of the inductive invariant that speaks of the table and the dump.
TableSafe ==
  /\ IsTable(states)
  /\ count \in 0..MaxAllocations
  /\ writes \in [Ids -> Nat]
  /\ freeRows \in [Ids -> Nat]
  /\ seen \subseteq Ids
  /\ Accounting

-----------------------------------------------------------------------------
(* The one argument behind all steps *)

\* So does the clean-up of a block.
LEMMA CleanedTable ==
  ASSUME NEW tbl, IsTable(tbl), NEW j \in DOMAIN tbl
  PROVE  /\ IsTable(CleanedUp(tbl, j))
         /\ DOMAIN CleanedUp(tbl, j) = DOMAIN tbl
         /\ \A k \in DOMAIN tbl : CleanedUp(tbl, j)[k].id = tbl[k].id
<1>1. Closed(tbl[j]) \in Blocks /\ Closed(tbl[j]).id = tbl[j].id
  BY WithEventType DEF Closed, IsTable, IsPartial, Kinds
<1>2. QED
  BY <1>1 DEF CleanedUp, IsTable, IsPartial

\* If the new table and the blocks K written to the dump use only issued ids, no
\* id twice, and every id that has to be accounted for stays or is written,
\* then the step keeps the table safe.
LEMMA SettledKeepsTable ==
  ASSUME RouterAssumption, TableSafe,
         NEW new, NEW tbl, NEW K,
         IsTable(new), IsTable(tbl), K \subseteq DOMAIN tbl,
         count' \in count..MaxAllocations,
         \A k \in DOMAIN new : new[k].id \in 1..count',
         \A k \in DOMAIN tbl : tbl[k].id \in 1..count',
         \A j, k \in DOMAIN new : new[j].id = new[k].id => j = k,
         \A k \in DOMAIN new :
           new[k].shadow = "SHADOW_CREATED" => new[k].id \notin seen \cup IdsIn(tbl, K),
         \A k \in DOMAIN states :
           states[k].id \in seen =>
             \/ \E j \in DOMAIN new : new[j].id = states[k].id
             \/ states[k].id \in IdsIn(tbl, K),
         Settled(new, tbl, K)
  PROVE  TableSafe'
<1> DEFINE W == IdsIn(tbl, K)
           T == IdsIn(new, Traced(new))
<1>1. W \subseteq Ids /\ T \subseteq Ids /\ MaxAllocations \in Nat /\ count \in Nat /\ count' \in Nat
  BY DEF IdsIn, Ids, Traced, RouterAssumption, TableSafe
<1>2. IsTable(states') /\ count' \in 0..MaxAllocations /\ seen' \subseteq Ids /\ states' = new
  BY <1>1 DEF Settled, TableSafe
<1>3. writes' \in [Ids -> Nat] /\ \A n \in Ids : writes'[n] = IF n \in W THEN writes[n] + 1 ELSE writes[n]
  BY DEF Settled, Dumped, TableSafe
<1>4. freeRows' \in [Ids -> Nat]
  <2> SUFFICES ASSUME NEW n \in Ids, n \in IdsIn(tbl, K)
               PROVE  freeRows[n] + tbl[CHOOSE k \in K : tbl[k].id = n].frees \in Nat
    BY DEF Settled, Dumped, TableSafe
  <2> DEFINE c == CHOOSE k \in K : tbl[k].id = n
  <2>1. \E k \in K : tbl[k].id = n
    BY DEF IdsIn
  <2>2. c \in DOMAIN tbl
    BY <2>1
  <2>3. tbl[c].frees \in Nat
    BY <2>2 DEF IsTable, IsPartial, Blocks
  <2>4. freeRows[n] \in Nat
    BY DEF TableSafe
  <2> QED
    BY <2>3, <2>4
<1>5. IdsIssued'
  <2>1. \A n \in W \cup T : n \in 1..count'
    BY DEF IdsIn, Traced
  <2>2. \A n \in seen : n \in 1..count'
    BY <1>1 DEF TableSafe, Accounting, IdsIssued
  <2> QED
    BY <1>2, <2>1, <2>2 DEF IdsIssued, Settled
<1>6. IdsUnique'
  BY <1>2 DEF IdsUnique
<1>7. SeenIsTraced'
  <2> SUFFICES ASSUME NEW k \in DOMAIN new
               PROVE  new[k].id \in seen' <=> new[k].shadow # "SHADOW_CREATED"
    BY <1>2 DEF SeenIsTraced
  <2>1. new[k].shadow # "SHADOW_CREATED" => new[k].id \in T
    BY DEF IdsIn, Traced
  <2>2. new[k].id \in T => new[k].shadow # "SHADOW_CREATED"
    BY DEF IdsIn, Traced
  <2> QED
    BY <2>1, <2>2 DEF Settled
<1>8. NothingLost'
  <2> SUFFICES ASSUME NEW n \in seen'
               PROVE  n \in Present' \/ writes'[n] > 0
    BY DEF NothingLost
  <2>1. n \in Ids /\ writes[n] \in Nat
    BY <1>2 DEF TableSafe
  <2>2. Present' = IdsIn(new, DOMAIN new)
    BY <1>2 DEF Present, IdsIn
  <2>3. CASE n \in W
    BY <1>3, <2>1, <2>3
  <2>4. CASE n \in T
    BY <2>2, <2>4 DEF IdsIn, Traced
  <2>5. CASE n \in seen
    <3>1. CASE writes[n] > 0
      BY <1>3, <2>1, <3>1
    <3>2. CASE n \in Present
      <4>1. PICK k \in DOMAIN states : states[k].id = n
        BY <3>2 DEF Present, IdsIn
      <4> QED
        BY <4>1, <2>2, <2>3, <2>5 DEF IdsIn
    <3> QED
      BY <2>5, <3>1, <3>2 DEF TableSafe, Accounting, NothingLost
  <2> QED
    BY <2>3, <2>4, <2>5 DEF Settled
<1> QED
  BY <1>2, <1>3, <1>4, <1>5, <1>6, <1>7, <1>8 DEF TableSafe, Accounting
-----------------------------------------------------------------------------
(* Events *)

\* A MALLOC event, with the clean-up of a block that still occupies its key.
LEMMA RouteMallocSafe ==
  ASSUME MemoryAssumption, RouterAssumption, TableSafe,
         NEW k \in Keys, NEW size \in Sizes, NEW shadow \in BOOLEAN,
         RouteMalloc(k, size, shadow)
  PROVE  TableSafe'
<1> DEFINE b == NewBlock(count + 1, "MALLOC", size,
                         IF shadow THEN "SHADOW_CREATED" ELSE "NORMAL")
           new == Put(states, k, b)
<1>1. /\ count \in Nat /\ MaxAllocations \in Nat /\ count < MaxAllocations
      /\ count' = count + 1
  BY DEF TableSafe, RouteMalloc, RouterAssumption
<1>2. b \in Blocks /\ b.id = count + 1
  BY <1>1, NewBlockType DEF MemoryAssumption, Kinds, ShadowStates
<1>3. /\ IsTable(states) /\ IsTable(new)
      /\ DOMAIN new = DOMAIN states \cup {k}
      /\ \A j \in DOMAIN new : new[j] = IF j = k THEN b ELSE states[j]
  BY <1>2, PutTable DEF TableSafe
<1> HIDE DEF b, new
<1>4. /\ \A j \in DOMAIN states : states[j].id \in 1..count
      /\ \A n \in seen : n \in 1..count
      /\ \A i, j \in DOMAIN states : states[i].id = states[j].id => i = j
      /\ \A j \in DOMAIN states : states[j].id \in seen <=> states[j].shadow # "SHADOW_CREATED"
  BY DEF TableSafe, Accounting, IdsIssued, IdsUnique, SeenIsTraced
<1>5. \A j \in DOMAIN new : new[j].id \in 1..count'
  BY <1>1, <1>2, <1>3, <1>4
<1>6. \A i, j \in DOMAIN new : new[i].id = new[j].id => i = j
  BY <1>1, <1>2, <1>3, <1>4
<1>7. CASE k \in DOMAIN states
  <2> DEFINE tbl == CleanedUp(states, k)
  <2>1. /\ IsTable(tbl) /\ DOMAIN tbl = DOMAIN states
        /\ \A j \in DOMAIN states : tbl[j].id = states[j].id
    BY <1>3, <1>7, CleanedTable
  <2>2. Settled(new, tbl, Residue(k))
    BY <1>7 DEF RouteMalloc, new, b
  <2> HIDE DEF tbl
  <2>3. IdsIn(tbl, Residue(k)) =
          IF states[k].shadow # "SHADOW_CREATED" THEN {states[k].id} ELSE {}
    BY <1>7, <2>1 DEF IdsIn, Residue, Traced
  <2>4. \A j \in DOMAIN new :
          new[j].shadow = "SHADOW_CREATED" => new[j].id \notin seen \cup IdsIn(tbl, Residue(k))
    BY <1>1, <1>2, <1>3, <1>4, <1>7, <2>3
  <2>5. \A j \in DOMAIN states :
          states[j].id \in seen =>
            (\E i \in DOMAIN new : new[i].id = states[j].id) \/ states[j].id \in IdsIn(tbl, Residue(k))
    BY <1>3, <1>4, <2>3
  <2>6. Residue(k) \subseteq DOMAIN tbl
    BY <2>1 DEF Residue, Traced
  <2>7. count' \in count..MaxAllocations /\ \A j \in DOMAIN tbl : tbl[j].id \in 1..count'
    BY <1>1, <1>4, <2>1
  <2> QED
    BY <1>3, <1>5, <1>6, <2>1, <2>2, <2>4, <2>5, <2>6, <2>7, SettledKeepsTable
<1>8. CASE k \notin DOMAIN states
  <2>1. Settled(new, states, {})
    BY <1>8 DEF RouteMalloc, new, b
  <2>2. IdsIn(states, {}) = {}
    BY DEF IdsIn
  <2>3. \A j \in DOMAIN new :
          new[j].shadow = "SHADOW_CREATED" => new[j].id \notin seen \cup IdsIn(states, {})
    BY <1>1, <1>2, <1>3, <1>4, <2>2
  <2>4. \A j \in DOMAIN states : \E i \in DOMAIN new : new[i].id = states[j].id
    BY <1>3, <1>8
  <2>5. count' \in count..MaxAllocations /\ \A j \in DOMAIN states : states[j].id \in 1..count'
    BY <1>1, <1>4
  <2> QED
    BY <1>3, <1>5, <1>6, <2>1, <2>3, <2>4, <2>5, SettledKeepsTable
<1> QED
  BY <1>7, <1>8

\* What TableSafe says of the ids, in the form the steps below use.
LEMMA TableIds ==
  ASSUME TableSafe
  PROVE  /\ IsTable(states) /\ count \in Nat
         /\ \A j \in DOMAIN states : j \in Keys /\ states[j].id \in 1..count
         /\ \A n \in seen : n \in 1..count
         /\ \A i, j \in DOMAIN states : states[i].id = states[j].id => i = j
         /\ \A j \in DOMAIN states : states[j].id \in seen <=> states[j].shadow # "SHADOW_CREATED"
BY DEF TableSafe, Accounting, IdsIssued, IdsUnique, SeenIsTraced, IsTable, IsPartial

\* An event joins a block and nothing is written: appending to a block, and
\* marking it with a shadow state other than SHADOW_CREATED.
LEMMA RewriteSafe ==
  ASSUME RouterAssumption, TableSafe, UNCHANGED count,
         NEW new, NEW tbl, IsTable(new), IsTable(tbl),
         DOMAIN new = DOMAIN states, DOMAIN tbl = DOMAIN states,
         \A k \in DOMAIN states : new[k].id = states[k].id /\ tbl[k].id = states[k].id,
         \A k \in DOMAIN states :
           new[k].shadow = "SHADOW_CREATED" => states[k].shadow = "SHADOW_CREATED",
         Settled(new, tbl, {})
  PROVE  TableSafe'
<1>1. IdsIn(tbl, {}) = {}
  BY DEF IdsIn
<1>2. count' \in count..MaxAllocations
  BY DEF TableSafe, RouterAssumption
<1> QED
  BY <1>1, <1>2, TableIds, SettledKeepsTable

\* A FREE event that finds its block.
LEMMA RouteFreeOfSafe ==
  ASSUME RouterAssumption, TableSafe,
         NEW j \in DOMAIN states, NEW k, NEW size, NEW shadow \in BOOLEAN,
         k \in DOMAIN states => j = k,
         ~shadow => states[j].shadow # "SHADOW_CREATED",
         RouteFreeOf(j, k, size, shadow)
  PROVE  TableSafe'
<1> DEFINE appended == [states EXCEPT ![j] = WithEvent(@, "FREE")]
           rest == Delete(appended, k)
<1>1. /\ IsTable(appended) /\ DOMAIN appended = DOMAIN states
      /\ \A i \in DOMAIN states : /\ appended[i].id = states[i].id
                                  /\ appended[i].shadow = states[i].shadow
  <2>1. "FREE" \in Kinds
    BY DEF Kinds
  <2>2. IsTable(states)
    BY TableIds
  <2> QED
    BY <2>1, <2>2, AppendedTable
<1>2. /\ IsTable(rest) /\ DOMAIN rest = DOMAIN states \ {k}
      /\ \A i \in DOMAIN rest : rest[i] = appended[i]
  <2> HIDE DEF appended
  <2>1. /\ IsTable(Delete(appended, k))
        /\ DOMAIN Delete(appended, k) = DOMAIN appended \ {k}
        /\ \A i \in DOMAIN appended \ {k} : Delete(appended, k)[i] = appended[i]
    BY <1>1, DeleteTable
  <2> QED
    BY <1>1, <2>1
<1>3. UNCHANGED count /\ count' \in count..MaxAllocations
  BY DEF RouteFreeOf, TableSafe, RouterAssumption
<1>4. CASE shadow /\ states[j].shadow = "SHADOW_CREATED"
  <2>1. Settled(rest, appended, {})
    BY <1>4 DEF RouteFreeOf
  <2> HIDE DEF rest, appended
  <2>2. IdsIn(appended, {}) = {}
    BY DEF IdsIn
  <2>3. \A i \in DOMAIN states :
          states[i].id \in seen => \E h \in DOMAIN rest : rest[h].id = states[i].id
    BY <1>1, <1>2, <1>4, TableIds
  <2> QED
    BY <1>1, <1>2, <1>3, <2>1, <2>2, <2>3, TableIds, SettledKeepsTable
<1>5. CASE shadow /\ states[j].shadow # "SHADOW_CREATED"
  <2> DEFINE new == [appended EXCEPT ![j].shadow = "SHADOW_FREED"]
  <2>1. Settled(new, appended, {})
    BY <1>5 DEF RouteFreeOf
  <2>2. /\ IsTable(new) /\ DOMAIN new = DOMAIN states
        /\ \A i \in DOMAIN states : /\ new[i].id = states[i].id
                                    /\ new[i].shadow = "SHADOW_CREATED" =>
                                         states[i].shadow = "SHADOW_CREATED"
    <3> HIDE DEF appended
    <3>1. appended[j] \in Blocks
      BY <1>1 DEF IsTable, IsPartial
    <3>2. [appended[j] EXCEPT !.shadow = "SHADOW_FREED"] \in Blocks
      BY <3>1 DEF Blocks, ShadowStates
    <3>3. /\ [appended[j] EXCEPT !.shadow = "SHADOW_FREED"].id = appended[j].id
          /\ [appended[j] EXCEPT !.shadow = "SHADOW_FREED"].shadow = "SHADOW_FREED"
      BY <3>1 DEF Blocks
    <3> QED
      BY <1>1, <3>2, <3>3 DEF IsTable, IsPartial
  <2> HIDE DEF new, appended
  <2> QED
    BY <1>1, <1>3, <2>1, <2>2, RewriteSafe
<1>6. CASE ~shadow
  <2>1. Settled(rest, appended, {j})
    BY <1>6 DEF RouteFreeOf
  <2> HIDE DEF rest, appended
  <2>2. IdsIn(appended, {j}) = {states[j].id}
    BY <1>1 DEF IdsIn
  <2>3. \A i \in DOMAIN states :
          states[i].id \in seen =>
            \/ \E h \in DOMAIN rest : rest[h].id = states[i].id
            \/ states[i].id \in IdsIn(appended, {j})
    BY <1>1, <1>2, <2>2
  <2>4. j \in DOMAIN appended
    BY <1>1
  <2>5. \A i \in DOMAIN rest :
          rest[i].shadow = "SHADOW_CREATED" => rest[i].id \notin seen \cup IdsIn(appended, {j})
    <3> SUFFICES ASSUME NEW i \in DOMAIN states \ {k}, states[i].shadow = "SHADOW_CREATED"
                 PROVE  states[i].id \notin seen \cup {states[j].id}
      BY <1>1, <1>2, <2>2
    <3> QED
      BY <1>6, TableIds
  <2> QED
    <3>1. \A i \in DOMAIN appended : appended[i].id \in 1..count'
      BY <1>1, <1>3, TableIds
    <3>2. \A i \in DOMAIN rest : rest[i].id \in 1..count'
      BY <1>1, <1>2, <3>1
    <3>3. \A h, i \in DOMAIN rest : rest[h].id = rest[i].id => h = i
      BY <1>1, <1>2, TableIds
    <3> QED
      BY <1>1, <1>2, <1>3, <2>1, <2>3, <2>4, <2>5, <3>1, <3>2, <3>3, SettledKeepsTable
<1> QED
  BY <1>4, <1>5, <1>6

\* A FREE event of an address without a state.
LEMMA RouteGhostFreeSafe ==
  ASSUME RouterAssumption, TableSafe,
         NEW k \in Keys, k \notin DOMAIN states, NEW size \in Nat, NEW shadow \in BOOLEAN,
         RouteGhostFree(k, size, shadow)
  PROVE  TableSafe'
<1> DEFINE g == NewBlock(count + 1, "FREE", size, IF shadow THEN "SHADOW_FREED" ELSE "NORMAL")
           tbl == Put(states, k, g)
<1>1. /\ count < MaxAllocations /\ count' = count + 1 /\ MaxAllocations \in Nat /\ count \in Nat
  BY DEF RouteGhostFree, RouterAssumption, TableSafe
<1>2. g \in Blocks /\ g.id = count + 1 /\ g.shadow # "SHADOW_CREATED"
  BY <1>1, NewBlockType DEF Kinds, ShadowStates
<1> HIDE DEF g
<1>3. /\ IsTable(tbl) /\ DOMAIN tbl = DOMAIN states \cup {k}
      /\ \A j \in DOMAIN tbl : tbl[j] = IF j = k THEN g ELSE states[j]
  BY <1>2, PutTable, TableIds
<1>4. \/ shadow /\ Settled(tbl, states, {})
      \/ ~shadow /\ Settled(states, tbl, {k})
  BY DEF RouteGhostFree, g
<1> HIDE DEF tbl
<1>5. /\ count' \in count..MaxAllocations
      /\ \A j \in DOMAIN tbl : tbl[j].id \in 1..count'
      /\ \A j \in DOMAIN states : states[j].id \in 1..count'
  BY <1>1, <1>2, <1>3, TableIds
<1>6. CASE shadow
  <2>1. IdsIn(states, {}) = {}
    BY DEF IdsIn
  <2>2. \A i, j \in DOMAIN tbl : tbl[i].id = tbl[j].id => i = j
    BY <1>1, <1>2, <1>3, TableIds
  <2>3. \A j \in DOMAIN tbl : tbl[j].shadow = "SHADOW_CREATED" => tbl[j].id \notin seen
    BY <1>2, <1>3, TableIds
  <2>4. \A j \in DOMAIN states : \E i \in DOMAIN tbl : tbl[i].id = states[j].id
    BY <1>3
  <2> QED
    BY <1>3, <1>4, <1>5, <1>6, <2>1, <2>2, <2>3, <2>4, TableIds, SettledKeepsTable
<1>7. CASE ~shadow
  <2>1. IdsIn(tbl, {k}) = {count + 1}
    BY <1>2, <1>3 DEF IdsIn
  <2>2. \A j \in DOMAIN states :
          states[j].shadow = "SHADOW_CREATED" => states[j].id \notin seen \cup IdsIn(tbl, {k})
    <3> SUFFICES ASSUME NEW j \in DOMAIN states, states[j].shadow = "SHADOW_CREATED"
                 PROVE  states[j].id \notin seen /\ states[j].id # count + 1
      BY <2>1
    <3> QED
      BY TableIds
  <2>3. k \in DOMAIN tbl
    BY <1>3
  <2> QED
    BY <1>3, <1>4, <1>5, <1>7, <2>2, <2>3, TableIds, SettledKeepsTable
<1> QED
  BY <1>6, <1>7

\* The state an event joins is the one of its key if that key has one.
LEMMA LocatedStates ==
  ASSUME NEW tbl, NEW k, NEW size, NEW j \in Located(tbl, k, size)
  PROVE  j \in DOMAIN tbl /\ (k \in DOMAIN tbl => j = k)
BY DEF Located

\* A FREE event, whether it finds a block or opens a ghost, keeps every account.
LEMMA RouteFreeSafe ==
  ASSUME RouterAssumption, TableSafe,
         NEW k \in Keys, NEW size \in Nat, NEW shadow \in BOOLEAN,
         ~shadow => \A j \in DOMAIN states : states[j].shadow # "SHADOW_CREATED",
         RouteFree(k, size, shadow)
  PROVE  TableSafe'
<1>1. CASE Located(states, k, size) = {}
  BY <1>1, RouteGhostFreeSafe DEF RouteFree, Located
<1>2. CASE \E j \in Located(states, k, size) : RouteFreeOf(j, k, size, shadow)
  BY <1>2, LocatedStates, RouteFreeOfSafe
<1> QED
  BY <1>1, <1>2 DEF RouteFree

\* An ACCESS event.
LEMMA RouteAccessSafe ==
  ASSUME RouterAssumption, TableSafe,
         NEW k \in Keys, NEW size \in Nat,
         RouteAccess(k, size)
  PROVE  TableSafe'
<1>1. CASE Located(states, k, size) = {}
  <2> DEFINE b == NewBlock(count + 1, "ACCESS", size, "NORMAL")
             new == Put(states, k, b)
  <2>1. /\ count < MaxAllocations /\ count' = count + 1 /\ MaxAllocations \in Nat /\ count \in Nat
        /\ k \notin DOMAIN states
    BY <1>1 DEF RouteAccess, RouterAssumption, TableSafe, Located
  <2>2. b \in Blocks /\ b.id = count + 1 /\ b.shadow = "NORMAL"
    BY <2>1, NewBlockType DEF Kinds, ShadowStates
  <2> HIDE DEF b
  <2>3. /\ IsTable(new) /\ DOMAIN new = DOMAIN states \cup {k}
        /\ \A j \in DOMAIN new : new[j] = IF j = k THEN b ELSE states[j]
    <3>1. IsTable(states)
      BY TableIds
    <3>2. /\ IsTable(Put(states, k, b))
          /\ DOMAIN Put(states, k, b) = DOMAIN states \cup {k}
          /\ \A j \in DOMAIN states \cup {k} :
               Put(states, k, b)[j] = IF j = k THEN b ELSE states[j]
      BY <2>2, <3>1, PutTable
    <3> QED
      BY <3>2
  <2>4. Settled(new, states, {})
    BY <1>1 DEF RouteAccess, b
  <2> HIDE DEF new
  <2>5. /\ count' \in count..MaxAllocations
        /\ \A j \in DOMAIN new : new[j].id \in 1..count'
        /\ \A j \in DOMAIN states : states[j].id \in 1..count'
    BY <2>1, <2>2, <2>3, TableIds
  <2>6. IdsIn(states, {}) = {}
    BY DEF IdsIn
  <2>7. \A i, j \in DOMAIN new : new[i].id = new[j].id => i = j
    BY <2>1, <2>2, <2>3, TableIds
  <2>8. \A j \in DOMAIN new : new[j].shadow = "SHADOW_CREATED" => new[j].id \notin seen
    BY <2>2, <2>3, TableIds
  <2>9. \A j \in DOMAIN states : \E i \in DOMAIN new : new[i].id = states[j].id
    BY <2>1, <2>3
  <2> QED
    BY <2>3, <2>4, <2>5, <2>6, <2>7, <2>8, <2>9, TableIds, SettledKeepsTable
<1>2. CASE Located(states, k, size) # {}
  <2>1. PICK j \in DOMAIN states : Settled([states EXCEPT ![j] = WithEvent(@, "ACCESS")], states, {})
    BY <1>2, LocatedStates DEF RouteAccess
  <2> DEFINE new == [states EXCEPT ![j] = WithEvent(@, "ACCESS")]
  <2>2. /\ IsTable(new) /\ DOMAIN new = DOMAIN states
        /\ \A i \in DOMAIN states : new[i].id = states[i].id /\ new[i].shadow = states[i].shadow
    <3>1. IsTable(states) /\ "ACCESS" \in Kinds
      BY TableIds DEF Kinds
    <3>2. QED
      BY <3>1, WithEventType DEF IsTable, IsPartial
  <2>3. UNCHANGED count
    BY <1>2 DEF RouteAccess
  <2>4. Settled(new, states, {})
    BY <2>1
  <2> HIDE DEF new
  <2> QED
    BY <2>2, <2>3, <2>4, TableIds, RewriteSafe
<1> QED
  BY <1>1, <1>2

-----------------------------------------------------------------------------
(* Sessions and exit *)

\* Promotion erases only what it writes and reveals every other shadow block.
LEMMA StartSafe ==
  ASSUME RouterAssumption, TableSafe, Start
  PROVE  TableSafe'
<1> DEFINE new == Promoted(states)
           K == Expired(states)
<1>1. /\ DOMAIN new = DOMAIN states \ K
      /\ K \subseteq DOMAIN states
      /\ \A k \in K : states[k].shadow = "SHADOW_FREED"
      /\ \A k \in DOMAIN new : new[k] = PromotedBlock(states[k])
  BY DEF Promoted, Expired
<1>2. \A k \in DOMAIN states : /\ PromotedBlock(states[k]) \in Blocks
                               /\ PromotedBlock(states[k]).id = states[k].id
                               /\ PromotedBlock(states[k]).shadow # "SHADOW_CREATED"
  <2> SUFFICES ASSUME NEW b \in Blocks
               PROVE  /\ PromotedBlock(b) \in Blocks
                      /\ PromotedBlock(b).id = b.id
                      /\ PromotedBlock(b).shadow # "SHADOW_CREATED"
    BY TableIds DEF IsTable, IsPartial
  <2> QED
    BY DEF PromotedBlock, Blocks, ShadowStates
<1>3. Settled(new, states, K) /\ UNCHANGED count
  BY DEF Start
<1>4. IsTable(states) /\ IsTable(new)
  <2>1. IsTable(states)
    BY TableIds
  <2>2. new = [k \in DOMAIN states \ K |-> PromotedBlock(states[k])]
    BY DEF Promoted
  <2> HIDE DEF new, K
  <2> QED
    BY <1>1, <1>2, <2>1, <2>2 DEF IsTable, IsPartial
<1> HIDE DEF new, K
<1>5. count' \in count..MaxAllocations
  BY <1>3 DEF TableSafe, RouterAssumption
<1>6. \A k \in DOMAIN new : new[k].id = states[k].id /\ new[k].shadow # "SHADOW_CREATED"
  BY <1>1, <1>2
<1>7. \A k \in DOMAIN states :
        (\E j \in DOMAIN new : new[j].id = states[k].id) \/ states[k].id \in IdsIn(states, K)
  BY <1>1, <1>6 DEF IdsIn
<1>8. /\ \A k \in DOMAIN new : new[k].id \in 1..count'
      /\ \A k \in DOMAIN states : states[k].id \in 1..count'
      /\ \A j, k \in DOMAIN new : new[j].id = new[k].id => j = k
  BY <1>1, <1>3, <1>6, TableIds
<1> QED
  BY <1>1, <1>3, <1>4, <1>5, <1>6, <1>7, <1>8, SettledKeepsTable

\* The destructor writes what it erases, unless it was never more than shadow.
LEMMA ExitCleanUpSafe ==
  ASSUME RouterAssumption, TableSafe, DumpOutlivesTable,
         NEW k \in DOMAIN states, ExitCleanUp(k)
  PROVE  TableSafe'
<1> DEFINE tbl == CleanedUp(states, k)
           new == Delete(states, k)
<1>1. IsTable(states)
  BY TableIds
<1>2. /\ IsTable(tbl) /\ DOMAIN tbl = DOMAIN states
      /\ \A j \in DOMAIN states : tbl[j].id = states[j].id
  BY <1>1, CleanedTable
<1>3. /\ IsTable(new) /\ DOMAIN new = DOMAIN states \ {k}
      /\ \A j \in DOMAIN states \ {k} : new[j] = states[j]
  <2>1. /\ IsTable(Delete(states, k))
        /\ DOMAIN Delete(states, k) = DOMAIN states \ {k}
        /\ \A j \in DOMAIN states \ {k} : Delete(states, k)[j] = states[j]
    BY <1>1, DeleteTable
  <2> QED
    BY <2>1
<1>4. Settled(new, tbl, Residue(k)) /\ UNCHANGED count
  BY DEF ExitCleanUp
<1> HIDE DEF tbl, new
<1>5. IdsIn(tbl, Residue(k)) =
        IF states[k].shadow # "SHADOW_CREATED" THEN {states[k].id} ELSE {}
  BY <1>2 DEF IdsIn, Residue, Traced
<1>6. count' \in count..MaxAllocations
  BY <1>4 DEF TableSafe, RouterAssumption
<1>7. \A j \in DOMAIN new :
        new[j].shadow = "SHADOW_CREATED" => new[j].id \notin seen \cup IdsIn(tbl, Residue(k))
  <2> SUFFICES ASSUME NEW j \in DOMAIN states \ {k}, states[j].shadow = "SHADOW_CREATED"
               PROVE  states[j].id \notin seen \cup {states[k].id}
    BY <1>3, <1>5
  <2> QED
    BY TableIds
<1>8. \A j \in DOMAIN states :
        states[j].id \in seen =>
          (\E i \in DOMAIN new : new[i].id = states[j].id) \/ states[j].id \in IdsIn(tbl, Residue(k))
  BY <1>3, <1>5, TableIds
<1>9. /\ \A j \in DOMAIN new : new[j].id \in 1..count'
      /\ \A j \in DOMAIN tbl : tbl[j].id \in 1..count'
      /\ \A i, j \in DOMAIN new : new[i].id = new[j].id => i = j
  BY <1>2, <1>3, <1>4, TableIds
<1>10. Residue(k) \subseteq DOMAIN tbl
  BY <1>2 DEF Residue, Traced
<1> QED
  BY <1>2, <1>3, <1>4, <1>6, <1>7, <1>8, <1>9, <1>10, SettledKeepsTable

-----------------------------------------------------------------------------
(* A session holds no block in an unresolved shadow state *)

Resolved(tbl) == \A k \in DOMAIN tbl : tbl[k].shadow \in {"NORMAL", "SHADOW_PROMOTED"}

\* A traced MALLOC leaves no block of a session in a shadow state.
LEMMA RouteMallocResolved ==
  ASSUME MemoryAssumption, TableSafe, Resolved(states),
         NEW k \in Keys, NEW size \in Sizes, RouteMalloc(k, size, FALSE)
  PROVE  Resolved(states')
<1> DEFINE b == NewBlock(count + 1, "MALLOC", size, "NORMAL")
<1>1. states' = Put(states, k, b)
  BY DEF RouteMalloc, Settled
<1>2. b.shadow = "NORMAL"
  BY DEF NewBlock
<1> HIDE DEF b
<1> QED
  BY <1>1, <1>2 DEF Put, Resolved

\* A traced FREE leaves no block of a session in a shadow state.
LEMMA RouteFreeResolved ==
  ASSUME TableSafe, Resolved(states),
         NEW k \in Keys, NEW size \in Nat, RouteFree(k, size, FALSE)
  PROVE  Resolved(states')
<1>1. CASE RouteGhostFree(k, size, FALSE)
  BY <1>1 DEF RouteGhostFree, Settled
<1>2. ASSUME NEW j \in DOMAIN states, RouteFreeOf(j, k, size, FALSE)
      PROVE  Resolved(states')
  <2> DEFINE appended == [states EXCEPT ![j] = WithEvent(@, "FREE")]
  <2>1. states' = Delete(appended, k)
    BY <1>2 DEF RouteFreeOf, Settled
  <2>2. DOMAIN appended = DOMAIN states
    OBVIOUS
  <2>3. \A i \in DOMAIN states : appended[i].shadow = states[i].shadow
    <3>1. IsTable(states) /\ "FREE" \in Kinds
      BY TableIds DEF Kinds
    <3>2. QED
      BY <3>1, WithEventType DEF IsTable, IsPartial
  <2> HIDE DEF appended
  <2> QED
    BY <2>1, <2>2, <2>3 DEF Delete, Restrict, Resolved
<1> QED
  BY <1>1, <1>2, LocatedStates DEF RouteFree

\* An ACCESS leaves no block of a session in a shadow state.
LEMMA RouteAccessResolved ==
  ASSUME TableSafe, Resolved(states),
         NEW k \in Keys, NEW size \in Nat, RouteAccess(k, size)
  PROVE  Resolved(states')
<1>1. CASE Located(states, k, size) = {}
  <2> DEFINE b == NewBlock(count + 1, "ACCESS", size, "NORMAL")
  <2>1. states' = Put(states, k, b)
    BY <1>1 DEF RouteAccess, Settled
  <2>2. b.shadow = "NORMAL"
    BY DEF NewBlock
  <2> HIDE DEF b
  <2> QED
    BY <2>1, <2>2 DEF Put, Resolved
<1>2. CASE Located(states, k, size) # {}
  <2>1. PICK j \in DOMAIN states : states' = [states EXCEPT ![j] = WithEvent(@, "ACCESS")]
    BY <1>2, LocatedStates DEF RouteAccess, Settled
  <2>2. \A i \in DOMAIN states : states'[i].shadow = states[i].shadow
    <3>1. IsTable(states) /\ "ACCESS" \in Kinds
      BY TableIds DEF Kinds
    <3>2. QED
      BY <2>1, <3>1, WithEventType DEF IsTable, IsPartial
  <2> QED
    BY <2>1, <2>2 DEF Resolved
<1> QED
  BY <1>1, <1>2

\* Promotion resolves every block of a table.
LEMMA StartResolved ==
  ASSUME TableSafe, Start
  PROVE  Resolved(states')
<1>1. states' = Promoted(states)
  BY DEF Start, Settled
<1> SUFFICES ASSUME NEW k \in DOMAIN states, states[k].shadow # "SHADOW_FREED"
             PROVE  PromotedBlock(states[k]).shadow \in {"NORMAL", "SHADOW_PROMOTED"}
  BY <1>1 DEF Promoted, Expired, Resolved
<1>2. states[k] \in Blocks
  BY TableIds DEF IsTable, IsPartial
<1> QED
  BY <1>2 DEF PromotedBlock, Blocks, ShadowStates

-----------------------------------------------------------------------------
(* The inductive invariant *)

\* The inductive invariant.
Invariant ==
  /\ RecordsTyped
  /\ Accounting
  /\ NoUnpromotedWhileTracing
  /\ ExitCovers

\* What the invariant says of the table.
LEMMA InvariantTable ==
  ASSUME Invariant
  PROVE  TableSafe /\ (~Shadow => Resolved(states))
BY DEF Invariant, RecordsTyped, TableSafe, NoUnpromotedWhileTracing, Resolved, Shadow, Statuses

\* The initial states satisfy the invariant.
LEMMA InitInvariant ==
  ASSUME RouterAssumption, Init
  PROVE  Invariant
<1>1. RecordsTyped
  BY DEF Init, RecordsTyped, IsTable, IsPartial, RouterAssumption, None, Statuses
<1>2. Accounting /\ NoUnpromotedWhileTracing /\ ExitCovers
  BY DEF Init, Accounting, IdsIssued, IdsUnique, SeenIsTraced, NothingLost,
         NoUnpromotedWhileTracing, ExitCovers
<1> QED
  BY <1>1, <1>2 DEF Invariant

\* An allocation, reported or dropped, keeps the invariant.
LEMMA MallocInvariant ==
  ASSUME MemoryAssumption, RouterAssumption, Invariant,
         NEW k \in Keys, NEW size \in Sizes, AppMalloc(k, size)
  PROVE  Invariant'
<1>1. TableSafe /\ (~Shadow => Resolved(states))
  BY InvariantTable
<1>2. Shadow \in BOOLEAN /\ (Shadow' <=> Shadow)
  BY DEF Shadow, AppMalloc
<1>3. IsPartial(app', Keys, Sizes)
  BY DEF AppMalloc, Put, IsPartial, Invariant, RecordsTyped
<1>4. IsPartial(ptrs', Addrs, Meters)
  <2>1. AddrOf(k) \in Addrs /\ MeterOf(k) \in Meters
    BY DEF Keys, AddrOf, MeterOf, Meters
  <2>2. IsPartial(ptrs, Addrs, Meters)
    BY DEF Invariant, RecordsTyped
  <2>3. ptrs' \in {ptrs, Put(ptrs, AddrOf(k), MeterOf(k))}
    BY DEF AppMalloc
  <2> QED
    BY <2>1, <2>2, <2>3 DEF Put, IsPartial
<1>5. UNCHANGED table \/ RouteMalloc(k, size, Shadow)
  BY DEF AppMalloc
<1>6. TableSafe' /\ (~Shadow => Resolved(states'))
  <2>1. CASE UNCHANGED table
    BY <1>1, <2>1 DEF table, TableSafe, Accounting, IdsIssued, IdsUnique, SeenIsTraced,
                      NothingLost, Present, IdsIn, Resolved
  <2>2. CASE RouteMalloc(k, size, Shadow)
    <3>1. TableSafe'
      BY <1>1, <1>2, <2>2, RouteMallocSafe
    <3>2. ~Shadow => RouteMalloc(k, size, FALSE)
      BY <1>2, <2>2
    <3> QED
      BY <1>1, <3>1, <3>2, RouteMallocResolved
  <2> QED
    BY <1>5, <2>1, <2>2
<1>7. UNCHANGED <<status, phase, leftover>> /\ phase = "running"
  BY DEF AppMalloc, exiting
<1>8. ExitCovers'
  BY <1>7 DEF ExitCovers
<1>9. status' \in Statuses /\ phase' \in {"running", "exiting", "done"} /\ leftover' \subseteq Keys
  BY <1>7 DEF Invariant, RecordsTyped
<1>10. ~Shadow' => Resolved(states)'
  BY <1>2, <1>6 DEF Resolved
<1> QED
  BY <1>3, <1>4, <1>6, <1>8, <1>9, <1>10
     DEF Invariant, RecordsTyped, TableSafe, NoUnpromotedWhileTracing, Resolved, Shadow, Statuses

\* A free, reported, filtered or dropped, keeps the invariant.
LEMMA FreeInvariant ==
  ASSUME MemoryAssumption, RouterAssumption, Invariant,
         NEW k \in Keys, AppFree(k)
  PROVE  Invariant'
<1>1. TableSafe /\ (~Shadow => Resolved(states))
  BY InvariantTable
<1>2. Shadow \in BOOLEAN /\ (Shadow' <=> Shadow)
  BY DEF Shadow, AppFree
<1>3. IsPartial(app', Keys, Sizes)
  BY DEF AppFree, Delete, Restrict, IsPartial, Invariant, RecordsTyped
<1>4. IsPartial(ptrs, Addrs, Meters) /\ k \in DOMAIN app /\ app[k] \in Nat
  BY DEF Invariant, RecordsTyped, AppFree, IsPartial, MemoryAssumption
<1>5. IsPartial(ptrs', Addrs, Meters)
  BY <1>4 DEF AppFree, ReportDriverFree, ReportPoolFree, Delete, Restrict, IsPartial
<1>6. \/ UNCHANGED table
      \/ \E e \in Keys, size \in Nat : RouteFree(e, size, Shadow)
  <2>1. CASE DriverPool(k)
    <3>1. \/ UNCHANGED table
          \/ /\ AddrOf(k) \in DOMAIN ptrs
             /\ RouteFree(Registered(AddrOf(k)), 0, Shadow)
      BY <2>1 DEF AppFree, ReportDriverFree
    <3>2. AddrOf(k) \in DOMAIN ptrs => Registered(AddrOf(k)) \in Keys
      BY <1>4 DEF Registered, Keys, Meters, IsPartial
    <3> QED
      BY <3>1, <3>2
  <2>2. CASE ~DriverPool(k)
    BY <1>4, <2>2 DEF AppFree, ReportPoolFree
  <2> QED
    BY <2>1, <2>2
<1>7. TableSafe' /\ (~Shadow => Resolved(states'))
  <2>1. CASE UNCHANGED table
    BY <1>1, <2>1 DEF table, TableSafe, Accounting, IdsIssued, IdsUnique, SeenIsTraced,
                      NothingLost, Present, IdsIn, Resolved
  <2>2. ASSUME NEW e \in Keys, NEW size \in Nat, RouteFree(e, size, Shadow)
        PROVE  TableSafe' /\ (~Shadow => Resolved(states'))
    <3>1. ~Shadow => \A j \in DOMAIN states : states[j].shadow # "SHADOW_CREATED"
      BY <1>1 DEF Resolved
    <3>2. TableSafe'
      BY <1>1, <1>2, <2>2, <3>1, RouteFreeSafe
    <3>3. ~Shadow => RouteFree(e, size, FALSE)
      BY <1>2, <2>2
    <3> QED
      BY <1>1, <3>2, <3>3, RouteFreeResolved
  <2> QED
    BY <1>6, <2>1, <2>2
<1>8. UNCHANGED <<status, phase, leftover>> /\ phase = "running"
  BY DEF AppFree, exiting
<1>9. ExitCovers'
  BY <1>8 DEF ExitCovers
<1>10. status' \in Statuses /\ phase' \in {"running", "exiting", "done"} /\ leftover' \subseteq Keys
  BY <1>8 DEF Invariant, RecordsTyped
<1>11. ~Shadow' => Resolved(states)'
  BY <1>2, <1>7 DEF Resolved
<1> QED
  BY <1>3, <1>5, <1>7, <1>9, <1>10, <1>11
     DEF Invariant, RecordsTyped, TableSafe, NoUnpromotedWhileTracing, Resolved, Shadow, Statuses

\* An access keeps the invariant.
LEMMA AccessInvariant ==
  ASSUME MemoryAssumption, RouterAssumption, Invariant,
         NEW k \in Keys, NEW size \in Sizes, AppAccess(k, size)
  PROVE  Invariant'
<1>1. TableSafe /\ Resolved(states) /\ size \in Nat
  BY InvariantTable DEF AppAccess, MemoryAssumption
<1>2. RouteAccess(k, size) /\ UNCHANGED <<app, ptrs, status, phase, leftover>> /\ phase = "running"
  BY DEF AppAccess, exiting
<1>3. TableSafe' /\ Resolved(states)'
  BY <1>1, <1>2, RouteAccessSafe, RouteAccessResolved DEF Resolved
<1>4. ExitCovers'
  BY <1>2 DEF ExitCovers
<1> QED
  BY <1>2, <1>3, <1>4
     DEF Invariant, RecordsTyped, TableSafe, NoUnpromotedWhileTracing, Resolved, IsPartial

\* The start of a session keeps the invariant.
LEMMA StartInvariant ==
  ASSUME RouterAssumption, Invariant, Start
  PROVE  Invariant'
<1>1. TableSafe
  BY InvariantTable
<1>2. TableSafe' /\ Resolved(states)'
  BY <1>1, StartSafe, StartResolved DEF Resolved
<1>3. UNCHANGED <<app, ptrs, phase, leftover>> /\ phase = "running" /\ status' \in Statuses
  BY DEF Start, exiting, Statuses
<1>4. ExitCovers'
  BY <1>3 DEF ExitCovers
<1> QED
  BY <1>2, <1>3, <1>4
     DEF Invariant, RecordsTyped, TableSafe, NoUnpromotedWhileTracing, Resolved, IsPartial

\* Stopping and the first and last step of the destructor leave the table alone.
LEMMA QuietInvariant ==
  ASSUME Invariant, Stop \/ ExitBegin \/ ExitEnd \/ UNCHANGED vars
  PROVE  Invariant'
<1>1. UNCHANGED <<app, ptrs, table>>
  BY DEF Stop, ExitBegin, ExitEnd, vars
<1>2. /\ status' \in Statuses /\ phase' \in {"running", "exiting", "done"}
      /\ leftover' \subseteq Keys
      /\ (status' = "IN_TRACING" => status = "IN_TRACING")
  BY DEF Stop, ExitBegin, ExitEnd, vars, exiting, Statuses, Invariant, RecordsTyped, IsTable, IsPartial
<1>3. ExitCovers'
  <2>1. DOMAIN states' = DOMAIN states
    BY <1>1 DEF table
  <2> QED
    BY <2>1 DEF Invariant, ExitCovers, Stop, ExitBegin, ExitEnd, vars, exiting
<1>4. IsPartial(app, Keys, Sizes)' /\ IsPartial(ptrs, Addrs, Meters)' /\ IsTable(states)'
  BY <1>1 DEF table, Invariant, RecordsTyped, IsTable, IsPartial
<1>5. Accounting'
  BY <1>1 DEF table, Invariant, Accounting, IdsIssued, IdsUnique, SeenIsTraced, NothingLost,
              Present, IdsIn
<1>6. NoUnpromotedWhileTracing'
  BY <1>1, <1>2 DEF table, Invariant, NoUnpromotedWhileTracing
<1> QED
  BY <1>1, <1>2, <1>3, <1>4, <1>5, <1>6 DEF table, Invariant, RecordsTyped

\* One clean-up of the destructor keeps the invariant while Dump is alive.
LEMMA ExitCleanUpInvariant ==
  ASSUME RouterAssumption, DumpOutlivesTable, Invariant, NEW k \in Keys, ExitCleanUp(k)
  PROVE  Invariant'
<1>1. TableSafe /\ (~Shadow => Resolved(states)) /\ leftover = DOMAIN states
  BY InvariantTable DEF ExitCleanUp, Invariant, ExitCovers
<1>2. k \in DOMAIN states
  BY <1>1 DEF ExitCleanUp
<1>3. TableSafe'
  BY <1>1, <1>2, ExitCleanUpSafe
<1>4. states' = Delete(states, k) /\ leftover' = leftover \ {k}
      /\ UNCHANGED <<app, ptrs, status, phase>> /\ phase = "exiting"
  BY DEF ExitCleanUp, Settled
<1>5. ExitCovers'
  BY <1>1, <1>4 DEF ExitCovers, Delete, Restrict
<1>6. NoUnpromotedWhileTracing'
  BY <1>4 DEF Invariant, NoUnpromotedWhileTracing, Delete, Restrict
<1> QED
  BY <1>3, <1>4, <1>5, <1>6 DEF Invariant, RecordsTyped, TableSafe, IsPartial

\* Every step keeps the invariant.
LEMMA StepInvariant ==
  ASSUME MemoryAssumption, RouterAssumption, DumpOutlivesTable, Invariant, [Next]_vars
  PROVE  Invariant'
<1>1. CASE \E k \in Keys, size \in Sizes : AppMalloc(k, size) \/ AppAccess(k, size)
  BY <1>1, MallocInvariant, AccessInvariant
<1>2. CASE \E k \in Keys : AppFree(k)
  BY <1>2, FreeInvariant
<1>3. CASE Start
  BY <1>3, StartInvariant
<1>4. CASE Stop \/ ExitBegin \/ ExitEnd \/ UNCHANGED vars
  BY <1>4, QuietInvariant
<1>5. CASE \E k \in Keys : ExitCleanUp(k)
  BY <1>5, ExitCleanUpInvariant
<1> QED
  BY <1>1, <1>2, <1>3, <1>4, <1>5 DEF Next, Exit

-----------------------------------------------------------------------------
(* Theorems.  They are stated for a dump that outlives the table, which is   *)
(* what GetInstance arranges; the run dump_first shows that it is needed.    *)

\* The invariant holds in every state of the pipeline.
THEOREM SpecInvariant ==
  ASSUME DumpOutlivesTable
  PROVE  Spec => []Invariant
<1>1. Init => Invariant
  BY InitInvariant, RouterAssumption
<1>2. Invariant /\ [Next]_vars => Invariant'
  BY StepInvariant, MemoryAssumption, RouterAssumption
<1> QED
  BY <1>1, <1>2, PTL DEF Spec

\* The records of the pipeline keep their types: table, dump, counters, exit.
THEOREM RecordsStayTyped ==
  ASSUME DumpOutlivesTable
  PROVE  Spec => []RecordsTyped
<1>1. Invariant => RecordsTyped
  BY DEF Invariant
<1> QED
  BY <1>1, SpecInvariant, PTL

\* No block a session has to account for is erased without being written:
\* router, promotion, residual clean-up and destructor together lose nothing.
THEOREM NothingIsLost ==
  ASSUME DumpOutlivesTable
  PROVE  Spec => []NothingLost
<1>1. Invariant => NothingLost
  BY DEF Invariant, Accounting
<1> QED
  BY <1>1, SpecInvariant, PTL

\* No two states of the table are the same allocation.
THEOREM IdsStayUnique ==
  ASSUME DumpOutlivesTable
  PROVE  Spec => []IdsUnique
<1>1. Invariant => IdsUnique
  BY DEF Invariant, Accounting
<1> QED
  BY <1>1, SpecInvariant, PTL

\* A session never holds a block in a shadow state that needs resolving.
THEOREM SessionsAreResolved ==
  ASSUME DumpOutlivesTable
  PROVE  Spec => []NoUnpromotedWhileTracing
<1>1. Invariant => NoUnpromotedWhileTracing
  BY DEF Invariant
<1> QED
  BY <1>1, SpecInvariant, PTL

\* Exit leaves an empty table and a complete dump.
THEOREM ExitIsComplete ==
  ASSUME DumpOutlivesTable
  PROVE  Spec => []ExitFlushes
<1>1. Invariant => ExitFlushes
  BY DEF Invariant, ExitCovers, Accounting, NothingLost, ExitFlushes, Present, IdsIn
<1> QED
  BY <1>1, SpecInvariant, PTL

-----------------------------------------------------------------------------
(***************************************************************************)
(* The books that the pipeline keeps.                                      *)
(*                                                                         *)
(* Books is the inductive invariant.  Its heart is that a FREE finds the   *)
(* block of its own allocation: RegistryOpen and HeldIsOpen say so of the  *)
(* registered and of the held addresses, and Apart, that allocations do    *)
(* not overlap, is what makes the scan for a covering block exact.  The    *)
(* steps are summed up per event (which key is open, which stay as they    *)
(* were) before the meters, which are sums over the table, are followed.   *)
(***************************************************************************)

(* What is written, and how often *)

\* A block has one FREE exactly when it was freed in the shadow.
Marked(b) ==
  /\ b.frees = IF b.shadow = "SHADOW_FREED" THEN 1 ELSE 0
  /\ b.tail = "FREE" => b.shadow = "SHADOW_FREED"

\* What makes RecordedOnce inductive: blocks of the table have not been written,
\* nor have ids that are not handed out yet.
Rows ==
  /\ WrittenOnce /\ OneFreePerRecord
  /\ \A k \in DOMAIN states : Marked(states[k]) /\ writes[states[k].id] = 0
  /\ \A n \in Ids : n > count => writes[n] = 0

\* A step that writes blocks with one FREE each, and leaves or adds blocks that
\* were not written, keeps the records.
LEMMA SettledKeepsRows ==
  ASSUME RouterAssumption, TableSafe, Rows,
         NEW new, NEW tbl, NEW K,
         K \subseteq DOMAIN tbl,
         count' \in count..MaxAllocations,
         \A j, k \in K : tbl[j].id = tbl[k].id => j = k,
         \A k \in K : tbl[k].id \in 1..count' /\ tbl[k].frees = 1 /\ writes[tbl[k].id] = 0,
         \A k \in DOMAIN new : /\ new[k].id \in 1..count' /\ writes[new[k].id] = 0
                               /\ new[k].id \notin IdsIn(tbl, K)
                               /\ Marked(new[k]),
         Settled(new, tbl, K)
  PROVE  Rows'
<1> DEFINE W == IdsIn(tbl, K)
<1>1. /\ count \in Nat /\ count' \in Nat /\ MaxAllocations \in Nat
      /\ writes \in [Ids -> Nat] /\ freeRows \in [Ids -> Nat] /\ 1..count' \subseteq Ids
  BY DEF TableSafe, Ids, RouterAssumption
<1>2. \A n \in W : n \in 1..count' /\ writes[n] = 0
  BY DEF IdsIn
<1>3. \A n \in Ids : writes'[n] = IF n \in W THEN writes[n] + 1 ELSE writes[n]
  BY DEF Settled, Dumped
<1>4. \A n \in Ids : freeRows'[n] = IF n \in W THEN freeRows[n] + 1 ELSE freeRows[n]
  <2> SUFFICES ASSUME NEW n \in Ids, n \in W
               PROVE  tbl[CHOOSE k \in K : tbl[k].id = n].frees = 1
    BY DEF Settled, Dumped
  <2>1. \E k \in K : tbl[k].id = n
    BY DEF IdsIn
  <2> QED
    BY <2>1
<1>5. \A n \in Ids : freeRows[n] = writes[n] /\ writes[n] \in Nat /\ writes[n] <= 1
  BY <1>1 DEF Rows, WrittenOnce, OneFreePerRecord
<1> HIDE DEF W
<1>6. WrittenOnce' /\ OneFreePerRecord'
  BY <1>2, <1>3, <1>4, <1>5 DEF WrittenOnce, OneFreePerRecord
<1>7. \A n \in Ids : n > count' => writes'[n] = 0
  <2> SUFFICES ASSUME NEW n \in Ids, n > count'
               PROVE  writes'[n] = 0
    OBVIOUS
  <2>1. n > count /\ n \in Nat
    BY <1>1 DEF Ids
  <2>2. n \notin W
    BY <1>1, <1>2, <2>1
  <2> QED
    BY <1>3, <2>1, <2>2 DEF Rows
<1>8. \A k \in DOMAIN new : Marked(new[k]) /\ writes'[new[k].id] = 0
  BY <1>1, <1>3 DEF W
<1>9. states' = new
  BY DEF Settled
<1>10. \A k \in DOMAIN states' : Marked(states'[k]) /\ writes'[states'[k].id] = 0
  BY <1>8, <1>9
<1> QED
  BY <1>6, <1>7, <1>10 DEF Rows, Marked

\* The block a CLEAN_UP closes has one FREE.
LEMMA ClosedOnce ==
  ASSUME NEW b \in Blocks, Marked(b)
  PROVE  Closed(b).frees = 1 /\ Closed(b).id = b.id
BY DEF Closed, WithEvent, Marked, Blocks

\* A new block is marked as its event says.
LEMMA NewBlockMarked ==
  ASSUME NEW n, NEW size, NEW shadow \in ShadowStates
  PROVE  /\ Marked(NewBlock(n, "MALLOC", size, shadow)) <=> shadow # "SHADOW_FREED"
         /\ Marked(NewBlock(n, "ACCESS", size, shadow)) <=> shadow # "SHADOW_FREED"
BY DEF Marked, NewBlock

\* What Rows says of the blocks of the table.
LEMMA TableRows ==
  ASSUME TableSafe, Rows, RouterAssumption
  PROVE  /\ \A k \in DOMAIN states : /\ states[k] \in Blocks /\ Marked(states[k])
                                     /\ writes[states[k].id] = 0
         /\ count < MaxAllocations => writes[count + 1] = 0
<1>1. count < MaxAllocations => count + 1 \in Ids /\ count + 1 > count
  BY DEF TableSafe, RouterAssumption, Ids
<1> QED
  BY <1>1, TableIds DEF Rows, IsTable, IsPartial

\* The state of a key that is neither absent nor freed in the shadow.
Open(k) == k \in DOMAIN states /\ states[k].shadow # "SHADOW_FREED"

\* The keys other than k keep their blocks.
OthersStay(k) ==
  /\ DOMAIN states' \cup {k} = DOMAIN states \cup {k}
  /\ \A j \in DOMAIN states \ {k} : states'[j] = states[j]

\* A MALLOC event.
LEMMA RouteMallocRows ==
  ASSUME MemoryAssumption, RouterAssumption, TableSafe, Rows,
         NEW k \in Keys, NEW size \in Sizes, NEW shadow \in BOOLEAN,
         RouteMalloc(k, size, shadow)
  PROVE  /\ Rows' /\ OthersStay(k)
         /\ Open(k)' /\ states'[k].head = "MALLOC" /\ states'[k].size = size
<1> DEFINE mark == IF shadow THEN "SHADOW_CREATED" ELSE "NORMAL"
           b == NewBlock(count + 1, "MALLOC", size, mark)
           new == Put(states, k, b)
           tbl == CleanedUp(states, k)
<1>1. /\ count \in Nat /\ MaxAllocations \in Nat /\ count < MaxAllocations
      /\ count' = count + 1 /\ count' \in count..MaxAllocations
  BY DEF TableSafe, RouteMalloc, RouterAssumption
<1>2. /\ b.id = count + 1 /\ b.head = "MALLOC" /\ b.size = size /\ Marked(b)
      /\ b.shadow # "SHADOW_FREED"
  <2>1. mark \in ShadowStates /\ mark # "SHADOW_FREED"
    BY DEF ShadowStates
  <2> HIDE DEF mark
  <2> QED
    BY <2>1, NewBlockMarked DEF NewBlock
<1>3. new = Put(states, k, b)
  OBVIOUS
<1>4. IF k \in DOMAIN states THEN Settled(new, tbl, Residue(k)) ELSE Settled(new, states, {})
  BY DEF RouteMalloc
<1> HIDE DEF b, new, tbl
<1>5. /\ DOMAIN new = DOMAIN states \cup {k} /\ new[k] = b
      /\ \A j \in DOMAIN states \ {k} : new[j] = states[j]
  BY <1>3 DEF Put
<1>6. states' = new
  BY <1>4 DEF Settled
<1>7. OthersStay(k) /\ Open(k)' /\ states'[k].head = "MALLOC" /\ states'[k].size = size
  BY <1>2, <1>5, <1>6 DEF OthersStay, Open
<1>8. \A j \in DOMAIN new : new[j].id \in 1..count' /\ writes[new[j].id] = 0 /\ Marked(new[j])
  BY <1>1, <1>2, <1>5, TableIds, TableRows
<1>9. \A j \in DOMAIN new : k \in DOMAIN states => new[j].id # states[k].id
  BY <1>1, <1>2, <1>5, TableIds
<1>10. Rows'
  <2>1. CASE k \in DOMAIN states
    <3>1. tbl[k].frees = 1 /\ tbl[k].id = states[k].id /\ DOMAIN tbl = DOMAIN states
      BY <2>1, ClosedOnce, TableRows DEF tbl, CleanedUp
    <3>2. Residue(k) \subseteq {k}
      BY DEF Residue
    <3>3. \A n \in IdsIn(tbl, Residue(k)) : n = states[k].id
      BY <3>1, <3>2 DEF IdsIn
    <3>4. states[k].id \in 1..count' /\ writes[states[k].id] = 0
      BY <1>1, <2>1, TableIds, TableRows
    <3> QED
      BY <1>1, <1>4, <1>8, <1>9, <2>1, <3>1, <3>2, <3>3, <3>4, SettledKeepsRows
  <2>2. CASE k \notin DOMAIN states
    <3>1. IdsIn(states, {}) = {}
      BY DEF IdsIn
    <3> QED
      BY <1>1, <1>4, <1>8, <2>2, <3>1, SettledKeepsRows
  <2> QED
    BY <2>1, <2>2
<1> QED
  BY <1>7, <1>10

\* A FREE event of an open block: no block covers its address but this one.
LEMMA RouteFreeRows ==
  ASSUME RouterAssumption, TableSafe, Rows,
         NEW k \in Keys, Open(k), NEW size \in Nat, NEW shadow \in BOOLEAN,
         ~shadow => Resolved(states),
         RouteFree(k, size, shadow)
  PROVE  /\ Rows' /\ OthersStay(k) /\ ~Open(k)'
         /\ IF shadow THEN UNCHANGED <<used, peak>>
            ELSE Uncharged(MeterOf(k), FreedSize(states, k, size))
<1> DEFINE freed == WithEvent(states[k], "FREE")
           appended == [states EXCEPT ![k] = freed]
           rest == Delete(appended, k)
<1>1. k \in DOMAIN states /\ RouteFreeOf(k, k, size, shadow)
  BY DEF Open, RouteFree, Located
<1>2. /\ states[k] \in Blocks /\ states[k].shadow # "SHADOW_FREED"
      /\ states[k].frees = 0 /\ states[k].id \in 1..count /\ writes[states[k].id] = 0
  BY <1>1, TableIds, TableRows DEF Open, Marked
<1>3. freed \in Blocks /\ freed.frees = 1 /\ freed.id = states[k].id
      /\ freed.shadow = states[k].shadow
  <2>1. freed.frees = 1
    BY <1>2 DEF WithEvent, Blocks
  <2> QED
    BY <1>2, <2>1, WithEventType DEF Kinds
<1>4. count' = count /\ count' \in count..MaxAllocations
  BY <1>1 DEF RouteFreeOf, TableSafe, RouterAssumption
<1>5. \/ /\ shadow /\ states[k].shadow = "SHADOW_CREATED"
         /\ Settled(rest, appended, {})
      \/ /\ shadow
         /\ Settled([appended EXCEPT ![k].shadow = "SHADOW_FREED"], appended, {})
      \/ /\ ~shadow /\ Settled(rest, appended, {k})
  BY <1>1 DEF RouteFreeOf
<1>6. IF shadow THEN UNCHANGED <<used, peak>>
      ELSE Uncharged(MeterOf(k), FreedSize(states, k, size))
  BY <1>1 DEF RouteFreeOf
<1> HIDE DEF freed
<1>7. /\ DOMAIN appended = DOMAIN states /\ appended[k] = freed
      /\ \A j \in DOMAIN states \ {k} : appended[j] = states[j]
  BY <1>1
<1> HIDE DEF appended
<1>8. /\ DOMAIN rest = DOMAIN states \ {k}
      /\ \A j \in DOMAIN states \ {k} : rest[j] = states[j]
  BY <1>7 DEF Delete, Restrict
<1> HIDE DEF rest
<1>9. \A j \in DOMAIN states \ {k} :
        /\ states[j].id \in 1..count' /\ writes[states[j].id] = 0 /\ Marked(states[j])
        /\ states[j].id # states[k].id
  BY <1>1, <1>4, TableIds, TableRows
<1>10. IdsIn(appended, {}) = {} /\ IdsIn(appended, {k}) = {states[k].id}
  BY <1>3, <1>7 DEF IdsIn
<1>11. CASE shadow /\ Settled(rest, appended, {})
  <2>1. states' = rest
    BY <1>11 DEF Settled
  <2>2. OthersStay(k) /\ ~Open(k)'
    BY <1>8, <2>1 DEF OthersStay, Open
  <2>3. Rows'
    BY <1>4, <1>8, <1>9, <1>10, <1>11, SettledKeepsRows
  <2> QED
    BY <1>6, <2>2, <2>3
<1>12. CASE ~shadow /\ Settled(rest, appended, {k})
  <2>1. states' = rest
    BY <1>12 DEF Settled
  <2>2. OthersStay(k) /\ ~Open(k)'
    BY <1>8, <2>1 DEF OthersStay, Open
  <2>3. /\ {k} \subseteq DOMAIN appended
        /\ \A j \in {k} : appended[j].id \in 1..count' /\ appended[j].frees = 1
                          /\ writes[appended[j].id] = 0
    BY <1>1, <1>2, <1>3, <1>4, <1>7
  <2>4. Rows'
    BY <1>4, <1>8, <1>9, <1>10, <1>12, <2>3, SettledKeepsRows
  <2> QED
    BY <1>6, <2>2, <2>4
<1>13. CASE shadow /\ Settled([appended EXCEPT ![k].shadow = "SHADOW_FREED"], appended, {})
  <2> DEFINE new == [appended EXCEPT ![k].shadow = "SHADOW_FREED"]
             b == [freed EXCEPT !.shadow = "SHADOW_FREED"]
  <2>1. /\ DOMAIN new = DOMAIN states /\ new[k] = b
        /\ \A j \in DOMAIN states \ {k} : new[j] = states[j]
    BY <1>1, <1>7
  <2>2. b.shadow = "SHADOW_FREED" /\ b.frees = 1 /\ b.id = states[k].id
    BY <1>3 DEF Blocks
  <2>3. Settled(new, appended, {})
    BY <1>13
  <2> HIDE DEF new, b
  <2>4. states' = new
    BY <2>3 DEF Settled
  <2>5. OthersStay(k) /\ ~Open(k)'
    BY <2>1, <2>2, <2>4 DEF OthersStay, Open
  <2>6. Marked(b)
    BY <2>2 DEF Marked
  <2>7. \A j \in DOMAIN new : new[j].id \in 1..count' /\ writes[new[j].id] = 0 /\ Marked(new[j])
    BY <1>2, <1>4, <1>9, <2>1, <2>2, <2>6
  <2>8. Rows'
    BY <1>4, <1>10, <2>3, <2>7, SettledKeepsRows
  <2> QED
    BY <1>6, <1>13, <2>5, <2>8
<1> QED
  BY <1>5, <1>11, <1>12, <1>13

\* Open blocks of the old table stay as they are, but for their events.
OpenStay ==
  \A j \in DOMAIN states :
    Open(j) => Open(j)' /\ states'[j].head = states[j].head /\ states'[j].size = states[j].size

\* The only blocks that are new or open again were not allocated.
NoneAdded ==
  \A j \in DOMAIN states' :
    Open(j)' /\ states'[j].head = "MALLOC" => Open(j) /\ states[j].head = "MALLOC"

\* An ACCESS event of a session.
LEMMA RouteAccessRows ==
  ASSUME RouterAssumption, TableSafe, Rows, Resolved(states),
         NEW k \in Keys, NEW size \in Nat, RouteAccess(k, size)
  PROVE  Rows' /\ OpenStay /\ NoneAdded /\ DOMAIN states' \subseteq DOMAIN states \cup {k}
<1>1. /\ count \in Nat /\ MaxAllocations \in Nat
      /\ count' \in count..MaxAllocations /\ IdsIn(states, {}) = {}
  BY DEF TableSafe, RouteAccess, RouterAssumption, IdsIn
<1>2. CASE Located(states, k, size) = {}
  <2> DEFINE b == NewBlock(count + 1, "ACCESS", size, "NORMAL")
             new == Put(states, k, b)
  <2>1. /\ count < MaxAllocations /\ count' = count + 1 /\ k \notin DOMAIN states
        /\ Settled(new, states, {})
    BY <1>2 DEF RouteAccess, Located
  <2>2. b.id = count + 1 /\ b.head = "ACCESS" /\ Marked(b)
    BY NewBlockMarked DEF NewBlock, ShadowStates
  <2> HIDE DEF b
  <2>3. /\ DOMAIN new = DOMAIN states \cup {k} /\ new[k] = b
        /\ \A j \in DOMAIN states : new[j] = states[j]
    BY <2>1 DEF Put
  <2> HIDE DEF new
  <2>4. states' = new
    BY <2>1 DEF Settled
  <2>5. \A j \in DOMAIN new : new[j].id \in 1..count' /\ writes[new[j].id] = 0 /\ Marked(new[j])
    BY <1>1, <2>1, <2>2, <2>3, TableIds, TableRows
  <2>6. Rows'
    BY <1>1, <2>1, <2>5, SettledKeepsRows
  <2> QED
    BY <2>2, <2>3, <2>4, <2>6 DEF OpenStay, NoneAdded, Open
<1>3. CASE Located(states, k, size) # {}
  <2>1. PICK j \in DOMAIN states : Settled([states EXCEPT ![j] = WithEvent(@, "ACCESS")], states, {})
    BY <1>3, LocatedStates DEF RouteAccess
  <2> DEFINE b == WithEvent(states[j], "ACCESS")
             new == [states EXCEPT ![j] = b]
  <2>2. count' = count
    BY <1>3 DEF RouteAccess
  <2>3. states[j] \in Blocks /\ Marked(states[j]) /\ writes[states[j].id] = 0
    BY TableRows
  <2>4. /\ b.id = states[j].id /\ b.shadow = states[j].shadow /\ b.head = states[j].head
        /\ b.size = states[j].size /\ b.tail = "ACCESS" /\ b.frees = states[j].frees
    BY <2>3 DEF WithEvent, Blocks
  <2>5. Marked(b)
    BY <2>3, <2>4 DEF Marked
  <2>6. Settled(new, states, {})
    BY <2>1
  <2> HIDE DEF b
  <2>7. /\ DOMAIN new = DOMAIN states /\ new[j] = b
        /\ \A i \in DOMAIN states \ {j} : new[i] = states[i]
    OBVIOUS
  <2> HIDE DEF new
  <2>8. states' = new
    BY <2>6 DEF Settled
  <2>9. \A i \in DOMAIN new : new[i].id \in 1..count' /\ writes[new[i].id] = 0 /\ Marked(new[i])
    BY <2>2, <2>4, <2>5, <2>7, TableIds, TableRows
  <2>10. Rows'
    BY <1>1, <2>6, <2>9, SettledKeepsRows
  <2> QED
    BY <2>4, <2>7, <2>8, <2>10 DEF OpenStay, NoneAdded, Open
<1> QED
  BY <1>2, <1>3

\* Promotion writes the blocks that were freed in the shadow.
LEMMA StartRows ==
  ASSUME RouterAssumption, TableSafe, Rows, Start
  PROVE  Rows' /\ OpenStay /\ NoneAdded /\ DOMAIN states' \subseteq DOMAIN states
<1> DEFINE new == Promoted(states)
           K == Expired(states)
<1>1. /\ DOMAIN new = DOMAIN states \ K /\ K \subseteq DOMAIN states
      /\ \A k \in DOMAIN states : k \in K <=> states[k].shadow = "SHADOW_FREED"
      /\ \A k \in DOMAIN new : new[k] = PromotedBlock(states[k])
  BY DEF Promoted, Expired
<1>2. Settled(new, states, K) /\ count' = count
  BY DEF Start
<1> HIDE DEF new, K
<1>3. states' = new
  BY <1>2 DEF Settled
<1>4. \A k \in DOMAIN new :
        /\ new[k].id = states[k].id /\ new[k].head = states[k].head
        /\ new[k].size = states[k].size /\ new[k].shadow # "SHADOW_FREED" /\ Marked(new[k])
  <2> SUFFICES ASSUME NEW b \in Blocks, b.shadow # "SHADOW_FREED", Marked(b)
               PROVE  LET p == PromotedBlock(b)
                      IN /\ p.id = b.id /\ p.head = b.head /\ p.size = b.size
                         /\ p.shadow # "SHADOW_FREED" /\ Marked(p)
    BY <1>1, TableRows
  <2> QED
    BY DEF PromotedBlock, Marked, Blocks
<1>5. count' \in count..MaxAllocations
  BY <1>2 DEF TableSafe, RouterAssumption
<1>6. \A k \in K : states[k].id \in 1..count' /\ states[k].frees = 1 /\ writes[states[k].id] = 0
  BY <1>1, <1>2, TableIds, TableRows DEF Marked
<1>7. \A k \in DOMAIN new : /\ new[k].id \in 1..count' /\ writes[new[k].id] = 0
                            /\ new[k].id \notin IdsIn(states, K)
  BY <1>1, <1>2, <1>4, TableIds, TableRows DEF IdsIn
<1>8. \A j, k \in K : states[j].id = states[k].id => j = k
  BY <1>1, TableIds
<1>9. Rows'
  BY <1>1, <1>2, <1>4, <1>5, <1>6, <1>7, <1>8, SettledKeepsRows
<1> QED
  BY <1>1, <1>3, <1>4, <1>9 DEF OpenStay, NoneAdded, Open

\* The destructor closes what it writes.
LEMMA ExitCleanUpRows ==
  ASSUME RouterAssumption, TableSafe, Rows, DumpOutlivesTable,
         NEW k \in DOMAIN states, ExitCleanUp(k)
  PROVE  Rows' /\ DOMAIN states' \subseteq DOMAIN states
<1> DEFINE tbl == CleanedUp(states, k)
           new == Delete(states, k)
<1>1. /\ DOMAIN tbl = DOMAIN states /\ tbl[k].frees = 1 /\ tbl[k].id = states[k].id
  BY ClosedOnce, TableRows DEF CleanedUp
<1>2. /\ DOMAIN new = DOMAIN states \ {k}
      /\ \A j \in DOMAIN states \ {k} : new[j] = states[j]
  BY DEF Delete, Restrict
<1>3. Settled(new, tbl, Residue(k)) /\ count' = count
  BY DEF ExitCleanUp
<1> HIDE DEF tbl, new
<1>4. states' = new /\ count' \in count..MaxAllocations
  BY <1>3 DEF Settled, TableSafe, RouterAssumption
<1>5. Residue(k) \subseteq {k} /\ \A n \in IdsIn(tbl, Residue(k)) : n = states[k].id
  BY <1>1 DEF IdsIn, Residue
<1>6. states[k].id \in 1..count' /\ writes[states[k].id] = 0
  BY <1>3, TableIds, TableRows
<1>7. \A j \in DOMAIN new : /\ new[j].id \in 1..count' /\ writes[new[j].id] = 0
                            /\ new[j].id # states[k].id /\ Marked(new[j])
  BY <1>2, <1>3, TableIds, TableRows
<1>8. Rows'
  BY <1>1, <1>3, <1>4, <1>5, <1>6, <1>7, SettledKeepsRows
<1> QED
  BY <1>2, <1>4, <1>8

-----------------------------------------------------------------------------
(* What the application holds, and what the registry and the table know of it *)

\* Registered addresses have open blocks: the FREE of a driver address finds the
\* block of its own key.
RegistryOpen ==
  phase = "running" =>
    \A a \in DOMAIN ptrs : Open(Registered(a)) /\ ptrs[a][1] \in BackfillPools

\* Two allocations of one address space.
OneSpace(j, k) == PoolOf(j) = PoolOf(k) \/ (DriverPool(j) /\ DriverPool(k))
\* Allocations of one address space do not overlap.
Apart ==
  \A j, k \in DOMAIN app :
    j # k /\ OneSpace(j, k) =>
      AddrOf(k) + app[k] <= AddrOf(j) \/ AddrOf(j) + app[j] <= AddrOf(k)

\* Without --steps the open allocations of the table are those of the
\* application, and the driver's are registered.
HeldIsOpen ==
  /\ \A k \in DOMAIN app :
       /\ Open(k) /\ states[k].head = "MALLOC" /\ states[k].size = app[k]
       /\ DriverPool(k) => AddrOf(k) \in DOMAIN ptrs /\ Registered(AddrOf(k)) = k
  /\ \A k \in DOMAIN states : Open(k) /\ states[k].head = "MALLOC" => k \in DOMAIN app
  /\ \A a \in DOMAIN ptrs : Registered(a) \in DOMAIN app

\* The sums are over finite sets.
Finite == IsFiniteSet(DOMAIN states) /\ IsFiniteSet(DOMAIN app)

\* Every FREE that is reported meets its block: a framework's may be reported
\* though its MALLOC was dropped, a driver's only when it is registered.
Paired == ~StepFilter \/ Pools \subseteq BackfillPools

\* The inductive invariant.
Books ==
  /\ Rows
  /\ RegistryOpen
  /\ Apart
  /\ ~StepFilter /\ phase = "running" => HeldIsOpen
  /\ Finite
  /\ MetersTyped
  /\ ~StepFilter => UsedIsHeld

\* Allocations are told apart by their addresses.
LEMMA ApartKeys ==
  ASSUME MemoryAssumption, RecordsTyped, Apart,
         NEW j \in DOMAIN app, NEW k \in DOMAIN app, DriverPool(j), DriverPool(k),
         AddrOf(j) = AddrOf(k)
  PROVE  j = k
<1>1. /\ j \in Keys /\ k \in Keys /\ app[j] \in Nat \ {0} /\ app[k] \in Nat \ {0}
  BY DEF RecordsTyped, IsPartial, MemoryAssumption
<1>2. AddrOf(j) \in Nat /\ AddrOf(k) \in Nat
  BY <1>1 DEF Keys, AddrOf, MemoryAssumption
<1> QED
  BY <1>1, <1>2 DEF Apart, OneSpace

\* A new allocation is not one the application holds, and stays apart of them.
LEMMA MallocApart ==
  ASSUME MemoryAssumption, RecordsTyped, Apart,
         NEW k \in Keys, NEW size \in Sizes, Disjoint(k, size), app' = Put(app, k, size)
  PROVE  /\ k \notin DOMAIN app
         /\ \A j \in DOMAIN app : DriverPool(j) /\ DriverPool(k) => AddrOf(j) # AddrOf(k)
         /\ Apart'
<1>1. /\ \A j \in DOMAIN app : j \in Keys /\ app[j] \in Nat \ {0}
      /\ size \in Nat \ {0}
  BY DEF RecordsTyped, IsPartial, MemoryAssumption
<1>2. \A j \in Keys : AddrOf(j) \in Nat
  BY DEF Keys, AddrOf, MemoryAssumption
<1>3. \A j \in DOMAIN app :
        OneSpace(j, k) \/ OneSpace(k, j) =>
          AddrOf(k) + size <= AddrOf(j) \/ AddrOf(j) + app[j] <= AddrOf(k)
  BY DEF Disjoint, OneSpace
<1>4. \A j \in DOMAIN app : OneSpace(j, k) => AddrOf(j) # AddrOf(k)
  BY <1>1, <1>2, <1>3
<1>5. k \notin DOMAIN app
  BY <1>4 DEF OneSpace
<1>6. \A j \in DOMAIN app : DriverPool(j) /\ DriverPool(k) => AddrOf(j) # AddrOf(k)
  BY <1>4 DEF OneSpace
<1>7. Apart'
  <2> SUFFICES ASSUME NEW i \in DOMAIN app', NEW j \in DOMAIN app', i # j, OneSpace(i, j)
               PROVE  AddrOf(j) + app'[j] <= AddrOf(i) \/ AddrOf(i) + app'[i] <= AddrOf(j)
    BY DEF Apart, OneSpace, DriverPool
  <2>1. /\ DOMAIN app' = DOMAIN app \cup {k} /\ app'[k] = size
        /\ \A h \in DOMAIN app : app'[h] = app[h]
    BY <1>5 DEF Put
  <2>2. CASE i \in DOMAIN app /\ j \in DOMAIN app
    BY <2>1, <2>2 DEF Apart
  <2>3. CASE i = k \/ j = k
    BY <1>3, <2>1, <2>3
  <2> QED
    BY <2>1, <2>2, <2>3
<1> QED
  BY <1>5, <1>6, <1>7

\* A free leaves the rest apart.
LEMMA FreeApart ==
  ASSUME Apart, NEW k, app' = Delete(app, k)
  PROVE  /\ Apart'
         /\ DOMAIN app' = DOMAIN app \ {k} /\ \A j \in DOMAIN app' : app'[j] = app[j]
<1>1. DOMAIN app' = DOMAIN app \ {k} /\ \A j \in DOMAIN app' : app'[j] = app[j]
  BY DEF Delete, Restrict
<1> QED
  BY <1>1 DEF Apart, OneSpace, DriverPool

-----------------------------------------------------------------------------
(* The books are kept *)

\* A report that was dropped, and every other step that leaves table and phase.
LEMMA QuietBooks ==
  ASSUME Books, UNCHANGED <<table, phase>>, UNCHANGED <<app, ptrs>>,
         status' = "IN_TRACING" => status = "IN_TRACING"
  PROVE  Books'
<1>1. Rows' /\ Finite' /\ MetersTyped' /\ Apart'
  BY DEF Books, table, Rows, WrittenOnce, OneFreePerRecord, Marked, Finite, MetersTyped,
         Apart, OneSpace, DriverPool
<1>2. RegistryOpen' /\ (~StepFilter /\ phase' = "running" => HeldIsOpen')
  BY DEF Books, table, RegistryOpen, HeldIsOpen, Open, Registered, DriverPool
<1>3. ~StepFilter => UsedIsHeld'
  BY DEF Books, table, UsedIsHeld
<1> QED
  BY <1>1, <1>2, <1>3 DEF Books

\* An allocation, reported or dropped.
LEMMA MallocBooks ==
  ASSUME MemoryAssumption, RouterAssumption, Invariant, Books,
         NEW k \in Keys, NEW size \in Sizes, AppMalloc(k, size)
  PROVE  Books'
<1>1. /\ TableSafe /\ RecordsTyped /\ Shadow \in BOOLEAN /\ size \in Nat \ {0}
      /\ Rows /\ Apart /\ Finite /\ MetersTyped
      /\ app' = Put(app, k, size) /\ Disjoint(k, size)
      /\ phase = "running" /\ phase' = phase /\ status' = status
  BY InvariantTable DEF Invariant, Books, AppMalloc, Shadow, MemoryAssumption, exiting
<1>2. /\ k \notin DOMAIN app /\ Apart'
      /\ \A j \in DOMAIN app : DriverPool(j) /\ DriverPool(k) => AddrOf(j) # AddrOf(k)
  BY <1>1, MallocApart
<1>3. /\ DOMAIN app' = DOMAIN app \cup {k} /\ app'[k] = size
      /\ \A j \in DOMAIN app : app'[j] = app[j]
  BY <1>1, <1>2 DEF Put
<1>4. IsFiniteSet(DOMAIN app')
  BY <1>1, <1>3, FS_AddElement DEF Finite
<1>5. CASE StepFilter /\ UNCHANGED <<ptrs, table>>
  <2>1. Rows' /\ MetersTyped' /\ IsFiniteSet(DOMAIN states')
    BY <1>1, <1>5 DEF table, Rows, WrittenOnce, OneFreePerRecord, Marked, Finite, MetersTyped
  <2>2. RegistryOpen'
    BY <1>1, <1>5 DEF Books, table, RegistryOpen, Open, Registered
  <2> QED
    BY <1>2, <1>4, <1>5, <2>1, <2>2 DEF Books, Finite
<1>6. CASE /\ ptrs' = IF DriverPool(k) /\ AddrOf(k) \notin DOMAIN ptrs
                      THEN Put(ptrs, AddrOf(k), MeterOf(k)) ELSE ptrs
           /\ RouteMalloc(k, size, Shadow)
  <2>1. /\ Rows' /\ OthersStay(k)
        /\ Open(k)' /\ states'[k].head = "MALLOC" /\ states'[k].size = size
    BY <1>1, <1>6, RouteMallocRows
  <2>2. IsFiniteSet(DOMAIN states')
    <3>1. DOMAIN states' = DOMAIN states \cup {k}
      BY <2>1 DEF OthersStay, Open
    <3> QED
      BY <1>1, <3>1, FS_AddElement DEF Finite
  <2>3. \A j : j # k => (Open(j)' <=> Open(j)) /\ (Open(j) => states'[j] = states[j])
    BY <2>1 DEF OthersStay, Open
  <2>4. /\ \A a \in DOMAIN ptrs : a \in DOMAIN ptrs' /\ ptrs'[a] = ptrs[a]
        /\ \A a \in DOMAIN ptrs' \ DOMAIN ptrs :
             a = AddrOf(k) /\ DriverPool(k) /\ ptrs'[a] = MeterOf(k)
        /\ DriverPool(k) => AddrOf(k) \in DOMAIN ptrs'
    BY <1>6 DEF Put
  <2>5. <<MeterOf(k)[1], MeterOf(k)[2], AddrOf(k)>> = k
    BY DEF Keys, MeterOf, AddrOf
  <2>6. ASSUME NEW a \in DOMAIN ptrs', NEW r, r = Registered(a)'
        PROVE  /\ Open(r)' /\ ptrs'[a][1] \in BackfillPools
               /\ ~StepFilter => r \in DOMAIN app'
    <3>1. CASE a \in DOMAIN ptrs
      <4>1. /\ r = Registered(a) /\ Open(r) /\ ptrs'[a][1] \in BackfillPools
            /\ ~StepFilter => r \in DOMAIN app
        BY <1>1, <2>4, <2>6, <3>1 DEF Books, RegistryOpen, HeldIsOpen, Registered
      <4> QED
        BY <1>3, <2>1, <2>3, <4>1
    <3>2. CASE a \notin DOMAIN ptrs
      <4>1. ptrs'[a] = MeterOf(k) /\ a = AddrOf(k) /\ DriverPool(k)
        BY <2>4, <3>2
      <4>2. MeterOf(k)[1] = PoolOf(k) /\ r = k
        BY <2>5, <2>6, <4>1 DEF MeterOf, PoolOf, Registered
      <4> QED
        BY <1>3, <2>1, <4>1, <4>2 DEF DriverPool
    <3> QED
      BY <3>1, <3>2
  <2>7. RegistryOpen'
    BY <2>6 DEF RegistryOpen, Open, Registered
  <2>8. ~StepFilter => HeldIsOpen'
    <3> SUFFICES ASSUME ~StepFilter
                 PROVE  HeldIsOpen'
      OBVIOUS
    <3>1. HeldIsOpen
      BY <1>1 DEF Books
    <3>2. ASSUME NEW j \in DOMAIN app'
          PROVE  /\ Open(j)' /\ states'[j].head = "MALLOC" /\ states'[j].size = app'[j]
                 /\ DriverPool(j) => /\ AddrOf(j) \in DOMAIN ptrs'
                                     /\ Registered(AddrOf(j))' = j
      <4>1. CASE j # k
        BY <1>3, <2>3, <2>4, <3>1, <4>1 DEF HeldIsOpen, Registered
      <4>2. CASE j = k
        \* With every report delivered only held addresses are registered.
        <5>1. DriverPool(k) => AddrOf(k) \notin DOMAIN ptrs
          <6> SUFFICES ASSUME DriverPool(k), AddrOf(k) \in DOMAIN ptrs
                       PROVE  FALSE
            OBVIOUS
          <6> DEFINE r == Registered(AddrOf(k))
          <6>1. ptrs[AddrOf(k)][1] \in BackfillPools /\ r \in DOMAIN app
            BY <1>1, <3>1 DEF Books, RegistryOpen, HeldIsOpen
          <6>2. AddrOf(r) = AddrOf(k) /\ DriverPool(r)
            BY <6>1 DEF Registered, AddrOf, DriverPool, PoolOf
          <6> QED
            BY <1>2, <6>1, <6>2
        <5> QED
          BY <1>3, <1>6, <2>1, <2>4, <2>5, <4>2, <5>1 DEF Registered
      <4> QED
        BY <4>1, <4>2
    <3>3. ASSUME NEW j \in DOMAIN states', Open(j)', states'[j].head = "MALLOC"
          PROVE  j \in DOMAIN app'
      BY <1>3, <2>3, <3>1, <3>3 DEF HeldIsOpen, Open
    <3>4. \A a \in DOMAIN ptrs' : Registered(a)' \in DOMAIN app'
      BY <2>6
    <3> QED
      BY <3>2, <3>3, <3>4 DEF HeldIsOpen, Registered, DriverPool, Open
  <2>9. MetersTyped' /\ (~StepFilter => UsedIsHeld')
    <3>1. /\ used \in [Meters -> Nat] /\ peak \in [Meters -> Nat] /\ MeterOf(k) \in Meters
      BY <1>1 DEF MetersTyped, Keys, Meters, MeterOf
    <3>2. CASE Shadow
      <4>1. UNCHANGED <<used, peak>> /\ status' # "IN_TRACING"
        BY <1>1, <1>6, <3>2 DEF RouteMalloc, Shadow
      <4> QED
        BY <3>1, <4>1 DEF MetersTyped, UsedIsHeld
    <3>3. CASE ~Shadow
      <4>1. /\ used' = Charged(used, MeterOf(k), size)
            /\ peak' = Raised(peak, MeterOf(k), used'[MeterOf(k)])
        BY <1>6, <3>3 DEF RouteMalloc
      <4>2. /\ used' \in [Meters -> Nat]
            /\ \A m \in Meters : used'[m] = (IF m = MeterOf(k) THEN size ELSE 0) + used[m]
        <5>1. size \in Int
          BY <1>1
        <5>2. /\ used' \in [Meters -> Nat]
              /\ \A m \in Meters :
                   used'[m] = IF m = MeterOf(k)
                              THEN IF used[m] + size < 0 THEN 0 ELSE used[m] + size ELSE used[m]
          BY <3>1, <4>1, <5>1, ChargedType
        <5> QED
          BY <1>1, <3>1, <5>2
      <4>3. peak' \in [Meters -> Nat]
        BY <3>1, <4>1, <4>2, RaisedType
      <4>4. ASSUME ~StepFilter, NEW m \in Meters
            PROVE  used'[m] = SumOf(app', m)
        <5>1. used[m] = SumOf(app, m)
          BY <1>1, <3>3, <4>4 DEF Books, UsedIsHeld, Shadow, SumOf, OfMeter, Invariant, RecordsTyped, Statuses
        <5>2. \A j \in DOMAIN app : app[j] \in Nat
          BY <1>1 DEF RecordsTyped, IsPartial, MemoryAssumption
        <5>3. SumOf(Put(app, k, size), m) = (IF m = MeterOf(k) THEN size ELSE 0) + SumOf(app, m)
          BY <1>1, <1>2, <5>2, SumOfPut DEF Finite
        <5> QED
          BY <1>1, <4>2, <4>4, <5>1, <5>3
      <4> QED
        BY <4>2, <4>3, <4>4 DEF MetersTyped, UsedIsHeld, SumOf, OfMeter
    <3> QED
      BY <3>2, <3>3
  <2> QED
    BY <1>2, <1>4, <2>1, <2>2, <2>7, <2>8, <2>9 DEF Books, Finite
<1>7. (\E skip \in Skips : skip) => StepFilter
  BY DEF Skips
<1> QED
  BY <1>5, <1>6, <1>7 DEF AppMalloc, Skips

\* Which event a free leads to: one that finds an open block, which is the freed
\* one when no report is dropped.
FreeReport(k, e, size) ==
  /\ Open(e) /\ e \in Keys /\ size \in Nat
  /\ RouteFree(e, size, Shadow)
  /\ DriverPool(k) => /\ AddrOf(k) \in DOMAIN ptrs /\ e = Registered(AddrOf(k))
                      /\ ptrs' = Delete(ptrs, AddrOf(k))
  /\ ~DriverPool(k) => UNCHANGED ptrs /\ e = k
  /\ ~StepFilter => e = k /\ FreedSize(states, e, size) = app[k]

\* A free is dropped, or leads to such an event.
LEMMA FreeReports ==
  ASSUME MemoryAssumption, RouterAssumption, Paired, Invariant, Books,
         NEW k \in Keys, AppFree(k)
  PROVE  (StepFilter /\ UNCHANGED <<ptrs, table>>) \/ \E e \in Keys, size \in Nat : FreeReport(k, e, size)
<1>1. /\ phase = "running" /\ k \in DOMAIN app /\ app[k] \in Nat
      /\ RegistryOpen /\ (~StepFilter => HeldIsOpen)
  BY DEF AppFree, Books, Invariant, RecordsTyped, IsPartial, MemoryAssumption
<1>2. ~StepFilter => /\ Open(k) /\ states[k].head = "MALLOC" /\ states[k].size = app[k]
                     /\ DriverPool(k) => AddrOf(k) \in DOMAIN ptrs /\ Registered(AddrOf(k)) = k
  BY <1>1 DEF HeldIsOpen
<1>3. (\E skip \in Skips : skip) => StepFilter
  BY DEF Skips
<1>4. CASE DriverPool(k)
  <2>1. ReportDriverFree(k)
    BY <1>4 DEF AppFree
  <2>2. CASE UNCHANGED <<ptrs, table>> /\ (StepFilter \/ AddrOf(k) \notin DOMAIN ptrs)
    BY <1>2, <1>4, <2>2
  <2>3. CASE /\ AddrOf(k) \in DOMAIN ptrs /\ ptrs' = Delete(ptrs, AddrOf(k))
             /\ RouteFree(Registered(AddrOf(k)), 0, Shadow)
    <3> DEFINE e == Registered(AddrOf(k))
    <3>1. Open(e) /\ ptrs[AddrOf(k)] \in Meters /\ AddrOf(k) \in Addrs
      BY <1>1, <2>3 DEF RegistryOpen, Invariant, RecordsTyped, IsPartial
    <3>2. e \in Keys
      BY <3>1 DEF Registered, Keys, Meters
    <3>3. ~StepFilter => e = k /\ FreedSize(states, e, 0) = app[k]
      BY <1>2, <1>4, <2>3 DEF FreedSize, DriverPool
    <3> HIDE DEF e
    <3>4. FreeReport(k, e, 0)
      BY <1>4, <2>3, <3>1, <3>2, <3>3 DEF FreeReport, e
    <3> QED
      BY <3>2, <3>4
  <2> QED
    BY <1>3, <2>1, <2>2, <2>3 DEF ReportDriverFree
<1>5. CASE ~DriverPool(k)
  <2>1. ReportPoolFree(k) /\ ~StepFilter
    BY <1>5 DEF AppFree, Paired, DriverPool, Keys, PoolOf
  <2>2. RouteFree(k, app[k], Shadow) /\ UNCHANGED ptrs
    BY <1>3, <2>1 DEF ReportPoolFree, Skips
  <2>3. FreedSize(states, k, app[k]) = app[k]
    BY <1>5 DEF FreedSize, DriverPool
  <2>4. FreeReport(k, k, app[k])
    BY <1>1, <1>2, <1>5, <2>1, <2>2, <2>3 DEF FreeReport
  <2> QED
    BY <1>1, <2>4
<1> QED
  BY <1>4, <1>5

\* A free, reported, ignored or dropped.
LEMMA FreeBooks ==
  ASSUME MemoryAssumption, RouterAssumption, Paired, Invariant, Books,
         NEW k \in Keys, AppFree(k)
  PROVE  Books'
<1>1. /\ TableSafe /\ RecordsTyped /\ Shadow \in BOOLEAN /\ (~Shadow => Resolved(states))
      /\ Rows /\ Apart /\ Finite /\ MetersTyped
      /\ app' = Delete(app, k) /\ k \in DOMAIN app
      /\ phase = "running" /\ phase' = phase /\ status' = status
  BY InvariantTable DEF Invariant, Books, AppFree, Shadow, exiting
<1>2. /\ Apart' /\ DOMAIN app' = DOMAIN app \ {k}
      /\ \A j \in DOMAIN app' : app'[j] = app[j]
  BY <1>1, FreeApart
<1>3. IsFiniteSet(DOMAIN app')
  BY <1>1, <1>2, FS_RemoveElement DEF Finite
<1>4. CASE StepFilter /\ UNCHANGED <<ptrs, table>>
  <2>1. Rows' /\ MetersTyped' /\ IsFiniteSet(DOMAIN states')
    BY <1>1, <1>4 DEF table, Rows, WrittenOnce, OneFreePerRecord, Marked, Finite, MetersTyped
  <2>2. RegistryOpen'
    BY <1>1, <1>4 DEF Books, table, RegistryOpen, Open, Registered
  <2> QED
    BY <1>2, <1>3, <1>4, <2>1, <2>2 DEF Books, Finite
<1>5. ASSUME NEW e \in Keys, NEW size \in Nat, FreeReport(k, e, size)
      PROVE  Books'
  <2>1. /\ Rows' /\ OthersStay(e) /\ ~Open(e)'
        /\ IF Shadow THEN UNCHANGED <<used, peak>>
           ELSE Uncharged(MeterOf(e), FreedSize(states, e, size))
    BY <1>1, <1>5, RouteFreeRows DEF FreeReport
  <2>2. IsFiniteSet(DOMAIN states')
    <3>1. DOMAIN states' \subseteq DOMAIN states
      BY <1>5, <2>1 DEF OthersStay, FreeReport, Open
    <3> QED
      BY <1>1, <3>1, FS_Subset DEF Finite
  <2>3. \A j : j # e => (Open(j)' <=> Open(j)) /\ (Open(j) => states'[j] = states[j])
    BY <2>1 DEF OthersStay, Open
  <2>4. \A a \in DOMAIN ptrs' : /\ a \in DOMAIN ptrs /\ ptrs'[a] = ptrs[a]
                                /\ DriverPool(k) => a # AddrOf(k)
    BY <1>5 DEF FreeReport, Delete, Restrict
  <2>5. ASSUME NEW a \in DOMAIN ptrs', NEW r, r = Registered(a)'
        PROVE  /\ Open(r)' /\ ptrs'[a][1] \in BackfillPools
               /\ ~StepFilter => r \in DOMAIN app'
    <3>1. /\ r = Registered(a) /\ Open(r) /\ ptrs[a][1] \in BackfillPools
          /\ ~StepFilter => r \in DOMAIN app
      BY <1>1, <2>4, <2>5 DEF Books, RegistryOpen, HeldIsOpen, Registered
    <3>2. r # e /\ r # k
      <4>1. AddrOf(r) = a /\ DriverPool(r)
        BY <3>1 DEF Registered, AddrOf, DriverPool, PoolOf
      <4>2. CASE DriverPool(k)
        <5>1. AddrOf(e) = AddrOf(k)
          BY <1>5, <4>2 DEF FreeReport, Registered, AddrOf
        <5> QED
          BY <2>4, <4>1, <4>2, <5>1
      <4>3. CASE ~DriverPool(k)
        BY <1>5, <4>1, <4>3 DEF FreeReport
      <4> QED
        BY <4>2, <4>3
    <3> QED
      BY <1>2, <2>3, <2>4, <3>1, <3>2
  <2>6. RegistryOpen'
    BY <2>5 DEF RegistryOpen, Open, Registered
  <2>7. ~StepFilter => HeldIsOpen'
    <3> SUFFICES ASSUME ~StepFilter
                 PROVE  HeldIsOpen'
      OBVIOUS
    <3>1. HeldIsOpen /\ e = k
      BY <1>1, <1>5 DEF Books, FreeReport
    <3>2. ASSUME NEW j \in DOMAIN app'
          PROVE  /\ Open(j)' /\ states'[j].head = "MALLOC" /\ states'[j].size = app'[j]
                 /\ DriverPool(j) => /\ AddrOf(j) \in DOMAIN ptrs'
                                     /\ Registered(AddrOf(j))' = j
      <4>1. j \in DOMAIN app /\ j # k /\ app'[j] = app[j]
        BY <1>2
      <4>2. Open(j)' /\ states'[j].head = "MALLOC" /\ states'[j].size = app'[j]
        BY <2>3, <3>1, <4>1 DEF HeldIsOpen
      <4>3. DriverPool(j) /\ DriverPool(k) => AddrOf(j) # AddrOf(k)
        BY <1>1, <4>1, ApartKeys
      <4>4. DriverPool(j) => AddrOf(j) \in DOMAIN ptrs /\ Registered(AddrOf(j)) = j
        BY <3>1, <4>1 DEF HeldIsOpen
      <4>5. DriverPool(j) => AddrOf(j) \in DOMAIN ptrs' /\ ptrs'[AddrOf(j)] = ptrs[AddrOf(j)]
        BY <1>5, <4>3, <4>4 DEF FreeReport, Delete, Restrict
      <4> QED
        BY <4>2, <4>4, <4>5 DEF Registered
    <3>3. ASSUME NEW j \in DOMAIN states', Open(j)', states'[j].head = "MALLOC"
          PROVE  j \in DOMAIN app'
      BY <1>2, <2>1, <2>3, <3>1, <3>3 DEF HeldIsOpen, Open
    <3>4. \A a \in DOMAIN ptrs' : Registered(a)' \in DOMAIN app'
      BY <2>5
    <3> QED
      BY <3>2, <3>3, <3>4 DEF HeldIsOpen, Registered, DriverPool, Open
  <2>8. MetersTyped' /\ (~StepFilter => UsedIsHeld')
    <3>1. used \in [Meters -> Nat] /\ peak \in [Meters -> Nat] /\ MeterOf(e) \in Meters
      BY <1>1 DEF MetersTyped, Keys, Meters, MeterOf
    <3>2. CASE Shadow
      <4>1. UNCHANGED <<used, peak>> /\ status' # "IN_TRACING"
        BY <1>1, <2>1, <3>2 DEF Shadow
      <4> QED
        BY <3>1, <4>1 DEF MetersTyped, UsedIsHeld
    <3>3. CASE ~Shadow
      <4> DEFINE freed == FreedSize(states, e, size)
      <4>1. /\ used' = Charged(used, MeterOf(e), -freed)
            /\ peak' = Raised(peak, MeterOf(e), used'[MeterOf(e)])
        BY <2>1, <3>3 DEF Uncharged
      <4>2. freed \in Nat
        <5>1. states[e] \in Blocks
          BY <1>1, <1>5, TableRows DEF FreeReport, Open
        <5> QED
          BY <5>1 DEF FreedSize, Blocks
      <4>3. ~StepFilter => freed = app[k] /\ e = k
        BY <1>5 DEF FreeReport
      <4> HIDE DEF freed
      <4>4. /\ used' \in [Meters -> Nat]
            /\ \A m \in Meters :
                 used'[m] = IF m = MeterOf(e)
                            THEN IF used[m] - freed < 0 THEN 0 ELSE used[m] - freed ELSE used[m]
        <5>1. -freed \in Int
          BY <4>2
        <5>2. /\ used' \in [Meters -> Nat]
              /\ \A m \in Meters :
                   used'[m] = IF m = MeterOf(e)
                              THEN IF used[m] + (-freed) < 0 THEN 0 ELSE used[m] + (-freed) ELSE used[m]
          BY <3>1, <4>1, <5>1, ChargedType
        <5> QED
          BY <3>1, <4>2, <5>2
      <4>5. peak' \in [Meters -> Nat]
        BY <3>1, <4>1, <4>4, RaisedType
      <4>6. ASSUME ~StepFilter, NEW m \in Meters
            PROVE  used'[m] = SumOf(app', m)
        <5>1. used[m] = SumOf(app, m)
          BY <1>1, <3>3, <4>6 DEF Books, UsedIsHeld, Shadow, SumOf, OfMeter, Invariant, RecordsTyped, Statuses
        <5>2. \A j \in DOMAIN app : app[j] \in Nat
          BY <1>1 DEF RecordsTyped, IsPartial, MemoryAssumption
        <5>3. /\ SumOf(app', m) \in Nat
              /\ SumOf(app, m) = (IF m = MeterOf(k) THEN app[k] ELSE 0) + SumOf(app', m)
          BY <1>1, <5>2, SumOfDelete DEF Finite
        <5> QED
          BY <4>2, <4>3, <4>4, <4>6, <5>1, <5>3
      <4> QED
        BY <4>4, <4>5, <4>6 DEF MetersTyped, UsedIsHeld, SumOf, OfMeter
    <3> QED
      BY <3>2, <3>3
  <2> QED
    BY <1>2, <1>3, <2>1, <2>2, <2>6, <2>7, <2>8 DEF Books, Finite
<1> QED
  BY <1>4, <1>5, FreeReports

\* What a step that keeps the open blocks does to registry and holdings.
LEMMA StayBooks ==
  ASSUME Books, OpenStay, NoneAdded, UNCHANGED <<app, ptrs, phase>>
  PROVE  RegistryOpen' /\ (~StepFilter /\ phase' = "running" => HeldIsOpen') /\ Apart'
<1>1. Apart'
  BY DEF Books, Apart, OneSpace, DriverPool
<1>2. RegistryOpen'
  <2> SUFFICES ASSUME phase = "running", NEW a \in DOMAIN ptrs, NEW r, r = Registered(a)
               PROVE  Open(r)' /\ ptrs[a][1] \in BackfillPools
    BY DEF RegistryOpen, Open, Registered
  <2>1. Open(r) /\ ptrs[a][1] \in BackfillPools
    BY DEF Books, RegistryOpen
  <2> QED
    BY <2>1 DEF OpenStay, Open
<1>3. ASSUME ~StepFilter, phase = "running"
      PROVE  HeldIsOpen'
  <2>1. HeldIsOpen
    BY <1>3 DEF Books
  <2>2. ASSUME NEW j \in DOMAIN app
        PROVE  Open(j)' /\ states'[j].head = "MALLOC" /\ states'[j].size = app[j]
    BY <2>1 DEF HeldIsOpen, OpenStay, Open
  <2>3. ASSUME NEW j \in DOMAIN states', Open(j)', states'[j].head = "MALLOC"
        PROVE  j \in DOMAIN app
    BY <2>1, <2>3 DEF HeldIsOpen, NoneAdded, Open
  <2> QED
    BY <2>1, <2>2, <2>3 DEF HeldIsOpen, Registered, DriverPool, Open
<1> QED
  BY <1>1, <1>2, <1>3

\* An access.
LEMMA AccessBooks ==
  ASSUME MemoryAssumption, RouterAssumption, Invariant, Books,
         NEW k \in Keys, NEW size \in Sizes, AppAccess(k, size)
  PROVE  Books'
<1>1. /\ TableSafe /\ Resolved(states) /\ size \in Nat /\ Rows /\ Finite /\ MetersTyped
      /\ RouteAccess(k, size) /\ UNCHANGED <<app, ptrs, status, phase, used, peak>>
  BY InvariantTable DEF AppAccess, MemoryAssumption, Books, exiting, RouteAccess
<1>2. Rows' /\ OpenStay /\ NoneAdded /\ DOMAIN states' \subseteq DOMAIN states \cup {k}
  BY <1>1, RouteAccessRows
<1>3. RegistryOpen' /\ (~StepFilter /\ phase' = "running" => HeldIsOpen') /\ Apart'
  BY <1>1, <1>2, StayBooks
<1>4. IsFiniteSet(DOMAIN states')
  BY <1>1, <1>2, FS_AddElement, FS_Subset DEF Finite
<1>5. MetersTyped' /\ (~StepFilter => UsedIsHeld')
  BY <1>1 DEF Books, MetersTyped, UsedIsHeld
<1> QED
  BY <1>1, <1>2, <1>3, <1>4, <1>5 DEF Books, Finite

\* The start of a session, whose baseline brings the meters up to date.
LEMMA StartBooks ==
  ASSUME MemoryAssumption, RouterAssumption, Invariant, Books, Start
  PROVE  Books'
<1>1. /\ TableSafe /\ RecordsTyped /\ Rows /\ Finite /\ MetersTyped
      /\ UNCHANGED <<app, ptrs, phase, peak>> /\ phase = "running"
      /\ states' = Promoted(states)
  BY InvariantTable DEF Start, Books, Invariant, exiting, Settled
<1>2. Rows' /\ OpenStay /\ NoneAdded /\ DOMAIN states' \subseteq DOMAIN states
  BY <1>1, StartRows
<1>3. RegistryOpen' /\ (~StepFilter /\ phase' = "running" => HeldIsOpen') /\ Apart'
  BY <1>1, <1>2, StayBooks
<1>4. IsFiniteSet(DOMAIN states')
  BY <1>1, <1>2, FS_Subset DEF Finite
<1>5. \/ StepFilter /\ used' = used
      \/ used' = Baseline(states')
  BY <1>1 DEF Start, Skips
<1>6. Baseline(states') \in [Meters -> Nat]
  <2>1. IsTable(states')
    BY <1>1, StartSafe DEF TableSafe
  <2> QED
    BY <1>4, <2>1, BaselineType
<1>7. MetersTyped'
  BY <1>1, <1>5, <1>6 DEF MetersTyped
<1>8. ASSUME ~StepFilter
      PROVE  UsedIsHeld'
  <2>1. HeldIsOpen'
    BY <1>1, <1>3, <1>8
  <2>2. Live(states') = DOMAIN app'
    <3>1. Resolved(states')
      BY <1>1, StartResolved
    <3>2. \A k \in DOMAIN states' : Marked(states'[k])
      BY <1>2 DEF Rows, Marked
    <3>3. \A k \in DOMAIN states' : k \in Live(states') <=> states'[k].head = "MALLOC"
      BY <3>1, <3>2 DEF Live, Marked, Resolved
    <3>4. \A k \in DOMAIN states' : states'[k].shadow # "SHADOW_FREED"
      BY <3>1 DEF Resolved
    <3>5. Live(states') \subseteq DOMAIN states'
      BY DEF Live
    <3> QED
      BY <2>1, <3>3, <3>4, <3>5 DEF HeldIsOpen, Open
  <2>3. \A k \in DOMAIN app' : states'[k].size = app'[k]
    BY <2>1 DEF HeldIsOpen
  <2>4. IsFiniteSet(DOMAIN app')
    BY <1>1 DEF Finite
  <2>5. \A m \in Meters : Baseline(states')[m] = SumOf(app', m)
    BY <2>2, <2>3, <2>4, BaselineIsHeld
  <2> QED
    BY <1>5, <1>8, <2>5 DEF UsedIsHeld, SumOf, OfMeter
<1> QED
  BY <1>1, <1>2, <1>3, <1>4, <1>7, <1>8 DEF Books, Finite

\* The destructor: nothing is registered or held from then on.
LEMMA ExitBooks ==
  ASSUME MemoryAssumption, RouterAssumption, DumpOutlivesTable, Invariant, Books, Exit
  PROVE  Books'
<1>1. /\ TableSafe /\ Rows /\ Finite /\ MetersTyped /\ Apart
      /\ (~StepFilter => UsedIsHeld)
  BY InvariantTable DEF Books
<1>2. UNCHANGED <<app, ptrs, status, used, peak>> /\ phase' # "running"
  BY DEF Exit, ExitBegin, ExitEnd, ExitCleanUp, table
<1>3. Rows' /\ DOMAIN states' \subseteq DOMAIN states
  <2>1. CASE ExitBegin \/ ExitEnd
    BY <1>1, <2>1 DEF ExitBegin, ExitEnd, table, Rows, WrittenOnce, OneFreePerRecord, Marked
  <2>2. ASSUME NEW k \in Keys, ExitCleanUp(k)
        PROVE  Rows' /\ DOMAIN states' \subseteq DOMAIN states
    <3>1. k \in DOMAIN states
      BY <2>2 DEF Invariant, ExitCovers, ExitCleanUp
    <3> QED
      BY <1>1, <2>2, <3>1, ExitCleanUpRows
  <2> QED
    BY <2>1, <2>2 DEF Exit
<1>4. Finite'
  BY <1>1, <1>2, <1>3, FS_Subset DEF Finite
<1>5. MetersTyped' /\ Apart' /\ (~StepFilter => UsedIsHeld')
  BY <1>1, <1>2 DEF MetersTyped, Apart, OneSpace, DriverPool, UsedIsHeld
<1> QED
  BY <1>2, <1>3, <1>4, <1>5 DEF Books, RegistryOpen

\* The initial states.
LEMMA InitBooks ==
  ASSUME RouterAssumption, Init
  PROVE  Books
<1>1. IsFiniteSet({}) /\ DOMAIN states = {} /\ DOMAIN app = {} /\ DOMAIN ptrs = {}
  BY FS_EmptySet DEF Init
<1>2. Rows
  BY <1>1 DEF Init, Rows, WrittenOnce, OneFreePerRecord, None
<1>3. MetersTyped /\ \A m \in Meters : used[m] = 0
  BY DEF Init, MetersTyped, Zero
<1>4. ASSUME NEW m \in Meters
      PROVE  SumFunctionOnSet(app, {k \in DOMAIN app : MeterOf(k) = m}) = 0
  <2>1. {k \in DOMAIN app : MeterOf(k) = m} = {}
    BY <1>1
  <2>2. SumFunctionOnSet(app, {}) = 0
    BY FS_EmptySet, SumType
  <2> QED
    BY <2>1, <2>2
<1>5. UsedIsHeld
  BY <1>3, <1>4 DEF UsedIsHeld
<1> QED
  BY <1>1, <1>2, <1>3, <1>5 DEF Books, RegistryOpen, Apart, HeldIsOpen, Finite, Open

\* Every step keeps the books.
LEMMA StepBooks ==
  ASSUME MemoryAssumption, RouterAssumption, DumpOutlivesTable, Paired,
         Invariant, Books, [Next]_vars
  PROVE  Books'
<1>1. CASE \E k \in Keys, size \in Sizes : AppMalloc(k, size) \/ AppAccess(k, size)
  BY <1>1, MallocBooks, AccessBooks
<1>2. CASE \E k \in Keys : AppFree(k)
  BY <1>2, FreeBooks
<1>3. CASE Start
  BY <1>3, StartBooks
<1>4. CASE Stop \/ UNCHANGED vars
  <2>1. UNCHANGED <<table, phase>> /\ UNCHANGED <<app, ptrs>>
        /\ (status' = "IN_TRACING" => status = "IN_TRACING")
    BY <1>4 DEF Stop, vars, exiting
  <2> QED
    BY <2>1, QuietBooks
<1>5. CASE Exit
  BY <1>5, ExitBooks
<1> QED
  BY <1>1, <1>2, <1>3, <1>4, <1>5 DEF Next

\* The books are kept in every state.
THEOREM SpecBooks ==
  ASSUME DumpOutlivesTable, Paired
  PROVE  Spec => [](Invariant /\ Books)
<1>1. Init => Invariant /\ Books
  BY InitInvariant, InitBooks, RouterAssumption
<1>2. (Invariant /\ Books) /\ [Next]_vars => (Invariant /\ Books)'
  BY StepInvariant, StepBooks, MemoryAssumption, RouterAssumption
<1> QED
  BY <1>1, <1>2, PTL DEF Spec

\* What is written is a history of allocations: no two entries of the table are
\* one, none is written twice, and each is written with one FREE.
THEOREM RecordsAreOnce ==
  ASSUME DumpOutlivesTable, Paired
  PROVE  Spec => []RecordedOnce
<1>1. Invariant /\ Books => RecordedOnce
  BY DEF Invariant, Accounting, Books, Rows, RecordedOnce
<1> QED
  BY <1>1, SpecBooks, PTL

\* Also with dropped reports: the state keeps its types (no meter below zero),
\* records are written once with one FREE, and no FREE ends a held block.
THEOREM RecordsStayWhole ==
  ASSUME DumpOutlivesTable, Paired
  PROVE  Spec => []RecordsAreWhole
<1>1. Invariant /\ Books => HeldNotFreed
  BY DEF Invariant, Books, Rows, Marked, HeldNotFreed, NoUnpromotedWhileTracing
<1>2. Invariant /\ Books => RecordsAreWhole
  BY <1>1 DEF Invariant, Books, Rows, RecordsAreWhole, TypeOK
<1> QED
  BY <1>2, SpecBooks, PTL

\* Without dropped reports, table and meters of a session are what the
\* application holds.
THEOREM TableStaysHeld ==
  ASSUME DumpOutlivesTable, ~StepFilter
  PROVE  Spec => []TableIsHeld
<1>1. Invariant /\ Books => TableIsHeld
  <2> SUFFICES ASSUME Invariant, Books, status = "IN_TRACING", phase = "running"
               PROVE  Live(states) = DOMAIN app
    BY DEF TableIsHeld, LiveIsHeld, Books
  <2>1. HeldIsOpen /\ \A k \in DOMAIN states : Marked(states[k])
    BY DEF Books, Rows
  <2>2. \A k \in DOMAIN states : states[k].shadow \in {"NORMAL", "SHADOW_PROMOTED"}
    BY DEF Invariant, NoUnpromotedWhileTracing
  <2>3. \A k \in DOMAIN states : k \in Live(states) <=> states[k].head = "MALLOC"
    BY <2>1, <2>2 DEF Live, Marked
  <2>4. Live(states) \subseteq DOMAIN states
    BY DEF Live
  <2> QED
    BY <2>1, <2>2, <2>3, <2>4 DEF HeldIsOpen, Open
<1>2. Paired
  BY DEF Paired
<1> QED
  BY <1>1, <1>2, SpecBooks, PTL
====
