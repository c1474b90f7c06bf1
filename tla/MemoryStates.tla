---------------------------- MODULE MemoryStates ----------------------------
(***************************************************************************)
(* The table of memory blocks that MemoryStateManager keeps, and the       *)
(* operations on it that the event pipeline is built from                  *)
(* (src/csrc/analysis/memory_state_manager.{h,cpp}).                       *)
(*                                                                         *)
(* A table is a function from the keys that have a state to their blocks.  *)
(* A key is <<pool, device, addr>>: the process id of the code's key never *)
(* varies, because the table lives inside the profiled process.  A block   *)
(* keeps what the code branches on: its allocation id and size, its shadow *)
(* state, the kind of the first and of the last event of its event list,   *)
(* and how many FREE events the list holds.                                *)
(***************************************************************************)
EXTENDS Integers, FiniteSets, FiniteSetsExt, Functions

CONSTANTS
  Pools,            \* pool types: HAL, HOST, PTA_CACHING, ...
  BackfillPools,    \* the pools whose FREE takes its size from the block (HAL, HOST)
  Devices,          \* device ids that pass the 0..15 range check
  Addrs,            \* addresses
  Sizes             \* sizes of allocations

ASSUME MemoryAssumption ==
  /\ BackfillPools \subseteq Pools
  /\ Addrs \subseteq Nat
  /\ Sizes \subseteq Nat \ {0}

Keys == Pools \X Devices \X Addrs
Meters == Pools \X Devices          \* one used/peak pair per pool and device

PoolOf(k)   == k[1]
AddrOf(k)   == k[3]
MeterOf(k)  == <<k[1], k[2]>>

Kinds == {"MALLOC", "FREE", "ACCESS"}
ShadowStates == {"NORMAL", "SHADOW_CREATED", "SHADOW_PROMOTED", "SHADOW_FREED"}

Blocks ==
  [id : Nat, size : Nat, shadow : ShadowStates, head : Kinds, tail : Kinds, frees : Nat]

\* f is a function from some of the elements of D to elements of R.
IsPartial(f, D, R) == DOMAIN f \subseteq D /\ f \in [DOMAIN f -> R]

IsTable(tbl) == IsPartial(tbl, Keys, Blocks)

-----------------------------------------------------------------------------
(* Tables *)

Put(tbl, k, b) == [j \in DOMAIN tbl \cup {k} |-> IF j = k THEN b ELSE tbl[j]]

\* DeteleState: a key without a state is left alone.
Delete(tbl, k) == Restrict(tbl, DOMAIN tbl \ {k})

\* FindStateByPidAndAddr: block j of table tbl covers the size bytes at key k.
Covers(tbl, j, k, size) ==
  /\ MeterOf(j) = MeterOf(k)
  /\ AddrOf(k) >= AddrOf(j)
  /\ AddrOf(k) + size <= AddrOf(j) + tbl[j].size

\* Mutant: no exact lookup before the containment scan.
Located_ScanOnly(tbl, k, size) == {j \in DOMAIN tbl : Covers(tbl, j, k, size)}

\* The states AddEvent may attach a FREE or ACCESS to: the one with the same
\* key, else any that covers the address (the hash order picks one).
Located(tbl, k, size) ==
  IF k \in DOMAIN tbl THEN {k} ELSE {j \in DOMAIN tbl : Covers(tbl, j, k, size)}

\* The constructor MemoryState(event).
NewBlock(n, kind, size, shadow) ==
  [id |-> n, size |-> size, shadow |-> shadow, head |-> kind, tail |-> kind,
   frees |-> IF kind = "FREE" THEN 1 ELSE 0]

\* events.push_back of an event of this kind.
WithEvent(b, kind) ==
  [b EXCEPT !.tail = kind, !.frees = @ + (IF kind = "FREE" THEN 1 ELSE 0)]

\* QueryLiveBlocksLocked with the default filter.
Live(tbl) ==
  {k \in DOMAIN tbl : /\ tbl[k].head = "MALLOC"
                      /\ tbl[k].tail # "FREE"
                      /\ tbl[k].shadow \notin {"SHADOW_CREATED", "SHADOW_FREED"}}

\* Mutants: promotion takes every freed block; promotes nothing; erases nothing.
Expired_AnyFreed(tbl) ==
  {k \in DOMAIN tbl : tbl[k].shadow = "SHADOW_FREED" \/ tbl[k].tail = "FREE"}
PromotedBlock_Kept(b) == b

\* PromoteShadowStates: the states it writes out and erases, and what is left.
Expired(tbl)  == {k \in DOMAIN tbl : tbl[k].shadow = "SHADOW_FREED"}
PromotedBlock(b) ==
  IF b.shadow = "SHADOW_CREATED" THEN [b EXCEPT !.shadow = "SHADOW_PROMOTED"] ELSE b
Promoted_NoErase(tbl) == [k \in DOMAIN tbl |-> PromotedBlock(tbl[k])]
Promoted(tbl) == [k \in DOMAIN tbl \ Expired(tbl) |-> PromotedBlock(tbl[k])]

-----------------------------------------------------------------------------
(* Usage meters *)

SizesOf(tbl) == [k \in DOMAIN tbl |-> tbl[k].size]
SizeIn(tbl, m) == SumFunctionOnSet(SizesOf(tbl), {k \in Live(tbl) : MeterOf(k) = m})

\* ResetUsageBaseline: rebuild the current values from the live blocks.
Baseline(tbl) == [m \in Meters |-> SizeIn(tbl, m)]

\* UpdateUsage: signed change, truncated at zero; the peak follows the result.
Charged(used, m, delta) ==
  [used EXCEPT ![m] = IF @ + delta < 0 THEN 0 ELSE @ + delta]
Raised(peak, m, level) ==
  [peak EXCEPT ![m] = IF level > @ THEN level ELSE @]

\* Mutant: the size is never filled in.
FreedSize_OfEvent(tbl, j, size) == size

\* The size a FREE is charged with: for HAL and HOST the size of the allocation
\* it closes, otherwise the size the event itself carries.
FreedSize(tbl, j, size) ==
  IF PoolOf(j) \in BackfillPools
  THEN IF tbl[j].head = "MALLOC" THEN tbl[j].size ELSE 0
  ELSE size
=============================================================================
