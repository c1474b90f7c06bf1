----------------------------- MODULE BlockTable -----------------------------
(***************************************************************************)
(* A shard of the table of live host blocks (BlockShard,                   *)
(* host_mem_hooks.cpp): open addressing with linear probing in an array    *)
(* whose capacity is a power of two, doubled when seven tenths are full;   *)
(* a removal moves later entries back and leaves no tombstone.  The heap   *)
(* of HostHeap uses the map that this table implements.  All operations    *)
(* hold the lock of the shard, so one is one step.                         *)
(***************************************************************************)
EXTENDS Naturals, FiniteSets

CONSTANTS
  Addrs,      \* addresses of blocks, none of them 0
  Home,       \* address -> its hash, of which a table uses the low bits
  Sizes,      \* what an entry says of its block
  InitCap,    \* capacity of the first allocation, a power of two
  MaxCount    \* g_maxBlocksPerShard

TableAssumption ==
  /\ Home \in [Addrs -> Nat] /\ 0 \notin Addrs
  /\ InitCap \in Nat \ {0, 1}

VARIABLES
  keys,       \* slot -> address or 0; empty before the first allocation
  vals,       \* slot -> size, as it was written last
  count,      \* entries in the table
  blocks      \* what the operations mean: address -> size of the blocks put in and not yet taken out

vars == <<keys, vals, count, blocks>>

Empty == 0
Cap(t) == Cardinality(DOMAIN t)
BlockBucketOf(a, cap) == Home[a] % cap

\* How far slot i lies behind slot j, around the end of the table.
Distance(i, j, cap) == (i + cap - j) % cap

\* The first slot from the home of a that holds one of ks; there is one as the
\* table is never full.
Probe(t, a, ks) ==
  LET cap == Cap(t)
      Way(i) == Distance(i, BlockBucketOf(a, cap), cap)
      hits == {i \in DOMAIN t : t[i] \in ks}
  IN CHOOSE i \in hits : \A j \in hits : Way(i) <= Way(j)

\* The entry is found before an empty slot, or it is not found.
Has(t, a) == t # <<>> /\ t[Probe(t, a, {a, Empty})] = a

-----------------------------------------------------------------------------
(* A table is a pair of the arrays *)

Fresh(cap) == [keys |-> [i \in 0..cap - 1 |-> Empty], vals |-> [i \in 0..cap - 1 |-> 0]]

Written(t, i, a, size) == [keys |-> [t.keys EXCEPT ![i] = a], vals |-> [t.vals EXCEPT ![i] = size]]

\* BlockShardGrowLocked: the entries go to a table of twice the size in the order
\* of their slots.
Moved(to, t, i) ==
  IF t.keys[i] = Empty THEN to
  ELSE Written(to, Probe(to.keys, t.keys[i], {Empty}), t.keys[i], t.vals[i])

Grown(t) ==
  LET Move[i \in 0..Cap(t.keys)] ==
        IF i = 0 THEN Fresh(2 * Cap(t.keys)) ELSE Moved(Move[i - 1], t, i - 1)
  IN Move[Cap(t.keys)]

Fits(cap) == (count + 1) * 10 <= cap * 7

\* The tables BlockShardEnsureRoomLocked may leave.  If an allocation fails the
\* block goes to the overflow book, as when the table is at its limit, and the
\* table stays as it is.
Roomy ==
  LET t == [keys |-> keys, vals |-> vals]
  IN CASE keys = <<>> -> {Fresh(InitCap)}
       [] keys # <<>> /\ Fits(Cap(keys)) -> {t}
       [] OTHER -> IF count + 1 >= Cap(keys) THEN {} ELSE {Grown(t)}

\* BlockShardRemoveAtLocked: the hole j is filled with the first entry k behind
\* it that does not pass its home, and so on to the end of the cluster.
Movable(j, k, home, cap) == Distance(j, home, cap) <= Distance(k, home, cap)

\* The slots from behind j to the next empty one.
Cluster(ks, j) ==
  LET cap == Cap(ks)
      end == CHOOSE n \in 1..cap : /\ ks[(j + n) % cap] = Empty
                                   /\ \A m \in 1..n - 1 : ks[(j + m) % cap] # Empty
  IN {(j + n) % cap : n \in 1..end - 1}

\* One turn of the loop: the hole is dug, then filled or left.
Shifted(p) ==
  LET cap == Cap(p.t.keys)
      j == p.hole
      t == Written(p.t, j, Empty, p.t.vals[j])
      movable == {k \in Cluster(t.keys, j) : Movable(j, k, BlockBucketOf(t.keys[k], cap), cap)}
      k == CHOOSE k \in movable : \A l \in movable : Distance(k, j, cap) <= Distance(l, j, cap)
  IN IF movable = {} THEN [t |-> t, hole |-> j, done |-> TRUE]
     ELSE [t |-> Written(t, j, t.keys[k], t.vals[k]), hole |-> k, done |-> FALSE]

RemoveAt(t, i) ==
  LET Fill[n \in 0..Cap(t.keys)] ==
        IF n = 0 THEN [t |-> t, hole |-> i, done |-> FALSE]
        ELSE IF Fill[n - 1].done THEN Fill[n - 1] ELSE Shifted(Fill[n - 1])
  IN Fill[Cap(t.keys)].t

-----------------------------------------------------------------------------
Becomes(t) == keys' = t.keys /\ vals' = t.vals

\* InsertBlock: an entry that a lost free has left is overwritten.  ReinsertBlock
\* inserts what is not there.
InsertBlock(a, size) ==
  /\ count < MaxCount
  /\ \E t \in Roomy :
       /\ Becomes(Written(t, Probe(t.keys, a, {a, Empty}), a, size))
       /\ count' = IF Has(t.keys, a) THEN count ELSE count + 1
  /\ blocks' = [x \in DOMAIN blocks \cup {a} |-> IF x = a THEN size ELSE blocks[x]]

\* CaptureAndRemoveBlock.
CaptureAndRemoveBlock(a) ==
  /\ Has(keys, a)
  /\ Becomes(RemoveAt([keys |-> keys, vals |-> vals], Probe(keys, a, {a})))
  /\ count' = count - 1
  /\ blocks' = [x \in DOMAIN blocks \ {a} |-> blocks[x]]

Init == keys = <<>> /\ vals = <<>> /\ count = 0 /\ blocks = <<>>

Next == \E a \in Addrs : (\E size \in Sizes : InsertBlock(a, size)) \/ CaptureAndRemoveBlock(a)

-----------------------------------------------------------------------------
(* Properties *)

\* The table is the map of the blocks: whatever was inserted, overwritten and
\* removed before, in clusters that run around the end and across a growth, each
\* block is found with its size, nothing else is, and the count is theirs
\* (BlockShardRemoveAtLocked and the probes of InsertBlock and
\* CaptureAndRemoveBlock).
FindsExactly ==
  /\ \A a \in Addrs : Has(keys, a) <=> a \in DOMAIN blocks
  /\ \A a \in DOMAIN blocks : vals[Probe(keys, a, {a})] = blocks[a]
  /\ count = Cardinality(DOMAIN blocks)
  /\ {keys[i] : i \in DOMAIN keys} \ {Empty} = DOMAIN blocks

\* A probe ends: a slot stays empty (host_mem_hooks.cpp:1188).
ProbesEnd == keys # <<>> => Empty \in {keys[i] : i \in DOMAIN keys}

TableIsMap == FindsExactly /\ ProbesEnd
=============================================================================
