------------------------- MODULE MemoryStatesProofs -------------------------
(***************************************************************************)
(* What the proofs about the pipeline need of MemoryStates: blocks and     *)
(* tables keep their types and ids, and the meters, which are sums over a  *)
(* table, follow a change of one key (SumOfPut, SumOfDelete).              *)
(*                                                                         *)
(* SumFunctionOnSet of the community modules is a fold, so facts about it  *)
(* are inductions over finite sets.  The induction theorem of the library  *)
(* takes an operator; its form with sets, that a well-founded relation has *)
(* a minimal element in every set that is not empty (WFMin), does not.     *)
(* Each proof therefore takes the set of the subsets that fail, assumes it *)
(* is not empty, and refutes one of them that has no failing proper subset *)
(* (LeastSubset).                                                          *)
(***************************************************************************)
EXTENDS MemoryStates, FiniteSetTheorems, WellFoundedInduction, TLAPS

-----------------------------------------------------------------------------
(* Sums over finite sets *)

\* Of sets of subsets of a finite set, one that is not empty has an element
\* none of whose proper subsets it has: induction over finite sets.
LEMMA LeastSubset ==
  ASSUME NEW S, IsFiniteSet(S), NEW Z \in SUBSET (SUBSET S), Z # {}
  PROVE  \E s \in Z : \A t \in SUBSET s : t # s => t \notin Z
<1> DEFINE R == StrictSubsetOrdering(S)
           F == FiniteSubsetsOf(S)
<1>1. Z \subseteq F
  BY FS_Subset DEF FiniteSubsetsOf
<1>2. IsWellFoundedOn(R, F)
  BY FS_StrictSubsetOrderingWellFounded, Zenon
<1> HIDE DEF R, F
<1>3. PICK s \in Z : \A t \in Z : ~(<<t, s>> \in R)
  BY <1>1, <1>2, WFMin, Zenon
<1>4. \A t \in SUBSET s : t # s /\ t \in Z => <<t, s>> \in R
  BY DEF R, StrictSubsetOrdering
<1>5. \A t \in SUBSET s : t # s => t \notin Z
  BY <1>3, <1>4, Zenon
<1> QED
  BY <1>5, Zenon

\* The element a fold takes first.
First(s) == CHOOSE x \in s : TRUE

\* it sums f over every subset of S.
Sums(it, f, S) ==
  it = [s \in SUBSET S |-> IF s = {} THEN 0 ELSE f[First(s)] + it[s \ {First(s)}]]

\* The fold of the community module is such a function, at S.
LEMMA SumUnfolds ==
  ASSUME NEW f, NEW S
  PROVE  SumFunctionOnSet(f, S) = (CHOOSE it : Sums(it, f, S))[S]
BY DEF SumFunctionOnSet, FoldFunctionOnSet, MapThenFoldSet, Sums, First

\* Two functions that sum f agree wherever both do.
LEMMA SumsAgree ==
  ASSUME NEW f, NEW S, NEW T, NEW g, NEW h, Sums(g, f, S), Sums(h, f, T),
         NEW U, IsFiniteSet(U), U \subseteq S, U \subseteq T
  PROVE  g[U] = h[U]
<1> DEFINE Z == {u \in SUBSET U : g[u] # h[u]}
<1> SUFFICES ASSUME Z # {} PROVE FALSE
  OBVIOUS
<1>1. PICK u \in Z : \A t \in SUBSET u : t # u => t \notin Z
  <2>1. Z \in SUBSET (SUBSET U)
    OBVIOUS
  <2> HIDE DEF Z
  <2> QED
    BY <2>1, LeastSubset
<1> DEFINE c == First(u)
<1>2. u \in SUBSET U /\ u \in SUBSET S /\ u \in SUBSET T /\ g[u] # h[u]
  OBVIOUS
<1>3. u = {} \/ c \in u
  BY DEF First
<1>4. u # {} => u \ {c} \in SUBSET u /\ u \ {c} # u
  BY <1>3
<1>5. u # {} => g[u \ {c}] = h[u \ {c}]
  BY <1>1, <1>2, <1>4
<1> HIDE DEF Z, c
<1>6. g[u] = IF u = {} THEN 0 ELSE f[c] + g[u \ {c}]
  BY <1>2 DEF Sums, c
<1>7. h[u] = IF u = {} THEN 0 ELSE f[c] + h[u \ {c}]
  BY <1>2 DEF Sums, c
<1> QED
  BY <1>2, <1>5, <1>6, <1>7

\* What the sum over s is, by whichever function sums up to there.
Value(f, s) == (CHOOSE it : Sums(it, f, s))[s]

\* For a finite set there is such a function.
LEMMA SumsExist ==
  ASSUME NEW f, NEW S, IsFiniteSet(S)
  PROVE  \E it : Sums(it, f, S)
<1> DEFINE Z == {s \in SUBSET S : ~ \E it : Sums(it, f, s)}
<1> SUFFICES ASSUME Z # {} PROVE FALSE
  OBVIOUS
<1>1. PICK s \in Z : \A t \in SUBSET s : t # s => t \notin Z
  <2>1. Z \in SUBSET (SUBSET S)
    OBVIOUS
  <2> HIDE DEF Z
  <2> QED
    BY <2>1, LeastSubset
<1>2. s \in SUBSET S /\ ~ \E it : Sums(it, f, s)
  OBVIOUS
<1>3. \A t \in SUBSET s : t # s => IsFiniteSet(t) /\ \E it : Sums(it, f, t)
  BY <1>1, <1>2, FS_Subset
<1> HIDE DEF Z
<1> DEFINE Term(t) == IF t = {} THEN 0 ELSE f[First(t)] + Value(f, t \ {First(t)})
           new == [t \in SUBSET s |-> Term(t)]
<1>4. ASSUME NEW t \in SUBSET s, t # s
      PROVE  Value(f, t) = Term(t)
  <2> DEFINE it == CHOOSE it : Sums(it, f, t)
             u == t \ {First(t)}
             iu == CHOOSE i : Sums(i, f, u)
  <2>1. Sums(it, f, t) /\ IsFiniteSet(t)
    BY <1>3, <1>4
  <2>2. it[t] = IF t = {} THEN 0 ELSE f[First(t)] + it[u]
    <3> HIDE DEF it
    <3> QED BY <2>1 DEF Sums
  <2>3. t # {} => it[u] = iu[u]
    <3>1. SUFFICES ASSUME t # {} PROVE it[u] = iu[u]
      OBVIOUS
    <3>2. First(t) \in t
      BY <3>1 DEF First
    <3>3. u \in SUBSET s /\ u # s /\ u \subseteq t
      BY <3>2
    <3>4. Sums(iu, f, u) /\ IsFiniteSet(u)
      BY <1>3, <3>3
    <3> HIDE DEF it, iu, u
    <3> QED
      BY <2>1, <3>3, <3>4, SumsAgree
  <2> QED
    BY <2>2, <2>3 DEF Value
<1>5. ASSUME NEW t \in SUBSET s, t # {}
      PROVE  new[t \ {First(t)}] = Value(f, t \ {First(t)})
  <2>1. First(t) \in t
    BY <1>5 DEF First
  <2>2. t \ {First(t)} \in SUBSET s /\ t \ {First(t)} # s
    BY <2>1
  <2> QED
    BY <1>4, <2>2
<1>6. new = [t \in SUBSET s |-> IF t = {} THEN 0 ELSE f[First(t)] + new[t \ {First(t)}]]
  <2> HIDE DEF new
  <2>1. new = [t \in SUBSET s |-> Term(t)]
    BY DEF new
  <2> QED
    BY <1>5, <2>1
<1> HIDE DEF new
<1> QED
  BY <1>2, <1>6 DEF Sums

\* So the sum unfolds: the terms of a finite set are summed one after the other.
LEMMA SumIsValue ==
  ASSUME NEW f, NEW S, IsFiniteSet(S)
  PROVE  /\ SumFunctionOnSet(f, S) = Value(f, S)
         /\ Value(f, S) = IF S = {} THEN 0 ELSE f[First(S)] + Value(f, S \ {First(S)})
<1> DEFINE it == CHOOSE i : Sums(i, f, S)
           U == S \ {First(S)}
           iu == CHOOSE i : Sums(i, f, U)
<1>1. SumFunctionOnSet(f, S) = it[S] /\ Value(f, S) = it[S] /\ Value(f, U) = iu[U]
  BY SumUnfolds DEF Value
<1>2. Sums(it, f, S)
  BY SumsExist
<1>3. Sums(iu, f, U) /\ IsFiniteSet(U) /\ U \subseteq S
  BY SumsExist, FS_Subset
<1> HIDE DEF it, iu
<1>4. it[S] = IF S = {} THEN 0 ELSE f[First(S)] + it[U]
  BY <1>2 DEF Sums
<1> HIDE DEF U
<1>5. it[U] = iu[U]
  BY <1>2, <1>3, SumsAgree
<1> QED
  BY <1>1, <1>4, <1>5 DEF U

\* A sum of numbers is a number.
LEMMA ValueType ==
  ASSUME NEW f, NEW S, IsFiniteSet(S), \A x \in S : f[x] \in Nat
  PROVE  Value(f, S) \in Nat
<1> DEFINE Z == {s \in SUBSET S : Value(f, s) \notin Nat}
<1> SUFFICES ASSUME Z # {} PROVE FALSE
  OBVIOUS
<1>1. PICK s \in Z : \A t \in SUBSET s : t # s => t \notin Z
  <2>1. Z \in SUBSET (SUBSET S)
    OBVIOUS
  <2> HIDE DEF Z
  <2> QED
    BY <2>1, LeastSubset
<1>2. s \in SUBSET S /\ Value(f, s) \notin Nat /\ IsFiniteSet(s)
  BY FS_Subset
<1>3. s # {} => First(s) \in s
  BY DEF First
<1>4. s # {} => Value(f, s \ {First(s)}) \in Nat /\ f[First(s)] \in Nat
  BY <1>1, <1>2, <1>3
<1> HIDE DEF Z
<1> QED
  BY <1>2, <1>4, SumIsValue

\* The order does not matter: any element may be taken out first.
LEMMA ValueTake ==
  ASSUME NEW f, NEW S, IsFiniteSet(S), \A x \in S : f[x] \in Nat, NEW e \in S
  PROVE  Value(f, S) = f[e] + Value(f, S \ {e})
<1> DEFINE Bad(s) == \E d \in s : Value(f, s) # f[d] + Value(f, s \ {d})
           Z == {s \in SUBSET S : Bad(s)}
<1> SUFFICES ASSUME Z # {} PROVE FALSE
  OBVIOUS
<1>1. PICK s \in Z : \A t \in SUBSET s : t # s => t \notin Z
  <2>1. Z \in SUBSET (SUBSET S)
    OBVIOUS
  <2> HIDE DEF Z
  <2> QED
    BY <2>1, LeastSubset
<1>2. s \in SUBSET S /\ Bad(s) /\ IsFiniteSet(s)
  BY FS_Subset
<1>3. PICK d \in s : Value(f, s) # f[d] + Value(f, s \ {d})
  BY <1>2
<1> DEFINE c == First(s)
<1>4. c \in s
  BY <1>3 DEF First
<1>5. Value(f, s) = f[c] + Value(f, s \ {c})
  BY <1>2, <1>3, SumIsValue
<1>6. d # c
  BY <1>3, <1>5
<1>7. ~Bad(s \ {c}) /\ ~Bad(s \ {d})
  <2>1. s \ {c} \in SUBSET s /\ s \ {c} # s /\ s \ {d} \in SUBSET s /\ s \ {d} # s
    BY <1>3, <1>4
  <2>2. s \ {c} \notin Z /\ s \ {d} \notin Z
    BY <1>1, <2>1
  <2> HIDE DEF Bad, c
  <2> QED
    BY <1>2, <2>1, <2>2
<1>8. d \in s \ {c} /\ c \in s \ {d}
  BY <1>3, <1>4, <1>6
<1>9. /\ Value(f, s \ {c}) = f[d] + Value(f, (s \ {c}) \ {d})
      /\ Value(f, s \ {d}) = f[c] + Value(f, (s \ {d}) \ {c})
  BY <1>7, <1>8
<1>10. (s \ {c}) \ {d} = (s \ {d}) \ {c}
  OBVIOUS
<1>11. f[c] \in Nat /\ f[d] \in Nat /\ Value(f, (s \ {c}) \ {d}) \in Nat
  <2>1. (s \ {c}) \ {d} \subseteq s /\ s \subseteq S
    BY <1>2
  <2>2. IsFiniteSet((s \ {c}) \ {d})
    BY <1>2, <2>1, FS_Subset
  <2>3. \A x \in (s \ {c}) \ {d} : f[x] \in Nat
    BY <2>1
  <2> HIDE DEF c
  <2> QED
    BY <1>2, <1>3, <1>4, <2>2, <2>3, ValueType
<1> HIDE DEF c, Z, Bad
<1>12. /\ Value(f, s) = f[c] + (f[d] + Value(f, (s \ {c}) \ {d}))
       /\ f[d] + Value(f, s \ {d}) = f[d] + (f[c] + Value(f, (s \ {c}) \ {d}))
  BY <1>5, <1>9, <1>10
<1>13. \A i, j, k \in Nat : i + (j + k) = j + (i + k)
  OBVIOUS
<1>14. Value(f, s) = f[d] + Value(f, s \ {d})
  BY <1>11, <1>12, <1>13, Zenon
<1> QED
  BY <1>3, <1>14

\* Only what f is on the set counts.
LEMMA ValueSame ==
  ASSUME NEW f, NEW g, NEW S, IsFiniteSet(S), \A x \in S : f[x] = g[x]
  PROVE  Value(f, S) = Value(g, S)
<1> DEFINE Z == {s \in SUBSET S : Value(f, s) # Value(g, s)}
<1> SUFFICES ASSUME Z # {} PROVE FALSE
  OBVIOUS
<1>1. PICK s \in Z : \A t \in SUBSET s : t # s => t \notin Z
  <2>1. Z \in SUBSET (SUBSET S)
    OBVIOUS
  <2> HIDE DEF Z
  <2> QED
    BY <2>1, LeastSubset
<1>2. s \in SUBSET S /\ Value(f, s) # Value(g, s) /\ IsFiniteSet(s)
  BY FS_Subset
<1>3. s # {} => First(s) \in s
  BY DEF First
<1>4. s # {} => Value(f, s \ {First(s)}) = Value(g, s \ {First(s)}) /\ f[First(s)] = g[First(s)]
  BY <1>1, <1>2, <1>3
<1> HIDE DEF Z
<1> QED
  BY <1>2, <1>4, SumIsValue

-----------------------------------------------------------------------------
(* What is used of sums *)

\* The sum of nothing, and of numbers.
THEOREM SumType ==
  ASSUME NEW f, NEW S, IsFiniteSet(S), \A x \in S : f[x] \in Nat
  PROVE  /\ SumFunctionOnSet(f, S) \in Nat
         /\ S = {} => SumFunctionOnSet(f, S) = 0
<1>1. SumFunctionOnSet(f, S) = Value(f, S) /\ (S = {} => Value(f, S) = 0)
  BY SumIsValue, Zenon
<1>2. Value(f, S) \in Nat
  BY ValueType, Zenon
<1> QED
  BY <1>1, <1>2, Zenon

\* One element more, or one less.
LEMMA SumTake ==
  ASSUME NEW f, NEW S, IsFiniteSet(S), \A x \in S : f[x] \in Nat, NEW e \in S
  PROVE  SumFunctionOnSet(f, S) = f[e] + SumFunctionOnSet(f, S \ {e})
<1>1. IsFiniteSet(S \ {e})
  BY FS_RemoveElement, Zenon
<1>2. SumFunctionOnSet(f, S) = Value(f, S)
  BY SumIsValue, Zenon
<1>3. SumFunctionOnSet(f, S \ {e}) = Value(f, S \ {e})
  BY <1>1, SumIsValue, Zenon
<1>4. Value(f, S) = f[e] + Value(f, S \ {e})
  BY ValueTake
<1> QED
  BY <1>2, <1>3, <1>4, Zenon

\* Functions that agree on the set have one sum.
THEOREM SumSame ==
  ASSUME NEW f, NEW g, NEW S, IsFiniteSet(S), \A x \in S : f[x] = g[x]
  PROVE  SumFunctionOnSet(f, S) = SumFunctionOnSet(g, S)
<1>1. SumFunctionOnSet(f, S) = Value(f, S) /\ SumFunctionOnSet(g, S) = Value(g, S)
  BY SumIsValue, Zenon
<1>2. Value(f, S) = Value(g, S)
  BY ValueSame, Zenon
<1> QED
  BY <1>1, <1>2, Zenon

-----------------------------------------------------------------------------
(* Blocks and tables *)

\* A new block has the type of a block.
LEMMA NewBlockType ==
  ASSUME NEW n \in Nat, NEW kind \in Kinds, NEW size \in Nat, NEW shadow \in ShadowStates
  PROVE  /\ NewBlock(n, kind, size, shadow) \in Blocks
         /\ NewBlock(n, kind, size, shadow).id = n
         /\ NewBlock(n, kind, size, shadow).shadow = shadow
BY DEF NewBlock, Blocks

\* Adding an event to a block changes neither its id nor its shadow state.
LEMMA WithEventType ==
  ASSUME NEW b \in Blocks, NEW kind \in Kinds
  PROVE  /\ WithEvent(b, kind) \in Blocks
         /\ WithEvent(b, kind).id = b.id
         /\ WithEvent(b, kind).shadow = b.shadow
<1> DEFINE f == b.frees + (IF kind = "FREE" THEN 1 ELSE 0)
<1>1. f \in Nat
  BY DEF Blocks
<1>2. WithEvent(b, kind) = [b EXCEPT !.tail = kind, !.frees = f]
  BY DEF WithEvent
<1> HIDE DEF f
<1>3. QED
  BY <1>1, <1>2 DEF Blocks

\* Appending an event to one block of a table keeps the table's ids.
LEMMA AppendedTable ==
  ASSUME NEW tbl, IsTable(tbl), NEW j \in DOMAIN tbl, NEW kind \in Kinds
  PROVE  LET new == [tbl EXCEPT ![j] = WithEvent(@, kind)]
         IN /\ IsTable(new)
            /\ DOMAIN new = DOMAIN tbl
            /\ \A k \in DOMAIN tbl : /\ new[k].id = tbl[k].id
                                     /\ new[k].shadow = tbl[k].shadow
BY WithEventType DEF IsTable, IsPartial

\* Storing a block at a key.
LEMMA PutTable ==
  ASSUME NEW tbl, IsTable(tbl), NEW k \in Keys, NEW b \in Blocks
  PROVE  /\ IsTable(Put(tbl, k, b))
         /\ DOMAIN Put(tbl, k, b) = DOMAIN tbl \cup {k}
         /\ \A j \in DOMAIN tbl \cup {k} :
              Put(tbl, k, b)[j] = IF j = k THEN b ELSE tbl[j]
BY DEF Put, IsTable, IsPartial

\* Deleting a key, whether or not it has a block.
LEMMA DeleteTable ==
  ASSUME NEW tbl, IsTable(tbl), NEW k
  PROVE  /\ IsTable(Delete(tbl, k))
         /\ DOMAIN Delete(tbl, k) = DOMAIN tbl \ {k}
         /\ \A j \in DOMAIN tbl \ {k} : Delete(tbl, k)[j] = tbl[j]
BY DEF Delete, Restrict, IsTable, IsPartial

-----------------------------------------------------------------------------
(* The meters *)

\* The sizes a function holds for one meter.
OfMeter(f, m) == {k \in DOMAIN f : MeterOf(k) = m}

\* Their sum.
SumOf(f, m) == SumFunctionOnSet(f, OfMeter(f, m))

\* A sum of sizes is a number.
LEMMA SumOfType ==
  ASSUME NEW f, IsFiniteSet(DOMAIN f), \A k \in DOMAIN f : f[k] \in Nat, NEW m
  PROVE  IsFiniteSet(OfMeter(f, m)) /\ SumOf(f, m) \in Nat
<1>1. IsFiniteSet(OfMeter(f, m)) /\ \A k \in OfMeter(f, m) : f[k] \in Nat
  BY FS_Subset DEF OfMeter
<1> QED
  BY <1>1, SumType DEF SumOf

\* One allocation less.
LEMMA SumOfDelete ==
  ASSUME NEW f, IsFiniteSet(DOMAIN f), \A j \in DOMAIN f : f[j] \in Nat,
         NEW k \in DOMAIN f, NEW m
  PROVE  /\ SumOf(Delete(f, k), m) \in Nat
         /\ SumOf(f, m) = (IF m = MeterOf(k) THEN f[k] ELSE 0) + SumOf(Delete(f, k), m)
<1> DEFINE g == Delete(f, k)
           S == OfMeter(f, m)
           T == OfMeter(g, m)
<1>1. /\ DOMAIN g = DOMAIN f \ {k} /\ \A j \in DOMAIN g : g[j] = f[j]
  BY DEF Delete, Restrict
<1> HIDE DEF g
<1>2. IsFiniteSet(DOMAIN g) /\ \A j \in DOMAIN g : g[j] \in Nat
  BY <1>1, FS_RemoveElement
<1>3. IsFiniteSet(S) /\ IsFiniteSet(T) /\ SumOf(g, m) \in Nat
  BY <1>2, SumOfType
<1>4. T = S \ {k} /\ (k \in S <=> m = MeterOf(k)) /\ \A j \in T : g[j] = f[j]
  BY <1>1 DEF OfMeter
<1>5. \A j \in S : f[j] \in Nat
  BY DEF OfMeter
<1> HIDE DEF S, T
<1>6. SumFunctionOnSet(g, T) = SumFunctionOnSet(f, T)
  BY <1>3, <1>4, SumSame
<1>7. SumOf(f, m) = SumFunctionOnSet(f, S) /\ SumOf(g, m) = SumFunctionOnSet(f, T)
  BY <1>6 DEF SumOf, S, T
<1>8. CASE m = MeterOf(k)
  <2>1. SumFunctionOnSet(f, S) = f[k] + SumFunctionOnSet(f, T)
    BY <1>3, <1>4, <1>5, <1>8, SumTake
  <2> QED
    BY <1>3, <1>7, <1>8, <2>1 DEF g
<1>9. CASE m # MeterOf(k)
  <2>1. S = T
    BY <1>4, <1>9
  <2> QED
    BY <1>3, <1>7, <1>9, <2>1 DEF g
<1> QED
  BY <1>8, <1>9

\* One allocation more.
LEMMA SumOfPut ==
  ASSUME NEW f, IsFiniteSet(DOMAIN f), \A j \in DOMAIN f : f[j] \in Nat,
         NEW k, k \notin DOMAIN f, NEW size \in Nat, NEW m
  PROVE  SumOf(Put(f, k, size), m) = (IF m = MeterOf(k) THEN size ELSE 0) + SumOf(f, m)
<1> DEFINE g == Put(f, k, size)
<1>1. /\ DOMAIN g = DOMAIN f \cup {k} /\ g[k] = size /\ \A j \in DOMAIN f : g[j] = f[j]
  BY DEF Put
<1>2. IsFiniteSet(DOMAIN g) /\ \A j \in DOMAIN g : g[j] \in Nat
  BY <1>1, FS_AddElement
<1> HIDE DEF g
<1>3. /\ SumOf(Delete(g, k), m) \in Nat
      /\ SumOf(g, m) = (IF m = MeterOf(k) THEN size ELSE 0) + SumOf(Delete(g, k), m)
  BY <1>1, <1>2, SumOfDelete
<1> DEFINE h == Delete(g, k)
<1>4. DOMAIN h = DOMAIN f /\ \A j \in DOMAIN f : h[j] = f[j]
  BY <1>1 DEF Delete, Restrict
<1> HIDE DEF h
<1>5. OfMeter(h, m) = OfMeter(f, m) /\ \A j \in OfMeter(f, m) : h[j] = f[j]
  BY <1>4 DEF OfMeter
<1>6. SumFunctionOnSet(h, OfMeter(f, m)) = SumFunctionOnSet(f, OfMeter(f, m))
  BY <1>5, SumOfType, SumSame
<1>7. SumOf(h, m) = SumOf(f, m)
  BY <1>5, <1>6 DEF SumOf
<1> QED
  BY <1>3, <1>7 DEF h, g

\* The meters stay numbers whatever they are charged with.
LEMMA ChargedType ==
  ASSUME NEW u \in [Meters -> Nat], NEW m, NEW delta \in Int
  PROVE  /\ Charged(u, m, delta) \in [Meters -> Nat]
         /\ \A n \in Meters :
              Charged(u, m, delta)[n] =
                IF n = m THEN IF u[n] + delta < 0 THEN 0 ELSE u[n] + delta ELSE u[n]
<1> DEFINE v(n) == IF n = m THEN IF u[n] + delta < 0 THEN 0 ELSE u[n] + delta ELSE u[n]
<1>1. \A n \in Meters : v(n) \in Nat
  OBVIOUS
<1>2. Charged(u, m, delta) = [n \in Meters |-> v(n)]
  BY DEF Charged
<1> QED
  BY <1>1, <1>2

\* A peak stays a number.
LEMMA RaisedType ==
  ASSUME NEW p \in [Meters -> Nat], NEW m, NEW level, m \in Meters => level \in Nat
  PROVE  Raised(p, m, level) \in [Meters -> Nat]
BY DEF Raised

\* The baseline of a start is a number for each meter.
LEMMA BaselineType ==
  ASSUME NEW tbl, IsTable(tbl), IsFiniteSet(DOMAIN tbl)
  PROVE  Baseline(tbl) \in [Meters -> Nat]
<1> SUFFICES ASSUME NEW m \in Meters
             PROVE  SizeIn(tbl, m) \in Nat
  BY DEF Baseline
<1> DEFINE S == {k \in Live(tbl) : MeterOf(k) = m}
<1>1. S \subseteq DOMAIN tbl
  BY DEF Live
<1>2. \A k \in DOMAIN tbl : SizesOf(tbl)[k] \in Nat
  BY DEF SizesOf, IsTable, IsPartial, Blocks
<1>3. IsFiniteSet(S) /\ \A k \in S : SizesOf(tbl)[k] \in Nat
  BY <1>1, <1>2, FS_Subset
<1> HIDE DEF S
<1>4. SumFunctionOnSet(SizesOf(tbl), S) \in Nat
  BY <1>3, SumType
<1> QED
  BY <1>4 DEF SizeIn, S

\* When the live blocks are what the application holds, so is the baseline.
LEMMA BaselineIsHeld ==
  ASSUME NEW tbl, NEW f, IsFiniteSet(DOMAIN f),
         Live(tbl) = DOMAIN f, \A k \in DOMAIN f : tbl[k].size = f[k], NEW m \in Meters
  PROVE  Baseline(tbl)[m] = SumOf(f, m)
<1>1. {k \in Live(tbl) : MeterOf(k) = m} = OfMeter(f, m)
  BY DEF OfMeter
<1>2. IsFiniteSet(OfMeter(f, m)) /\ \A k \in OfMeter(f, m) : SizesOf(tbl)[k] = f[k]
  BY FS_Subset DEF OfMeter, SizesOf, Live
<1>3. SumFunctionOnSet(SizesOf(tbl), OfMeter(f, m)) = SumFunctionOnSet(f, OfMeter(f, m))
  BY <1>2, SumSame
<1> QED
  BY <1>1, <1>3 DEF Baseline, SizeIn, SumOf
=============================================================================
