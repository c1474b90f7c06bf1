---------------------------- MODULE HostSeries ----------------------------
(***************************************************************************)
(* The series of samples behind the growth rate of a stack: the warm-up    *)
(* thread appends a row for the largest stacks at every beat of a window   *)
(* (host_mem_hooks.cpp), folds a series that is full, evicts one when the  *)
(* slots are; the analyzer joins the rows of a stack and fits a line       *)
(* through them (host_confidence.cpp).                                     *)
(*                                                                         *)
(* Every stack holds one byte throughout, so a row that covers n beats     *)
(* without a gap has the sum n: what the fold and the regression have to   *)
(* preserve is which beats a row stands for.                               *)
(***************************************************************************)
EXTENDS Naturals, FiniteSets, Sequences, SequencesExt

CONSTANTS
  Series,       \* the stacks with live blocks
  TopK,         \* stacks recorded per beat
  MaxSlots,     \* SERIES_MAX_STACKS
  MaxRows,      \* SERIES_MAX_ROWS, an even number
  MaxArchived,  \* SERIES_MAX_EVICTED
  WarmupBeats   \* beats the regression leaves out

ASSUME SeriesAssumption ==
  /\ TopK \in Nat /\ MaxSlots \in Nat \ {0} /\ MaxArchived \in Nat /\ WarmupBeats \in Nat
  /\ MaxRows \in {n \in Nat : n > 0 /\ n % 2 = 0}

VARIABLES
  slots,     \* g_seriesSlots: a stack's rows and the beat it was last seen
  archive,   \* g_seriesEvicted: the evicted series, the oldest first
  beat,      \* g_seriesBeat
  recorded   \* the beats each stack was recorded at, and the archives dropped

seriesVars == <<slots, archive, beat, recorded>>

NoSeries == [s \in {} |-> [rows |-> <<>>, seen |-> 0]]
NothingRecorded == [beats |-> [s \in Series |-> {}], dropped |-> FALSE]

Row(b, n) == [beat |-> b, sum |-> n]

\* Mutant: the row starts where the second did.
Folded_Second(rows) ==
  [i \in 1..Len(rows) \div 2 |-> Row(rows[2 * i].beat, rows[2 * i - 1].sum + rows[2 * i].sum)]

\* FoldSeriesRowsHalf: neighbours become one row that starts where the first did.
Folded(rows) ==
  [i \in 1..Len(rows) \div 2 |-> Row(rows[2 * i - 1].beat, rows[2 * i - 1].sum + rows[2 * i].sum)]

Appended(rows) == Append(IF Len(rows) >= MaxRows THEN Folded(rows) ELSE rows, Row(beat, 1))

\* EvictSeriesSlot takes a stack that has not been seen for longest.
Victims(sl) == {s \in DOMAIN sl : \A u \in DOMAIN sl : sl[s].seen <= sl[u].seen}

Filed(old, s, rows) ==
  Append(IF Len(old) >= MaxArchived THEN Tail(old) ELSE old, [stack |-> s, rows |-> rows])

Extended(sl, s) ==
  [u \in DOMAIN sl \cup {s} |->
     IF u # s THEN sl[u]
     ELSE [rows |-> Appended(IF s \in DOMAIN sl THEN sl[s].rows ELSE <<>>), seen |-> beat]]

\* RecordSeriesRow for one stack after the other; state is a record of the slots,
\* the archive and whether an archived series was dropped.
Recorded(state, s, order) ==
  IF s \in DOMAIN state.slots \/ Cardinality(DOMAIN state.slots) < MaxSlots
  THEN [state EXCEPT !.slots = Extended(@, s)]
  ELSE LET v == SelectSeq(order, LAMBDA u : u \in Victims(state.slots))[1] IN
       [slots   |-> Extended([u \in DOMAIN state.slots \ {v} |-> state.slots[u]], s),
        archive |-> Filed(state.archive, v, state.slots[v].rows),
        dropped |-> state.dropped \/ Len(state.archive) >= MaxArchived]

\* SampleTopLeaks: the largest stacks in order of size, a shard that is locked is
\* left out this time.  Of several victims the hash map decides.
Beat == \E largest \in {q \in SeqOf(Series, TopK) : IsInjective(q)}, order \in SetToSeqs(Series) :
  LET after == FoldLeft(LAMBDA state, s : Recorded(state, s, order),
                        [slots |-> slots, archive |-> archive, dropped |-> recorded.dropped],
                        largest)
  IN /\ slots' = after.slots /\ archive' = after.archive
     /\ recorded' = [beats |-> [s \in Series |-> IF s \in Range(largest)
                                                THEN recorded.beats[s] \cup {beat}
                                                ELSE recorded.beats[s]],
                     dropped |-> after.dropped]
     /\ beat' = beat + 1

SeriesInit == slots = NoSeries /\ archive = <<>> /\ beat = 0 /\ recorded = NothingRecorded

\* ClearTables.
SeriesCleared == slots' = NoSeries /\ archive' = <<>> /\ beat' = 0 /\ recorded' = NothingRecorded

-----------------------------------------------------------------------------
(* What the analyzer makes of the rows *)

\* SvcDumpUnfreedSeries hands over the slots, then the archive with its mark.
Archived(s) == SelectSeq(archive, LAMBDA f : f.stack = s)
Delivered(s) ==
  (IF s \in DOMAIN slots THEN slots[s].rows ELSE <<>>)
  \o FlattenSeq([i \in 1..Len(Archived(s)) |-> Archived(s)[i].rows])

Evicted(s) == Archived(s) # <<>>

\* Compute: an evicted or missing series is not used, the rows of the others are
\* sorted by beat.
Usable(s) == Delivered(s) # <<>> /\ ~Evicted(s)
Rows(s) == SortSeq(Delivered(s), LAMBDA a, b : a.beat < b.beat)

Max1(n) == IF n < 1 THEN 1 ELSE n

\* BuildRegPoints: a row weighs as many beats as it is away from the next.
Points(rows) ==
  LET span(i) == IF i = Len(rows) THEN 1 ELSE Max1(rows[i + 1].beat - rows[i].beat)
  IN {[x |-> rows[i].beat, sum |-> rows[i].sum, span |-> span(i)] :
        i \in {j \in 1..Len(rows) : rows[j].beat >= WarmupBeats}}

-----------------------------------------------------------------------------
(* Properties *)

First(s) == CHOOSE b \in recorded.beats[s] : \A c \in recorded.beats[s] : b <= c
Since(s) == First(s)..(beat - 1)

\* A series that goes into the regression never shows more than the stack held: a
\* stack that stays constant and was recorded at every beat since it appeared lies
\* on a flat line, whatever was folded, and one that was missed at some beat is
\* shown lower there, never higher; unless an archived series had to be dropped,
\* the series starts with the first beat at which the stack was recorded.
GrowthIsReal == \A s \in Series : Usable(s) =>
  /\ \A p \in Points(Rows(s)) :
       /\ p.sum <= p.span
       /\ ~recorded.dropped /\ recorded.beats[s] = Since(s) => p.sum = p.span
  /\ ~recorded.dropped => Rows(s)[1].beat = First(s)
=============================================================================
