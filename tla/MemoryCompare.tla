---------------------------- MODULE MemoryCompare ----------------------------
(***************************************************************************)
(* --compare aligns the operators and kernels of two dumps with the        *)
(* algorithm of Myers and writes the memory of both sides                  *)
(* (memory_compare.cpp).  BuildPath extends, difference by difference, the *)
(* furthest path on every diagonal; BuildDiff walks the path that reached  *)
(* the end backwards; the file holds its rows in reverse.                  *)
(*                                                                         *)
(* One device.  A line of a dump, in the order of the timestamps, is the   *)
(* name of an operator, the size of an event of the framework, or Broken.  *)
(***************************************************************************)
EXTENDS Integers, Sequences, FiniteSets, SequencesExt

CONSTANTS
  Files,    \* dumps: sequences of lines
  Sizes,    \* the lines that are sizes, not names
  Kernels,  \* the names that are kernels, the others are operators
  Invalid,  \* the names with a bad first character
  Broken    \* a line that is not as the header says, or of another framework

VARIABLES
  base, compare,  \* the two dumps
  framework,      \* of the events that have sizes
  levels,         \* levelType: "op", "kernel"
  at,             \* "read", "path", "diff", "done", "failed"
  d, k,           \* the loops of BuildPath
  diagonal,       \* diagonal -> path so far, Null for none
  path,           \* what BuildDiff has still to walk
  rows,           \* result_, in the order of the file
  late            \* a loop was broken off after MAXLOOPTIME

vars == <<base, compare, framework, levels, at, d, k, diagonal, path, rows, late>>

Null == <<>>
Nothing == 0

Level(name) == IF name \in Kernels THEN "kernel" ELSE "op"
Counts(line) == line \notin Sizes /\ Level(line) \in levels

\* framework_, which only an event with a size tells.
framework_ == IF \E line \in Sizes : Contains(base, line) \/ Contains(compare, line) THEN framework ELSE "none"

\* ReadNameIndexData: where the operators and kernels stand.  It ends with none
\* for MindSpore at the level of operators and at the first bad name.
Names(file) ==
  IF \/ "op" \in levels /\ framework_ = "MINDSPORE"
     \/ \E line \in Invalid : Counts(line) /\ Contains(file, line)
  THEN <<>>
  ELSE LET In(i) == Counts(file[i]) IN SelectSeq([i \in 1..Len(file) |-> i], In)

\* GetMemoryUsage: of the first event of the framework after the line.
MemoryUsage(file, index) ==
  LET S == {i \in index..Len(file) : file[i] \in Sizes}
  IN IF S = {} THEN 0 ELSE file[CHOOSE i \in S : \A j \in S : i <= j]

N == Len(Names(base))
M == Len(Names(compare))
BaseName(i) == base[Names(base)[i]]
CompareName(j) == compare[Names(compare)[j]]

\* ReadFile: a file with a broken line has no data.
Read ==
  /\ at = "read"
  /\ IF Contains(base, Broken) \/ Contains(compare, Broken) \/ base = <<>> \/ compare = <<>>
     THEN at' = "failed" ELSE at' = IF N + M = 0 THEN "done" ELSE "path"
  /\ UNCHANGED <<base, compare, framework, levels, d, k, diagonal, path, rows, late>>

-----------------------------------------------------------------------------
(* BuildPath *)

\* As far as the names agree.
Agree(i, j, n) == i + n <= N /\ j + n <= M /\ \A m \in 1..n : BaseName(i + m) = CompareName(j + m)

\* Mutant: one pair at a time.
Slide_One(i, j) == IF Agree(i, j, 1) THEN 1 ELSE 0

Slide(i, j) == CHOOSE n \in 0..N : Agree(i, j, n) /\ ~Agree(i, j, n + 1)

\* From above or from the left, whichever is further.
Down == k = -d \/ (k # d /\ Last(diagonal[k - 1]).i < Last(diagonal[k + 1]).i)

Extended ==
  LET prev == IF Down THEN diagonal[k + 1] ELSE diagonal[k - 1]
      i == IF Down THEN Last(prev).i ELSE Last(prev).i + 1
      same == IF i <= N /\ i - k <= M THEN Slide(i, i - k) ELSE 0
      step == Append(prev, [i |-> i, j |-> i - k, snake |-> FALSE])
  IN IF same > 0 THEN Append(step, [i |-> i + same, j |-> i - k + same, snake |-> TRUE]) ELSE step

Extend ==
  /\ at = "path"
  /\ diagonal' = [diagonal EXCEPT ![k - 1] = Null, ![k] = Extended]
  /\ LET end == Last(Extended)
         reached == end.i >= N /\ end.j >= M
     IN /\ at' = IF reached THEN "diff" ELSE "path"
        /\ path' = IF reached THEN Extended ELSE path
        /\ IF k < d THEN k' = k + 2 /\ d' = d ELSE d' = d + 1 /\ k' = -(d + 1)
  /\ UNCHANGED <<base, compare, framework, levels, rows, late>>

\* Too late: there is no path, and BuildDiff has nothing to walk.
GiveUp ==
  /\ at = "path" /\ at' = "done" /\ late' = TRUE
  /\ UNCHANGED <<base, compare, framework, levels, d, k, diagonal, path, rows>>

-----------------------------------------------------------------------------
(* BuildDiff *)

CalcuMemoryDiff(i, j) ==
  [base |-> i, compare |-> j,
   baseSize |-> IF i = Nothing THEN 0 ELSE MemoryUsage(base, Names(base)[i]),
   compareSize |-> IF j = Nothing THEN 0 ELSE MemoryUsage(compare, Names(compare)[j])]

\* The rows of the last part of the path, in the order of the file.
RowsOf(node, prev) ==
  IF node.snake
  THEN [n \in 1..(node.j - prev.j) |-> CalcuMemoryDiff(prev.i + n, prev.j + n)]
  ELSE IF prev.i < node.i THEN <<CalcuMemoryDiff(node.i, Nothing)>> ELSE <<CalcuMemoryDiff(Nothing, node.j)>>

Walk ==
  /\ at = "diff"
  /\ IF Len(path) >= 2 /\ path[Len(path) - 1].j >= 0
     THEN /\ rows' = RowsOf(Last(path), path[Len(path) - 1]) \o rows
          /\ path' = Front(path) /\ UNCHANGED at
     ELSE at' = "done" /\ UNCHANGED <<rows, path>>
  /\ UNCHANGED <<base, compare, framework, levels, d, k, diagonal, late>>

\* Too late: what was walked is written all the same.
BreakOff ==
  /\ at = "diff" /\ at' = "done" /\ late' = TRUE
  /\ UNCHANGED <<base, compare, framework, levels, d, k, diagonal, path, rows>>

-----------------------------------------------------------------------------
Init ==
  /\ base \in Files /\ compare \in Files
  /\ framework \in {"PTA", "MINDSPORE"} /\ levels \in {{"op"}, {"kernel"}, {"op", "kernel"}}
  /\ at = "read" /\ d = 0 /\ k = 0
  /\ LET max == N + M + 1
     IN diagonal = [n \in -max..max |-> IF n = 1 THEN <<[i |-> 0, j |-> -1, snake |-> TRUE]>> ELSE Null]
  /\ path = Null /\ rows = <<>> /\ late = FALSE

Next == Read \/ Extend \/ GiveUp \/ Walk \/ BreakOff

-----------------------------------------------------------------------------
(* Properties *)

\* The length of a longest common subsequence of the names from i and j on.
Longest ==
  LET f[i \in 1..N + 1, j \in 1..M + 1] ==
        CASE i > N \/ j > M -> 0
          [] i <= N /\ j <= M /\ BaseName(i) = CompareName(j) -> 1 + f[i + 1, j + 1]
          [] OTHER -> IF f[i + 1, j] > f[i, j + 1] THEN f[i + 1, j] ELSE f[i, j + 1]
  IN f[1, 1]

Column(Side(_)) == SelectSeq([n \in 1..Len(rows) |-> Side(rows[n])], LAMBDA i : i # Nothing)

\* A side is left out: its operators cannot be compared.
LeftOut(file) ==
  \/ "op" \in levels /\ framework_ = "MINDSPORE"
  \/ \E i \in 1..Len(file) : file[i] \in Invalid /\ Counts(file[i])

AllOf(file, column) ==
  IF LeftOut(file) THEN column = <<>>
  ELSE column = SetToSortSeq({i \in 1..Len(file) : Counts(file[i])}, <)

\* The table of two dumps shows every operator of the levels asked for, of either
\* side, once and in its order, pairs equal names only, and as many of them as can
\* be paired, unless it took too long (BuildPath and BuildDiff,
\* memory_compare.cpp:369).  A side with a bad name has no line in it, and MindSpore's
\* dumps have none at the level of operators (ReadNameIndexData).
AlignsAll ==
  at = "done" /\ ~late =>
    /\ AllOf(base, Column(LAMBDA r : IF r.base = Nothing THEN Nothing ELSE Names(base)[r.base]))
    /\ AllOf(compare, Column(LAMBDA r : IF r.compare = Nothing THEN Nothing ELSE Names(compare)[r.compare]))
    /\ LET pairs == {n \in 1..Len(rows) : rows[n].base # Nothing /\ rows[n].compare # Nothing}
       IN /\ \A n \in pairs : BaseName(rows[n].base) = CompareName(rows[n].compare)
          /\ Cardinality(pairs) = Longest
=============================================================================
