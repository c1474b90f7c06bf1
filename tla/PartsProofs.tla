---------------------------- MODULE PartsProofs ----------------------------
(***************************************************************************)
(* Proofs about the parts that Parts puts side by side: one section for    *)
(* each, with its inductive invariant and the lemmas that its first state  *)
(* has it and its steps keep it, and at the end the theorems, which say of *)
(* a behaviour of any part that the part's property always holds.  What a  *)
(* section says of the part's module M with instance I it says as I!Name.  *)
(***************************************************************************)
EXTENDS Parts, SequencesExt, FiniteSetsExt, SequenceTheorems, FiniteSetTheorems, WellFoundedInduction, TLAPS

-----------------------------------------------------------------------------
(* Sets of naturals *)

\* A set of naturals that is not empty has a least element.
LEMMA LeastNat ==
  ASSUME NEW S \in SUBSET Nat, S # {}
  PROVE  \E n \in S : \A m \in S : n <= m
<1> DEFINE R == {ss \in Nat \X Nat : ss[1] < ss[2]}
<1>1. IsWellFoundedOn(R, Nat)
  BY NatLessThanWellFounded DEF OpToRel
<1> HIDE DEF R
<1>2. PICK n \in S : \A m \in S : ~(<<m, n>> \in R)
  BY <1>1, WFMin, Zenon
<1>3. \A m \in Nat, k \in Nat : m < k => <<m, k>> \in R
  BY DEF R
<1>4. \A m \in S : ~(m < n)
  BY <1>2, <1>3, Zenon
<1>5. QED
  BY <1>4

\* A bounded set of naturals that is not empty has a greatest element.
LEMMA GreatestNat ==
  ASSUME NEW S \in SUBSET Nat, S # {}, NEW b \in Nat, \A x \in S : x <= b
  PROVE  \E x \in S : \A y \in S : x >= y
<1> DEFINE U == {u \in Nat : \A x \in S : x <= u}
<1>1. PICK u \in U : \A v \in U : u <= v
  <2>1. U \in SUBSET Nat /\ U # {}
    OBVIOUS
  <2> HIDE DEF U
  <2>2. QED
    BY <2>1, LeastNat
<1>2. u \in S
  <2>1. SUFFICES ASSUME u \notin S PROVE FALSE
    OBVIOUS
  <2>2. PICK x \in S : TRUE
    OBVIOUS
  <2>3. \A y \in S : y <= u - 1 /\ y \in Nat
    BY <2>1
  <2>4. u - 1 \in U
    BY <2>2, <2>3
  <2>5. QED
    BY <1>1, <2>4
<1>3. QED
  BY <1>2

-----------------------------------------------------------------------------
(* KernelLink: launches and executions *)

\* What a thread holds of a launch: its task key, once it is known, and its name.
Entries == [taskKey : TaskKeys \cup {NoKey}, kernelName : Nat]

\* What the driver has written of an execution.
Logs == [key : TaskKeys, launch : Nat, type : {"begin", "end"}]

\* The types of the variables.
LinkTyped ==
  /\ kernelNameMp \in [Launchers -> Seq(Entries)]
  /\ launching \in [Launchers -> Nat]
  /\ tasks \subseteq [key : TaskKeys, launch : Nat, begun : BOOLEAN]
  /\ channel \in Seq(Logs)
  /\ dropped \in BOOLEAN /\ tracing \in BOOLEAN
  /\ launches \in Nat

\* The entry of a launch that is under way is the last of its thread, and no key
\* has come to it.
LaunchWaits ==
  \A t \in Launchers : launching[t] # 0 =>
    kernelNameMp[t] # <<>> /\ kernelNameMp[t][Len(kernelNameMp[t])].taskKey = NoKey

\* No two entries of the threads have one key.
KeysAreOnce ==
  \A t, u \in Launchers : \A i \in 1..Len(kernelNameMp[t]), j \in 1..Len(kernelNameMp[u]) :
    kernelNameMp[t][i].taskKey # NoKey /\ kernelNameMp[t][i].taskKey = kernelNameMp[u][j].taskKey
      => t = u /\ i = j

\* What is still to come of the key of an entry is of the launch the entry names.
EntriesName ==
  \A t \in Launchers : \A i \in 1..Len(kernelNameMp[t]) :
    LET e == kernelNameMp[t][i] IN
    e.taskKey # NoKey =>
      /\ \A task \in tasks : task.key = e.taskKey => task.launch = e.kernelName
      /\ \A j \in 1..Len(channel) : channel[j].key = e.taskKey => channel[j].launch = e.kernelName

\* An entry with a key is used up by an end that is still to come.
EntriesEnd ==
  \A t \in Launchers : \A i \in 1..Len(kernelNameMp[t]) :
    LET e == kernelNameMp[t][i] IN
    e.taskKey # NoKey =>
      \/ \E task \in tasks : task.key = e.taskKey
      \/ \E j \in 1..Len(channel) : channel[j].key = e.taskKey /\ channel[j].type = "end"

\* What holds of the entries as long as no read of the log was thrown away.
Linked == KeysAreOnce /\ EntriesName /\ EntriesEnd

\* The inductive invariant.
LinkInv == LinkTyped /\ LaunchWaits /\ (dropped \/ Linked) /\ Link!NamesRight

-----------------------------------------------------------------------------
\* The log tells a task of the runtime by what it carries of the key.
LEMMA SameTaskIsKey ==
  ASSUME Link!LinkAssumption, NEW j \in TaskKeys, NEW k \in TaskKeys
  PROVE  Link!SameTask(j, k) <=> j = k
<1>1. CASE NewSoc
  <2>1. <<j[1], j[3]>> = <<k[1], k[3]>> => j = k
    BY <1>1 DEF Link!LinkAssumption
  <2>2. QED
    BY <1>1, <2>1 DEF Link!SameTask
<1>2. CASE ~NewSoc
  BY <1>2 DEF Link!SameTask
<1>3. QED
  BY <1>1, <1>2

\* What is left of a sequence when one element is taken out of it.
LEMMA RemovedAt ==
  ASSUME NEW S, NEW s \in Seq(S), NEW i \in 1..Len(s)
  PROVE  /\ Link!RemoveAt(s, i) \in Seq(S)
         /\ Len(Link!RemoveAt(s, i)) = Len(s) - 1
         /\ \A j \in 1..(Len(s) - 1) : Link!RemoveAt(s, i)[j] = IF j < i THEN s[j] ELSE s[j + 1]
<1> DEFINE a == SubSeq(s, 1, i - 1)
           b == SubSeq(s, i + 1, Len(s))
<1>1. Len(s) \in Nat
  OBVIOUS
<1>2. a \in Seq(S) /\ Len(a) = i - 1 /\ \A j \in 1..(i - 1) : a[j] = s[j]
  BY <1>1, SubSeqProperties
<1>3. b \in Seq(S) /\ Len(b) = Len(s) - i /\ \A j \in 1..(Len(s) - i) : b[j] = s[i + j]
  BY <1>1, SubSeqProperties
<1> HIDE DEF a, b
<1>4. a \o b \in Seq(S) /\ Len(a \o b) = Len(s) - 1
  <2>1. a \o b \in Seq(S) /\ Len(a \o b) = Len(a) + Len(b)
    BY <1>2, <1>3, ConcatProperties
  <2>2. QED
    BY <1>1, <1>2, <1>3, <2>1
<1>5. \A j \in 1..(Len(s) - 1) : (a \o b)[j] = IF j <= Len(a) THEN a[j] ELSE b[j - Len(a)]
  BY <1>2, <1>3, <1>4, ConcatProperties
<1>6. \A j \in 1..(Len(s) - 1) : (a \o b)[j] = IF j < i THEN s[j] ELSE s[j + 1]
  BY <1>1, <1>2, <1>3, <1>5, SMTT(30)
<1>7. QED
  BY <1>4, <1>6 DEF Link!RemoveAt, a, b

-----------------------------------------------------------------------------
\* A launch adds an entry without a key.
LEMMA KernelLaunchKeeps ==
  ASSUME LinkInv, NEW t \in Launchers, Link!KernelLaunch(t)
  PROVE  LinkInv'
<1>1. kernelNameMp[t] \in Seq(Entries) /\ Link!Unlinked \in Entries
  BY DEF LinkInv, LinkTyped, Link!Unlinked, Entries
<1> DEFINE s == kernelNameMp[t]
           n == Len(s)
<1>2. /\ kernelNameMp' = [kernelNameMp EXCEPT ![t] = Append(s, Link!Unlinked)]
      /\ launching' = [launching EXCEPT ![t] = launches + 1]
      /\ launches' = launches + 1
      /\ UNCHANGED <<tasks, channel, dropped, tracing, reported>>
  BY DEF Link!KernelLaunch
<1>3. /\ Append(s, Link!Unlinked) \in Seq(Entries) /\ n \in Nat /\ Len(Append(s, Link!Unlinked)) = n + 1
      /\ \A i \in 1..n : Append(s, Link!Unlinked)[i] = s[i]
      /\ Append(s, Link!Unlinked)[n + 1] = Link!Unlinked
  BY <1>1, AppendProperties
<1>4. /\ \A u \in Launchers : u # t => kernelNameMp'[u] = kernelNameMp[u]
      /\ kernelNameMp'[t] = Append(s, Link!Unlinked)
  BY <1>2 DEF LinkInv, LinkTyped
<1>5. LinkTyped'
  BY <1>2, <1>3 DEF LinkInv, LinkTyped
<1>6. Link!Unlinked.taskKey = NoKey
  BY DEF Link!Unlinked
<1>7. LaunchWaits'
  <2>1. kernelNameMp'[t] # <<>> /\ kernelNameMp'[t][Len(kernelNameMp'[t])].taskKey = NoKey
    BY <1>3, <1>4, <1>6
  <2>2. \A u \in Launchers : u # t => launching'[u] = launching[u] /\ kernelNameMp'[u] = kernelNameMp[u]
    BY <1>2, <1>4 DEF LinkInv, LinkTyped
  <2>3. QED
    BY <2>1, <2>2 DEF LinkInv, LaunchWaits
<1>8. ASSUME NEW u \in Launchers, NEW i \in 1..Len(kernelNameMp'[u]), kernelNameMp'[u][i].taskKey # NoKey
      PROVE  i \in 1..Len(kernelNameMp[u]) /\ kernelNameMp'[u][i] = kernelNameMp[u][i]
  BY <1>3, <1>4, <1>6, <1>8
<1> HIDE DEF s, n
<1>9. ASSUME Linked
      PROVE  Linked'
  <2>1. KeysAreOnce'
    <3>1. ASSUME NEW u \in Launchers, NEW v \in Launchers,
                 NEW i \in 1..Len(kernelNameMp'[u]), NEW j \in 1..Len(kernelNameMp'[v]),
                 kernelNameMp'[u][i].taskKey # NoKey,
                 kernelNameMp'[u][i].taskKey = kernelNameMp'[v][j].taskKey
          PROVE  u = v /\ i = j
      <4>1. i \in 1..Len(kernelNameMp[u]) /\ kernelNameMp'[u][i] = kernelNameMp[u][i]
        BY <1>8, <3>1
      <4>2. j \in 1..Len(kernelNameMp[v]) /\ kernelNameMp'[v][j] = kernelNameMp[v][j]
        BY <1>8, <3>1
      <4>3. QED
        BY <1>9, <3>1, <4>1, <4>2 DEF KeysAreOnce, Linked
    <3>2. QED
      BY <3>1 DEF KeysAreOnce
  <2>2. EntriesName'
    BY <1>2, <1>8, <1>9 DEF EntriesName, Linked
  <2>3. EntriesEnd'
    BY <1>2, <1>8, <1>9 DEF EntriesEnd, Linked
  <2>4. QED
    BY <2>1, <2>2, <2>3 DEF Linked
<1>10. QED
  BY <1>2, <1>5, <1>7, <1>9 DEF LinkInv, Link!NamesRight

\* The runtime gives the last entry of the thread a free key: one that no entry has.
LEMMA TaskInfoKeeps ==
  ASSUME Link!LinkAssumption, LinkInv, NEW t \in Launchers, NEW k \in TaskKeys, Link!RuntimeTaskInfoLaunch(t, k)
  PROVE  LinkInv'
<1> DEFINE s == kernelNameMp[t]
           n == Len(s)
           e == [taskKey |-> k, kernelName |-> launching[t]]
           task0 == [key |-> k, launch |-> launching[t], begun |-> FALSE]
<1>1. /\ launching[t] # 0 /\ Link!Free(k)
      /\ tasks' = tasks \cup {task0}
      /\ kernelNameMp' = [kernelNameMp EXCEPT ![t] = Link!LastLinked(s, k, launching[t])]
      /\ launching' = [launching EXCEPT ![t] = 0]
      /\ UNCHANGED <<channel, dropped, tracing, reported, launches>>
  BY DEF Link!RuntimeTaskInfoLaunch
<1>2. /\ s \in Seq(Entries) /\ launching[t] \in Nat /\ n \in Nat
      /\ e \in Entries /\ k # NoKey
      /\ task0 \in [key : TaskKeys, launch : Nat, begun : BOOLEAN]
  <2>1. s \in Seq(Entries) /\ launching[t] \in Nat
    BY DEF LinkInv, LinkTyped
  <2>2. n \in Nat
    BY <2>1
  <2>3. e \in Entries /\ k # NoKey
    BY <2>1 DEF Entries, Link!LinkAssumption
  <2>4. task0 \in [key : TaskKeys, launch : Nat, begun : BOOLEAN]
    BY <2>1
  <2>5. QED
    BY <2>1, <2>2, <2>3, <2>4
<1>3. s # <<>> /\ s[n].taskKey = NoKey /\ n \in 1..n
  BY <1>1, <1>2 DEF LinkInv, LaunchWaits
<1>4. Link!LastLinked(s, k, launching[t]) = [s EXCEPT ![n] = e]
  BY <1>3 DEF Link!LastLinked
<1>5. /\ [s EXCEPT ![n] = e] \in Seq(Entries) /\ Len([s EXCEPT ![n] = e]) = n
      /\ \A i \in 1..n : [s EXCEPT ![n] = e][i] = IF i = n THEN e ELSE s[i]
  BY <1>2, <1>3, ExceptSeq
<1>6. /\ \A u \in Launchers : u # t => kernelNameMp'[u] = kernelNameMp[u]
      /\ kernelNameMp'[t] = [s EXCEPT ![n] = e]
  BY <1>1, <1>4 DEF LinkInv, LinkTyped
<1>7. \A u \in Launchers : Len(kernelNameMp'[u]) = Len(kernelNameMp[u])
  BY <1>5, <1>6
<1>8. ASSUME NEW u \in Launchers, NEW i \in 1..Len(kernelNameMp[u])
      PROVE  kernelNameMp'[u][i] = IF u = t /\ i = n THEN e ELSE kernelNameMp[u][i]
  BY <1>5, <1>6
<1>9. LinkTyped'
  <2>1. tasks' \subseteq [key : TaskKeys, launch : Nat, begun : BOOLEAN]
    BY <1>1, <1>2 DEF LinkInv, LinkTyped
  <2>2. kernelNameMp' \in [Launchers -> Seq(Entries)]
    BY <1>1, <1>4, <1>5 DEF LinkInv, LinkTyped
  <2>3. launching' \in [Launchers -> Nat]
    BY <1>1 DEF LinkInv, LinkTyped
  <2>4. QED
    BY <1>1, <2>1, <2>2, <2>3 DEF LinkInv, LinkTyped
<1>10. LaunchWaits'
  <2>1. \A u \in Launchers : launching'[u] # 0 => u # t /\ launching[u] # 0
    BY <1>1 DEF LinkInv, LinkTyped
  <2>2. QED
    BY <1>6, <2>1 DEF LinkInv, LaunchWaits
<1>11. ASSUME Linked
       PROVE  Linked'
  <2>1. ASSUME NEW u \in Launchers, NEW i \in 1..Len(kernelNameMp[u])
        PROVE  kernelNameMp[u][i].taskKey # k
    <3>1. SUFFICES ASSUME kernelNameMp[u][i].taskKey = k
                   PROVE  FALSE
      OBVIOUS
    <3>2. \/ \E task \in tasks : task.key = k
          \/ \E j \in 1..Len(channel) : channel[j].key = k /\ channel[j].type = "end"
      BY <1>2, <1>11, <3>1 DEF Linked, EntriesEnd
    <3>3. QED
      BY <1>1, <3>2 DEF Link!Free
  <2>2. e.taskKey = k /\ e.kernelName = launching[t] /\ task0.key = k /\ task0.launch = launching[t]
    OBVIOUS
  <2> HIDE DEF e, s, n, task0
  <2>3. KeysAreOnce'
    <3>1. ASSUME NEW u \in Launchers, NEW v \in Launchers,
                 NEW i \in 1..Len(kernelNameMp'[u]), NEW j \in 1..Len(kernelNameMp'[v]),
                 kernelNameMp'[u][i].taskKey # NoKey,
                 kernelNameMp'[u][i].taskKey = kernelNameMp'[v][j].taskKey
          PROVE  u = v /\ i = j
      <4>1. i \in 1..Len(kernelNameMp[u]) /\ j \in 1..Len(kernelNameMp[v])
        BY <1>7
      <4>2. /\ kernelNameMp'[u][i] = IF u = t /\ i = n THEN e ELSE kernelNameMp[u][i]
            /\ kernelNameMp'[v][j] = IF v = t /\ j = n THEN e ELSE kernelNameMp[v][j]
        BY <1>8, <4>1
      <4>3. kernelNameMp[u][i].taskKey # k /\ kernelNameMp[v][j].taskKey # k
        BY <2>1, <4>1
      <4>4. CASE u = t /\ i = n
        BY <2>2, <3>1, <4>2, <4>3, <4>4
      <4>5. CASE ~(u = t /\ i = n) /\ ~(v = t /\ j = n)
        BY <1>11, <3>1, <4>1, <4>2, <4>5 DEF Linked, KeysAreOnce
      <4>6. QED
        BY <2>2, <3>1, <4>2, <4>3, <4>4, <4>5
    <3>2. QED
      BY <3>1 DEF KeysAreOnce
  <2>4. ASSUME NEW u \in Launchers, NEW i \in 1..Len(kernelNameMp'[u]), kernelNameMp'[u][i].taskKey # NoKey
        PROVE  LET f == kernelNameMp'[u][i] IN
               /\ \A task \in tasks' : task.key = f.taskKey => task.launch = f.kernelName
               /\ \A j \in 1..Len(channel') : channel'[j].key = f.taskKey => channel'[j].launch = f.kernelName
               /\ \/ \E task \in tasks' : task.key = f.taskKey
                  \/ \E j \in 1..Len(channel') : channel'[j].key = f.taskKey /\ channel'[j].type = "end"
    <3>1. i \in 1..Len(kernelNameMp[u])
      BY <1>7
    <3>2. kernelNameMp[u][i].taskKey # k
      BY <2>1, <3>1
    <3>3. CASE u = t /\ i = n
      <4>1. kernelNameMp'[u][i] = e
        BY <1>8, <3>1, <3>3
      <4>2. QED
        BY <1>1, <2>2, <4>1 DEF Link!Free
    <3>4. CASE ~(u = t /\ i = n)
      <4>1. kernelNameMp'[u][i] = kernelNameMp[u][i]
        BY <1>8, <3>1, <3>4
      <4>2. QED
        BY <1>1, <1>11, <2>2, <2>4, <3>1, <3>2, <4>1 DEF Linked, EntriesName, EntriesEnd
    <3>5. QED
      BY <3>3, <3>4
  <2>5. EntriesName' /\ EntriesEnd'
    BY <2>4 DEF EntriesName, EntriesEnd
  <2>6. QED
    BY <2>3, <2>5 DEF Linked
<1>12. QED
  BY <1>1, <1>9, <1>10, <1>11 DEF LinkInv, Link!NamesRight

\* A log is of a task that is under way; the last one of a task is its end.
LEMMA ExecuteKeeps ==
  ASSUME LinkInv, NEW task \in tasks, Link!Execute(task)
  PROVE  LinkInv'
<1> DEFINE type == IF task.begun THEN "end" ELSE "begin"
           log == Link!Log(task, type)
           n == Len(channel)
<1>1. /\ channel' = Append(channel, log)
      /\ tasks' = (tasks \ {task}) \cup {u \in {[task EXCEPT !.begun = TRUE]} : ~task.begun}
      /\ UNCHANGED <<kernelNameMp, launching, dropped, tracing, reported, launches>>
  BY DEF Link!Execute
<1>2. task \in [key : TaskKeys, launch : Nat, begun : BOOLEAN] /\ channel \in Seq(Logs)
  BY DEF LinkInv, LinkTyped
<1>3. log \in Logs /\ log.key = task.key /\ log.launch = task.launch /\ log.type = type
  BY <1>2 DEF Link!Log, Logs
<1>4. /\ channel' \in Seq(Logs) /\ n \in Nat /\ Len(channel') = n + 1
      /\ \A j \in 1..n : channel'[j] = channel[j]
      /\ channel'[n + 1] = log
  BY <1>1, <1>2, <1>3, AppendProperties
<1>5. /\ tasks' \subseteq [key : TaskKeys, launch : Nat, begun : BOOLEAN]
      /\ \A u \in tasks' : \E v \in tasks : u.key = v.key /\ u.launch = v.launch
      /\ ~task.begun => \A v \in tasks : \E u \in tasks' : u.key = v.key
      /\ \A v \in tasks : v # task => v \in tasks'
  <2>1. CASE task.begun
    BY <1>1, <2>1 DEF LinkInv, LinkTyped
  <2>2. CASE ~task.begun
    <3>1. tasks' = (tasks \ {task}) \cup {[task EXCEPT !.begun = TRUE]}
      BY <1>1, <2>2
    <3>2. /\ [task EXCEPT !.begun = TRUE] \in [key : TaskKeys, launch : Nat, begun : BOOLEAN]
          /\ [task EXCEPT !.begun = TRUE].key = task.key
          /\ [task EXCEPT !.begun = TRUE].launch = task.launch
      BY <1>2
    <3>3. QED
      BY <2>2, <3>1, <3>2 DEF LinkInv, LinkTyped
  <2>3. QED
    BY <2>1, <2>2
<1>6. LinkTyped'
  BY <1>1, <1>4, <1>5 DEF LinkInv, LinkTyped
<1>7. LaunchWaits'
  BY <1>1 DEF LinkInv, LaunchWaits
<1>8. ASSUME Linked
      PROVE  Linked'
  <2>1. KeysAreOnce'
    BY <1>1, <1>8 DEF Linked, KeysAreOnce
  <2>2. ASSUME NEW t \in Launchers, NEW i \in 1..Len(kernelNameMp[t]), kernelNameMp[t][i].taskKey # NoKey
        PROVE  LET e == kernelNameMp[t][i] IN
               /\ \A u \in tasks' : u.key = e.taskKey => u.launch = e.kernelName
               /\ \A j \in 1..Len(channel') : channel'[j].key = e.taskKey => channel'[j].launch = e.kernelName
               /\ \/ \E u \in tasks' : u.key = e.taskKey
                  \/ \E j \in 1..Len(channel') : channel'[j].key = e.taskKey /\ channel'[j].type = "end"
    <3> DEFINE e == kernelNameMp[t][i]
    <3>1. /\ \A u \in tasks : u.key = e.taskKey => u.launch = e.kernelName
          /\ \A j \in 1..n : channel[j].key = e.taskKey => channel[j].launch = e.kernelName
          /\ \/ \E u \in tasks : u.key = e.taskKey
             \/ \E j \in 1..n : channel[j].key = e.taskKey /\ channel[j].type = "end"
      BY <1>8, <2>2 DEF Linked, EntriesName, EntriesEnd
    <3> HIDE DEF e, log, n, type
    <3>2. \A u \in tasks' : u.key = e.taskKey => u.launch = e.kernelName
      BY <1>5, <3>1
    <3>3. \A j \in 1..Len(channel') : channel'[j].key = e.taskKey => channel'[j].launch = e.kernelName
      BY <1>3, <1>4, <3>1
    <3>4. CASE \E j \in 1..n : channel[j].key = e.taskKey /\ channel[j].type = "end"
      BY <1>4, <3>2, <3>3, <3>4 DEF e
    <3>5. CASE \E u \in tasks : u.key = e.taskKey
      <4>1. PICK u \in tasks : u.key = e.taskKey
        BY <3>5
      <4>2. CASE ~task.begun \/ u # task
        BY <1>5, <4>1, <4>2, <3>2, <3>3 DEF e
      <4>3. CASE task.begun /\ u = task
        <5>1. channel'[n + 1].key = e.taskKey /\ channel'[n + 1].type = "end" /\ n + 1 \in 1..Len(channel')
          BY <1>3, <1>4, <4>1, <4>3 DEF type
        <5>2. QED
          BY <3>2, <3>3, <5>1 DEF e
      <4>4. QED
        BY <4>2, <4>3
    <3>6. QED
      BY <3>1, <3>4, <3>5
  <2>3. EntriesName' /\ EntriesEnd'
    BY <1>1, <2>2 DEF EntriesName, EntriesEnd
  <2>4. QED
    BY <2>1, <2>3 DEF Linked
<1>9. QED
  BY <1>1, <1>6, <1>7, <1>8 DEF LinkInv, Link!NamesRight

\* An entry that is found for the key of a task is the one with this key.
LEMMA FoundHasKey ==
  ASSUME Link!LinkAssumption, LinkTyped, NEW t \in Launchers, NEW i \in 1..Len(kernelNameMp[t]), NEW k \in TaskKeys
  PROVE  /\ Link!Found(t, i, k) => kernelNameMp[t][i].taskKey = k /\ k # NoKey
         /\ KeysAreOnce /\ kernelNameMp[t][i].taskKey = k => Link!Found(t, i, k)
<1>1. /\ kernelNameMp[t] \in Seq(Entries)
      /\ \A j \in 1..Len(kernelNameMp[t]) : kernelNameMp[t][j] \in Entries
  BY ElementOfSeq DEF LinkTyped
<1>2. \A j \in 1..Len(kernelNameMp[t]) : kernelNameMp[t][j].taskKey \in TaskKeys \cup {NoKey}
  BY <1>1 DEF Entries
<1>3. k # NoKey
  BY DEF Link!LinkAssumption
<1>4. \A j \in 1..Len(kernelNameMp[t]) :
         kernelNameMp[t][j].taskKey # NoKey /\ Link!SameTask(kernelNameMp[t][j].taskKey, k)
           <=> kernelNameMp[t][j].taskKey = k
  BY <1>2, <1>3, SameTaskIsKey DEF Link!SameTask
<1>5. Len(kernelNameMp[t]) \in Nat
  BY <1>1
<1>6. Link!Found(t, i, k) <=> /\ kernelNameMp[t][i].taskKey = k
                         /\ \A j \in 1..(i - 1) : kernelNameMp[t][j].taskKey # k
  BY <1>4, <1>5 DEF Link!Found
<1>7. ASSUME KeysAreOnce, kernelNameMp[t][i].taskKey = k
      PROVE  \A j \in 1..(i - 1) : kernelNameMp[t][j].taskKey # k
  BY <1>3, <1>5, <1>7 DEF KeysAreOnce
<1>8. QED
  BY <1>3, <1>6, <1>7

\* What a read leaves in the channel.
LEMMA ReadTail ==
  ASSUME LinkTyped, channel # <<>>, channel' = Tail(channel)
  PROVE  /\ Head(channel) \in Logs /\ channel[1] = Head(channel) /\ 1 \in 1..Len(channel)
         /\ channel' \in Seq(Logs)
         /\ \A j \in 1..Len(channel') : j + 1 \in 1..Len(channel) /\ channel'[j] = channel[j + 1]
         /\ \A j \in 1..Len(channel) : j # 1 => j - 1 \in 1..Len(channel') /\ channel'[j - 1] = channel[j]
<1>1. channel \in Seq(Logs)
  BY DEF LinkTyped
<1>2. /\ Head(channel) \in Logs /\ Tail(channel) \in Seq(Logs)
      /\ Len(Tail(channel)) = Len(channel) - 1
      /\ \A j \in 1..Len(Tail(channel)) : Tail(channel)[j] = channel[j + 1]
  BY <1>1, HeadTailProperties
<1>3. Len(channel) \in Nat /\ Len(channel) # 0 /\ Head(channel) = channel[1]
  BY <1>1
<1>4. QED
  BY <1>2, <1>3

\* When a log is taken off the channel, what names the entries that stay stays.
LEMMA ReadKeepsLinks ==
  ASSUME LinkTyped, Linked, channel # <<>>, channel' = Tail(channel), UNCHANGED tasks, KeysAreOnce',
         \A t \in Launchers : \A i \in 1..Len(kernelNameMp'[t]) :
           \E a \in 1..Len(kernelNameMp[t]) :
             /\ kernelNameMp'[t][i] = kernelNameMp[t][a]
             /\ Head(channel).type = "end" => kernelNameMp[t][a].taskKey # Head(channel).key
  PROVE  Linked'
<1> DEFINE log == Head(channel)
<1>1. ASSUME NEW t \in Launchers, NEW i \in 1..Len(kernelNameMp'[t]), kernelNameMp'[t][i].taskKey # NoKey
      PROVE  LET e == kernelNameMp'[t][i] IN
             /\ \A u \in tasks' : u.key = e.taskKey => u.launch = e.kernelName
             /\ \A j \in 1..Len(channel') : channel'[j].key = e.taskKey => channel'[j].launch = e.kernelName
             /\ \/ \E u \in tasks' : u.key = e.taskKey
                \/ \E j \in 1..Len(channel') : channel'[j].key = e.taskKey /\ channel'[j].type = "end"
  <2> DEFINE e == kernelNameMp'[t][i]
  <2>1. PICK a \in 1..Len(kernelNameMp[t]) :
          e = kernelNameMp[t][a] /\ (log.type = "end" => kernelNameMp[t][a].taskKey # log.key)
    OBVIOUS
  <2>2. /\ \A u \in tasks : u.key = e.taskKey => u.launch = e.kernelName
        /\ \A j \in 1..Len(channel) : channel[j].key = e.taskKey => channel[j].launch = e.kernelName
        /\ \/ \E u \in tasks : u.key = e.taskKey
           \/ \E j \in 1..Len(channel) : channel[j].key = e.taskKey /\ channel[j].type = "end"
    BY <1>1, <2>1 DEF Linked, EntriesName, EntriesEnd
  <2> HIDE DEF e, log
  <2>3. \A j \in 1..Len(channel') : channel'[j].key = e.taskKey => channel'[j].launch = e.kernelName
    <3>1. \A j \in 1..Len(channel') : j + 1 \in 1..Len(channel) /\ channel'[j] = channel[j + 1]
      BY ReadTail
    <3>2. \A j \in 1..Len(channel) : channel[j].key = e.taskKey => channel[j].launch = e.kernelName
      BY <2>2
    <3>3. QED
      BY <3>1, <3>2
  <2>4. ASSUME NEW j \in 1..Len(channel), channel[j].key = e.taskKey, channel[j].type = "end"
        PROVE  \E m \in 1..Len(channel') : channel'[m].key = e.taskKey /\ channel'[m].type = "end"
    <3>1. j # 1
      BY <2>1, <2>4, ReadTail DEF log
    <3>2. j - 1 \in 1..Len(channel') /\ channel'[j - 1] = channel[j]
      BY <3>1, ReadTail
    <3>3. QED
      BY <2>4, <3>2
  <2>5. QED
    BY <2>2, <2>3, <2>4 DEF e
<1>2. EntriesName' /\ EntriesEnd'
  BY <1>1 DEF EntriesName, EntriesEnd
<1>3. QED
  BY <1>2 DEF Linked

\* A read gives the task the name of its entry, and its end takes the entry out.
LEMMA ReadLogKeeps ==
  ASSUME Link!LinkAssumption, LinkInv, Link!ReadLog
  PROVE  LinkInv'
<1> DEFINE log == Head(channel)
<1>1. /\ channel # <<>> /\ channel' = Tail(channel)
      /\ UNCHANGED <<launching, tasks, dropped, tracing, launches>>
  BY DEF Link!ReadLog
<1>2. log \in Logs /\ channel[1] = log /\ 1 \in 1..Len(channel) /\ channel' \in Seq(Logs)
  BY <1>1, ReadTail DEF LinkInv
<1>3. log.key \in TaskKeys
  BY <1>2 DEF Logs
<1>4. LinkTyped
  BY DEF LinkInv
<1>5. \A t \in Launchers : kernelNameMp[t] \in Seq(Entries) /\ Len(kernelNameMp[t]) \in Nat
  BY <1>4 DEF LinkTyped
<1>6. CASE Link!Missing(log.key) /\ UNCHANGED <<kernelNameMp, reported>>
  <2>1. ASSUME Linked
        PROVE  Linked'
    <3>1. ASSUME NEW t \in Launchers, NEW i \in 1..Len(kernelNameMp[t])
          PROVE  kernelNameMp[t][i].taskKey # log.key
      <4>1. ~Link!Found(t, i, log.key)
        BY <1>6 DEF Link!Missing
      <4>2. QED
        BY <1>3, <1>4, <2>1, <4>1, FoundHasKey DEF Linked
    <3>2. KeysAreOnce'
      BY <1>6, <2>1 DEF Linked, KeysAreOnce
    <3>3. QED
      BY <1>1, <1>4, <1>6, <2>1, <3>1, <3>2, ReadKeepsLinks
  <2>2. LinkTyped'
    BY <1>1, <1>2, <1>6 DEF LinkInv, LinkTyped
  <2>3. LaunchWaits'
    BY <1>1, <1>6 DEF LinkInv, LaunchWaits
  <2>4. QED
    BY <1>1, <1>6, <2>1, <2>2, <2>3 DEF LinkInv, Link!NamesRight
<1>7. ASSUME NEW t \in Launchers, NEW i \in 1..Len(kernelNameMp[t]), Link!KernelExcute(log, t, i)
      PROVE  LinkInv'
  <2> DEFINE s == kernelNameMp[t]
             n == Len(s)
  <2>1. s[i].taskKey = log.key /\ log.key # NoKey
    BY <1>3, <1>4, <1>7, FoundHasKey DEF Link!KernelExcute
  <2>2. ASSUME Linked
        PROVE  s[i].kernelName = log.launch
    BY <1>2, <2>1, <2>2 DEF Linked, EntriesName
  <2>3. ASSUME Linked
        PROVE  \A r \in reported' : r.name = r.launch \/ r \in reported
    BY <1>7, <2>2, <2>3 DEF Link!KernelExcute
  <2>4. CASE log.type # "end"
    <3>1. kernelNameMp' = kernelNameMp
      BY <1>7, <2>4 DEF Link!KernelExcute, Link!UsedUp
    <3>2. ASSUME Linked
          PROVE  Linked'
      <4>1. KeysAreOnce'
        BY <3>1, <3>2 DEF Linked, KeysAreOnce
      <4>2. QED
        BY <1>1, <1>4, <2>4, <3>1, <3>2, <4>1, ReadKeepsLinks
    <3>3. LinkTyped'
      BY <1>1, <1>2, <3>1 DEF LinkInv, LinkTyped
    <3>4. LaunchWaits'
      BY <1>1, <3>1 DEF LinkInv, LaunchWaits
    <3>5. QED
      BY <1>1, <2>3, <3>2, <3>3, <3>4 DEF LinkInv, Link!NamesRight
  <2>5. CASE log.type = "end"
    <3>1. kernelNameMp' = [kernelNameMp EXCEPT ![t] = Link!RemoveAt(s, i)]
      BY <1>7, <2>5 DEF Link!KernelExcute, Link!UsedUp
    <3>2. s \in Seq(Entries) /\ n \in Nat /\ i \in 1..n
      BY <1>5
    <3>3. /\ Link!RemoveAt(s, i) \in Seq(Entries) /\ Len(Link!RemoveAt(s, i)) = n - 1
          /\ \A j \in 1..(n - 1) : Link!RemoveAt(s, i)[j] = IF j < i THEN s[j] ELSE s[j + 1]
      BY <3>2, RemovedAt
    <3>4. /\ kernelNameMp'[t] = Link!RemoveAt(s, i)
          /\ \A u \in Launchers : u # t => kernelNameMp'[u] = kernelNameMp[u]
      BY <1>4, <3>1 DEF LinkTyped
    <3>5. LinkTyped'
      BY <1>1, <1>2, <1>4, <3>1, <3>3 DEF LinkTyped
    <3>6. LaunchWaits'
      <4>1. ASSUME launching[t] # 0
            PROVE  /\ Link!RemoveAt(s, i) # <<>>
                   /\ Link!RemoveAt(s, i)[Len(Link!RemoveAt(s, i))].taskKey = NoKey
        <5>1. s[n].taskKey = NoKey
          BY <4>1 DEF LinkInv, LaunchWaits
        <5>2. i # n
          BY <2>1, <5>1
        <5>3. n - 1 \in 1..(n - 1) /\ ~(n - 1 < i)
          BY <3>2, <5>2
        <5>4. Link!RemoveAt(s, i)[n - 1] = s[n]
          BY <3>2, <3>3, <5>3
        <5>5. QED
          BY <3>3, <5>1, <5>3, <5>4
      <4>2. QED
        BY <1>1, <3>4, <4>1 DEF LinkInv, LaunchWaits
    <3>7. ASSUME Linked
          PROVE  Linked'
      <4>1. ASSUME NEW u \in Launchers, NEW j \in 1..Len(kernelNameMp'[u])
            PROVE  \E a \in 1..Len(kernelNameMp[u]) :
                     /\ kernelNameMp'[u][j] = kernelNameMp[u][a]
                     /\ u = t => a = IF j < i THEN j ELSE j + 1
                     /\ u # t => a = j
        <5>1. CASE u # t
          BY <3>4, <5>1
        <5>2. CASE u = t
          <6>1. j \in 1..(n - 1) /\ kernelNameMp'[u][j] = Link!RemoveAt(s, i)[j]
            BY <3>3, <3>4, <5>2
          <6>2. (IF j < i THEN j ELSE j + 1) \in 1..n
            BY <3>2, <6>1
          <6>3. kernelNameMp'[u][j] = s[IF j < i THEN j ELSE j + 1]
            BY <3>3, <6>1
          <6>4. QED
            BY <5>2, <6>2, <6>3
        <5>3. QED
          BY <5>1, <5>2
      <4>2. KeysAreOnce'
        <5>1. ASSUME NEW u \in Launchers, NEW v \in Launchers,
                     NEW j \in 1..Len(kernelNameMp'[u]), NEW k \in 1..Len(kernelNameMp'[v]),
                     kernelNameMp'[u][j].taskKey # NoKey,
                     kernelNameMp'[u][j].taskKey = kernelNameMp'[v][k].taskKey
              PROVE  u = v /\ j = k
          <6>1. PICK a \in 1..Len(kernelNameMp[u]) :
                  /\ kernelNameMp'[u][j] = kernelNameMp[u][a]
                  /\ u = t => a = IF j < i THEN j ELSE j + 1
                  /\ u # t => a = j
            BY <4>1
          <6>2. PICK b \in 1..Len(kernelNameMp[v]) :
                  /\ kernelNameMp'[v][k] = kernelNameMp[v][b]
                  /\ v = t => b = IF k < i THEN k ELSE k + 1
                  /\ v # t => b = k
            BY <4>1
          <6>3. u = v /\ a = b
            BY <3>7, <5>1, <6>1, <6>2 DEF Linked, KeysAreOnce
          <6>4. j \in Int /\ k \in Int /\ i \in Int
            BY <3>2
          <6>5. QED
            BY <6>1, <6>2, <6>3, <6>4
        <5>2. QED
          BY <5>1 DEF KeysAreOnce
      <4>3. ASSUME NEW u \in Launchers, NEW j \in 1..Len(kernelNameMp'[u])
            PROVE  \E a \in 1..Len(kernelNameMp[u]) :
                     /\ kernelNameMp'[u][j] = kernelNameMp[u][a]
                     /\ log.type = "end" => kernelNameMp[u][a].taskKey # log.key
        <5>1. PICK a \in 1..Len(kernelNameMp[u]) :
                /\ kernelNameMp'[u][j] = kernelNameMp[u][a]
                /\ u = t => a = IF j < i THEN j ELSE j + 1
                /\ u # t => a = j
          BY <4>1
        <5>2. ~(u = t /\ a = i)
          <6>1. j \in Int /\ i \in Int
            BY <3>2
          <6>2. QED
            BY <5>1, <6>1
        <5>3. kernelNameMp[u][a].taskKey # log.key
          BY <2>1, <3>7, <5>2 DEF Linked, KeysAreOnce
        <5>4. QED
          BY <5>1, <5>3
      <4>4. QED
        BY <1>1, <1>4, <3>7, <4>2, <4>3, ReadKeepsLinks
    <3>8. QED
      BY <1>1, <2>3, <3>5, <3>6, <3>7 DEF LinkInv, Link!NamesRight
  <2>6. QED
    BY <2>4, <2>5
<1>8. QED
  BY <1>6, <1>7 DEF Link!ReadLog

\* It holds at first.
LEMMA LinkInit ==
  ASSUME Link!LinkAssumption, Link!Init
  PROVE  LinkInv
<1>1. \A t \in Launchers : kernelNameMp[t] = <<>> /\ launching[t] = 0 /\ Len(kernelNameMp[t]) = 0
  BY DEF Link!Init
<1>2. LinkTyped
  BY EmptySeq DEF Link!Init, LinkTyped
<1>3. LaunchWaits
  BY <1>1 DEF LaunchWaits
<1>4. Linked
  <2>1. KeysAreOnce
    BY <1>1 DEF KeysAreOnce
  <2>2. EntriesName
    BY <1>1 DEF EntriesName
  <2>3. EntriesEnd
    BY <1>1 DEF EntriesEnd
  <2>4. QED
    BY <2>1, <2>2, <2>3 DEF Linked
<1>5. Link!NamesRight
  BY DEF Link!Init, Link!NamesRight
<1>6. QED
  BY <1>2, <1>3, <1>4, <1>5 DEF LinkInv

\* Every step keeps it.
LEMMA LinkNext ==
  ASSUME Link!LinkAssumption, LinkInv, [Link!Next]_Link!vars
  PROVE  LinkInv'
<1>1. ASSUME NEW t \in Launchers, Link!KernelLaunch(t)
      PROVE  LinkInv'
  BY <1>1, KernelLaunchKeeps
<1>2. ASSUME NEW t \in Launchers, Link!LaunchFails(t)
      PROVE  LinkInv'
  <2>1. /\ launching' = [launching EXCEPT ![t] = 0]
        /\ UNCHANGED <<kernelNameMp, tasks, channel, dropped, tracing, reported, launches>>
    BY <1>2 DEF Link!LaunchFails
  <2>2. LinkTyped' /\ LaunchWaits'
    BY <2>1 DEF LinkInv, LinkTyped, LaunchWaits
  <2>3. (dropped \/ Linked)'
    BY <2>1 DEF LinkInv, Linked, KeysAreOnce, EntriesName, EntriesEnd
  <2>4. Link!NamesRight'
    BY <2>1 DEF LinkInv, Link!NamesRight
  <2>5. QED
    BY <2>2, <2>3, <2>4 DEF LinkInv
<1>3. ASSUME NEW t \in Launchers, NEW k \in TaskKeys, Link!RuntimeTaskInfoLaunch(t, k)
      PROVE  LinkInv'
  BY <1>3, TaskInfoKeeps
<1>4. ASSUME NEW task \in tasks, Link!Execute(task)
      PROVE  LinkInv'
  BY <1>4, ExecuteKeeps
<1>5. CASE Link!ReadLog
  BY <1>5, ReadLogKeeps
<1>6. CASE Link!ReadFull
  <2>1. /\ channel' = SubSeq(channel, Buffer + 1, Len(channel)) /\ dropped'
        /\ UNCHANGED <<kernelNameMp, launching, tasks, tracing, reported, launches>>
    BY <1>6 DEF Link!ReadFull
  <2>2. channel' \in Seq(Logs)
    <3>1. channel \in Seq(Logs) /\ Buffer \in Nat
      BY DEF LinkInv, LinkTyped, Link!LinkAssumption
    <3>2. \A j \in (Buffer + 1)..Len(channel) : channel[j] \in Logs
      BY <3>1, ElementOfSeq
    <3>3. QED
      BY <2>1, <3>1, <3>2, SubSeqProperties
  <2>3. LinkTyped' /\ LaunchWaits'
    BY <2>1, <2>2 DEF LinkInv, LinkTyped, LaunchWaits
  <2>4. QED
    BY <2>1, <2>3 DEF LinkInv, Link!NamesRight
<1>7. CASE Link!Switch
  BY <1>7 DEF Link!Switch, LinkInv, LinkTyped, LaunchWaits, Linked, KeysAreOnce, EntriesName, EntriesEnd, Link!NamesRight
<1>8. CASE UNCHANGED Link!vars
  BY <1>8 DEF Link!vars, LinkInv, LinkTyped, LaunchWaits, Linked, KeysAreOnce, EntriesName, EntriesEnd, Link!NamesRight
<1>9. QED
  BY <1>1, <1>2, <1>3, <1>4, <1>5, <1>6, <1>7, <1>8 DEF Link!Next

-----------------------------------------------------------------------------
(* MemoryWatch: operators, kernels and dumps *)

\* What a worker is in.
Places ==
  [kind : Watch!Kinds \cup {"none"}, name : Watch!Names \cup {"none"},
   stage : {"idle", "outer", "launch", "inside", "done"}]

\* The types of the variables, and no outputs where nothing is watched.
WatchTyped ==
  /\ at \in [Workers -> Places]
  /\ times \in [Workers -> [before : Nat, after : Nat]]
  /\ steady \subseteq Workers
  /\ ~Watched => cmdTensors = {}

\* Whoever is watched throughout is watched now.
SteadyIsWatched == steady # {} => Watch!WatchEnabled

\* What is left of a limit and what was written are the limit.
LimitsKept ==
  /\ DOMAIN dumpNums = DOMAIN given
  /\ \A a \in DOMAIN given :
       /\ given[a] \in [limit : Int, dumps : Nat]
       /\ Watch!Limited(given[a].limit) =>
            dumpNums[a] \in Nat /\ dumpNums[a] + given[a].dumps = given[a].limit

\* How often a worker may have written at its place: ATB marks it before its
\* launch is announced, and the mark stays till the end.
SidesOf(w) ==
  /\ at[w].stage = "idle" => at[w] = Watch!Idle /\ times[w].before = 0 /\ times[w].after = 0
  /\ at[w].stage \in {"outer", "launch"} => at[w].kind = "atb"
  /\ w \in steady =>
       /\ times[w].before <= 1
       /\ at[w].stage # "done" => times[w].after = 0
       /\ times[w].after <= 1
       /\ at[w].stage \in {"outer", "launch"} => w \in isRepeatWatch

\* The inductive invariant.
WatchInv == WatchTyped /\ SteadyIsWatched /\ LimitsKept /\ \A w \in Workers : SidesOf(w)

-----------------------------------------------------------------------------
\* A dump counts for the limits and for its side once.
LEMMA DumpKeeps ==
  ASSUME WatchTyped, LimitsKept, NEW w \in Workers, NEW side \in {"before", "after"}, Watch!Dump(w, side)
  PROVE  /\ LimitsKept' /\ DOMAIN dumpNums' = DOMAIN dumpNums
         /\ times' = [times EXCEPT ![w][side] = @ + 1]
<1>1. PICK D \in SUBSET DOMAIN dumpNums :
        /\ Watch!Written(D)
        /\ dumpNums' = [a \in DOMAIN dumpNums |-> IF a \in D THEN Watch!Spend(dumpNums[a]) ELSE dumpNums[a]]
        /\ given' = [a \in DOMAIN given |-> IF a \in D /\ Watch!Limited(given[a].limit)
                                            THEN [given[a] EXCEPT !.dumps = @ + 1] ELSE given[a]]
        /\ times' = [times EXCEPT ![w][side] = @ + 1]
  BY DEF Watch!Dump
<1>2. DOMAIN dumpNums' = DOMAIN dumpNums /\ DOMAIN given' = DOMAIN given
  BY <1>1
<1>3. ASSUME NEW a \in DOMAIN given
      PROVE  /\ given'[a] \in [limit : Int, dumps : Nat]
             /\ Watch!Limited(given'[a].limit) =>
                  dumpNums'[a] \in Nat /\ dumpNums'[a] + given'[a].dumps = given'[a].limit
  <2>1. given[a] \in [limit : Int, dumps : Nat] /\ a \in DOMAIN dumpNums
    BY DEF LimitsKept
  <2>2. CASE a \in D /\ Watch!Limited(given[a].limit)
    <3>1. /\ given'[a].limit = given[a].limit /\ given'[a].dumps = given[a].dumps + 1
          /\ given'[a] \in [limit : Int, dumps : Nat]
      BY <1>1, <2>1, <2>2
    <3>2. dumpNums[a] \in Nat /\ dumpNums[a] # 0 /\ dumpNums[a] + given[a].dumps = given[a].limit
      BY <1>1, <2>2 DEF LimitsKept, Watch!Written
    <3>3. dumpNums'[a] = dumpNums[a] - 1
      BY <1>1, <2>1, <2>2, <3>2 DEF Watch!Spend
    <3>4. QED
      BY <2>1, <3>1, <3>2, <3>3
  <2>3. CASE ~(a \in D /\ Watch!Limited(given[a].limit))
    <3>1. given'[a] = given[a]
      BY <1>1, <2>3
    <3>2. Watch!Limited(given[a].limit) => dumpNums'[a] = dumpNums[a]
      BY <1>1, <2>1, <2>3
    <3>3. QED
      BY <2>1, <3>1, <3>2 DEF LimitsKept
  <2>4. QED
    BY <2>2, <2>3
<1>4. LimitsKept'
  BY <1>2, <1>3 DEF LimitsKept
<1>5. QED
  BY <1>1, <1>2, <1>4

\* A hook on one side: it writes once or not at all, keeps the limits, and takes
\* the watch from nobody.
LEMMA SideKeeps ==
  ASSUME WatchTyped, SteadyIsWatched, LimitsKept, NEW w \in Workers, NEW side \in {"before", "after"},
         Watch!Dump(w, side) \/ Watch!NoDump, ~Watched => cmdTensors' = {}, UNCHANGED steady
  PROVE  /\ LimitsKept' /\ SteadyIsWatched' /\ times' \in [Workers -> [before : Nat, after : Nat]]
         /\ \A v \in Workers : v # w => times'[v] = times[v]
         /\ times'[w] = times[w] \/ times'[w] = [times[w] EXCEPT ![side] = @ + 1]
<1>1. times[w] \in [before : Nat, after : Nat]
  BY DEF WatchTyped
<1>2. LimitsKept' /\ DOMAIN dumpNums' = DOMAIN dumpNums
  <2>1. CASE Watch!Dump(w, side)
    BY <2>1, DumpKeeps
  <2>2. CASE Watch!NoDump
    BY <2>2 DEF Watch!NoDump, LimitsKept
  <2>3. QED
    BY <2>1, <2>2
<1>3. times' = times \/ times' = [times EXCEPT ![w][side] = @ + 1]
  BY DumpKeeps DEF Watch!NoDump
<1>4. [times[w] EXCEPT ![side] = @ + 1] \in [before : Nat, after : Nat]
  BY <1>1
<1>5. SteadyIsWatched'
  BY <1>2 DEF SteadyIsWatched, Watch!WatchEnabled, Watch!IsInMonitoring, WatchTyped
<1>6. QED
  BY <1>2, <1>3, <1>4, <1>5 DEF WatchTyped

\* What begins writes before, what ends writes after, and only a command line
\* that watches makes tensors of its own.
LEMMA BeginsBefore ==
  ASSUME NEW w, Watch!BeginExcute(w)
  PROVE  Watch!Dump(w, "before") \/ Watch!NoDump
BY DEF Watch!BeginExcute

\* What ends writes after, and only a command line that watches makes tensors.
LEMMA EndsAfter ==
  ASSUME NEW w, NEW name, Watch!EndExcute(w, name)
  PROVE  (Watch!Dump(w, "after") \/ Watch!NoDump) /\ (~Watched => UNCHANGED cmdTensors)
BY DEF Watch!EndExcute

\* At the begin of a kernel.
LEMMA KernelBegins ==
  ASSUME NEW w, NEW isOuterLayer \in BOOLEAN, Watch!KernelExcuteBegin(w, isOuterLayer)
  PROVE  /\ Watch!Dump(w, "before") \/ Watch!NoDump
         /\ UNCHANGED cmdTensors
         /\ Watch!WatchEnabled => (isRepeatWatch' = IF isOuterLayer THEN isRepeatWatch \cup {w} ELSE isRepeatWatch)
         /\ ~Watch!WatchEnabled => UNCHANGED isRepeatWatch
         /\ ~isOuterLayer /\ w \in isRepeatWatch => Watch!NoDump
BY BeginsBefore DEF Watch!KernelExcuteBegin, Watch!Pass, Watch!Marked

\* At the end of a kernel.
LEMMA KernelEnds ==
  ASSUME NEW w, NEW isOuterLayer \in BOOLEAN, Watch!KernelExcuteEnd(w, isOuterLayer)
  PROVE  /\ Watch!Dump(w, "after") \/ Watch!NoDump
         /\ ~Watched => UNCHANGED cmdTensors
         /\ isRepeatWatch' = isRepeatWatch \/ (isOuterLayer /\ isRepeatWatch' = isRepeatWatch \ {w})
         /\ ~isOuterLayer /\ w \in isRepeatWatch => Watch!NoDump
BY EndsAfter DEF Watch!KernelExcuteEnd, Watch!Pass

\* What a step of one worker leaves alone at the others.
LEMMA OthersKeep ==
  ASSUME WatchInv, NEW w \in Workers, NEW v \in Workers, v # w,
         at'[v] = at[v], times'[v] = times[v], v \in steady' => v \in steady,
         v \in isRepeatWatch => v \in isRepeatWatch'
  PROVE  SidesOf(v)'
BY DEF WatchInv, SidesOf

-----------------------------------------------------------------------------

\* The begin of an operator or a kernel keeps the invariant.
LEMMA BeginKeeps ==
  ASSUME WatchInv, NEW w \in Workers, NEW kind \in Watch!Kinds, NEW name \in Watch!Names, Watch!Begin(w, kind, name)
  PROVE  WatchInv'
<1>1. /\ at[w] = Watch!Idle
      /\ at' = [at EXCEPT ![w] = [kind |-> kind, name |-> name, stage |-> IF kind = "atb" THEN "outer" ELSE "inside"]]
      /\ steady' = IF Watch!WatchEnabled THEN steady \cup {w} ELSE steady \ {w}
  BY DEF Watch!Begin
<1>2. WatchTyped /\ SteadyIsWatched /\ LimitsKept
  BY DEF WatchInv
<1>3. /\ Watch!Dump(w, "before") \/ Watch!NoDump
      /\ UNCHANGED cmdTensors
      /\ isRepeatWatch \subseteq isRepeatWatch'
      /\ kind = "atb" /\ Watch!WatchEnabled => w \in isRepeatWatch'
  <2>1. CASE kind = "op"
    BY <2>1, BeginsBefore DEF Watch!Begin, Watch!OpExcuteBegin, Watch!Pass
  <2>2. CASE kind # "op"
    <3>1. Watch!KernelExcuteBegin(w, kind = "atb")
      BY <2>2 DEF Watch!Begin
    <3>2. QED
      BY <3>1, KernelBegins
  <2>3. QED
    BY <2>1, <2>2
<1>4. PICK s \in {steady'} : TRUE
  OBVIOUS
<1>5. /\ LimitsKept' /\ times' \in [Workers -> [before : Nat, after : Nat]]
      /\ \A v \in Workers : v # w => times'[v] = times[v]
      /\ times'[w] = times[w] \/ times'[w] = [times[w] EXCEPT !.before = @ + 1]
      /\ DOMAIN dumpNums' = DOMAIN dumpNums
  <2>1. CASE Watch!Dump(w, "before")
    <3>1. times' = [times EXCEPT ![w]["before"] = @ + 1] /\ LimitsKept' /\ DOMAIN dumpNums' = DOMAIN dumpNums
      BY <1>2, <2>1, DumpKeeps
    <3>2. [times[w] EXCEPT !.before = @ + 1] \in [before : Nat, after : Nat]
      BY <1>2 DEF WatchTyped
    <3>3. QED
      BY <1>2, <3>1, <3>2 DEF WatchTyped
  <2>2. CASE Watch!NoDump
    BY <1>2, <2>2 DEF Watch!NoDump, WatchTyped, LimitsKept
  <2>3. QED
    BY <1>3, <2>1, <2>2
<1>6. SteadyIsWatched'
  BY <1>1, <1>2, <1>3, <1>5 DEF SteadyIsWatched, Watch!WatchEnabled, Watch!IsInMonitoring
<1>7. WatchTyped'
  BY <1>1, <1>2, <1>3, <1>5 DEF WatchTyped, Places, Watch!Kinds
<1>8. SidesOf(w)'
  <2>1. times[w].before = 0 /\ times[w].after = 0
    BY <1>1 DEF WatchInv, SidesOf, Watch!Idle
  <2>2. at'[w] = [kind |-> kind, name |-> name, stage |-> IF kind = "atb" THEN "outer" ELSE "inside"]
    BY <1>1, <1>2 DEF WatchTyped
  <2>3. times'[w].before \in {0, 1} /\ times'[w].after = 0
    BY <1>2, <1>5, <2>1 DEF WatchTyped
  <2>4. w \in steady' => Watch!WatchEnabled
    BY <1>1
  <2>5. QED
    BY <1>3, <2>2, <2>3, <2>4 DEF SidesOf
<1>9. ASSUME NEW v \in Workers, v # w
      PROVE  SidesOf(v)'
  BY <1>1, <1>2, <1>3, <1>5, <1>9, OthersKeep DEF WatchTyped
<1>10. QED
  BY <1>5, <1>6, <1>7, <1>8, <1>9 DEF WatchInv

\* So does the begin of a launch in an operator.
LEMMA LaunchBeginKeeps ==
  ASSUME WatchInv, NEW w \in Workers, Watch!LaunchBegin(w)
  PROVE  WatchInv'
<1>1. at[w].stage = "outer" /\ at' = [at EXCEPT ![w].stage = "launch"] /\ steady' = steady
  BY DEF Watch!LaunchBegin, Watch!Go
<1>2. WatchTyped /\ SteadyIsWatched /\ LimitsKept /\ SidesOf(w)
  BY DEF WatchInv
<1>3. /\ Watch!Dump(w, "before") \/ Watch!NoDump
      /\ UNCHANGED <<cmdTensors, isRepeatWatch>>
      /\ w \in isRepeatWatch => Watch!NoDump
  BY KernelBegins DEF Watch!LaunchBegin
<1>4. /\ LimitsKept' /\ SteadyIsWatched' /\ times' \in [Workers -> [before : Nat, after : Nat]]
      /\ \A v \in Workers : v # w => times'[v] = times[v]
  BY <1>1, <1>2, <1>3, SideKeeps DEF WatchTyped
<1>5. at'[w] = [at[w] EXCEPT !.stage = "launch"] /\ \A v \in Workers : v # w => at'[v] = at[v]
  BY <1>1, <1>2 DEF WatchTyped
<1>6. at'[w].stage = "launch" /\ at'[w].kind = at[w].kind /\ at'[w] \in Places
  BY <1>2, <1>5 DEF WatchTyped, Places
<1>7. WatchTyped'
  BY <1>1, <1>2, <1>3, <1>4, <1>6 DEF WatchTyped
<1>8. SidesOf(w)'
  <2>1. w \in steady => times' = times
    BY <1>1, <1>2, <1>3 DEF SidesOf, Watch!NoDump
  <2>2. QED
    BY <1>1, <1>2, <1>3, <1>6, <2>1 DEF SidesOf
<1>9. ASSUME NEW v \in Workers, v # w
      PROVE  SidesOf(v)'
  BY <1>1, <1>3, <1>4, <1>5, <1>9, OthersKeep
<1>10. QED
  BY <1>4, <1>7, <1>8, <1>9 DEF WatchInv

\* And its end.
LEMMA LaunchEndKeeps ==
  ASSUME WatchInv, NEW w \in Workers, Watch!LaunchEnd(w)
  PROVE  WatchInv'
<1>1. at[w].stage = "launch" /\ at' = [at EXCEPT ![w].stage = "inside"] /\ steady' = steady
  BY DEF Watch!LaunchEnd, Watch!Go
<1>2. WatchTyped /\ SteadyIsWatched /\ LimitsKept /\ SidesOf(w)
  BY DEF WatchInv
<1>3. /\ Watch!Dump(w, "after") \/ Watch!NoDump
      /\ ~Watched => UNCHANGED cmdTensors
      /\ isRepeatWatch' = isRepeatWatch
      /\ w \in isRepeatWatch => Watch!NoDump
  BY KernelEnds DEF Watch!LaunchEnd
<1>4. /\ LimitsKept' /\ SteadyIsWatched' /\ times' \in [Workers -> [before : Nat, after : Nat]]
      /\ \A v \in Workers : v # w => times'[v] = times[v]
  BY <1>1, <1>2, <1>3, SideKeeps DEF WatchTyped
<1>5. at'[w] = [at[w] EXCEPT !.stage = "inside"] /\ \A v \in Workers : v # w => at'[v] = at[v]
  BY <1>1, <1>2 DEF WatchTyped
<1>6. at'[w].stage = "inside" /\ at'[w] \in Places
  BY <1>2, <1>5 DEF WatchTyped, Places
<1>7. WatchTyped'
  BY <1>1, <1>2, <1>3, <1>4, <1>6 DEF WatchTyped
<1>8. SidesOf(w)'
  <2>1. w \in steady => times' = times
    BY <1>1, <1>2, <1>3 DEF SidesOf, Watch!NoDump
  <2>2. QED
    BY <1>1, <1>2, <1>3, <1>6, <2>1 DEF SidesOf
<1>9. ASSUME NEW v \in Workers, v # w
      PROVE  SidesOf(v)'
  BY <1>1, <1>3, <1>4, <1>5, <1>9, OthersKeep
<1>10. QED
  BY <1>4, <1>7, <1>8, <1>9 DEF WatchInv

\* And the end of the operator or the kernel.
LEMMA EndKeeps ==
  ASSUME WatchInv, NEW w \in Workers, Watch!End(w)
  PROVE  WatchInv'
<1>1. at[w].stage = "inside" /\ at' = [at EXCEPT ![w].stage = "done"] /\ steady' = steady
  BY DEF Watch!End, Watch!Go
<1>2. WatchTyped /\ SteadyIsWatched /\ LimitsKept /\ SidesOf(w)
  BY DEF WatchInv
<1>3. /\ Watch!Dump(w, "after") \/ Watch!NoDump
      /\ ~Watched => UNCHANGED cmdTensors
      /\ isRepeatWatch' = isRepeatWatch \/ isRepeatWatch' = isRepeatWatch \ {w}
  <2>1. CASE at[w].kind = "op"
    BY <2>1, EndsAfter DEF Watch!End, Watch!OpExcuteEnd, Watch!Pass
  <2>2. CASE at[w].kind # "op"
    <3>1. Watch!KernelExcuteEnd(w, at[w].kind = "atb")
      BY <2>2 DEF Watch!End
    <3>2. QED
      BY <3>1, KernelEnds
  <2>3. QED
    BY <2>1, <2>2
<1>4. /\ LimitsKept' /\ SteadyIsWatched' /\ times' \in [Workers -> [before : Nat, after : Nat]]
      /\ \A v \in Workers : v # w => times'[v] = times[v]
      /\ times'[w] = times[w] \/ times'[w] = [times[w] EXCEPT !.after = @ + 1]
  BY <1>1, <1>2, <1>3, SideKeeps DEF WatchTyped
<1>5. at'[w] = [at[w] EXCEPT !.stage = "done"] /\ \A v \in Workers : v # w => at'[v] = at[v]
  BY <1>1, <1>2 DEF WatchTyped
<1>6. at'[w].stage = "done" /\ at'[w] \in Places
  BY <1>2, <1>5 DEF WatchTyped, Places
<1>7. WatchTyped'
  BY <1>1, <1>2, <1>3, <1>4, <1>6 DEF WatchTyped
<1>8. SidesOf(w)'
  <2>1. w \in steady => times[w].before <= 1 /\ times[w].after = 0
    BY <1>1, <1>2 DEF SidesOf
  <2>2. w \in steady => times'[w].before <= 1 /\ times'[w].after <= 1
    BY <1>2, <1>4, <2>1 DEF WatchTyped
  <2>3. QED
    BY <1>1, <1>6, <2>2 DEF SidesOf
<1>9. ASSUME NEW v \in Workers, v # w
      PROVE  SidesOf(v)'
  BY <1>1, <1>3, <1>4, <1>5, <1>9, OthersKeep
<1>10. QED
  BY <1>4, <1>7, <1>8, <1>9 DEF WatchInv

\* Every step keeps the invariant.
LEMMA WatchNext ==
  ASSUME Watch!WatchAssumption, WatchInv, [Watch!Next]_Watch!vars
  PROVE  WatchInv'
<1>1. ASSUME NEW w \in Workers, NEW kind \in Watch!Kinds, NEW name \in Watch!Names, Watch!Begin(w, kind, name)
      PROVE  WatchInv'
  BY <1>1, BeginKeeps
<1>2. ASSUME NEW w \in Workers, Watch!LaunchBegin(w) \/ Watch!LaunchEnd(w) \/ Watch!End(w)
      PROVE  WatchInv'
  BY <1>2, LaunchBeginKeeps, LaunchEndKeeps, EndKeeps
<1>3. ASSUME NEW w \in Workers, Watch!Return(w)
      PROVE  WatchInv'
  <2>1. /\ at' = [at EXCEPT ![w] = Watch!Idle]
        /\ times' = [times EXCEPT ![w] = [before |-> 0, after |-> 0]]
        /\ UNCHANGED <<isRepeatWatch, watchedTargetName, cmdTensors, dumpNums, given, steady, skipped, runs>>
    BY <1>3 DEF Watch!Return
  <2>2. Watch!Idle \in Places /\ Watch!Idle.stage = "idle"
    BY DEF Watch!Idle, Places
  <2>3. WatchTyped'
    BY <2>1, <2>2 DEF WatchInv, WatchTyped
  <2>4. SteadyIsWatched' /\ LimitsKept'
    BY <2>1 DEF WatchInv, SteadyIsWatched, LimitsKept, Watch!WatchEnabled, Watch!IsInMonitoring
  <2>5. at'[w] = Watch!Idle /\ times'[w] = [before |-> 0, after |-> 0]
    BY <2>1 DEF WatchInv, WatchTyped
  <2>6. SidesOf(w)'
    BY <2>2, <2>5 DEF SidesOf
  <2>7. ASSUME NEW v \in Workers, v # w
        PROVE  SidesOf(v)'
    BY <2>1, <2>7, OthersKeep DEF WatchInv, WatchTyped
  <2>8. QED
    BY <2>3, <2>4, <2>6, <2>7 DEF WatchInv
<1>4. ASSUME NEW a \in Addresses, Watch!Remove(a)
      PROVE  WatchInv'
  <2>1. /\ dumpNums' = [b \in DOMAIN dumpNums \ {a} |-> dumpNums[b]]
        /\ given' = [b \in DOMAIN given \ {a} |-> given[b]]
        /\ steady' = IF Watched \/ cmdTensors # {} \/ DOMAIN dumpNums' # {} THEN steady ELSE {}
        /\ UNCHANGED <<at, isRepeatWatch, watchedTargetName, cmdTensors, times, skipped, runs>>
    BY <1>4 DEF Watch!Remove
  <2>2. LimitsKept'
    BY <2>1 DEF WatchInv, LimitsKept
  <2>3. WatchTyped' /\ SteadyIsWatched'
    BY <2>1 DEF WatchInv, WatchTyped, SteadyIsWatched, Watch!WatchEnabled, Watch!IsInMonitoring
  <2>4. \A v \in Workers : SidesOf(v)'
    BY <2>1 DEF WatchInv, SidesOf
  <2>5. QED
    BY <2>2, <2>3, <2>4 DEF WatchInv
<1>5. ASSUME NEW a \in Addresses, NEW n \in Limits, Watch!Watch(a, n)
      PROVE  WatchInv'
  <2>1. /\ dumpNums' = [b \in DOMAIN dumpNums \cup {a} |-> IF b = a THEN n ELSE dumpNums[b]]
        /\ given' = [b \in DOMAIN given \cup {a} |-> IF b = a THEN [limit |-> n, dumps |-> 0] ELSE given[b]]
        /\ UNCHANGED <<at, isRepeatWatch, watchedTargetName, cmdTensors, times, steady, skipped, runs>>
    BY <1>5 DEF Watch!Watch
  <2>2. n \in Int
    BY DEF Watch!WatchAssumption
  <2>3. DOMAIN dumpNums' = DOMAIN given' /\ DOMAIN given' = DOMAIN given \cup {a}
    BY <2>1 DEF WatchInv, LimitsKept
  <2>4. ASSUME NEW b \in DOMAIN given'
        PROVE  /\ given'[b] \in [limit : Int, dumps : Nat]
               /\ Watch!Limited(given'[b].limit) =>
                    dumpNums'[b] \in Nat /\ dumpNums'[b] + given'[b].dumps = given'[b].limit
    <3>1. CASE b = a
      BY <2>1, <2>2, <2>3, <3>1 DEF Watch!Limited
    <3>2. CASE b # a
      <4>1. b \in DOMAIN given /\ given'[b] = given[b] /\ dumpNums'[b] = dumpNums[b]
        BY <2>1, <2>3, <3>2 DEF WatchInv, LimitsKept
      <4>2. QED
        BY <4>1 DEF WatchInv, LimitsKept
    <3>3. QED
      BY <3>1, <3>2
  <2>5. LimitsKept'
    BY <2>3, <2>4 DEF LimitsKept
  <2>6. WatchTyped' /\ SteadyIsWatched'
    BY <2>1, <2>3 DEF WatchInv, WatchTyped, SteadyIsWatched, Watch!WatchEnabled, Watch!IsInMonitoring
  <2>7. \A v \in Workers : SidesOf(v)'
    BY <2>1 DEF WatchInv, SidesOf
  <2>8. QED
    BY <2>5, <2>6, <2>7 DEF WatchInv
<1>6. CASE UNCHANGED Watch!vars
  <2>1. WatchTyped' /\ SteadyIsWatched' /\ LimitsKept'
    BY <1>6 DEF Watch!vars, WatchInv, WatchTyped, SteadyIsWatched, LimitsKept, Watch!WatchEnabled, Watch!IsInMonitoring
  <2>2. \A v \in Workers : SidesOf(v)'
    BY <1>6 DEF Watch!vars, WatchInv, SidesOf
  <2>3. QED
    BY <2>1, <2>2 DEF WatchInv
<1>7. QED
  BY <1>1, <1>2, <1>3, <1>4, <1>5, <1>6 DEF Watch!Next

\* It holds at first.
LEMMA WatchInit == Watch!Init => WatchInv
BY DEF Watch!Init, WatchInv, WatchTyped, SteadyIsWatched, LimitsKept, SidesOf, Watch!Idle, Places

\* Dumps are those that were asked for.
LEMMA WatchImplies == WatchInv => Watch!DumpsAsAsked
<1> SUFFICES ASSUME WatchInv PROVE Watch!DumpsAsAsked
  OBVIOUS
<1>1. Watch!OncePerSide
  BY DEF WatchInv, WatchTyped, SidesOf, Watch!OncePerSide
<1>2. Watch!WithinLimit
  BY DEF WatchInv, LimitsKept, Watch!WithinLimit
<1>3. QED
  BY <1>1, <1>2 DEF Watch!DumpsAsAsked

-----------------------------------------------------------------------------
(* HealthGaps: extremes of totals and ratios *)

\* The totals and ratios of a pool.
Ratios == Nat \X (Nat \ {0})

\* What is kept of a pool.
Statuses == [max : Nat, min : Nat, maxGap : Ratios, minGap : Ratios]

\* The tables hold pools only, and a pool that is in no table has told nothing.
GapsTyped ==
  /\ DOMAIN status \subseteq PoolTypes
  /\ \A p \in DOMAIN status : status[p] \in Statuses
  /\ seen \in [PoolTypes -> SUBSET Nat]
  /\ settled \in [PoolTypes -> SUBSET Ratios]
  /\ \A p \in PoolTypes \ DOMAIN status : seen[p] = {} /\ settled[p] = {}

\* What a status knows of the totals of the step.
ExtremesOf(s, S) ==
  /\ S = {} => s.max = 0
  /\ S # {} /\ 0 \notin S => {s.max, s.min} \subseteq S /\ \A n \in S : n <= s.max /\ s.min <= n

\* What it knows of the ratios of the steps.
RatiosOf(s, R) ==
  /\ R = {} => Gaps!IsZero(s.maxGap)
  /\ R # {} /\ (\A g \in R : ~Gaps!IsZero(g)) =>
       /\ {s.maxGap, s.minGap} \subseteq R
       /\ \A g \in R : ~Gaps!Less(s.maxGap, g) /\ ~Gaps!Less(g, s.minGap)

\* The inductive invariant.
GapsInv ==
  /\ GapsTyped
  /\ \A p \in DOMAIN status : ExtremesOf(status[p], seen[p]) /\ RatiosOf(status[p], settled[p])

-----------------------------------------------------------------------------
\* A product with a factor above 0 keeps the order of the other factors.
LEMMA TimesKeepsOrder ==
  ASSUME NEW m \in Nat, NEW n \in Nat, NEW k \in Nat \ {0}
  PROVE  m < n <=> m * k < n * k
OBVIOUS

\* Ratios are in order.
LEMMA LessIsTransitive ==
  ASSUME NEW a \in Ratios, NEW b \in Ratios, NEW c \in Ratios, Gaps!Less(a, b), Gaps!Less(b, c)
  PROVE  Gaps!Less(a, c)
<1> DEFINE p == a[1]
           q == a[2]
           r == b[1]
           s == b[2]
           t == c[1]
           u == c[2]
<1>1. {p, r, t} \subseteq Nat /\ {q, s, u} \subseteq Nat \ {0}
  BY DEF Ratios
<1>2. p * s < r * q /\ r * u < t * s
  BY DEF Gaps!Less
<1>3. SUFFICES p * u < t * q
  BY DEF Gaps!Less
<1> HIDE DEF p, q, r, s, t, u
<1>4. /\ {p * s, r * q, r * u, t * s, p * u, t * q} \subseteq Nat
  BY <1>1
<1>5. (p * s) * u < (r * q) * u
  BY <1>1, <1>2, <1>4, TimesKeepsOrder
<1>6. (r * u) * q < (t * s) * q
  BY <1>1, <1>2, <1>4, TimesKeepsOrder
<1>7. /\ (p * s) * u = (p * u) * s
      /\ (r * q) * u = (r * u) * q
      /\ (t * s) * q = (t * q) * s
  BY <1>1
<1>8. (p * u) * s < (t * q) * s
  <2>1. {(p * s) * u, (r * q) * u, (t * s) * q} \subseteq Nat
    BY <1>1, <1>4
  <2>2. QED
    BY <1>5, <1>6, <1>7, <2>1
<1>9. QED
  BY <1>1, <1>4, <1>8, TimesKeepsOrder

\* A total keeps what a status knows of the totals of its step.
LEMMA CountedKeeps ==
  ASSUME NEW s \in Statuses, NEW S \in SUBSET Nat, NEW total \in Nat, ExtremesOf(s, S)
  PROVE  /\ Gaps!Counted(s, total) \in Statuses
         /\ Gaps!Counted(s, total).maxGap = s.maxGap /\ Gaps!Counted(s, total).minGap = s.minGap
         /\ ExtremesOf(Gaps!Counted(s, total), S \cup {total})
<1> DEFINE new == Gaps!Counted(s, total)
<1>1. CASE s.max = 0
  <2>1. new = [s EXCEPT !.max = total, !.min = total]
    BY <1>1 DEF Gaps!Counted
  <2>2. /\ new \in Statuses /\ new.max = total /\ new.min = total
        /\ new.maxGap = s.maxGap /\ new.minGap = s.minGap
    BY <2>1 DEF Statuses
  <2>3. 0 \in S \/ S = {}
    BY <1>1 DEF ExtremesOf
  <2> HIDE DEF new
  <2>4. ExtremesOf(new, S \cup {total})
    BY <2>2, <2>3 DEF ExtremesOf
  <2>5. QED
    BY <2>2, <2>4 DEF new
<1>2. CASE s.max # 0
  <2> DEFINE most == IF total > s.max THEN total ELSE s.max
             least == IF total < s.min THEN total ELSE s.min
  <2>1. s.max \in Nat /\ s.min \in Nat
    BY DEF Statuses
  <2>2. new = [s EXCEPT !.max = most, !.min = least]
    BY <1>2 DEF Gaps!Counted, Statuses
  <2>3. /\ new \in Statuses /\ new.max = most /\ new.min = least
        /\ new.maxGap = s.maxGap /\ new.minGap = s.minGap
    BY <2>1, <2>2 DEF Statuses
  <2>4. S # {}
    BY <1>2 DEF ExtremesOf
  <2>5. ASSUME 0 \notin S \cup {total}
        PROVE  {most, least} \subseteq S \cup {total} /\ \A n \in S \cup {total} : n <= most /\ least <= n
    <3>1. s.max \in S /\ s.min \in S /\ \A n \in S : n <= s.max /\ s.min <= n
      BY <2>4, <2>5 DEF ExtremesOf
    <3>2. QED
      BY <2>1, <3>1
  <2> HIDE DEF new, most, least
  <2>6. ExtremesOf(new, S \cup {total})
    BY <2>3, <2>5 DEF ExtremesOf
  <2>7. QED
    BY <2>3, <2>6 DEF new
<1>3. QED
  BY <1>1, <1>2

\* The end of a step keeps what a status knows of the ratios.
LEMMA CheckedKeeps ==
  ASSUME NEW s \in Statuses, NEW R \in SUBSET Ratios, RatiosOf(s, R), s.max # 0
  PROVE  /\ <<s.min, s.max>> \in Ratios
         /\ Gaps!GapChecked(s) \in Statuses
         /\ Gaps!GapChecked(s).max = 0
         /\ RatiosOf(Gaps!GapChecked(s), R \cup {<<s.min, s.max>>})
<1> DEFINE gap == <<s.min, s.max>>
           reset == [s EXCEPT !.max = 0, !.min = 0]
<1>1. gap \in Ratios
  BY DEF Statuses, Ratios
<1>2. reset \in Statuses /\ reset.max = 0 /\ reset.maxGap = s.maxGap /\ reset.minGap = s.minGap
  BY DEF Statuses
<1>3. s.maxGap \in Ratios /\ s.minGap \in Ratios
  BY DEF Statuses
<1>4. ~Gaps!Less(gap, gap)
  BY <1>1 DEF Gaps!Less, Ratios
<1>5. CASE Gaps!IsZero(s.maxGap)
  <2>1. Gaps!GapChecked(s) = [reset EXCEPT !.maxGap = gap, !.minGap = gap]
    BY <1>5 DEF Gaps!GapChecked
  <2>2. R = {} \/ \E g \in R : Gaps!IsZero(g)
    BY <1>5 DEF RatiosOf
  <2>3. /\ Gaps!GapChecked(s) \in Statuses /\ Gaps!GapChecked(s).max = 0
        /\ Gaps!GapChecked(s).maxGap = gap /\ Gaps!GapChecked(s).minGap = gap
    BY <2>1, <1>1, <1>2 DEF Statuses
  <2>4. RatiosOf(Gaps!GapChecked(s), R \cup {gap})
    <3> HIDE DEF gap
    <3>1. QED
      BY <2>2, <2>3, <1>4 DEF RatiosOf
  <2>5. QED
    BY <2>3, <2>4, <1>1
<1>6. CASE ~Gaps!IsZero(s.maxGap)
  <2> DEFINE more == IF Gaps!Less(s.maxGap, gap) THEN gap ELSE s.maxGap
             less == IF Gaps!Less(gap, s.minGap) THEN gap ELSE s.minGap
  <2>1. Gaps!GapChecked(s) = [reset EXCEPT !.maxGap = more, !.minGap = less]
    BY <1>6, <1>2 DEF Gaps!GapChecked, Statuses
  <2>2. more \in Ratios /\ less \in Ratios
    BY <1>1, <1>3
  <2>3. /\ Gaps!GapChecked(s) \in Statuses /\ Gaps!GapChecked(s).max = 0
        /\ Gaps!GapChecked(s).maxGap = more /\ Gaps!GapChecked(s).minGap = less
    BY <2>1, <2>2, <1>2 DEF Statuses
  <2>4. ASSUME \A g \in R \cup {gap} : ~Gaps!IsZero(g)
        PROVE  /\ {more, less} \subseteq R \cup {gap}
               /\ \A g \in R \cup {gap} : ~Gaps!Less(more, g) /\ ~Gaps!Less(g, less)
    <3> HIDE DEF gap
    <3>1. R # {} => /\ {s.maxGap, s.minGap} \subseteq R
                    /\ \A g \in R : ~Gaps!Less(s.maxGap, g) /\ ~Gaps!Less(g, s.minGap)
      BY <2>4 DEF RatiosOf
    <3>2. R # {}
      BY <1>6 DEF RatiosOf
    <3>3. ASSUME NEW g \in R
          PROVE  ~Gaps!Less(more, g) /\ ~Gaps!Less(g, less)
      <4>1. g \in Ratios /\ ~Gaps!Less(s.maxGap, g) /\ ~Gaps!Less(g, s.minGap)
        BY <3>1, <3>2
      <4>2. Gaps!Less(s.maxGap, gap) => ~Gaps!Less(gap, g)
        BY <4>1, <1>1, <1>3, LessIsTransitive
      <4>3. Gaps!Less(gap, s.minGap) => ~Gaps!Less(g, gap)
        BY <4>1, <1>1, <1>3, LessIsTransitive
      <4>4. QED
        BY <4>1, <4>2, <4>3
    <3>4. ~Gaps!Less(more, gap) /\ ~Gaps!Less(gap, less)
      BY <1>4
    <3>5. QED
      BY <3>1, <3>2, <3>3, <3>4
  <2>5. RatiosOf(Gaps!GapChecked(s), R \cup {gap})
    <3> HIDE DEF gap, more, less
    <3>1. QED
      BY <2>3, <2>4 DEF RatiosOf
  <2>6. QED
    BY <2>3, <2>5, <1>1
<1>7. QED
  BY <1>5, <1>6

-----------------------------------------------------------------------------
\* A pool event keeps the extremes of every pool.
LEMMA PoolEventKeeps ==
  ASSUME Gaps!HealthAssumption, GapsInv, NEW p \in PoolTypes, NEW total \in Totals, Gaps!PoolEvent(p, total)
  PROVE  GapsInv'
<1> DEFINE s == IF p \in DOMAIN status THEN status[p] ELSE Gaps!NewStatus
           after == IF step <= Gaps!SkipSteps THEN s ELSE Gaps!Counted(s, total)
<1>1. total \in Nat
  BY DEF Gaps!HealthAssumption
<1>2. s \in Statuses /\ ExtremesOf(s, seen[p]) /\ RatiosOf(s, settled[p])
  <2>1. CASE p \in DOMAIN status
    BY <2>1 DEF GapsInv, GapsTyped
  <2>2. CASE p \notin DOMAIN status
    <3>1. s = Gaps!NewStatus /\ seen[p] = {} /\ settled[p] = {}
      BY <2>2 DEF GapsInv, GapsTyped
    <3>2. QED
      BY <3>1 DEF Gaps!NewStatus, Gaps!Zero, Statuses, Ratios, ExtremesOf, RatiosOf, Gaps!IsZero
  <2>3. QED
    BY <2>1, <2>2
<1>3. /\ status' = [q \in DOMAIN status \cup {p} |-> IF q = p THEN after ELSE status[q]]
      /\ seen' = IF step <= Gaps!SkipSteps THEN seen ELSE [seen EXCEPT ![p] = @ \cup {total}]
      /\ settled' = settled
  BY DEF Gaps!PoolEvent
<1>4. seen' \in [PoolTypes -> SUBSET Nat]
  BY <1>1, <1>3 DEF GapsInv, GapsTyped
<1>5. after \in Statuses /\ ExtremesOf(after, seen'[p]) /\ RatiosOf(after, settled'[p])
  <2>1. CASE step <= Gaps!SkipSteps
    BY <2>1, <1>2, <1>3
  <2>2. CASE ~(step <= Gaps!SkipSteps)
    <3>1. after = Gaps!Counted(s, total) /\ seen'[p] = seen[p] \cup {total}
      BY <2>2, <1>3 DEF GapsInv, GapsTyped
    <3>2. seen[p] \in SUBSET Nat
      BY DEF GapsInv, GapsTyped
    <3> HIDE DEF s, after
    <3>3. /\ Gaps!Counted(s, total) \in Statuses
          /\ Gaps!Counted(s, total).maxGap = s.maxGap /\ Gaps!Counted(s, total).minGap = s.minGap
          /\ ExtremesOf(Gaps!Counted(s, total), seen[p] \cup {total})
      BY <3>2, <1>1, <1>2, CountedKeeps
    <3>4. RatiosOf(Gaps!Counted(s, total), settled[p])
      BY <3>3, <1>2 DEF RatiosOf
    <3>5. QED
      BY <3>1, <3>3, <3>4, <1>3
  <2>3. QED
    BY <2>1, <2>2
<1>6. \A q \in PoolTypes : q # p => seen'[q] = seen[q] /\ settled'[q] = settled[q]
  BY <1>3 DEF GapsInv, GapsTyped
<1> HIDE DEF s, after
<1>7. DOMAIN status' = DOMAIN status \cup {p}
  BY <1>3
<1>8. \A q \in DOMAIN status' : status'[q] = IF q = p THEN after ELSE status[q]
  BY <1>3
<1>9. \A q \in DOMAIN status' : /\ status'[q] \in Statuses
                                /\ ExtremesOf(status'[q], seen'[q]) /\ RatiosOf(status'[q], settled'[q])
  <2> SUFFICES ASSUME NEW q \in DOMAIN status'
               PROVE  /\ status'[q] \in Statuses
                      /\ ExtremesOf(status'[q], seen'[q]) /\ RatiosOf(status'[q], settled'[q])
    OBVIOUS
  <2>1. CASE q = p
    BY <2>1, <1>5, <1>8
  <2>2. CASE q # p
    <3>1. q \in DOMAIN status /\ q \in PoolTypes
      BY <2>2, <1>7 DEF GapsInv, GapsTyped
    <3>2. status'[q] = status[q] /\ seen'[q] = seen[q] /\ settled'[q] = settled[q]
      BY <2>2, <3>1, <1>6, <1>8
    <3>3. QED
      BY <3>1, <3>2 DEF GapsInv, GapsTyped
  <2>3. QED
    BY <2>1, <2>2
<1>10. GapsTyped'
  BY <1>3, <1>4, <1>6, <1>7, <1>9 DEF GapsInv, GapsTyped
<1>11. QED
  BY <1>9, <1>10 DEF GapsInv

\* The end of a step keeps them too.
LEMMA SettleKeeps ==
  ASSUME GapsInv, NEW n, Gaps!Settle(n)
  PROVE  GapsInv'
<1>1. CASE n = 1 \/ step <= Gaps!SkipSteps
  BY <1>1 DEF Gaps!Settle, GapsInv, GapsTyped
<1>2. CASE ~(n = 1 \/ step <= Gaps!SkipSteps)
  <2> DEFINE busy == {p \in DOMAIN status : status[p].max # 0}
  <2>1. /\ status' = [p \in DOMAIN status |-> Gaps!GapChecked(status[p])]
        /\ seen' = [p \in PoolTypes |-> IF p \in DOMAIN status THEN {} ELSE seen[p]]
        /\ settled' = [p \in PoolTypes |->
              IF p \in busy THEN settled[p] \cup {<<status[p].min, status[p].max>>} ELSE settled[p]]
    BY <1>2 DEF Gaps!Settle
  <2>2. DOMAIN status' = DOMAIN status /\ DOMAIN status \subseteq PoolTypes
    BY <2>1 DEF GapsInv, GapsTyped
  <2>3. ASSUME NEW p \in DOMAIN status
        PROVE  /\ status'[p] \in Statuses
               /\ ExtremesOf(status'[p], seen'[p]) /\ RatiosOf(status'[p], settled'[p])
               /\ settled'[p] \in SUBSET Ratios
    <3>1. /\ status[p] \in Statuses /\ settled[p] \in SUBSET Ratios
          /\ RatiosOf(status[p], settled[p]) /\ p \in PoolTypes
      BY DEF GapsInv, GapsTyped
    <3>2. status'[p] = Gaps!GapChecked(status[p]) /\ seen'[p] = {}
      BY <2>1, <3>1
    <3>3. CASE status[p].max = 0
      <4>1. Gaps!GapChecked(status[p]) = status[p] /\ settled'[p] = settled[p]
        BY <3>1, <3>3, <2>1 DEF Gaps!GapChecked
      <4>2. QED
        BY <3>1, <3>2, <3>3, <4>1 DEF ExtremesOf
    <3>4. CASE status[p].max # 0
      <4>1. settled'[p] = settled[p] \cup {<<status[p].min, status[p].max>>}
        BY <3>1, <3>4, <2>1
      <4>2. PICK s \in Statuses : s = status[p]
        BY <3>1
      <4>3. PICK R \in SUBSET Ratios : R = settled[p]
        BY <3>1
      <4>4. /\ <<s.min, s.max>> \in Ratios
            /\ Gaps!GapChecked(s) \in Statuses
            /\ Gaps!GapChecked(s).max = 0
            /\ RatiosOf(Gaps!GapChecked(s), R \cup {<<s.min, s.max>>})
        BY <3>1, <3>4, <4>2, <4>3, CheckedKeeps
      <4>5. QED
        BY <3>1, <3>2, <4>1, <4>2, <4>3, <4>4 DEF ExtremesOf
    <3>5. QED
      BY <3>3, <3>4
  <2>4. \A p \in PoolTypes \ DOMAIN status : seen'[p] = {} /\ settled'[p] = {}
    BY <2>1 DEF GapsInv, GapsTyped
  <2>5. seen' \in [PoolTypes -> SUBSET Nat]
    BY <2>1 DEF GapsInv, GapsTyped
  <2>6. settled' \in [PoolTypes -> SUBSET Ratios]
    <3>1. \A p \in PoolTypes : settled'[p] \in SUBSET Ratios
      BY <2>3, <2>4
    <3>2. QED
      BY <2>1, <3>1
  <2>7. QED
    BY <2>2, <2>3, <2>4, <2>5, <2>6 DEF GapsInv, GapsTyped
<1>3. QED
  BY <1>1, <1>2

\* It holds at first.
LEMMA GapsInit == Gaps!Init => GapsInv
BY DEF Gaps!Init, GapsInv, GapsTyped

\* Every step keeps it.
LEMMA GapsNext ==
  ASSUME Gaps!HealthAssumption, GapsInv, [Gaps!Next]_Gaps!vars
  PROVE  GapsInv'
<1>1. ASSUME NEW p \in PoolTypes, NEW total \in Totals, Gaps!PoolEvent(p, total)
      PROVE  GapsInv'
  BY <1>1, PoolEventKeeps
<1>2. CASE Gaps!StepStart
  BY <1>2 DEF Gaps!StepStart, GapsInv, GapsTyped
<1>3. CASE Gaps!StepEnd
  BY <1>3, SettleKeeps DEF Gaps!StepEnd
<1>4. CASE Gaps!PyStep
  BY <1>4, SettleKeeps DEF Gaps!PyStep
<1>5. CASE UNCHANGED Gaps!vars
  BY <1>5 DEF Gaps!vars, GapsInv, GapsTyped
<1>6. QED
  BY <1>1, <1>2, <1>3, <1>4, <1>5 DEF Gaps!Next

\* The greatest and the least of a set are what bounds it.
LEMMA GapsImply == GapsInv => Gaps!GapsExact
<1> SUFFICES ASSUME GapsInv
             PROVE  Gaps!GapsExact
  OBVIOUS
<1>1. ASSUME NEW p \in PoolTypes, seen[p] # {}, 0 \notin seen[p]
      PROVE  status[p].max = Gaps!Max(seen[p]) /\ status[p].min = Gaps!Min(seen[p])
  <2>1. p \in DOMAIN status /\ ExtremesOf(status[p], seen[p]) /\ seen[p] \in SUBSET Nat
    BY <1>1 DEF GapsInv, GapsTyped
  <2> DEFINE most == status[p].max
             least == status[p].min
             S == seen[p]
  <2>2. most \in S /\ least \in S /\ \A n \in S : n <= most /\ least <= n
    BY <1>1, <2>1 DEF ExtremesOf
  <2> HIDE DEF most, least, S
  <2>3. S \subseteq Nat
    BY <2>1 DEF S
  <2>4. most = Gaps!Max(S)
    <3>1. \A x \in S : (\A y \in S : x >= y) => x = most
      BY <2>2, <2>3
    <3>2. \A y \in S : most >= y
      BY <2>2, <2>3
    <3>3. QED
      BY <2>2, <3>1, <3>2 DEF Gaps!Max
  <2>5. least = Gaps!Min(S)
    <3>1. \A x \in S : (\A y \in S : x <= y) => x = least
      BY <2>2, <2>3
    <3>2. QED
      BY <2>2, <3>1 DEF Gaps!Min
  <2>6. QED
    BY <2>4, <2>5 DEF most, least, S
<1>2. ASSUME NEW p \in PoolTypes, settled[p] # {}, \A g \in settled[p] : ~Gaps!IsZero(g)
      PROVE  /\ \A g \in settled[p] : ~Gaps!Less(status[p].maxGap, g) /\ ~Gaps!Less(g, status[p].minGap)
             /\ {status[p].maxGap, status[p].minGap} \subseteq settled[p]
  <2>1. p \in DOMAIN status /\ RatiosOf(status[p], settled[p])
    BY <1>2 DEF GapsInv, GapsTyped
  <2>2. QED
    BY <1>2, <2>1 DEF RatiosOf
<1>3. QED
  BY <1>1, <1>2 DEF Gaps!GapsExact, Gaps!StepExtremes, Gaps!GapsAreExtremes

-----------------------------------------------------------------------------
(* DeviceIds: the numbers of the cards *)

\* What a part of the environment's list is: a number, or what is none.
Tokens == Nat \cup {Bad}

\* c numbers below c in ascending order are all of them.
LEMMA AllNumbers ==
  ASSUME NEW c \in Nat, NEW L \in Seq(Nat), Len(L) = c, Ids!Ascending(L),
         \A i \in 1..c : L[i] <= c - 1
  PROVE  \A i \in 1..c : L[i] = i - 1
<1>1. \A i \in 1..c : L[i] \in Nat
  OBVIOUS
<1>2. \A i \in 1..c : L[i] >= i - 1
  <2> DEFINE S == {i \in 1..c : L[i] < i - 1}
  <2>1. SUFFICES ASSUME NEW i \in 1..c, L[i] < i - 1 PROVE FALSE
    BY <1>1
  <2>2. S \in SUBSET Nat /\ S # {}
    <3>1. i \in S
      BY <2>1
    <3>2. S \in SUBSET Nat
      OBVIOUS
    <3>3. QED
      BY <3>1, <3>2
  <2>3. PICK n \in S : \A m \in S : n <= m
    <3> HIDE DEF S
    <3>1. QED
      BY <2>1, <2>2, LeastNat
  <2>4. n \in 2..c
    BY <1>1, <2>3
  <2>5. n - 1 \in 1..c /\ n - 1 \notin S
    BY <2>3, <2>4
  <2>6. L[n - 1] >= n - 2 /\ L[n - 1] < L[n]
    BY <1>1, <2>4, <2>5 DEF Ids!Ascending
  <2>7. QED
    BY <1>1, <2>3, <2>4, <2>5, <2>6
<1>3. \A i \in 1..c : L[i] <= i - 1
  <2> DEFINE S == {k \in 0..(c - 1) : L[c - k] > c - k - 1}
  <2>1. SUFFICES ASSUME NEW i \in 1..c, L[i] > i - 1 PROVE FALSE
    BY <1>1
  <2>2. S \in SUBSET Nat /\ S # {}
    <3>1. c - i \in 0..(c - 1) /\ c - (c - i) = i
      OBVIOUS
    <3>2. c - i \in S
      BY <2>1, <3>1
    <3>3. S \in SUBSET Nat
      OBVIOUS
    <3>4. QED
      BY <3>2, <3>3
  <2>3. PICK k \in S : \A m \in S : k <= m
    <3> HIDE DEF S
    <3>1. QED
      BY <2>2, LeastNat
  <2>4. k \in 1..(c - 1)
    <3>1. k # 0
      <4>1. c \in 1..c
        OBVIOUS
      <4>2. QED
        BY <1>1, <2>3, <4>1
    <3>2. QED
      BY <2>3, <3>1
  <2>5. k - 1 \in 0..(c - 1) /\ k - 1 \notin S
    <3>1. k - 1 \in 0..(c - 1) /\ ~(k <= k - 1)
      BY <2>4
    <3>2. k - 1 \notin S
      <4> HIDE DEF S
      <4>1. QED
        BY <2>3, <3>1
    <3>3. QED
      BY <3>1, <3>2
  <2>6. PICK j \in Nat : j = c - k /\ j \in 1..c /\ j + 1 \in 2..c /\ c - (k - 1) = j + 1
    BY <2>4
  <2>7. L[j] > j - 1 /\ L[j + 1] <= j
    BY <1>1, <2>3, <2>5, <2>6
  <2>8. L[j] < L[j + 1]
    <3>1. L[(j + 1) - 1] < L[j + 1]
      BY <2>6 DEF Ids!Ascending
    <3>2. QED
      BY <2>6, <3>1
  <2>9. QED
    BY <1>1, <2>6, <2>7, <2>8
<1>4. QED
  BY <1>1, <1>2, <1>3

\* The prefix of a list of tokens: valid tokens, no more than there are cards,
\* and all of them as far as they are valid and fit.
LEMMA PrefixIs ==
  ASSUME NEW tokens \in Seq(Tokens), NEW devices \in Nat
  PROVE  \E k \in 0..Len(tokens) :
           /\ Ids!Prefix(tokens, devices) = SubSeq(tokens, 1, k)
           /\ Ids!Prefix(tokens, devices) \in Seq(Nat) /\ Len(Ids!Prefix(tokens, devices)) = k
           /\ \A i \in 1..k : Ids!Prefix(tokens, devices)[i] = tokens[i] /\ Ids!Valid(tokens[i], devices)
           /\ devices > 0 => k <= devices
           /\ (\A i \in 1..Len(tokens) : Ids!Valid(tokens[i], devices)) =>
                k = IF devices > 0 /\ Len(tokens) > devices THEN devices ELSE Len(tokens)
<1> DEFINE S == {i \in 0..Len(tokens) : \A j \in 1..i : Ids!Valid(tokens[j], devices)}
<1>1. Len(tokens) \in Nat
  OBVIOUS
<1>2. S \in SUBSET Nat /\ 0 \in S /\ \A x \in S : x <= Len(tokens)
  BY <1>1
<1>3. PICK n : n = Ids!Max(S)
  OBVIOUS
<1>4. n \in S /\ \A y \in S : n >= y
  <2> HIDE DEF S
  <2>1. QED
    BY <1>1, <1>2, <1>3, GreatestNat DEF Ids!Max
<1>5. PICK k : k = IF devices > 0 /\ n > devices THEN devices ELSE n
  OBVIOUS
<1>6. k \in 0..Len(tokens) /\ k <= n /\ (devices > 0 => k <= devices)
  BY <1>1, <1>4, <1>5
<1>7. Ids!Prefix(tokens, devices) = SubSeq(tokens, 1, k)
  BY <1>3, <1>5 DEF Ids!Prefix
<1>8. ASSUME NEW i \in 1..k
      PROVE  tokens[i] \in Nat /\ Ids!Valid(tokens[i], devices)
  <2>1. i \in 1..n /\ i \in 1..Len(tokens)
    BY <1>1, <1>4, <1>6
  <2>2. Ids!Valid(tokens[i], devices)
    BY <1>4, <2>1
  <2>3. tokens[i] \in Tokens
    BY <2>1, ElementOfSeq
  <2>4. QED
    BY <2>2, <2>3 DEF Ids!Valid, Tokens
<1>9. /\ SubSeq(tokens, 1, k) \in Seq(Nat) /\ Len(SubSeq(tokens, 1, k)) = k
      /\ \A i \in 1..k : SubSeq(tokens, 1, k)[i] = tokens[i]
  <2>1. k \in Int /\ 1 \in Int /\ k \in Nat
    BY <1>6
  <2>2. /\ SubSeq(tokens, 1, k) \in Seq(Nat)
        /\ Len(SubSeq(tokens, 1, k)) = IF 1 <= k THEN k - 1 + 1 ELSE 0
        /\ \A i \in 1..(k - 1 + 1) : SubSeq(tokens, 1, k)[i] = tokens[1 + i - 1]
    BY <1>8, <2>1, SubSeqProperties
  <2>3. QED
    BY <2>1, <2>2
<1>10. (\A i \in 1..Len(tokens) : Ids!Valid(tokens[i], devices)) =>
         k = IF devices > 0 /\ Len(tokens) > devices THEN devices ELSE Len(tokens)
  <2>1. ASSUME \A i \in 1..Len(tokens) : Ids!Valid(tokens[i], devices)
        PROVE  n = Len(tokens)
    <3>1. Len(tokens) \in S
      BY <1>1, <2>1
    <3>2. n \in Nat /\ n <= Len(tokens) /\ n >= Len(tokens)
      BY <1>1, <1>4, <3>1
    <3>3. QED
      BY <1>1, <3>2
  <2>2. QED
    BY <1>5, <2>1
<1>11. QED
  BY <1>6, <1>7, <1>8, <1>9, <1>10

-----------------------------------------------------------------------------

\* The machine and what is known of dcmi: it has a card.
MachineTyped ==
  /\ machine.env \in Environments \cup {Unset} /\ machine.cards \in Nat /\ machine.cards > 0
  /\ dcmi \in {"unknown", "ready", "failed"}

\* The variable is parsed with what dcmi says of the cards, which stays.
ParsedRight ==
  env.parsed =>
    /\ machine.env # Unset => dcmi # "unknown"
    /\ env.list = IF machine.env = Unset THEN <<>> ELSE Ids!ParsedTo(machine.env, Ids!GetRealDeviceCount)
    /\ env.restricted <=> env.list # <<>> /\ Ids!Restricted(env.list)

\* What the number i - 1 of the runtime becomes.
NumberOf(i) == IF env.restricted /\ i \in 1..Len(env.list) THEN env.list[i] ELSE i - 1

\* A number that was translated is that of a card that is shown; only the current
\* device of an old interface is not.
TranslatedRight ==
  \A number \in translated : number.of = "event" \/ ~machine.legacy =>
    env.parsed /\ \E i \in 1..Len(Ids!Shown) : number.id = i - 1 /\ number.card = NumberOf(i)

\* The inductive invariant.
IdsInv == MachineTyped /\ ParsedRight /\ TranslatedRight

\* A list that ascends pair by pair ascends step by step.
LEMMA PairwiseAscends ==
  ASSUME NEW L \in Seq(Nat), \A i, j \in 1..Len(L) : i < j => L[i] < L[j]
  PROVE  Ids!Ascending(L)
<1>1. ASSUME NEW i \in 2..Len(L)
      PROVE  L[i - 1] < L[i]
  <2>1. i - 1 \in 1..Len(L) /\ i \in 1..Len(L) /\ i - 1 < i
    OBVIOUS
  <2>2. QED
    BY <2>1
<1>2. QED
  BY <1>1 DEF Ids!Ascending

\* A list with the cards of the machine in ascending order is the one without gaps.
LEMMA FullList ==
  ASSUME MachineTyped, NEW L \in Seq(Nat), Len(L) = machine.cards, Ids!Ascending(L),
         \A i \in 1..Len(L) : L[i] <= machine.cards - 1
  PROVE  \A i \in 1..Len(L) : L[i] = i - 1
<1>1. PICK c \in Nat : c = machine.cards
  BY DEF MachineTyped
<1>2. QED
  BY <1>1, AllNumbers

\* The devices the runtime shows are the numbers of the cards if it does not
\* heed the variable, else the prefix of the variable.
LEMMA ShownIs ==
  ASSUME Ids!IdsAssumption, MachineTyped, machine.env # Unset, 1..Len(Ids!Shown) # {}
  PROVE  \/ /\ ~machine.heeds /\ Len(Ids!Shown) = machine.cards
            /\ \A i \in 1..Len(Ids!Shown) : Ids!Shown[i] = i - 1
         \/ /\ machine.heeds /\ Ids!Shown = Ids!Prefix(machine.env, machine.cards) /\ Ids!Ascending(Ids!Shown)
<1>1. CASE ~machine.heeds
  <2>1. Ids!Shown = [i \in 1..machine.cards |-> i - 1]
    BY <1>1 DEF Ids!Shown
  <2>2. machine.cards \in Nat
    BY DEF MachineTyped
  <2>3. Len(Ids!Shown) = machine.cards /\ \A i \in 1..machine.cards : Ids!Shown[i] = i - 1
    BY <2>1, <2>2
  <2>4. QED
    BY <1>1, <2>3
<1>2. CASE machine.heeds
  <2>1. PICK L : L = Ids!Prefix(machine.env, machine.cards)
    OBVIOUS
  <2>2. Ids!Shown = IF \A i, j \in 1..Len(L) : i < j => L[i] < L[j] THEN L ELSE <<>>
    BY <1>2, <2>1 DEF Ids!Shown
  <2>3. \A i, j \in 1..Len(L) : i < j => L[i] < L[j]
    <3>1. SUFFICES ASSUME ~(\A i, j \in 1..Len(L) : i < j => L[i] < L[j]) PROVE FALSE
      OBVIOUS
    <3>2. Ids!Shown = <<>>
      BY <2>2, <3>1
    <3>3. 1..Len(<<>>) = {}
      OBVIOUS
    <3>4. QED
      BY <3>2, <3>3
  <2>4. L \in Seq(Nat)
    <3>1. machine.env \in Seq(Tokens) /\ machine.cards \in Nat
      BY DEF MachineTyped, Ids!IdsAssumption, Tokens
    <3>2. PICK tokens \in Seq(Tokens), c \in Nat : tokens = machine.env /\ c = machine.cards
      BY <3>1
    <3>3. Ids!Prefix(tokens, c) \in Seq(Nat)
      BY PrefixIs
    <3>4. QED
      BY <2>1, <3>2, <3>3
  <2>5. Ids!Ascending(L)
    BY <2>3, <2>4, PairwiseAscends
  <2>6. QED
    BY <1>2, <2>1, <2>2, <2>3, <2>5
<1>3. QED
  BY <1>1, <1>2

\* With what it rests on, the translation is right.
LEMMA NumbersAreRight ==
  ASSUME Ids!IdsAssumption, IdsInv, env.parsed, machine.env = Unset \/ Ids!Told, NEW i \in 1..Len(Ids!Shown)
  PROVE  NumberOf(i) = Ids!Shown[i]
<1>1. MachineTyped /\ ParsedRight
  BY DEF IdsInv
<1>2. CASE machine.env = Unset
  <2>1. env.list = <<>> /\ ~env.restricted
    BY <1>1, <1>2 DEF ParsedRight
  <2>2. NumberOf(i) = i - 1
    BY <2>1 DEF NumberOf
  <2>3. Ids!Shown = [j \in 1..machine.cards |-> j - 1] /\ machine.cards \in Nat
    BY <1>1, <1>2 DEF Ids!Shown, MachineTyped
  <2>4. QED
    BY <2>2, <2>3
<1>3. CASE machine.env # Unset
  <2>1. PICK tokens \in Seq(Tokens), cards \in Nat, devices \in Nat :
          tokens = machine.env /\ cards = machine.cards /\ cards > 0 /\ devices = Ids!GetRealDeviceCount
    <3>1. machine.env \in Seq(Tokens) /\ machine.cards \in Nat /\ machine.cards > 0
      BY <1>1, <1>3 DEF MachineTyped, Ids!IdsAssumption, Tokens
    <3>2. Ids!GetRealDeviceCount \in Nat
      BY <3>1 DEF Ids!GetRealDeviceCount
    <3>3. QED
      BY <3>1, <3>2
  <2>2. dcmi # "unknown" /\ env.list = Ids!ParsedTo(tokens, devices)
        /\ (env.restricted <=> env.list # <<>> /\ Ids!Restricted(env.list))
    BY <1>1, <1>3, <2>1 DEF ParsedRight
  <2>3. PICK L : L = Ids!Prefix(tokens, cards)
    OBVIOUS
  <2>4. PICK P : P = Ids!Prefix(tokens, devices)
    OBVIOUS
  <2>5. PICK kl \in 0..Len(tokens) :
          /\ L = SubSeq(tokens, 1, kl) /\ L \in Seq(Nat) /\ Len(L) = kl
          /\ \A j \in 1..kl : L[j] = tokens[j] /\ Ids!Valid(tokens[j], cards)
          /\ kl <= cards
          /\ (\A j \in 1..Len(tokens) : Ids!Valid(tokens[j], cards)) =>
               kl = IF Len(tokens) > cards THEN cards ELSE Len(tokens)
    <3>1. \E k \in 0..Len(tokens) :
             /\ L = SubSeq(tokens, 1, k) /\ L \in Seq(Nat) /\ Len(L) = k
             /\ \A j \in 1..k : L[j] = tokens[j] /\ Ids!Valid(tokens[j], cards)
             /\ cards > 0 => k <= cards
             /\ (\A j \in 1..Len(tokens) : Ids!Valid(tokens[j], cards)) =>
                  k = IF cards > 0 /\ Len(tokens) > cards THEN cards ELSE Len(tokens)
      BY <2>3, PrefixIs
    <3>2. cards > 0
      BY <2>1
    <3>3. QED
      BY <3>1, <3>2
  <2>6. PICK kp \in 0..Len(tokens) :
          /\ P = SubSeq(tokens, 1, kp) /\ P \in Seq(Nat) /\ Len(P) = kp
          /\ \A j \in 1..kp : P[j] = tokens[j] /\ Ids!Valid(tokens[j], devices)
          /\ (\A j \in 1..Len(tokens) : Ids!Valid(tokens[j], devices)) =>
               kp = IF devices > 0 /\ Len(tokens) > devices THEN devices ELSE Len(tokens)
    BY <2>4, PrefixIs
  <2>7. env.list = IF Ids!Ascending(P) THEN P ELSE <<>>
    BY <2>2, <2>4 DEF Ids!ParsedTo
  <2>8. \A j \in 1..kl : L[j] <= cards - 1
    BY <2>1, <2>5 DEF Ids!Valid
  <2>9. \/ /\ ~machine.heeds /\ Len(Ids!Shown) = cards
           /\ \A j \in 1..Len(Ids!Shown) : Ids!Shown[j] = j - 1
        \/ /\ machine.heeds /\ Ids!Shown = L /\ Ids!Ascending(L)
    <3>1. 1..Len(Ids!Shown) # {}
      OBVIOUS
    <3>2. QED
      BY <1>1, <1>3, <2>1, <2>3, <3>1, ShownIs
  <2>10. ~machine.heeds => machine.counts
    BY <1>3 DEF Ids!Told
  <2>11. /\ machine.counts => (Ids!Restricted(env.list) <=> IF devices > 0 THEN Len(Ids!Shown) < devices ELSE Len(Ids!Shown) = Len(env.list))
         /\ ~machine.counts => Ids!Restricted(env.list)
    BY <2>1 DEF Ids!Restricted
  <2>12. i \in Nat
    OBVIOUS
  <2>13. CASE devices > 0
    <3>1. devices = cards /\ P = L
      BY <2>1, <2>3, <2>4, <2>13 DEF Ids!GetRealDeviceCount
    <3>2. CASE ~machine.heeds
      BY <2>1, <2>2, <2>9, <2>10, <2>11, <3>1, <3>2 DEF NumberOf
    <3>3. CASE machine.heeds
      <4>1. Ids!Shown = L /\ Ids!Ascending(L) /\ env.list = L
        BY <2>7, <2>9, <3>1, <3>3
      <4>2. CASE env.restricted
        BY <4>1, <4>2 DEF NumberOf
      <4>3. CASE ~env.restricted
        <5>1. L # <<>>
          BY <4>1
        <5>2. ~Ids!Restricted(env.list)
          BY <2>2, <4>1, <4>3, <5>1
        <5>3. ~(kl < cards)
          BY <2>1, <2>5, <2>11, <3>1, <4>1, <5>2
        <5>4. Len(L) = cards
          BY <2>5, <5>3
        <5>5. L[i] = i - 1
          BY <1>1, <2>1, <2>5, <2>8, <4>1, <5>4, FullList
        <5>6. QED
          BY <4>1, <4>3, <5>5 DEF NumberOf
      <4>4. QED
        BY <4>2, <4>3
    <3>4. QED
      BY <3>2, <3>3
  <2>14. CASE ~(devices > 0)
    <3>1. devices = 0 /\ \A j \in 1..Len(tokens) : Ids!Valid(tokens[j], cards)
      BY <1>3, <2>1, <2>14 DEF Ids!Told, Ids!InRange
    <3>2. \A j \in 1..Len(tokens) : Ids!Valid(tokens[j], devices)
      BY <3>1 DEF Ids!Valid
    <3>3. /\ kp = Len(tokens) /\ P = tokens /\ tokens \in Seq(Nat)
          /\ kl = IF Len(tokens) > cards THEN cards ELSE Len(tokens)
      <4>1. kp = Len(tokens)
        BY <2>6, <3>1, <3>2
      <4>2. SubSeq(tokens, 1, Len(tokens)) = tokens
        BY SubSeqFull
      <4>3. QED
        BY <2>5, <2>6, <3>1, <4>1, <4>2
    <3>4. \A j \in 1..Len(tokens) : tokens[j] <= cards - 1 /\ tokens[j] \in Nat
      BY <2>1, <3>1, <3>3 DEF Ids!Valid
    <3>5. Len(tokens) \in Nat
      OBVIOUS
    <3>6. CASE ~machine.heeds
      <4>1. Ids!Shown[i] = i - 1 /\ Len(Ids!Shown) = cards /\ machine.counts
        BY <2>9, <2>10, <3>6
      <4>2. CASE env.restricted /\ i \in 1..Len(env.list)
        <5>1. Len(env.list) = cards /\ env.list # <<>>
          BY <2>2, <2>11, <3>1, <4>1, <4>2
        <5>2. env.list = tokens /\ Ids!Ascending(tokens)
          BY <2>7, <3>3, <5>1
        <5>3. tokens[i] = i - 1
          BY <1>1, <2>1, <3>3, <3>4, <4>2, <5>1, <5>2, FullList
        <5>4. QED
          BY <4>1, <4>2, <5>2, <5>3 DEF NumberOf
      <4>3. CASE ~(env.restricted /\ i \in 1..Len(env.list))
        BY <4>1, <4>3 DEF NumberOf
      <4>4. QED
        BY <4>2, <4>3
    <3>7. CASE machine.heeds
      <4>1. Ids!Shown = L /\ Ids!Ascending(L) /\ i \in 1..kl
        BY <2>5, <2>9, <3>7
      <4>2. CASE Len(tokens) <= cards
        <5>1. kl = Len(tokens)
          BY <2>1, <3>3, <3>5, <4>2, SMTT(30)
        <5>2. L = tokens /\ env.list = L
          BY <2>5, <2>6, <2>7, <3>3, <4>1, <5>1
        <5>3. L # <<>>
          BY <4>1
        <5>4. env.restricted
          BY <2>2, <2>11, <3>1, <4>1, <5>2, <5>3
        <5>5. QED
          BY <2>5, <4>1, <5>2, <5>4 DEF NumberOf
      <4>3. CASE Len(tokens) > cards
        <5>1. kl = cards /\ Len(L) = cards
          BY <2>5, <3>3, <4>3
        <5>2. \A j \in 1..Len(L) : L[j] = j - 1
          BY <1>1, <2>1, <2>5, <2>8, <4>1, <5>1, FullList
        <5>3. ~Ids!Ascending(tokens)
          <6>1. cards \in 1..kl /\ cards \in 1..Len(tokens) /\ cards + 1 \in 2..Len(tokens) /\ cards + 1 - 1 = cards
            BY <2>1, <3>5, <4>3, <5>1
          <6>2. tokens[cards] = cards - 1
            BY <2>5, <5>1, <5>2, <6>1
          <6>3. cards + 1 \in 1..Len(tokens)
            BY <6>1
          <6>4. tokens[cards + 1] <= cards - 1 /\ tokens[cards + 1] \in Nat
            BY <3>4, <6>3
          <6>5. ~(tokens[(cards + 1) - 1] < tokens[cards + 1])
            BY <6>1, <6>2, <6>4
          <6>6. QED
            BY <6>1, <6>5 DEF Ids!Ascending
        <5>4. env.list = <<>>
          BY <2>7, <3>3, <5>3
        <5>5. ~env.restricted
          BY <2>2, <5>4
        <5>6. QED
          BY <2>5, <4>1, <5>2, <5>5 DEF NumberOf
      <4>4. QED
        BY <2>1, <3>5, <4>2, <4>3
    <3>8. QED
      BY <3>6, <3>7
  <2>15. QED
    BY <2>13, <2>14
<1>4. QED
  BY <1>2, <1>3

\* It holds at first.
LEMMA IdsInit ==
  ASSUME Ids!IdsAssumption, Ids!Init
  PROVE  IdsInv
<1>1. MachineTyped
  BY DEF Ids!Init, MachineTyped, Ids!IdsAssumption
<1>2. ~env.parsed /\ translated = {}
  BY DEF Ids!Init
<1>3. QED
  BY <1>1, <1>2 DEF IdsInv, ParsedRight, TranslatedRight

\* Every step keeps it.
LEMMA IdsNext ==
  ASSUME Ids!IdsAssumption, IdsInv, [Ids!Next]_Ids!vars
  PROVE  IdsInv'
<1>1. ASSUME UNCHANGED <<machine, env, translated>>, dcmi' \in {"unknown", "ready", "failed"},
             dcmi' = dcmi \/ dcmi = "unknown"
      PROVE  IdsInv'
  <2>1. MachineTyped'
    BY <1>1 DEF IdsInv, MachineTyped
  <2>2. TranslatedRight'
    BY <1>1 DEF IdsInv, TranslatedRight, NumberOf, Ids!Shown
  <2>3. ParsedRight'
    <3>1. CASE dcmi' = dcmi
      BY <1>1, <3>1 DEF IdsInv, ParsedRight, Ids!GetRealDeviceCount, Ids!Restricted, Ids!Shown
    <3>2. CASE dcmi = "unknown"
      BY <1>1, <3>2 DEF IdsInv, ParsedRight
    <3>3. QED
      BY <1>1, <3>1, <3>2
  <2>4. QED
    BY <2>1, <2>2, <2>3 DEF IdsInv
<1>2. CASE Ids!EnsureDcmiInit
  BY <1>1, <1>2 DEF Ids!EnsureDcmiInit
<1>3. CASE Ids!BuildDeviceMap
  BY <1>1, <1>3 DEF Ids!BuildDeviceMap, IdsInv, MachineTyped
<1>4. CASE Ids!EnsureEnvParsed
  <2>1. PICK list : list = IF machine.env = Unset THEN <<>> ELSE Ids!ParsedTo(machine.env, Ids!GetRealDeviceCount)
    OBVIOUS
  <2>2. /\ ~env.parsed /\ (machine.env # Unset => dcmi # "unknown")
        /\ env' = [parsed |-> TRUE, list |-> list, restricted |-> list # <<>> /\ Ids!Restricted(list)]
        /\ UNCHANGED <<machine, dcmi, dcmiMap, translated, queried>>
    BY <1>4, <2>1 DEF Ids!EnsureEnvParsed
  <2>3. env'.parsed /\ env'.list = list /\ (env'.restricted <=> list # <<>> /\ Ids!Restricted(list))
    BY <2>2
  <2>4. MachineTyped'
    BY <2>2 DEF IdsInv, MachineTyped
  <2>5. TranslatedRight'
    BY <2>2 DEF IdsInv, TranslatedRight
  <2>6. Ids!Restricted(list)' <=> Ids!Restricted(list)
    BY <2>2 DEF Ids!Restricted, Ids!Shown, Ids!GetRealDeviceCount
  <2>7. ParsedRight'
    BY <2>1, <2>2, <2>3, <2>6 DEF ParsedRight, Ids!GetRealDeviceCount, Ids!Restricted, Ids!Shown
  <2>8. QED
    BY <2>4, <2>5, <2>7 DEF IdsInv
<1>5. ASSUME NEW i \in 1..Len(Ids!Shown), Ids!TransDeviceId(i - 1) \/ Ids!GetDeviceId(i - 1)
      PROVE  IdsInv'
  <2>1. UNCHANGED <<machine, dcmi, dcmiMap, env, queried>>
    BY <1>5 DEF Ids!TransDeviceId, Ids!GetDeviceId, Ids!Give
  <2>2. i - 1 + 1 = i
    OBVIOUS
  <2>3. Ids!Translation(i - 1) = NumberOf(i)
    BY <2>2 DEF Ids!Translation, NumberOf
  <2>4. ASSUME NEW n \in translated', n \notin translated, n.of = "event" \/ ~machine.legacy
        PROVE  env.parsed /\ n.id = i - 1 /\ n.card = NumberOf(i)
    <3>1. CASE Ids!TransDeviceId(i - 1)
      BY <2>3, <2>4, <3>1 DEF Ids!TransDeviceId, Ids!Give
    <3>2. CASE machine.legacy /\ Ids!Give(i - 1, i - 1, "current")
      <4>1. n.of = "current"
        BY <2>4, <3>2 DEF Ids!Give
      <4>2. QED
        BY <2>4, <3>2, <4>1
    <3>3. CASE ~machine.legacy /\ env.parsed /\ Ids!Give(i - 1, Ids!Translation(i - 1), "current")
      BY <2>3, <2>4, <3>3 DEF Ids!Give
    <3>4. QED
      BY <1>5, <3>1, <3>2, <3>3 DEF Ids!GetDeviceId
  <2>5. \A j : NumberOf(j)' = NumberOf(j)
    BY <2>1 DEF NumberOf
  <2>6. Ids!Shown' = Ids!Shown
    BY <2>1 DEF Ids!Shown
  <2>7. TranslatedRight'
    <3>1. ASSUME NEW n \in translated', n.of = "event" \/ ~machine.legacy
          PROVE  env.parsed /\ \E j \in 1..Len(Ids!Shown) : n.id = j - 1 /\ n.card = NumberOf(j)
      <4>1. CASE n \in translated
        BY <3>1, <4>1 DEF IdsInv, TranslatedRight
      <4>2. CASE n \notin translated
        BY <2>4, <3>1, <4>2
      <4>3. QED
        BY <4>1, <4>2
    <3>2. QED
      BY <2>1, <2>5, <2>6, <3>1 DEF TranslatedRight
  <2>8. MachineTyped' /\ ParsedRight'
    BY <2>1, <2>6 DEF IdsInv, MachineTyped, ParsedRight, Ids!GetRealDeviceCount, Ids!Restricted
  <2>9. QED
    BY <2>7, <2>8 DEF IdsInv
<1>6. ASSUME NEW id \in 0..MaxCards, Ids!Query(id)
      PROVE  IdsInv'
  BY <1>1, <1>6 DEF Ids!Query, IdsInv, MachineTyped
<1>7. CASE UNCHANGED Ids!vars
  BY <1>1, <1>7 DEF Ids!vars, IdsInv, MachineTyped
<1>8. QED
  BY <1>2, <1>3, <1>4, <1>5, <1>6, <1>7 DEF Ids!Next

\* Numbers are those of the cards.
LEMMA IdsImply ==
  ASSUME Ids!IdsAssumption, IdsInv
  PROVE  Ids!IdsArePhysical
<1>1. SUFFICES ASSUME machine.env = Unset \/ Ids!Told, NEW number \in translated,
                      number.of = "event" \/ ~machine.legacy
               PROVE  number.card = Ids!Shown[number.id + 1]
  BY DEF Ids!IdsArePhysical
<1>2. PICK i \in 1..Len(Ids!Shown) : env.parsed /\ number.id = i - 1 /\ number.card = NumberOf(i)
  BY <1>1 DEF IdsInv, TranslatedRight
<1>3. NumberOf(i) = Ids!Shown[i]
  BY <1>1, <1>2, NumbersAreRight
<1>4. number.id + 1 = i
  BY <1>2
<1>5. QED
  BY <1>2, <1>3, <1>4

-----------------------------------------------------------------------------
(* ControlFrames: responses in frames *)

\* A frame: its number, whether others follow, its part of the response, its size
\* and where its part begins.
FrameRecords == [seq : Nat, cont : BOOLEAN, text : Seq(Frames!Bytes), size : Nat, from : Nat]

\* A byte under way: the frame it is of, and its place in it.
Pieces == [frame : FrameRecords, at : Nat]

\* The states of the server.
Senders ==
  [at : {"idle", "serializing", "sending", "closed", "thrown"}, offset : Nat, frame : FrameRecords, sent : Nat]

\* The states of the client.
Readers ==
  [at : {"idle", "waiting", "done", "failed", "violation", "gone"}, in : Seq(Pieces), text : Seq(Frames!Bytes)]

\* The types of the variables.
FramesTyped ==
  /\ commands \in Nat /\ output \in Seq(Frames!Bytes)
  /\ sender \in Senders /\ wire \in Seq(Pieces) /\ reader \in Readers

\* The bytes that were sent and are not taken: those the reader has of a frame
\* that is not complete, and those under way.
Stream == reader.in \o wire

\* A frame of the response of now, that knows whether it is the last.
FrameRight(frame) ==
  /\ frame.seq = commands
  /\ frame.from + Len(frame.text) <= Len(output)
  /\ frame.text = SubSeq(output, frame.from + 1, frame.from + Len(frame.text))
  /\ frame.cont <=> frame.from + Len(frame.text) < Len(output)

\* Where a piece is the last of its frame, the next frame goes on from here.
EndsAt(piece, offset) ==
  piece.at = Frames!Total(piece.frame) /\ piece.frame.cont /\ offset = piece.frame.from + Len(piece.frame.text)

\* The stream s holds the bytes of frames in their order, and frames in theirs.
InOrder(s) ==
  /\ \A i \in 1..Len(s) : FrameRight(s[i].frame) /\ s[i].at \in 1..Frames!Total(s[i].frame)
  /\ \A i, j \in 1..Len(s) :
       i < j /\ j - i <= Frames!Total(s[i].frame) - s[i].at =>
         s[j].frame = s[i].frame /\ s[j].at = s[i].at + (j - i)
  /\ \A i, j \in 1..Len(s) :
       j = i + 1 /\ s[i].at = Frames!Total(s[i].frame) => s[j].at = 1 /\ EndsAt(s[i], s[j].frame.from)

\* It begins where the reader's text ends.
Begins(s) == Len(s) > 0 => s[1].at = 1 /\ s[1].frame.from = Len(reader.text)

\* What the sender does next follows the last byte of the stream.
Follows(last) ==
  /\ sender.at = "serializing" \/ (sender.at = "sending" /\ sender.sent = 0) => EndsAt(last, sender.offset)
  /\ sender.at = "sending" /\ sender.sent > 0 => last.frame = sender.frame /\ last.at = sender.sent
  /\ sender.at = "idle" => last.at = Frames!Total(last.frame) /\ ~last.frame.cont

\* And where the stream is empty, what the reader has taken.
FollowsText ==
  /\ reader.at = "idle" => sender.at = "idle"
  /\ reader.at = "waiting" =>
       /\ sender.at # "idle"
       /\ sender.at = "serializing" \/ (sender.at = "sending" /\ sender.sent = 0) =>
            sender.offset = Len(reader.text)
       /\ sender.at = "sending" /\ sender.sent > 0 =>
            /\ sender.sent = Frames!Total(sender.frame) /\ sender.frame.cont
            /\ Len(reader.text) = sender.offset + Len(sender.frame.text)
  /\ reader.at = "done" =>
       /\ sender.at # "serializing"
       /\ sender.at = "sending" => sender.sent = Frames!Total(sender.frame) /\ ~sender.frame.cont

\* What the server sends next is what comes next of the response.
SenderRight ==
  /\ sender.at = "serializing" => sender.offset <= Len(output)
  /\ sender.at = "sending" =>
       /\ FrameRight(sender.frame) /\ sender.frame.from = sender.offset
       /\ sender.sent <= Frames!Total(sender.frame)

\* The text is the beginning of the response, all of it when the reader is done,
\* and the reader has bytes of one frame only.
ReaderRight ==
  /\ reader.at \in {"waiting", "failed"} =>
       Len(reader.text) <= Len(output) /\ reader.text = SubSeq(output, 1, Len(reader.text))
  /\ reader.at = "done" => reader.text = output
  /\ reader.at \in {"idle", "done"} => Len(reader.in) = 0 /\ Len(wire) = 0
  /\ Len(reader.in) > 0 => Len(reader.in) <= Frames!Total(reader.in[1].frame)

\* The client has not given up.
Running == reader.at \in {"idle", "waiting", "done"}

\* The inductive invariant.
FramesInv ==
  /\ FramesTyped /\ reader.at # "violation" /\ ReaderRight /\ SenderRight
  /\ Running =>
       /\ InOrder(Stream) /\ Begins(Stream)
       /\ IF Len(Stream) > 0 THEN Follows(Stream[Len(Stream)]) ELSE FollowsText

-----------------------------------------------------------------------------
\* The stream by its parts.
LEMMA StreamIs ==
  ASSUME FramesTyped
  PROVE  /\ Stream \in Seq(Pieces)
         /\ Len(reader.in) \in Nat /\ Len(wire) \in Nat
         /\ Len(Stream) = Len(reader.in) + Len(wire)
         /\ \A i \in 1..Len(reader.in) : Stream[i] = reader.in[i]
         /\ \A i \in 1..Len(wire) : Stream[Len(reader.in) + i] = wire[i]
<1>1. reader.in \in Seq(Pieces) /\ wire \in Seq(Pieces)
  BY DEF FramesTyped, Readers
<1> DEFINE a == reader.in
<1> HIDE DEF a
<1>2. a \in Seq(Pieces)
  BY <1>1 DEF a
<1>3. /\ a \o wire \in Seq(Pieces)
      /\ Len(a \o wire) = Len(a) + Len(wire)
      /\ \A i \in 1..Len(a) + Len(wire) :
           (a \o wire)[i] = IF i <= Len(a) THEN a[i] ELSE wire[i - Len(a)]
  BY <1>1, <1>2, ConcatProperties
<1>4. Len(a) \in Nat /\ Len(wire) \in Nat
  BY <1>1, <1>2, LenProperties
<1>5. \A i \in 1..Len(a) : (a \o wire)[i] = a[i]
  BY <1>3, <1>4
<1>6. \A i \in 1..Len(wire) : (a \o wire)[Len(a) + i] = wire[i]
  BY <1>3, <1>4
<1>7. QED
  BY <1>3, <1>4, <1>5, <1>6 DEF Stream, a

\* A chunk is no longer than what is left, and the last one is all of it.
LEMMA ChunksFit ==
  ASSUME Frames!FramesAssumption, FramesTyped, NEW o \in Nat, o <= Len(output)
  PROVE  /\ Frames!ChunkLen(o) \in Nat /\ Frames!ChunkLen(o) <= Frames!Rest(o)
         /\ Frames!IsLast(o) <=> Frames!ChunkLen(o) = Frames!Rest(o)
<1>1. Frames!Rest(o) \in Nat /\ Frames!Budget \in Nat
  BY DEF FramesTyped, Frames!Rest, Frames!Budget, Frames!FramesAssumption
<1>2. Frames!FirstTry(o) \in Nat /\ Frames!FirstTry(o) <= Frames!Rest(o) /\ (Frames!FirstTry(o) = Frames!Rest(o) => Frames!Rest(o) <= Frames!Budget)
  BY <1>1 DEF Frames!FirstTry
<1> DEFINE S == {len \in Frames!Halves(Frames!FirstTry(o)) : Frames!PayloadSize(Frames!Chunk(o, len)) <= Limit} \cup {0}
<1>3. S \in SUBSET Nat /\ S # {} /\ \A x \in S : x <= Frames!FirstTry(o)
  BY <1>2 DEF Frames!Halves
<1> HIDE DEF S
<1>4. Frames!Max(S) \in S
  BY <1>2, <1>3, GreatestNat DEF Frames!Max
<1>5. Frames!ChunkLen(o) = Frames!Max(S)
  BY DEF Frames!ChunkLen, S
<1>6. Frames!ChunkLen(o) \in Nat /\ Frames!ChunkLen(o) <= Frames!FirstTry(o)
  BY <1>3, <1>4, <1>5
<1>7. QED
  BY <1>1, <1>2, <1>6 DEF Frames!IsLast

\* A chunk, its size and its frame.
LEMMA ChunkIsRight ==
  ASSUME Frames!FramesAssumption, FramesTyped, NEW o \in Nat, o <= Len(output),
         NEW f, f = [seq |-> commands, cont |-> ~Frames!IsLast(o), text |-> Frames!Chunk(o, Frames!ChunkLen(o)),
                     size |-> Frames!PayloadSize(Frames!Chunk(o, Frames!ChunkLen(o))), from |-> o]
  PROVE  f \in FrameRecords /\ FrameRight(f) /\ Len(f.text) = Frames!ChunkLen(o)
<1> DEFINE n == Frames!ChunkLen(o)
           t == Frames!Chunk(o, n)
<1>1. n \in Nat /\ n <= Frames!Rest(o) /\ (Frames!IsLast(o) <=> n = Frames!Rest(o))
  BY ChunksFit
<1> HIDE DEF n
<1>2. output \in Seq(Frames!Bytes) /\ Len(output) \in Nat
  BY DEF FramesTyped
<1>3. \A i \in (o + 1)..(o + n) : output[i] \in Frames!Bytes
  BY <1>1, <1>2, ElementOfSeq DEF Frames!Rest
<1>4. t \in Seq(Frames!Bytes) /\ Len(t) = n
  BY <1>1, <1>2, <1>3, SubSeqProperties DEF Frames!Chunk
<1> HIDE DEF t
<1>5. Frames!PayloadSize(t) \in Nat
  <2> DEFINE E == {i \in DOMAIN t : t[i] = "escaped"}
  <2>1. IsFiniteSet(1..n) /\ E \subseteq 1..n
    BY <1>1, <1>4, FS_Interval
  <2> HIDE DEF E
  <2>2. Frames!Cardinality(E) \in Nat
    BY <2>1, FS_Subset, FS_CardinalityType DEF Cardinality, Frames!Cardinality
  <2>3. Overhead \in Nat
    BY DEF Frames!FramesAssumption
  <2>4. QED
    BY <1>1, <1>4, <2>2, <2>3 DEF Frames!PayloadSize, E
<1>6. f.text = t /\ f.from = o /\ f.size = Frames!PayloadSize(t) /\ f.seq = commands /\ (f.cont <=> ~Frames!IsLast(o))
  BY DEF t, n
<1>7. Frames!IsLast(o) \in BOOLEAN /\ commands \in Nat
  BY DEF Frames!IsLast, FramesTyped
<1>8. f \in FrameRecords
  BY <1>4, <1>5, <1>7 DEF FrameRecords, t, n
<1>9. f.text = SubSeq(output, o + 1, o + n)
  BY <1>6 DEF t, n, Frames!Chunk
<1>10. FrameRight(f)
  <2>1. Len(f.text) = n
    BY <1>4, <1>6
  <2>2. f.cont <=> o + n < Len(output)
    BY <1>1, <1>2, <1>6 DEF Frames!Rest
  <2>3. o + n <= Len(output)
    BY <1>1, <1>2 DEF Frames!Rest
  <2>4. QED
    BY <1>6, <1>9, <2>1, <2>2, <2>3 DEF FrameRight
<1>11. QED
  BY <1>4, <1>6, <1>8, <1>10 DEF n

-----------------------------------------------------------------------------
\* The order is that of the response of now.
LEMMA OrderStays ==
  ASSUME UNCHANGED <<commands, output>>, NEW z, InOrder(z)
  PROVE  InOrder(z)'
<1>1. \A f : FrameRight(f) => FrameRight(f)'
  BY DEF FrameRight
<1>2. QED
  BY <1>1 DEF InOrder, EndsAt

\* What does not touch the stream, the text and the response keeps its order.
LEMMA StreamStays ==
  ASSUME UNCHANGED <<commands, output, wire, reader>>
  PROVE  /\ Stream' = Stream
         /\ InOrder(Stream) => InOrder(Stream)'
         /\ Begins(Stream) => Begins(Stream)'
         /\ ReaderRight => ReaderRight'
<1>1. Stream' = Stream
  BY DEF Stream
<1>2. ASSUME InOrder(Stream)
      PROVE  InOrder(Stream)'
  <2>1. \A f : FrameRight(f) => FrameRight(f)'
    BY DEF FrameRight
  <2>2. QED
    BY <1>1, <1>2, <2>1 DEF InOrder, EndsAt
<1>3. QED
  BY <1>1, <1>2 DEF Begins, ReaderRight

\* The next chunk goes on where the stream ends.
LEMMA SerializeKeeps ==
  ASSUME Frames!FramesAssumption, FramesInv, Frames!Serialize
  PROVE  FramesInv'
<1> DEFINE o == sender.offset
<1>1. /\ sender.at = "serializing" /\ UNCHANGED <<commands, output, wire, reader>>
      /\ FramesTyped /\ reader.at # "violation" /\ ReaderRight
  BY DEF Frames!Serialize, FramesInv
<1>2. /\ Stream' = Stream /\ ReaderRight'
      /\ InOrder(Stream) => InOrder(Stream)'
      /\ Begins(Stream) => Begins(Stream)'
  BY <1>1, StreamStays
<1>3. sender \in Senders
  BY <1>1 DEF FramesTyped
<1>4. CASE sender' = [sender EXCEPT !.at = "thrown"]
  <2>1. sender'.at = "thrown" /\ sender' \in Senders
    BY <1>3, <1>4 DEF Senders
  <2>2. FramesTyped'
    BY <1>1, <2>1 DEF FramesTyped
  <2>3. SenderRight' /\ FollowsText' /\ Follows(Stream[Len(Stream)])'
    <3>1. reader.at = "idle" => Len(Stream) = 0
      BY <1>1, StreamIs DEF ReaderRight
    <3>2. reader.at # "idle"
      BY <1>1, <3>1 DEF FramesInv, FollowsText, Running
    <3>3. QED
      BY <1>1, <2>1, <3>2 DEF SenderRight, Follows, FollowsText
  <2>4. QED
    BY <1>1, <1>2, <2>2, <2>3 DEF FramesInv, Running
<1>5. CASE sender' # [sender EXCEPT !.at = "thrown"]
  <2>1. PICK f : f = [seq |-> commands, cont |-> ~Frames!IsLast(o), text |-> Frames!Chunk(o, Frames!ChunkLen(o)),
                      size |-> Frames!PayloadSize(Frames!Chunk(o, Frames!ChunkLen(o))), from |-> o]
    OBVIOUS
  <2>2. sender' = [sender EXCEPT !.at = "sending", !.sent = 0, !.frame = f]
    BY <1>5, <2>1 DEF Frames!Serialize
  <2>3. o \in Nat /\ o <= Len(output)
    BY <1>1, <1>3 DEF FramesInv, SenderRight, Senders
  <2>4. f \in FrameRecords /\ FrameRight(f) /\ f.from = o
    BY <1>1, <2>1, <2>3, ChunkIsRight
  <2>5. /\ sender'.at = "sending" /\ sender'.sent = 0 /\ sender'.frame = f /\ sender'.offset = o
        /\ sender' \in Senders
    BY <1>3, <2>2, <2>4 DEF Senders
  <2>6. FramesTyped'
    BY <1>1, <2>5 DEF FramesTyped
  <2>7. Frames!Total(f) \in Nat /\ Frames!Total(f) > 0
    BY <2>4 DEF Frames!Total, FrameRecords, Frames!FramesAssumption
  <2>8. FrameRight(f)'
    BY <1>1, <2>4 DEF FrameRight
  <2>9. SenderRight'
    BY <2>4, <2>5, <2>7, <2>8 DEF SenderRight
  <2>10. Running /\ Len(Stream) > 0 => Follows(Stream[Len(Stream)])'
    BY <1>1, <1>2, <1>5, <2>5 DEF FramesInv, Follows, EndsAt
  <2>11. Running /\ ~(Len(Stream) > 0) => FollowsText'
    BY <1>1, <1>5, <2>5 DEF FramesInv, FollowsText
  <2>12. QED
    BY <1>1, <1>2, <1>5, <2>6, <2>9, <2>10, <2>11 DEF FramesInv, Running
<1>6. QED
  BY <1>4, <1>5

\* The end of a frame.
LEMMA SentKeeps ==
  ASSUME Frames!FramesAssumption, FramesInv, Frames!Sent
  PROVE  FramesInv'
<1> DEFINE f == sender.frame
<1>1. /\ sender.at = "sending" /\ sender.sent = Frames!Total(f)
      /\ sender' = [sender EXCEPT !.at = IF f.cont THEN "serializing" ELSE "idle", !.offset = @ + Len(f.text)]
      /\ UNCHANGED <<commands, output, wire, reader>>
      /\ FramesTyped /\ reader.at # "violation" /\ ReaderRight
  BY DEF Frames!Sent, FramesInv
<1>2. /\ Stream' = Stream /\ ReaderRight'
      /\ InOrder(Stream) => InOrder(Stream)'
      /\ Begins(Stream) => Begins(Stream)'
  BY <1>1, StreamStays
<1>3. sender \in Senders /\ f \in FrameRecords /\ Len(f.text) \in Nat
  BY <1>1 DEF FramesTyped, Senders, FrameRecords
<1>4. /\ sender'.at = (IF f.cont THEN "serializing" ELSE "idle")
      /\ sender'.offset = sender.offset + Len(f.text) /\ sender' \in Senders
  <2>1. PICK a : a = (IF f.cont THEN "serializing" ELSE "idle")
    OBVIOUS
  <2>2. PICK n : n = sender.offset + Len(f.text)
    OBVIOUS
  <2>3. sender' = [sender EXCEPT !.at = a, !.offset = n]
    BY <1>1, <2>1, <2>2
  <2>4. a \in {"serializing", "idle"} /\ n \in Nat
    BY <1>3, <2>1, <2>2 DEF Senders
  <2>5. sender'.at = a /\ sender'.offset = n /\ sender' \in Senders
    BY <1>3, <2>3, <2>4 DEF Senders
  <2>6. QED
    BY <2>1, <2>2, <2>5
<1>5. FramesTyped'
  BY <1>1, <1>4 DEF FramesTyped
<1>6. sender.sent > 0
  BY <1>1, <1>3 DEF Frames!Total, FrameRecords, Frames!FramesAssumption
<1>7. FrameRight(f) /\ f.from = sender.offset /\ SenderRight'
  <2>1. FrameRight(f) /\ f.from = sender.offset
    BY <1>1 DEF FramesInv, SenderRight
  <2>2. QED
    BY <1>1, <1>4, <2>1 DEF SenderRight, FrameRight
<1>8. ASSUME Running
      PROVE  /\ Len(Stream) > 0 => Follows(Stream[Len(Stream)])'
             /\ ~(Len(Stream) > 0) => FollowsText'
  <2>1. Len(Stream) > 0 => Follows(Stream[Len(Stream)])'
    BY <1>1, <1>2, <1>4, <1>6, <1>7, <1>8 DEF FramesInv, Follows, EndsAt
  <2>2. ~(Len(Stream) > 0) => FollowsText'
    BY <1>1, <1>4, <1>6, <1>8 DEF FramesInv, FollowsText
  <2>3. QED
    BY <2>1, <2>2
<1>9. QED
  BY <1>1, <1>2, <1>5, <1>7, <1>8 DEF FramesInv, Running

\* A session that is closed asks for nothing.
LEMMA SendFailsKeeps ==
  ASSUME Frames!FramesAssumption, FramesInv, Frames!SendFails
  PROVE  FramesInv'
<1>1. /\ sender.at = "sending" /\ sender' = [sender EXCEPT !.at = "closed"]
      /\ UNCHANGED <<commands, output, wire, reader>>
      /\ FramesTyped /\ reader.at # "violation" /\ ReaderRight
  BY DEF Frames!SendFails, FramesInv
<1>2. /\ Stream' = Stream /\ ReaderRight'
      /\ InOrder(Stream) => InOrder(Stream)'
      /\ Begins(Stream) => Begins(Stream)'
  BY <1>1, StreamStays
<1>3. sender'.at = "closed" /\ sender' \in Senders
  BY <1>1 DEF FramesTyped, Senders
<1>4. FramesTyped'
  BY <1>1, <1>3 DEF FramesTyped
<1>5. SenderRight' /\ Follows(Stream[Len(Stream)])' /\ FollowsText'
  <2>1. reader.at = "idle" => Len(Stream) = 0
    BY <1>1, StreamIs DEF ReaderRight
  <2>2. reader.at # "idle"
    BY <1>1, <2>1 DEF FramesInv, FollowsText, Running
  <2>3. QED
    BY <1>1, <1>3, <2>2 DEF SenderRight, Follows, FollowsText
<1>6. QED
  BY <1>1, <1>2, <1>4, <1>5 DEF FramesInv, Running

-----------------------------------------------------------------------------
\* The types in a stream.
LEMMA FrameTyped ==
  ASSUME Frames!FramesAssumption, NEW f \in FrameRecords
  PROVE  /\ Frames!Total(f) \in Nat /\ Frames!Total(f) >= HeaderLen /\ Frames!Total(f) > 0 /\ HeaderLen \in Nat /\ HeaderLen > 0
         /\ Len(f.text) \in Nat /\ f.from \in Nat /\ f.cont \in BOOLEAN
<1>1. f.size \in Nat /\ f.text \in Seq(Frames!Bytes) /\ f.from \in Nat /\ f.cont \in BOOLEAN
  BY DEF FrameRecords
<1>2. HeaderLen \in Nat /\ HeaderLen > 0
  BY DEF Frames!FramesAssumption
<1>3. QED
  BY <1>1, <1>2 DEF Frames!Total

\* The elements of a stream are bytes of frames.
LEMMA PieceTyped ==
  ASSUME Frames!FramesAssumption, NEW s \in Seq(Pieces), NEW i \in 1..Len(s)
  PROVE  s[i].at \in Nat /\ s[i].frame \in FrameRecords /\ Frames!Total(s[i].frame) \in Nat
<1>1. s[i] \in Pieces
  BY ElementOfSeq
<1>2. s[i].at \in Nat /\ s[i].frame \in FrameRecords
  BY <1>1 DEF Pieces
<1>3. QED
  BY <1>2, FrameTyped

\* A stream that goes on with n bytes of a frame, after the first k, stays in order.
LEMMA GoesOn ==
  ASSUME Frames!FramesAssumption, NEW s \in Seq(Pieces), NEW z \in Seq(Pieces), InOrder(s),
         NEW n \in Nat, NEW k \in Nat, NEW f \in FrameRecords, FrameRight(f), k + n <= Frames!Total(f),
         Len(z) = Len(s) + n,
         \A i \in 1..Len(s) : z[i] = s[i],
         \A i \in (Len(s) + 1)..(Len(s) + n) : z[i].frame = f /\ z[i].at = k + (i - Len(s)),
         Len(s) > 0 /\ k = 0 => EndsAt(s[Len(s)], f.from),
         Len(s) > 0 /\ k > 0 => s[Len(s)].frame = f /\ s[Len(s)].at = k
  PROVE  InOrder(z)
<1> DEFINE m == Len(s)
<1>1. m \in Nat /\ Frames!Total(f) \in Nat /\ Len(z) = m + n
  BY FrameTyped
<1>2. \A i \in 1..m : s[i].at \in Nat /\ Frames!Total(s[i].frame) \in Nat
  BY PieceTyped
<1>3. /\ \A i \in 1..m : FrameRight(s[i].frame) /\ s[i].at \in 1..Frames!Total(s[i].frame)
      /\ \A i, j \in 1..m :
           i < j /\ j - i <= Frames!Total(s[i].frame) - s[i].at =>
             s[j].frame = s[i].frame /\ s[j].at = s[i].at + (j - i)
      /\ \A i, j \in 1..m :
           j = i + 1 /\ s[i].at = Frames!Total(s[i].frame) => s[j].at = 1 /\ EndsAt(s[i], s[j].frame.from)
  BY DEF InOrder
<1>4. /\ \A i \in 1..m : z[i] = s[i]
      /\ \A i \in (m + 1)..(m + n) : z[i].frame = f /\ z[i].at = k + (i - m)
      /\ m > 0 /\ k = 0 => EndsAt(s[m], f.from)
      /\ m > 0 /\ k > 0 => s[m].frame = f /\ s[m].at = k
  OBVIOUS
<1> HIDE DEF m
<1>5. ASSUME NEW i \in 1..(m + n)
      PROVE  FrameRight(z[i].frame) /\ z[i].at \in 1..Frames!Total(z[i].frame)
  <2>1. CASE i <= m
    <3>1. i \in 1..m
      BY <1>1, <2>1
    <3>2. z[i] = s[i] /\ FrameRight(s[i].frame) /\ s[i].at \in 1..Frames!Total(s[i].frame)
      BY <1>3, <1>4, <3>1
    <3>3. QED
      BY <3>2
  <2>2. CASE ~(i <= m)
    <3>1. z[i].frame = f /\ z[i].at = k + (i - m)
      BY <1>1, <1>4, <2>2
    <3>2. QED
      BY <1>1, <2>2, <3>1
  <2>3. QED
    BY <2>1, <2>2
<1>6. ASSUME NEW i \in 1..(m + n), NEW j \in 1..(m + n), i < j, j - i <= Frames!Total(z[i].frame) - z[i].at
      PROVE  z[j].frame = z[i].frame /\ z[j].at = z[i].at + (j - i)
  <2>1. CASE j <= m
    <3>1. i \in 1..m /\ j \in 1..m
      BY <1>1, <1>6, <2>1
    <3>2. QED
      BY <1>3, <1>4, <1>6, <3>1, SMTT(30)
  <2>2. CASE i > m
    <3>1. i \in (m + 1)..(m + n) /\ j \in (m + 1)..(m + n)
      BY <1>1, <1>6, <2>2
    <3>2. z[i].frame = f /\ z[i].at = k + (i - m) /\ z[j].frame = f /\ z[j].at = k + (j - m)
      BY <1>4, <3>1
    <3>3. QED
      BY <1>1, <3>2
  <2>3. CASE i <= m /\ j > m
    <3>1. i \in 1..m /\ m \in 1..m /\ j \in (m + 1)..(m + n)
      BY <1>1, <2>3
    <3>2. /\ z[i] = s[i] /\ z[j].frame = f /\ z[j].at = k + (j - m)
          /\ s[i].at \in Nat /\ Frames!Total(s[i].frame) \in Nat
          /\ s[m].at \in Nat /\ Frames!Total(s[m].frame) \in Nat
      BY <1>2, <1>4, <3>1
    <3>3. s[m].frame = s[i].frame /\ s[m].at = s[i].at + (m - i)
      <4>1. CASE i = m
        BY <3>2, <4>1
      <4>2. CASE i # m
        <5>1. j - i <= Frames!Total(s[i].frame) - s[i].at
          BY <1>6, <3>2
        <5>2. i < m /\ m - i <= j - i
          BY <1>1, <2>3, <4>2
        <5>3. PICK t \in Nat, a \in Nat : t = Frames!Total(s[i].frame) /\ a = s[i].at
          BY <3>2
        <5>4. m - i <= t - a
          BY <1>1, <5>1, <5>2, <5>3, SMTT(30)
        <5>5. QED
          BY <1>3, <3>1, <5>2, <5>3, <5>4
      <4>3. QED
        BY <4>1, <4>2
    <3>4. s[m].at # Frames!Total(s[m].frame)
      <4>1. PICK t \in Nat, a \in Nat, b \in Nat :
              t = Frames!Total(s[i].frame) /\ a = s[i].at /\ b = s[m].at /\ t = Frames!Total(s[m].frame)
        BY <3>2, <3>3
      <4>2. j - i <= t - a /\ b = a + (m - i)
        BY <1>6, <3>2, <3>3, <4>1
      <4>3. b # t
        BY <1>1, <2>3, <4>1, <4>2, SMTT(30)
      <4>4. QED
        BY <4>1, <4>3
    <3>5. m > 0 /\ k # 0
      BY <1>1, <1>4, <3>1, <3>4 DEF EndsAt
    <3>6. s[m].frame = f /\ s[m].at = k
      BY <1>4, <3>5
    <3>7. z[j].frame = z[i].frame
      BY <3>2, <3>3, <3>6
    <3>8. k = s[i].at + (m - i) /\ z[i].at = s[i].at /\ s[i].at \in Nat
      BY <3>2, <3>3, <3>6
    <3>9. z[j].at = z[i].at + (j - i)
      <4>1. PICK a \in Nat : a = z[i].at /\ k = a + (m - i)
        BY <3>8
      <4>2. k + (j - m) = a + (j - i)
        BY <1>1, <4>1, SMTT(30)
      <4>3. QED
        BY <3>2, <4>1, <4>2
    <3>10. QED
      BY <3>7, <3>9
  <2>4. QED
    BY <1>1, <1>6, <2>1, <2>2, <2>3
<1>7. ASSUME NEW i \in 1..(m + n), NEW j \in 1..(m + n), j = i + 1, z[i].at = Frames!Total(z[i].frame)
      PROVE  z[j].at = 1 /\ EndsAt(z[i], z[j].frame.from)
  <2>1. CASE j <= m
    <3>1. i \in 1..m /\ j \in 1..m
      BY <1>1, <1>7, <2>1
    <3>2. QED
      BY <1>3, <1>4, <1>7, <3>1
  <2>2. CASE i > m
    <3>1. i \in (m + 1)..(m + n) /\ z[i].frame = f /\ z[i].at = k + (i - m)
      BY <1>1, <1>4, <2>2, SMTT(30)
    <3>2. i = m + n
      BY <1>1, <1>7, <3>1, SMTT(30)
    <3>3. QED
      BY <1>1, <1>7, <3>2
  <2>3. CASE i = m
    <3>1. m \in 1..m /\ m > 0 /\ j \in (m + 1)..(m + n)
      BY <1>1, <1>7, <2>3
    <3>2. z[i] = s[m] /\ z[j].frame = f /\ z[j].at = k + (j - m)
      BY <1>4, <2>3, <3>1
    <3>3. k = 0
      <4>1. SUFFICES ASSUME k # 0 PROVE FALSE
        OBVIOUS
      <4>2. s[m].frame = f /\ s[m].at = k
        BY <1>4, <3>1, <4>1
      <4>3. k = Frames!Total(f) /\ n >= 1
        BY <1>1, <1>7, <3>1, <3>2, <4>2
      <4>4. QED
        BY <1>1, <4>3
    <3>4. QED
      BY <1>1, <1>4, <1>7, <2>3, <3>1, <3>2, <3>3
  <2>4. QED
    BY <1>1, <1>7, <2>1, <2>2, <2>3
<1>8. QED
  BY <1>1, <1>5, <1>6, <1>7 DEF InOrder

\* What is left when the first k bytes are taken off stays in order.
LEMMA CutOff ==
  ASSUME NEW s \in Seq(Pieces), NEW z \in Seq(Pieces), InOrder(s), NEW k \in Nat,
         Len(s) = k + Len(z), \A i \in 1..Len(z) : z[i] = s[k + i]
  PROVE  InOrder(z)
<1> DEFINE m == Len(z)
<1>1. m \in Nat /\ \A i \in 1..m : k + i \in 1..Len(s)
  OBVIOUS
<1>2. /\ \A i \in 1..Len(s) : FrameRight(s[i].frame) /\ s[i].at \in 1..Frames!Total(s[i].frame)
      /\ \A i, j \in 1..Len(s) :
           i < j /\ j - i <= Frames!Total(s[i].frame) - s[i].at =>
             s[j].frame = s[i].frame /\ s[j].at = s[i].at + (j - i)
      /\ \A i, j \in 1..Len(s) :
           j = i + 1 /\ s[i].at = Frames!Total(s[i].frame) => s[j].at = 1 /\ EndsAt(s[i], s[j].frame.from)
  BY DEF InOrder
<1>3. \A i \in 1..m : FrameRight(z[i].frame) /\ z[i].at \in 1..Frames!Total(z[i].frame)
  BY <1>1, <1>2
<1>4. ASSUME NEW i \in 1..m, NEW j \in 1..m, i < j, j - i <= Frames!Total(z[i].frame) - z[i].at
      PROVE  z[j].frame = z[i].frame /\ z[j].at = z[i].at + (j - i)
  <2>1. PICK p \in 1..Len(s), q \in 1..Len(s) :
          p = k + i /\ q = k + j /\ p < q /\ q - p = j - i /\ z[i] = s[p] /\ z[j] = s[q]
    <3>1. /\ k + i \in 1..Len(s) /\ k + j \in 1..Len(s) /\ k + i < k + j /\ (k + j) - (k + i) = j - i
          /\ z[i] = s[k + i] /\ z[j] = s[k + j]
      BY <1>1, <1>4, SMTT(30)
    <3>2. QED
      BY <3>1
  <2>2. q - p <= Frames!Total(s[p].frame) - s[p].at
    BY <1>4, <2>1
  <2>3. s[q].frame = s[p].frame /\ s[q].at = s[p].at + (q - p)
    BY <1>2, <2>1, <2>2
  <2>4. QED
    BY <2>1, <2>3
<1>5. ASSUME NEW i \in 1..m, NEW j \in 1..m, j = i + 1, z[i].at = Frames!Total(z[i].frame)
      PROVE  z[j].at = 1 /\ EndsAt(z[i], z[j].frame.from)
  <2>1. PICK p \in 1..Len(s), q \in 1..Len(s) : q = p + 1 /\ z[i] = s[p] /\ z[j] = s[q]
    <3>1. /\ k + i \in 1..Len(s) /\ k + j \in 1..Len(s) /\ k + j = (k + i) + 1
          /\ z[i] = s[k + i] /\ z[j] = s[k + j]
      BY <1>1, <1>5
    <3>2. QED
      BY <3>1
  <2>2. s[p].at = Frames!Total(s[p].frame)
    BY <1>5, <2>1
  <2>3. s[q].at = 1 /\ EndsAt(s[p], s[q].frame.from)
    BY <1>2, <2>1, <2>2, Zenon
  <2>4. QED
    BY <2>1, <2>3, Zenon
<1>6. QED
  BY <1>3, <1>4, <1>5 DEF InOrder

\* Bytes that are sent follow the last one.
LEMMA SendKeeps ==
  ASSUME Frames!FramesAssumption, FramesInv, NEW n \in 1..Room, Frames!Send(n)
  PROVE  FramesInv'
<1> DEFINE new == [i \in 1..n |-> [frame |-> sender.frame, at |-> sender.sent + i]]
<1>1. /\ sender.at = "sending" /\ sender.sent < Frames!Total(sender.frame)
      /\ n <= Frames!Portion(sender.sent, Frames!Total(sender.frame))
      /\ reader.at # "gone" /\ wire' = wire \o new
      /\ sender' = [sender EXCEPT !.sent = @ + n]
      /\ UNCHANGED <<commands, output, reader>>
  BY DEF Frames!Send
<1>2. FramesTyped /\ reader.at # "violation" /\ ReaderRight /\ SenderRight
  BY DEF FramesInv
<1>3. sender \in Senders /\ wire \in Seq(Pieces) /\ reader \in Readers
  BY <1>2 DEF FramesTyped
<1>4. PICK f \in FrameRecords, k \in Nat : f = sender.frame /\ k = sender.sent
  BY <1>3 DEF Senders
<1>5. Frames!Total(f) \in Nat /\ Frames!Total(f) >= HeaderLen /\ HeaderLen \in Nat
  BY FrameTyped
<1>6. n \in Nat /\ n > 0 /\ k + n <= Frames!Total(f) /\ k < Frames!Total(f)
  BY <1>1, <1>4, <1>5 DEF Frames!Portion
<1>7. /\ sender'.sent = k + n /\ sender'.at = "sending" /\ sender'.frame = f
      /\ sender'.offset = sender.offset /\ sender' \in Senders
  <2>1. PICK e \in Nat : e = k + n
    BY <1>6
  <2>2. sender' = [sender EXCEPT !.sent = e]
    BY <1>1, <1>4, <2>1
  <2>3. /\ sender'.sent = e /\ sender'.at = sender.at /\ sender'.frame = sender.frame
        /\ sender'.offset = sender.offset /\ sender' \in Senders
    BY <1>3, <2>2 DEF Senders
  <2>4. QED
    BY <1>1, <1>4, <2>1, <2>3
<1>8. new \in Seq(Pieces) /\ Len(new) = n /\ \A i \in 1..n : new[i].frame = f /\ new[i].at = k + i
  <2>1. \A i \in 1..n : [frame |-> f, at |-> k + i] \in Pieces
    BY <1>6 DEF Pieces
  <2>2. new = [i \in 1..n |-> [frame |-> f, at |-> k + i]]
    BY <1>4
  <2> HIDE DEF new
  <2>3. new \in [1..n -> Pieces] /\ \A i \in 1..n : new[i].frame = f /\ new[i].at = k + i
    BY <2>1, <2>2
  <2>4. QED
    BY <1>6, <2>3
<1> HIDE DEF new
<1>9. wire' \in Seq(Pieces)
  BY <1>1, <1>3, <1>8, ConcatProperties
<1>10. FramesTyped'
  BY <1>1, <1>2, <1>7, <1>9 DEF FramesTyped
<1>11. FrameRight(f) /\ f.from = sender.offset
  BY <1>1, <1>2, <1>4 DEF SenderRight
<1>12. SenderRight'
  <2>1. FrameRight(f)'
    BY <1>1, <1>11 DEF FrameRight
  <2>2. QED
    BY <1>6, <1>7, <1>11, <2>1 DEF SenderRight
<1>13. CASE ~Running
  <2>1. ReaderRight'
    BY <1>1, <1>2, <1>13 DEF ReaderRight, Running
  <2>2. QED
    BY <1>1, <1>2, <1>10, <1>12, <1>13, <2>1 DEF FramesInv, Running
<1>14. CASE Running
  <2>1. PICK s : s = Stream
    OBVIOUS
  <2>2. /\ s \in Seq(Pieces) /\ Len(s) \in Nat /\ Len(s) = Len(reader.in) + Len(wire)
        /\ Len(reader.in) \in Nat /\ Len(wire) \in Nat
    BY <1>2, <2>1, StreamIs
  <2>3. InOrder(s) /\ Begins(s) /\ (Len(s) > 0 => Follows(s[Len(s)])) /\ (Len(s) = 0 => FollowsText)
    BY <1>14, <2>1, <2>2 DEF FramesInv
  <2>4. Stream' = s \o new
    <3>1. PICK a \in Seq(Pieces), c \in Seq(Pieces), d \in Seq(Pieces) :
            a = reader.in /\ c = wire /\ d = new
      BY <1>3, <1>8 DEF Readers
    <3>2. (a \o c) \o d = a \o (c \o d)
      BY ConcatAssociative, SMTT(30)
    <3>3. QED
      BY <1>1, <2>1, <3>1, <3>2 DEF Stream
  <2>5. reader.at = "waiting"
    <3>1. CASE Len(s) = 0
      BY <1>1, <1>4, <1>6, <1>14, <2>3, <3>1 DEF FollowsText, Running
    <3>2. CASE Len(s) # 0
      BY <1>2, <1>14, <2>2, <3>2 DEF ReaderRight, Running
    <3>3. QED
      BY <3>1, <3>2
  <2>6. ReaderRight'
    BY <1>1, <1>2, <2>5 DEF ReaderRight
  <2>7. PICK z : z = s \o new
    OBVIOUS
  <2>8. /\ z \in Seq(Pieces) /\ Len(z) = Len(s) + n
        /\ \A i \in 1..(Len(s) + n) : z[i] = IF i <= Len(s) THEN s[i] ELSE new[i - Len(s)]
    <3>1. PICK d \in Seq(Pieces) : d = new
      BY <1>8
    <3>2. /\ s \o d \in Seq(Pieces) /\ Len(s \o d) = Len(s) + Len(d)
          /\ \A i \in 1..(Len(s) + Len(d)) : (s \o d)[i] = IF i <= Len(s) THEN s[i] ELSE d[i - Len(s)]
      <4>1. s \in Seq(Pieces)
        BY <2>2
      <4>2. QED
        BY <4>1, ConcatProperties, Zenon
    <3>3. Len(d) = n
      BY <1>8, <3>1
    <3>4. QED
      BY <2>7, <3>1, <3>2, <3>3
  <2>9. \A i \in 1..Len(s) : z[i] = s[i]
    BY <1>6, <2>2, <2>8
  <2>10. ASSUME NEW i \in (Len(s) + 1)..(Len(s) + n)
         PROVE  z[i].frame = f /\ z[i].at = k + (i - Len(s))
    <3>1. i - Len(s) \in 1..n /\ ~(i <= Len(s)) /\ i \in 1..(Len(s) + n)
      BY <1>6, <2>2
    <3>2. QED
      BY <1>8, <2>8, <3>1
  <2>11. /\ Len(s) > 0 /\ k = 0 => EndsAt(s[Len(s)], f.from)
         /\ Len(s) > 0 /\ k > 0 => s[Len(s)].frame = f /\ s[Len(s)].at = k
    BY <1>1, <1>4, <1>11, <2>3 DEF Follows
  <2>12. InOrder(z)
    BY <1>6, <1>11, <2>2, <2>3, <2>8, <2>9, <2>10, <2>11, GoesOn
  <2>13. InOrder(z)'
    BY <1>1, <2>12, OrderStays
  <2>14. InOrder(Stream)'
    BY <2>4, <2>7, <2>13
  <2>15. Begins(z)
    <3>1. CASE Len(s) > 0
      <4>1. z[1] = s[1]
        BY <2>2, <2>9, <3>1
      <4>2. QED
        BY <2>3, <3>1, <4>1 DEF Begins
    <3>2. CASE Len(s) = 0
      <4>1. k = 0 /\ sender.offset = Len(reader.text)
        BY <1>1, <1>4, <1>6, <2>3, <2>5, <3>2 DEF FollowsText
      <4>2. 1 \in (Len(s) + 1)..(Len(s) + n) /\ k + (1 - Len(s)) = 1
        BY <1>6, <3>2, <4>1
      <4>3. z[1].at = 1 /\ z[1].frame = f
        BY <2>10, <4>2
      <4>4. QED
        BY <1>11, <4>1, <4>3 DEF Begins
    <3>3. QED
      BY <2>2, <3>1, <3>2
  <2>16. Begins(Stream)'
    BY <1>1, <2>4, <2>7, <2>15 DEF Begins
  <2>17. z[Len(z)].frame = f /\ z[Len(z)].at = k + n /\ Len(z) > 0
    <3>1. PICK e \in Nat : e = Len(s)
      BY <2>2
    <3>2. e + n \in (e + 1)..(e + n) /\ e + n > 0 /\ e + n - e = n
      BY <1>6
    <3>3. z[e + n].frame = f /\ z[e + n].at = k + n
      BY <2>10, <3>1, <3>2
    <3>4. QED
      BY <2>8, <3>1, <3>2, <3>3
  <2>18. Len(Stream') > 0 /\ Follows(Stream[Len(Stream)])'
    BY <1>6, <1>7, <2>4, <2>7, <2>17 DEF Follows
  <2>19. QED
    BY <1>1, <1>2, <1>10, <1>12, <2>6, <2>14, <2>16, <2>18 DEF FramesInv
<1>15. QED
  BY <1>13, <1>14

\* Bytes that are received are those that were under way, in their order.
LEMMA ReceiveKeeps ==
  ASSUME Frames!FramesAssumption, FramesInv, NEW n \in 1..Room, Frames!Receive(n)
  PROVE  FramesInv'
<1>1. /\ reader.at = "waiting" /\ n <= Len(wire) /\ n <= Frames!Have(reader.in) - Len(reader.in)
      /\ reader' = [reader EXCEPT !.in = @ \o SubSeq(wire, 1, n)]
      /\ wire' = SubSeq(wire, n + 1, Len(wire))
      /\ UNCHANGED <<commands, output, sender>>
  BY DEF Frames!Receive
<1>2. FramesTyped /\ reader.at # "violation" /\ ReaderRight /\ SenderRight /\ Running
  BY <1>1 DEF FramesInv, Running
<1>3. PICK a \in Seq(Pieces), c \in Seq(Pieces) : a = reader.in /\ c = wire
  BY <1>2 DEF FramesTyped, Readers
<1>4. n \in Nat /\ n > 0 /\ n + 1 \in Int /\ Len(a) \in Nat /\ Len(c) \in Nat
  OBVIOUS
<1>5. PICK p : p = SubSeq(c, 1, n)
  OBVIOUS
<1>6. PICK r : r = SubSeq(c, n + 1, Len(c))
  OBVIOUS
<1>7. p \in Seq(Pieces) /\ Len(p) = n
  <2>1. \A i \in 1..n : c[i] \in Pieces
    BY <1>1, <1>3, <1>4
  <2>2. QED
    BY <1>4, <1>5, <2>1, SubSeqProperties
<1>8. r \in Seq(Pieces)
  <2>1. \A i \in (n + 1)..Len(c) : c[i] \in Pieces
    BY <1>4
  <2>2. QED
    BY <1>4, <1>6, <2>1, SubSeqProperties
<1>9. p \o r = c
  <2>1. 1 \in 1..(Len(c) + 1) /\ n \in 0..Len(c) /\ Len(c) \in n..Len(c)
    BY <1>1, <1>3, <1>4
  <2>2. SubSeq(c, 1, n) \o SubSeq(c, n + 1, Len(c)) = SubSeq(c, 1, Len(c))
    BY <2>1, ConcatAdjacentSubSeq
  <2>3. SubSeq(c, 1, Len(c)) = c
    BY SubSeqFull
  <2>4. QED
    BY <1>5, <1>6, <2>2, <2>3, Zenon
<1>10. (a \o p) \o r = a \o c
  <2>1. p \in Seq(Pieces)
    BY <1>7
  <2>2. PICK x \in Seq(Pieces), y \in Seq(Pieces) : x = p /\ y = r
    BY <1>8, <2>1
  <2>3. (a \o x) \o y = a \o (x \o y)
    BY ConcatAssociative, SMTT(30)
  <2>4. QED
    BY <1>9, <2>2, <2>3
<1>11. PICK q : q = a \o p
  OBVIOUS
<1>12. /\ q \in Seq(Pieces) /\ Len(q) = Len(a) + n
       /\ \A i \in 1..(Len(a) + n) : q[i] = IF i <= Len(a) THEN a[i] ELSE p[i - Len(a)]
  BY <1>7, <1>11, ConcatProperties
<1>13. reader' = [reader EXCEPT !.in = q]
  BY <1>1, <1>3, <1>5, <1>11
<1>14. /\ reader'.at = "waiting" /\ reader'.in = q /\ reader'.text = reader.text /\ reader' \in Readers
  BY <1>1, <1>2, <1>12, <1>13 DEF FramesTyped, Readers
<1>15. wire' = r
  BY <1>1, <1>3, <1>6
<1>16. FramesTyped'
  BY <1>1, <1>2, <1>8, <1>14, <1>15 DEF FramesTyped
<1>17. Stream' = Stream
  BY <1>3, <1>10, <1>11, <1>14, <1>15 DEF Stream
<1>18. ReaderRight'
  <2>1. Len(q) <= Frames!Total(q[1].frame)
    <3>1. 1 \in 1..Len(q)
      BY <1>4, <1>12
    <3>2. q[1].frame \in FrameRecords
      BY <1>12, <3>1, PieceTyped
    <3>3. PICK t \in Nat : t = Frames!Total(q[1].frame) /\ HeaderLen <= t /\ HeaderLen \in Nat /\ HeaderLen > 0
      BY <3>2, FrameTyped
    <3>4. CASE Len(a) < HeaderLen
      <4>1. Frames!Have(a) = HeaderLen
        BY <3>4 DEF Frames!Have
      <4>2. n <= HeaderLen - Len(a)
        BY <1>1, <1>3, <4>1
      <4>3. QED
        BY <1>4, <1>12, <3>3, <4>2
    <3>5. CASE ~(Len(a) < HeaderLen)
      <4>1. Len(a) > 0
        BY <1>4, <3>3, <3>5
      <4>2. 1 \in 1..(Len(a) + n) /\ 1 <= Len(a)
        BY <1>4, <4>1
      <4>3. q[1] = a[1]
        BY <1>12, <4>2
      <4>4. Frames!Have(a) = t
        BY <3>3, <3>5, <4>3 DEF Frames!Have
      <4>5. n <= t - Len(a)
        BY <1>1, <1>3, <4>4
      <4>6. QED
        BY <1>4, <1>12, <3>3, <4>5
    <3>6. QED
      BY <3>4, <3>5
  <2>2. QED
    BY <1>1, <1>2, <1>14, <2>1 DEF ReaderRight
<1>19. SenderRight'
  BY <1>1, <1>2 DEF SenderRight, FrameRight
<1>20. InOrder(Stream)' /\ Begins(Stream)'
  <2>1. InOrder(Stream) /\ Begins(Stream)
    BY <1>2 DEF FramesInv
  <2>2. PICK s : s = Stream
    OBVIOUS
  <2>3. InOrder(s)'
    BY <1>1, <2>1, <2>2, OrderStays
  <2>4. QED
    BY <1>14, <1>17, <2>1, <2>2, <2>3 DEF Begins
<1>21. IF Len(Stream') > 0 THEN Follows(Stream[Len(Stream)])' ELSE FollowsText'
  <2>1. IF Len(Stream) > 0 THEN Follows(Stream[Len(Stream)]) ELSE FollowsText
    BY <1>2 DEF FramesInv
  <2>2. FollowsText => FollowsText'
    BY <1>1, <1>14 DEF FollowsText
  <2>3. Follows(Stream[Len(Stream)]) => Follows(Stream[Len(Stream)])'
    BY <1>1, <1>17 DEF Follows, EndsAt
  <2>4. QED
    BY <1>17, <2>1, <2>2, <2>3
<1>22. QED
  BY <1>14, <1>16, <1>18, <1>19, <1>20, <1>21 DEF FramesInv

\* A complete frame is one frame, and its text goes on where the reader's ends.
LEMMA TakeKeeps ==
  ASSUME Frames!FramesAssumption, FramesInv, Frames!Take
  PROVE  FramesInv'
<1>1. /\ reader.at = "waiting" /\ Frames!Complete(reader.in)
      /\ UNCHANGED <<commands, output, sender, wire>>
  BY DEF Frames!Take
<1>2. FramesTyped /\ ReaderRight /\ SenderRight /\ Running
  BY <1>1 DEF FramesInv, Running
<1>3. PICK a \in Seq(Pieces), c \in Seq(Pieces), s \in {Stream} : a = reader.in /\ c = wire /\ s = Stream
  BY <1>2 DEF FramesTyped, Readers
<1>4. /\ Len(a) \in Nat /\ Len(c) \in Nat
      /\ s \in Seq(Pieces) /\ Len(s) = Len(a) + Len(c)
      /\ \A i \in 1..Len(a) : s[i] = a[i]
      /\ \A i \in 1..Len(c) : s[Len(a) + i] = c[i]
  BY <1>2, <1>3, StreamIs
<1>5. InOrder(s) /\ Begins(s) /\ (Len(s) > 0 => Follows(s[Len(s)]))
  BY <1>2, <1>3 DEF FramesInv
<1>6. Len(a) >= HeaderLen /\ HeaderLen \in Nat /\ HeaderLen > 0
  BY <1>1, <1>3 DEF Frames!Complete, Frames!FramesAssumption
<1>7. 1 \in 1..Len(a) /\ Len(s) > 0 /\ Len(a) \in 1..Len(a) /\ Len(a) \in 1..Len(s) /\ 1 \in 1..Len(s)
  BY <1>4, <1>6
<1>8. PICK f \in FrameRecords : f = a[1].frame
  BY <1>7, PieceTyped
<1>9. Frames!Total(f) \in Nat /\ Len(f.text) \in Nat /\ f.from \in Nat
  BY FrameTyped
<1>10. Len(a) = Frames!Total(f)
  BY <1>1, <1>3, <1>4, <1>6, <1>8 DEF Frames!Complete, Frames!Have
<1>11. s[1].at = 1 /\ s[1].frame = f /\ f.from = Len(reader.text) /\ FrameRight(f)
  <2>1. s[1] = a[1]
    BY <1>4, <1>7
  <2>2. s[1].at = 1 /\ s[1].frame.from = Len(reader.text) /\ FrameRight(s[1].frame)
    BY <1>5, <1>7 DEF Begins, InOrder
  <2>3. QED
    BY <1>8, <2>1, <2>2
<1>12. ASSUME NEW i \in 1..Len(a)
       PROVE  s[i].frame = f /\ s[i].at = i
  <2>1. CASE i = 1
    BY <1>11, <2>1
  <2>2. CASE i # 1
    <3>1. i \in 1..Len(s) /\ 1 < i /\ i - 1 <= Frames!Total(f) - 1
      BY <1>4, <1>9, <1>10, <2>2
    <3>2. s[i].frame = s[1].frame /\ s[i].at = s[1].at + (i - 1)
      BY <1>5, <1>7, <1>11, <3>1 DEF InOrder
    <3>3. QED
      BY <1>11, <3>2
  <2>3. QED
    BY <2>1, <2>2
<1>13. Frames!IsFrame(a)
  <2>1. ASSUME NEW i \in 1..Len(a)
        PROVE  a[i] = [frame |-> a[1].frame, at |-> i]
    <3>1. a[i] \in Pieces
      BY ElementOfSeq
    <3>2. a[i].frame = f /\ a[i].at = i
      BY <1>4, <1>12
    <3>3. QED
      BY <1>8, <3>1, <3>2 DEF Pieces
  <2>2. DOMAIN a = 1..Len(a)
    OBVIOUS
  <2>3. QED
    BY <2>1, <2>2 DEF Frames!IsFrame
<1>14. PICK t : t = reader.text \o f.text
  OBVIOUS
<1>15. PICK st : st = (IF f.cont THEN "waiting" ELSE "done")
  OBVIOUS
<1>16. reader' = [reader EXCEPT !.in = <<>>, !.text = t, !.at = st]
  <2>1. f.seq = commands
    BY <1>11 DEF FrameRight
  <2>2. reader' = [reader EXCEPT !.in = <<>>, !.text = @ \o f.text, !.at = IF f.cont THEN "waiting" ELSE "done"]
    BY <1>3, <1>8, <1>13, <2>1 DEF Frames!Take
  <2>3. QED
    BY <1>14, <1>15, <2>2
<1>17. t \in Seq(Frames!Bytes)
  BY <1>2, <1>14 DEF FramesTyped, Readers, FrameRecords
<1>18. /\ reader'.at = st /\ reader'.in = <<>> /\ reader'.text = t /\ reader' \in Readers
  <2>1. st \in {"waiting", "done"} /\ reader \in Readers /\ <<>> \in Seq(Pieces)
    BY <1>2, <1>15 DEF FramesTyped
  <2>2. QED
    BY <1>16, <1>17, <2>1 DEF Readers
<1>19. FramesTyped' /\ SenderRight'
  BY <1>1, <1>2, <1>18 DEF FramesTyped, SenderRight, FrameRight
<1>20. /\ Len(t) = f.from + Len(f.text) /\ Len(t) <= Len(output) /\ t = SubSeq(output, 1, Len(t))
       /\ ~f.cont => t = output
  <2>1. PICK o \in Seq(Frames!Bytes) : o = output
    BY <1>2 DEF FramesTyped
  <2>2. PICK b \in Nat, e \in Nat : b = f.from /\ e = f.from + Len(f.text)
    BY <1>9
  <2>3. /\ reader.text = SubSeq(o, 1, b) /\ f.text = SubSeq(o, b + 1, e)
        /\ b <= e /\ e <= Len(o) /\ (f.cont <=> e < Len(o)) /\ Len(o) \in Nat
    <3>1. reader.text = SubSeq(o, 1, b)
      BY <1>1, <1>2, <1>11, <2>1, <2>2 DEF ReaderRight
    <3>2. f.text = SubSeq(o, b + 1, e) /\ e <= Len(o) /\ (f.cont <=> e < Len(o))
      BY <1>11, <2>1, <2>2 DEF FrameRight
    <3>3. b <= e
      BY <1>9, <2>2
    <3>4. QED
      BY <3>1, <3>2, <3>3
  <2>4. 1 \in 1..(Len(o) + 1) /\ b \in 0..Len(o) /\ e \in b..Len(o)
    BY <2>3
  <2>5. t = SubSeq(o, 1, e)
    <3>1. SubSeq(o, 1, b) \o SubSeq(o, b + 1, e) = SubSeq(o, 1, e)
      BY <2>4, ConcatAdjacentSubSeq
    <3>2. QED
      BY <1>14, <2>3, <3>1
  <2>6. \A i \in 1..e : o[i] \in Frames!Bytes
    BY <2>3
  <2>7. Len(t) = e
    BY <2>2, <2>5, <2>6, SubSeqProperties
  <2>8. ~f.cont => e = Len(o)
    BY <2>3
  <2>9. SubSeq(o, 1, Len(o)) = o
    BY SubSeqFull
  <2>10. QED
    BY <2>1, <2>2, <2>3, <2>5, <2>7, <2>8, <2>9
<1>21. Stream' = c
  BY <1>1, <1>3, <1>18, ConcatEmptySeq DEF Stream
<1>22. InOrder(Stream)'
  <2>1. InOrder(c)
    BY <1>4, <1>5, CutOff
  <2>2. InOrder(c)'
    BY <1>1, <2>1, OrderStays
  <2>3. QED
    BY <1>21, <2>2
<1>23. s[Len(a)].frame = f /\ s[Len(a)].at = Frames!Total(f)
  BY <1>7, <1>10, <1>12
<1>24. CASE Len(c) > 0
  <2>1. /\ Len(a) + 1 \in 1..Len(s) /\ 1 \in 1..Len(c) /\ Len(c) \in 1..Len(c)
        /\ s[Len(a) + 1] = c[1] /\ s[Len(s)] = c[Len(c)]
    BY <1>4, <1>24
  <2>2. c[1].at = 1 /\ EndsAt(s[Len(a)], c[1].frame.from)
    BY <1>5, <1>7, <1>23, <2>1 DEF InOrder
  <2>3. f.cont /\ c[1].frame.from = Len(t)
    BY <1>20, <1>23, <2>2 DEF EndsAt
  <2>4. st = "waiting"
    BY <1>15, <2>3
  <2>5. Begins(Stream)'
    BY <1>18, <1>21, <2>2, <2>3 DEF Begins
  <2>6. Follows(c[Len(c)])
    BY <1>5, <1>7, <2>1
  <2>7. Len(Stream') > 0 /\ Follows(Stream[Len(Stream)])'
    BY <1>1, <1>21, <1>24, <2>6 DEF Follows, EndsAt
  <2>8. ReaderRight'
    BY <1>1, <1>18, <1>20, <2>4 DEF ReaderRight
  <2>9. QED
    BY <1>18, <1>19, <1>22, <2>4, <2>5, <2>7, <2>8 DEF FramesInv
<1>25. CASE Len(c) = 0
  <2>1. Follows(s[Len(a)])
    BY <1>4, <1>5, <1>7, <1>25
  <2>2. sender.at = "sending" => sender.frame.from = sender.offset
    BY <1>2 DEF SenderRight
  <2>3. sender \in Senders
    BY <1>2 DEF FramesTyped
  <2>4. /\ sender.at = "serializing" \/ (sender.at = "sending" /\ sender.sent = 0) =>
             f.cont /\ sender.offset = Len(t)
        /\ sender.at = "sending" /\ sender.sent > 0 =>
             sender.frame = f /\ sender.sent = Frames!Total(f) /\ Len(t) = sender.offset + Len(f.text)
        /\ sender.at = "idle" => ~f.cont
    BY <1>20, <1>23, <2>1, <2>2 DEF Follows, EndsAt
  <2>5. sender.sent \in Nat
    BY <2>3 DEF Senders
  <2>6. FollowsText'
    BY <1>1, <1>15, <1>18, <2>4, <2>5 DEF FollowsText
  <2>7. ReaderRight'
    BY <1>1, <1>3, <1>15, <1>18, <1>20, <1>25 DEF ReaderRight
  <2>8. Begins(Stream)' /\ ~(Len(Stream') > 0)
    BY <1>21, <1>25 DEF Begins
  <2>9. reader'.at # "violation"
    BY <1>15, <1>18
  <2>10. QED
    BY <1>19, <1>22, <2>6, <2>7, <2>8, <2>9 DEF FramesInv
<1>26. QED
  BY <1>4, <1>24, <1>25

\* A command is asked where nothing is under way.
LEMMA AskKeeps ==
  ASSUME Frames!FramesAssumption, FramesInv, Frames!MayAsk, NEW str \in Texts, Frames!Ask(str)
  PROVE  FramesInv'
<1>1. /\ reader.at \in {"idle", "done"} /\ sender.at = "idle"
      /\ commands' = commands + 1 /\ output' = str
      /\ sender' = [sender EXCEPT !.at = "serializing", !.offset = 0]
      /\ reader' = [reader EXCEPT !.at = "waiting", !.text = <<>>]
      /\ wire' = wire
  BY DEF Frames!MayAsk, Frames!Ask
<1>2. FramesTyped /\ ReaderRight
  BY DEF FramesInv
<1>3. str \in Seq(Frames!Bytes) /\ Len(str) \in Nat /\ <<>> \in Seq(Frames!Bytes)
  BY DEF Frames!FramesAssumption
<1>4. /\ reader'.at = "waiting" /\ reader'.text = <<>> /\ reader'.in = reader.in /\ reader' \in Readers
      /\ sender'.at = "serializing" /\ sender'.offset = 0 /\ sender' \in Senders
  BY <1>1, <1>2, <1>3 DEF FramesTyped, Readers, Senders
<1>5. FramesTyped'
  BY <1>1, <1>2, <1>3, <1>4 DEF FramesTyped
<1>6. Len(reader.in) = 0 /\ Len(wire) = 0 /\ Stream' = Stream /\ Len(Stream) = 0
  BY <1>1, <1>2, <1>4, StreamIs DEF ReaderRight, Stream
<1>7. Len(<<>>) = 0
  OBVIOUS
<1>8. ReaderRight'
  <2>1. SubSeq(str, 1, 0) = <<>>
    BY SubSeqEmpty
  <2>2. QED
    BY <1>1, <1>3, <1>4, <1>6, <1>7, <2>1 DEF ReaderRight
<1>9. SenderRight'
  BY <1>1, <1>3, <1>4 DEF SenderRight
<1>10. InOrder(Stream)' /\ Begins(Stream)'
  <2>1. Len(Stream') = 0
    BY <1>6
  <2>2. 1..0 = {}
    OBVIOUS
  <2>3. InOrder(Stream)'
    BY <2>1, <2>2 DEF InOrder
  <2>4. QED
    BY <2>1, <2>3 DEF Begins
<1>11. FollowsText' /\ ~(Len(Stream') > 0)
  BY <1>4, <1>6, <1>7 DEF FollowsText
<1>12. QED
  BY <1>4, <1>5, <1>8, <1>9, <1>10, <1>11 DEF FramesInv

\* Every step keeps the invariant.
LEMMA FramesNext ==
  ASSUME Frames!FramesAssumption, FramesInv, [Frames!Next]_Frames!vars
  PROVE  FramesInv'
<1>1. ASSUME Frames!MayAsk, NEW str \in Texts, Frames!Ask(str)
      PROVE  FramesInv'
  BY <1>1, AskKeeps
<1>2. CASE Frames!Serialize \/ Frames!Sent \/ Frames!SendFails \/ Frames!Take
  BY <1>2, SerializeKeeps, SentKeeps, SendFailsKeeps, TakeKeeps
<1>3. ASSUME NEW n \in 1..Room, Frames!Send(n) \/ Frames!Receive(n)
      PROVE  FramesInv'
  BY <1>3, SendKeeps, ReceiveKeeps
<1>4. CASE Frames!PeerClosed \/ Frames!Exit
  <2>1. PICK st \in {"failed", "gone"} :
          reader.at = "waiting" /\ reader' = [reader EXCEPT !.at = st] /\ UNCHANGED <<commands, output, sender, wire>>
    BY <1>4 DEF Frames!PeerClosed, Frames!Exit
  <2>2. FramesTyped /\ ReaderRight /\ SenderRight
    BY DEF FramesInv
  <2>3. reader'.at = st /\ reader'.in = reader.in /\ reader'.text = reader.text /\ reader' \in Readers
    BY <2>1, <2>2 DEF FramesTyped, Readers
  <2>4. FramesTyped' /\ SenderRight'
    BY <2>1, <2>2, <2>3 DEF FramesTyped, SenderRight, FrameRight
  <2>5. ReaderRight'
    BY <2>1, <2>2, <2>3 DEF ReaderRight
  <2>6. QED
    BY <2>3, <2>4, <2>5 DEF FramesInv, Running
<1>5. CASE UNCHANGED Frames!vars
  <2>1. UNCHANGED <<commands, output, sender, wire, reader>>
    BY <1>5 DEF Frames!vars
  <2>2. /\ Stream' = Stream
        /\ InOrder(Stream) => InOrder(Stream)'
        /\ Begins(Stream) => Begins(Stream)'
        /\ ReaderRight => ReaderRight'
    BY <2>1, StreamStays
  <2>3. FramesTyped' <=> FramesTyped
    BY <2>1 DEF FramesTyped
  <2>4. (SenderRight' <=> SenderRight) /\ (FollowsText' <=> FollowsText) /\ (Running' <=> Running)
    BY <2>1 DEF SenderRight, FrameRight, FollowsText, Running
  <2>5. Follows(Stream[Len(Stream)])' <=> Follows(Stream[Len(Stream)])
    BY <2>1, <2>2 DEF Follows, EndsAt
  <2>6. QED
    BY <2>1, <2>2, <2>3, <2>4, <2>5 DEF FramesInv
<1>6. QED
  BY <1>1, <1>2, <1>3, <1>4, <1>5 DEF Frames!Next

\* It holds at first.
LEMMA FramesInit ==
  ASSUME Frames!FramesAssumption, Frames!Init
  PROVE  FramesInv
<1>1. <<>> \in Seq(Frames!Bytes) /\ <<>> \in Seq(Pieces) /\ Len(<<>>) = 0
  OBVIOUS
<1>2. Frames!NoFrame \in FrameRecords
  BY <1>1 DEF Frames!NoFrame, FrameRecords
<1>3. /\ sender.at = "idle" /\ sender \in Senders
      /\ reader.at = "idle" /\ reader.in = <<>> /\ reader \in Readers /\ wire = <<>>
  BY <1>1, <1>2 DEF Frames!Init, Senders, Readers
<1>4. FramesTyped
  BY <1>1, <1>3 DEF FramesTyped, Frames!Init
<1>5. Len(Stream) = 0
  BY <1>1, <1>3, <1>4, StreamIs
<1>6. ReaderRight /\ SenderRight /\ FollowsText
  BY <1>1, <1>3 DEF ReaderRight, SenderRight, FollowsText
<1>7. InOrder(Stream) /\ Begins(Stream)
  <2>1. 1..0 = {}
    OBVIOUS
  <2>2. QED
    BY <1>5, <2>1 DEF InOrder, Begins
<1>8. QED
  BY <1>3, <1>4, <1>5, <1>6, <1>7 DEF FramesInv

\* Responses arrive whole.
LEMMA FramesImply ==
  ASSUME Frames!FramesAssumption, FramesInv
  PROVE  Frames!ResponsesWhole
<1>1. FramesTyped /\ ReaderRight /\ reader.at # "violation"
  BY DEF FramesInv
<1>2. reader.at \in {"waiting", "failed"} => Frames!IsPrefix(reader.text, output)
  <2>1. ASSUME reader.at \in {"waiting", "failed"}
        PROVE  Frames!IsPrefix(reader.text, output)
    <3>1. PICK t \in Seq(Frames!Bytes) : t = reader.text
      BY <1>1 DEF FramesTyped, Readers
    <3>2. SubSeq(t, 1, Len(t)) = t
      BY SubSeqFull
    <3>3. Len(t) <= Len(output) /\ t = SubSeq(output, 1, Len(t))
      BY <1>1, <2>1, <3>1 DEF ReaderRight
    <3>4. QED
      BY <3>1, <3>2, <3>3 DEF Frames!IsPrefix
  <2>2. QED
    BY <2>1
<1>3. ASSUME reader.at = "waiting", sender.at = "idle", wire = <<>>
      PROVE  Frames!Complete(reader.in)
  <2>1. PICK a \in Seq(Pieces), s \in {Stream} : a = reader.in /\ s = Stream
    BY <1>1 DEF FramesTyped, Readers
  <2>2. /\ Len(a) \in Nat /\ s \in Seq(Pieces) /\ Len(s) = Len(a)
        /\ \A i \in 1..Len(a) : s[i] = a[i]
    BY <1>1, <1>3, <2>1, StreamIs
  <2>3. Running
    BY <1>3 DEF Running
  <2>4. InOrder(s) /\ Begins(s) /\ (IF Len(s) > 0 THEN Follows(s[Len(s)]) ELSE FollowsText)
    BY <2>1, <2>3 DEF FramesInv
  <2>5. Len(s) > 0
    BY <1>3, <2>4 DEF FollowsText
  <2>6. 1 \in 1..Len(s) /\ Len(s) \in 1..Len(s)
    BY <2>2, <2>5
  <2>7. PICK f \in FrameRecords : f = a[1].frame /\ f = s[1].frame
    BY <2>2, <2>6, PieceTyped
  <2>8. Frames!Total(f) \in Nat /\ Frames!Total(f) >= HeaderLen /\ HeaderLen \in Nat
    BY FrameTyped
  <2>9. Len(a) <= Frames!Total(f) /\ s[1].at = 1
    BY <1>1, <2>1, <2>2, <2>4, <2>5, <2>7 DEF ReaderRight, Begins
  <2>10. s[Len(s)].frame = f /\ s[Len(s)].at = Len(s)
    <3>1. CASE Len(s) = 1
      BY <2>7, <2>9, <3>1
    <3>2. CASE Len(s) # 1
      <4>1. 1 < Len(s) /\ Len(s) - 1 <= Frames!Total(f) - 1
        BY <2>2, <2>5, <2>8, <2>9, <3>2
      <4>2. s[Len(s)].frame = s[1].frame /\ s[Len(s)].at = s[1].at + (Len(s) - 1)
        BY <2>4, <2>6, <2>7, <2>9, <4>1 DEF InOrder
      <4>3. QED
        BY <2>2, <2>7, <2>9, <4>2
    <3>3. QED
      BY <3>1, <3>2
  <2>11. Len(a) = Frames!Total(f)
    BY <1>3, <2>2, <2>4, <2>5, <2>10 DEF Follows
  <2>12. QED
    BY <2>1, <2>2, <2>7, <2>8, <2>11 DEF Frames!Complete, Frames!Have
<1>4. reader.at = "done" => reader.text = output
  BY <1>1 DEF ReaderRight
<1>5. QED
  BY <1>1, <1>2, <1>3, <1>4 DEF Frames!ResponsesWhole

-----------------------------------------------------------------------------
(* StepTracking: steps and the leak check *)

\* What an event is about.
Kinds == {"none", "start", "end", "py", "malloc", "free"}

\* What an event may be.
StepEvents ==
  [kind : Kinds, name : {"none", "step", "other"}, range : Nat, addr : PoolAddrs \cup {0}, ts : Nat, step : Nat]

\* The types of the variables.
StepTyped ==
  /\ plan \in Plans
  /\ clock \in Nat /\ stamped \in Nat /\ pySteps \in Nat /\ lastRange \in Nat
  /\ DOMAIN info = {"step", "inRange", "ranges"} /\ info.step \in Nat
  /\ DOMAIN openRanges \subseteq Steps!Ranges /\ (\A r \in DOMAIN openRanges : openRanges[r].name \in {"step", "other"})
  /\ begun \in [Steps!Ranges -> Nat]
  /\ pc \in [Threads -> {"idle", "stamp", "number", "send"}]
  /\ ev \in [Threads -> StepEvents]
  /\ \A t \in Threads :
       /\ pc[t] = "idle" <=> ev[t].kind = "none"
       /\ pc[t] = "number" => ev[t].kind \in {"start", "end", "py"}
  /\ stepSource \in {"none", "mstx", "py"}
  /\ boundaries \in Seq([step : Nat, ts : Nat])

\* The event of a thread has its timestamp.
IsStamped(t) == pc[t] \in {"number", "send"}

\* Timestamps are taken once, and boundaries are in their order.
StepTimes ==
  /\ \A i \in DOMAIN boundaries : boundaries[i].ts <= clock
  /\ \A t \in Threads : IsStamped(t) => ev[t].ts <= clock
  /\ \A t, u \in Threads : IsStamped(t) /\ IsStamped(u) /\ t # u => ev[t].ts # ev[u].ts
  /\ \A t \in Threads, i \in DOMAIN boundaries : IsStamped(t) => boundaries[i].ts # ev[t].ts
  /\ Steps!BoundariesSorted

\* The numbers of boundaries were given by one source, and those of marks by theirs.
StepSources ==
  /\ stepSource = "none" <=> boundaries = <<>>
  /\ Steps!OneSource
  /\ \A t \in Threads : ev[t].kind = "start" /\ ev[t].name = "step" =>
       /\ info.step >= 1
       /\ pc[t] = "send" => ev[t].step \in 1..info.step
  /\ \A t \in Threads : ev[t].kind = "py" /\ pc[t] = "send" => ev[t].step \in 1..pySteps

\* A thread marks a step and is at one of the places.
Marks(t, places) == pc[t] \in places /\ Steps!IsStepMark(ev[t])

\* Nobody allocates: there are no blocks.
NoBlocks ==
  /\ DOMAIN live = {} /\ leaks = {}
  /\ \A t \in Threads : ev[t].kind \notin {"malloc", "free"}

\* One thread marks steps, one after the other: it is the one at work on a mark or
\* an end, and its open range is of the step that is counted.
OneMarks ==
  /\ \A t \in Threads : ev[t].kind \in {"start", "end", "py"} => t \in plan.steppers
  /\ \A t \in Threads : ev[t].kind \in {"start", "end"} => ev[t].name = "step"
  /\ \A r \in DOMAIN openRanges : openRanges[r].owner \in plan.steppers /\ openRanges[r].name = "step" /\ begun[r] = info.step
  /\ info.step = 0 \/ (pySteps = 0 /\ \A t \in Threads : ev[t].kind # "py")

\* Steps are counted, stamped and delivered in turn.
InTurns ==
  /\ (\A t \in Threads : ~Marks(t, {"stamp", "number", "send"})) =>
       stamped = Len(boundaries) /\ info.step + pySteps = stamped
  /\ \A t \in Threads :
       /\ Marks(t, {"stamp"}) =>
            /\ stamped = Len(boundaries)
            /\ info.step + pySteps = IF ev[t].kind = "py" THEN stamped ELSE stamped + 1
       /\ Marks(t, {"number"}) =>
            /\ stamped = Len(boundaries) + 1
            /\ info.step + pySteps = IF ev[t].kind = "py" THEN stamped - 1 ELSE stamped
       /\ Marks(t, {"send"}) =>
            /\ stamped = Len(boundaries) + 1
            /\ info.step + pySteps = stamped /\ ev[t].step = stamped
  /\ \A k \in DOMAIN boundaries : boundaries[k].step = IF stepSource = "py" THEN k + 1 ELSE k
  /\ \A t \in Threads, k \in DOMAIN boundaries : Marks(t, {"number", "send"}) => boundaries[k].ts < ev[t].ts

\* A block that took ts after n marks: these are earlier, and the others later.
BornAfter(n, ts) ==
  /\ n \in 0..stamped /\ ts \in Nat /\ ts <= clock
  /\ \A k \in DOMAIN boundaries : (k <= n => boundaries[k].ts < ts) /\ (k > n => boundaries[k].ts > ts)
  /\ \A t \in Threads : Marks(t, {"number", "send"}) =>
       (n = stamped => ev[t].ts < ts) /\ (n < stamped => ev[t].ts > ts)

\* Blocks, delivered or on their way.
BlocksBorn ==
  /\ \A a \in DOMAIN live : BornAfter(live[a].in, live[a].ts)
  /\ \A t \in Threads : ev[t].kind = "malloc" /\ pc[t] = "send" => BornAfter(ev[t].step, ev[t].ts)

\* The step an event ends has been ended.
EndsAreEnded ==
  \A t \in Threads :
    /\ ev[t].kind = "end" /\ pc[t] \in {"stamp", "number"} => info.step \in ended
    /\ ev[t].kind \in {"end", "py"} /\ pc[t] = "send" => ev[t].step \in ended

\* One thread marks the steps, in one way and without other ranges.
MarksAlone == plan.names \subseteq {"step"} /\ ~plan.mixed /\ \A s, t \in plan.steppers : s = t

\* What holds then.
AloneInv == OneMarks /\ InTurns /\ BlocksBorn /\ EndsAreEnded /\ Steps!LeaksOutlived

\* What the property is about: one marks, or nobody allocates.
InOneWay == plan.allocators = {} \/ MarksAlone

\* What holds then of blocks and of the one who marks.
StepOrder == (plan.allocators = {} => NoBlocks) /\ (MarksAlone => AloneInv)

\* The inductive invariant.
StepInv == StepTyped /\ StepTimes /\ StepSources /\ StepOrder

-----------------------------------------------------------------------------
(* Boundaries *)

\* What a boundary is.
LEMMA BoundaryIs ==
  ASSUME boundaries \in Seq([step : Nat, ts : Nat])
  PROVE  /\ Len(boundaries) \in Nat /\ DOMAIN boundaries = 1..Len(boundaries)
         /\ \A i \in 1..Len(boundaries) :
              boundaries[i] \in [step : Nat, ts : Nat] /\ boundaries[i].step \in Nat /\ boundaries[i].ts \in Nat
<1>1. Len(boundaries) \in Nat /\ DOMAIN boundaries = 1..Len(boundaries)
  OBVIOUS
<1>2. ASSUME NEW i \in 1..Len(boundaries)
      PROVE  boundaries[i] \in [step : Nat, ts : Nat]
  BY ElementOfSeq
<1>3. ASSUME NEW i \in 1..Len(boundaries)
      PROVE  boundaries[i].step \in Nat /\ boundaries[i].ts \in Nat
  BY <1>2
<1>4. QED
  BY <1>1, <1>2, <1>3

\* The first boundary of a set, or the end.
LEMMA FirstOfIs ==
  ASSUME Len(boundaries) \in Nat, NEW S \in SUBSET (1..Len(boundaries))
  PROVE  /\ Steps!FirstOf(S) \in 1..(Len(boundaries) + 1)
         /\ Steps!FirstOf(S) <= Len(boundaries) => Steps!FirstOf(S) \in S
         /\ \A i \in S : Steps!FirstOf(S) <= i
<1>1. CASE S = {}
  BY <1>1 DEF Steps!FirstOf
<1>2. CASE S # {}
  <2>1. S \in SUBSET Nat
    OBVIOUS
  <2>2. \E i \in S : \A j \in S : i <= j
    BY <1>2, <2>1, LeastNat
  <2>3. PICK n : n = Steps!FirstOf(S)
    OBVIOUS
  <2>4. n \in S /\ \A j \in S : n <= j
    BY <1>2, <2>2, <2>3 DEF Steps!FirstOf
  <2>5. n \in 1..Len(boundaries)
    BY <2>4
  <2>6. QED
    BY <2>3, <2>4, <2>5
<1>3. QED
  BY <1>1, <1>2

\* A boundary b among the others, in the order of timestamps.
IsInserted(s, b) ==
  /\ s \in Seq([step : Nat, ts : Nat]) /\ Len(s) = Len(boundaries) + 1
  /\ \E n \in 1..Len(s) :
       /\ s[n] = b
       /\ \A i \in 1..Len(boundaries) : i < n => s[i] = boundaries[i] /\ boundaries[i].ts < b.ts
       /\ \A i \in 1..Len(boundaries) : i >= n => s[i + 1] = boundaries[i] /\ b.ts < boundaries[i].ts

\* lower_bound and insert do that.
LEMMA InsertedIs ==
  ASSUME boundaries \in Seq([step : Nat, ts : Nat]), Steps!BoundariesSorted,
         NEW number \in Nat, NEW ts \in Nat, \A i \in DOMAIN boundaries : boundaries[i].ts # ts
  PROVE  IsInserted(Steps!Inserted(number, ts), [step |-> number, ts |-> ts])
<1> DEFINE S == {i \in DOMAIN boundaries : boundaries[i].ts >= ts}
           b == [step |-> number, ts |-> ts]
<1>1. Len(boundaries) \in Nat /\ DOMAIN boundaries = 1..Len(boundaries)
  OBVIOUS
<1>2. PICK n : n = Steps!FirstOf(S)
  OBVIOUS
<1>3. /\ n \in 1..(Len(boundaries) + 1)
      /\ n <= Len(boundaries) => n \in S
      /\ \A i \in S : n <= i
  <2>1. S \in SUBSET (1..Len(boundaries))
    BY <1>1
  <2> HIDE DEF S
  <2>2. QED
    BY <1>1, <1>2, <2>1, FirstOfIs
<1>4. \A i \in 1..Len(boundaries) : boundaries[i] \in [step : Nat, ts : Nat] /\ boundaries[i].ts \in Nat
  BY BoundaryIs
<1>5. \A i \in 1..Len(boundaries) : i < n => boundaries[i].ts < ts
  <2>1. TAKE i \in 1..Len(boundaries)
  <2>2. HAVE i < n
  <2>3. i \notin S
    <3> HIDE DEF S
    <3>1. QED
      BY <1>3, <2>2
  <2>4. QED
    BY <1>1, <1>4, <2>3
<1>6. \A i \in 1..Len(boundaries) : i >= n => ts < boundaries[i].ts
  <2>1. TAKE i \in 1..Len(boundaries)
  <2>2. HAVE i >= n
  <2>3. n \in 1..Len(boundaries) /\ n \in S
    <3> HIDE DEF S
    <3>1. QED
      BY <1>1, <1>3, <2>2
  <2>4. boundaries[n].ts >= ts /\ boundaries[n].ts # ts
    BY <1>1, <2>3
  <2>5. i # n => boundaries[n].ts < boundaries[i].ts
    <3> HIDE DEF S
    <3>1. \A k, j \in 1..Len(boundaries) : k < j => boundaries[k].ts < boundaries[j].ts
      BY <1>1 DEF Steps!BoundariesSorted
    <3>2. i # n => n < i
      BY <1>1, <2>2, <2>3
    <3>3. QED
      BY <2>3, <3>1, <3>2
  <2>6. QED
    BY <1>4, <2>3, <2>4, <2>5
<1>7. PICK s : s = Steps!Inserted(number, ts)
  OBVIOUS
<1>8. /\ s \in Seq([step : Nat, ts : Nat]) /\ Len(s) = Len(boundaries) + 1
      /\ s[n] = b
      /\ \A i \in 1..Len(boundaries) : i < n => s[i] = boundaries[i]
      /\ \A i \in 1..Len(boundaries) : i >= n => s[i + 1] = boundaries[i]
  <2> HIDE DEF S
  <2>1. s = SubSeq(boundaries, 1, n - 1) \o <<b>> \o SubSeq(boundaries, n, Len(boundaries))
    BY <1>2, <1>7 DEF Steps!Inserted, S
  <2> HIDE DEF b
  <2>2. b \in [step : Nat, ts : Nat]
    BY DEF b
  <2>3. PICK p : p = SubSeq(boundaries, 1, n - 1)
    OBVIOUS
  <2>4. PICK q : q = SubSeq(boundaries, n, Len(boundaries))
    OBVIOUS
  <2>5. /\ p \in Seq([step : Nat, ts : Nat]) /\ Len(p) = n - 1
        /\ \A i \in 1..(n - 1) : p[i] = boundaries[i]
    BY <1>1, <1>3, <1>4, <2>3
  <2>6. /\ q \in Seq([step : Nat, ts : Nat]) /\ Len(q) = Len(boundaries) + 1 - n
        /\ \A i \in 1..(Len(boundaries) + 1 - n) : q[i] = boundaries[n + i - 1]
    BY <1>1, <1>3, <1>4, <2>4
  <2>7. s = p \o <<b>> \o q
    BY <2>1, <2>3, <2>4
  <2>8. /\ s \in Seq([step : Nat, ts : Nat]) /\ Len(s) = Len(boundaries) + 1
        /\ s[n] = b
        /\ \A i \in 1..(n - 1) : s[i] = p[i]
        /\ \A i \in 1..(Len(boundaries) + 1 - n) : s[n + i] = q[i]
    <3>1. PICK r : r = p \o <<b>>
      OBVIOUS
    <3>2. /\ r \in Seq([step : Nat, ts : Nat]) /\ Len(r) = n /\ r[n] = b
          /\ \A i \in 1..(n - 1) : r[i] = p[i]
      BY <1>1, <1>3, <2>2, <2>5, <3>1
    <3>3. s = r \o q
      BY <2>7, <3>1
    <3>4. PICK m : m = Len(boundaries) + 1 - n /\ m \in Nat
      <4>1. Len(boundaries) + 1 - n \in Nat
        BY <1>1, <1>3
      <4>2. QED
        BY <4>1
    <3>5. q \in Seq([step : Nat, ts : Nat]) /\ Len(q) = m /\ n \in Nat
      BY <1>1, <1>3, <2>6, <3>4
    <3>6. /\ s \in Seq([step : Nat, ts : Nat]) /\ Len(s) = n + m
          /\ \A i \in 1..n : s[i] = r[i]
          /\ \A i \in 1..m : s[n + i] = q[i]
      <4>1. /\ s \in Seq([step : Nat, ts : Nat]) /\ Len(s) = n + m
            /\ \A i \in 1..(n + m) : s[i] = IF i <= n THEN r[i] ELSE q[i - n]
        BY <3>2, <3>3, <3>5, ConcatProperties
      <4>2. \A i \in 1..n : i \in 1..(n + m) /\ i <= n
        BY <3>4, <3>5
      <4>3. \A i \in 1..m : n + i \in 1..(n + m) /\ ~(n + i <= n) /\ (n + i) - n = i
        BY <3>4, <3>5
      <4>4. \A i \in 1..m : s[n + i] = q[i]
        BY <4>1, <4>3
      <4>5. QED
        BY <4>1, <4>2, <4>4
    <3>7. n + m = Len(boundaries) + 1 /\ n \in 1..n /\ \A i \in 1..(n - 1) : i \in 1..n
      BY <1>1, <1>3, <3>4, <3>5
    <3>8. QED
      BY <3>2, <3>4, <3>6, <3>7
  <2>9. \A i \in 1..Len(boundaries) : i < n => s[i] = boundaries[i]
    <3>1. \A i \in 1..Len(boundaries) : i < n => i \in 1..(n - 1)
      BY <1>1, <1>3
    <3>2. QED
      BY <2>5, <2>8, <3>1
  <2>10. ASSUME NEW i \in 1..Len(boundaries), i >= n
         PROVE  s[i + 1] = boundaries[i]
    <3>1. i + 1 - n \in 1..(Len(boundaries) + 1 - n) /\ n + (i + 1 - n) = i + 1 /\ n + (i + 1 - n) - 1 = i
      BY <1>1, <1>3, <2>10
    <3>2. s[n + (i + 1 - n)] = q[i + 1 - n] /\ q[i + 1 - n] = boundaries[n + (i + 1 - n) - 1]
      BY <2>6, <2>8, <3>1
    <3>3. QED
      BY <3>1, <3>2
  <2>11. QED
    BY <2>8, <2>9, <2>10
<1>9. QED
  BY <1>1, <1>3, <1>5, <1>6, <1>7, <1>8 DEF IsInserted

\* Every boundary is an old one or the new one.
LEMMA InsertedAmong ==
  ASSUME boundaries \in Seq([step : Nat, ts : Nat]), NEW s, NEW b, IsInserted(s, b)
  PROVE  \A i \in DOMAIN s : s[i] = b \/ \E j \in DOMAIN boundaries : s[i] = boundaries[j]
<1>1. Len(boundaries) \in Nat /\ DOMAIN boundaries = 1..Len(boundaries)
  OBVIOUS
<1>2. s \in Seq([step : Nat, ts : Nat]) /\ Len(s) = Len(boundaries) + 1
  BY DEF IsInserted
<1>3. DOMAIN s = 1..(Len(boundaries) + 1)
  BY <1>2
<1>4. PICK n \in 1..Len(s) :
        /\ s[n] = b
        /\ \A i \in 1..Len(boundaries) : i < n => s[i] = boundaries[i]
        /\ \A i \in 1..Len(boundaries) : i >= n => s[i + 1] = boundaries[i]
  BY DEF IsInserted
<1>5. TAKE i \in DOMAIN s
<1>0. i \in 1..(Len(boundaries) + 1) /\ n \in 1..(Len(boundaries) + 1)
  BY <1>2, <1>3
<1>6. CASE i < n
  <2>1. i \in 1..Len(boundaries)
    BY <1>0, <1>1, <1>6
  <2>2. QED
    BY <1>1, <1>4, <1>6, <2>1
<1>7. CASE i = n
  BY <1>4, <1>7
<1>8. CASE i > n
  <2>1. i - 1 \in 1..Len(boundaries) /\ i - 1 >= n /\ (i - 1) + 1 = i
    BY <1>0, <1>1, <1>8
  <2>2. s[(i - 1) + 1] = boundaries[i - 1]
    BY <1>4, <2>1
  <2>3. QED
    BY <1>1, <2>1, <2>2
<1>9. QED
  BY <1>0, <1>1, <1>6, <1>7, <1>8

\* They stay in order.
LEMMA InsertedSorted ==
  ASSUME boundaries \in Seq([step : Nat, ts : Nat]), Steps!BoundariesSorted,
         NEW s, NEW b \in [step : Nat, ts : Nat], IsInserted(s, b)
  PROVE  \A i, j \in DOMAIN s : i < j => s[i].ts < s[j].ts
<1>1. Len(boundaries) \in Nat /\ DOMAIN boundaries = 1..Len(boundaries)
  OBVIOUS
<1>2. s \in Seq([step : Nat, ts : Nat]) /\ Len(s) = Len(boundaries) + 1
  BY DEF IsInserted
<1>3. DOMAIN s = 1..(Len(boundaries) + 1)
  BY <1>2
<1>4. PICK n \in 1..Len(s) :
        /\ s[n] = b
        /\ \A i \in 1..Len(boundaries) : i < n => s[i] = boundaries[i] /\ boundaries[i].ts < b.ts
        /\ \A i \in 1..Len(boundaries) : i >= n => s[i + 1] = boundaries[i] /\ b.ts < boundaries[i].ts
  BY DEF IsInserted
<1>5. n \in Nat /\ n \in 1..(Len(boundaries) + 1)
  BY <1>1, <1>2
<1>6. \A i \in 1..(Len(boundaries) + 1) : i > n =>
        i - 1 \in 1..Len(boundaries) /\ s[i] = boundaries[i - 1] /\ b.ts < boundaries[i - 1].ts
  <2>1. TAKE i \in 1..(Len(boundaries) + 1)
  <2>2. HAVE i > n
  <2>3. i - 1 \in 1..Len(boundaries) /\ i - 1 >= n /\ (i - 1) + 1 = i
    BY <1>1, <1>5, <2>1, <2>2
  <2>4. s[(i - 1) + 1] = boundaries[i - 1] /\ b.ts < boundaries[i - 1].ts
    BY <1>4, <2>3
  <2>5. QED
    BY <2>3, <2>4
<1>7. \A i \in 1..(Len(boundaries) + 1) : i < n =>
        i \in 1..Len(boundaries) /\ s[i] = boundaries[i] /\ boundaries[i].ts < b.ts
  <2>1. \A i \in 1..(Len(boundaries) + 1) : i < n => i \in 1..Len(boundaries)
    BY <1>1, <1>5
  <2>2. QED
    BY <1>4, <2>1
<1>8. \A i, j \in 1..Len(boundaries) : i < j => boundaries[i].ts < boundaries[j].ts
  BY <1>1 DEF Steps!BoundariesSorted
<1>9. \A i \in 1..Len(boundaries) : boundaries[i].ts \in Nat
  BY BoundaryIs
<1>10. b.ts \in Nat
  OBVIOUS
<1>11. TAKE i, j \in DOMAIN s
<1>12. HAVE i < j
<1>13. i \in 1..(Len(boundaries) + 1) /\ j \in 1..(Len(boundaries) + 1)
  BY <1>3
<1>14. CASE i < n /\ j < n
  BY <1>7, <1>8, <1>12, <1>13, <1>14
<1>15. CASE i < n /\ j = n
  BY <1>4, <1>7, <1>13, <1>15
<1>16. CASE i < n /\ j > n
  <2>1. /\ i \in 1..Len(boundaries) /\ s[i] = boundaries[i] /\ boundaries[i].ts < b.ts
        /\ j - 1 \in 1..Len(boundaries) /\ s[j] = boundaries[j - 1] /\ b.ts < boundaries[j - 1].ts
    BY <1>6, <1>7, <1>13, <1>16
  <2>2. boundaries[i].ts \in Nat /\ boundaries[j - 1].ts \in Nat
    BY <1>9, <2>1
  <2>3. \A x, y, z \in Nat : x < y /\ y < z => x < z
    OBVIOUS
  <2>4. boundaries[i].ts < boundaries[j - 1].ts
    BY <1>10, <2>1, <2>2, <2>3
  <2>5. QED
    BY <2>1, <2>4
<1>17. CASE i = n
  BY <1>4, <1>5, <1>6, <1>12, <1>13, <1>17
<1>18. CASE i > n
  <2>0. i - 1 < j - 1 /\ j > n
    BY <1>1, <1>5, <1>12, <1>13, <1>18
  <2>1. /\ i - 1 \in 1..Len(boundaries) /\ s[i] = boundaries[i - 1]
        /\ j - 1 \in 1..Len(boundaries) /\ s[j] = boundaries[j - 1] /\ i - 1 < j - 1
    BY <1>6, <1>13, <1>18, <2>0
  <2>2. QED
    BY <1>8, <2>1
<1>19. QED
  BY <1>1, <1>5, <1>13, <1>14, <1>15, <1>16, <1>17, <1>18

\* The latest comes last.
LEMMA LatestIsLast ==
  ASSUME boundaries \in Seq([step : Nat, ts : Nat]), NEW s, NEW b \in [step : Nat, ts : Nat], IsInserted(s, b),
         \A i \in DOMAIN boundaries : boundaries[i].ts < b.ts
  PROVE  s[Len(boundaries) + 1] = b /\ \A i \in DOMAIN boundaries : s[i] = boundaries[i]
<1>1. Len(boundaries) \in Nat /\ DOMAIN boundaries = 1..Len(boundaries)
  OBVIOUS
<1>2. Len(s) = Len(boundaries) + 1
  BY DEF IsInserted
<1>3. PICK n \in 1..Len(s) :
        /\ s[n] = b
        /\ \A i \in 1..Len(boundaries) : i < n => s[i] = boundaries[i]
        /\ \A i \in 1..Len(boundaries) : i >= n => b.ts < boundaries[i].ts
  BY DEF IsInserted
<1>4. \A i \in 1..Len(boundaries) : boundaries[i].ts \in Nat /\ b.ts \in Nat
  BY BoundaryIs
<1>5. n = Len(boundaries) + 1
  <2>1. SUFFICES ASSUME n # Len(boundaries) + 1 PROVE FALSE
    OBVIOUS
  <2>2. n \in 1..Len(boundaries) /\ n >= n
    BY <1>1, <1>2, <1>3, <2>1
  <2>3. b.ts < boundaries[n].ts /\ boundaries[n].ts < b.ts
    BY <1>1, <1>3, <2>2
  <2>4. QED
    BY <1>4, <2>2, <2>3
<1>6. QED
  BY <1>1, <1>3, <1>5
-----------------------------------------------------------------------------
(* Steps *)

\* What a plan is.
LEMMA PlanIs ==
  ASSUME Steps!StepAssumption, plan \in Plans
  PROVE  /\ plan.steppers \subseteq Threads /\ plan.allocators \subseteq Threads
         /\ plan.steppers \cap plan.allocators = {}
         /\ plan.names \subseteq {"step", "other"} /\ plan.ranges \in Nat
         /\ \A n \in Nat : n >= 1 /\ n <= plan.ranges => n \in Steps!Ranges
         /\ Steps!Ranges \subseteq Nat
<1>1. MaxRanges \in Nat /\ plan.ranges \in 0..MaxRanges
  BY DEF Steps!StepAssumption
<1>2. QED
  BY <1>1 DEF Steps!StepAssumption, Steps!Ranges

\* A thread begins an event: nothing is stamped or delivered.
EventBegins(t, event) ==
  /\ pc[t] = "idle" /\ Steps!Begin(t, event) /\ event \in StepEvents /\ event.kind # "none"
  /\ event.kind = "start" /\ event.name = "step" => info'.step >= 1
  /\ DOMAIN info' = {"step", "inRange", "ranges"} /\ info'.step \in Nat /\ info'.step >= info.step
  /\ DOMAIN openRanges' \subseteq Steps!Ranges /\ (\A r \in DOMAIN openRanges' : openRanges'[r].name \in {"step", "other"})
  /\ begun' \in [Steps!Ranges -> Nat] /\ lastRange' \in Nat
  /\ UNCHANGED <<plan, clock, stamped, pySteps, stepSource, boundaries, live, leaks>>

\* The marks and allocations do that.
LEMMA RangeStartBegins ==
  ASSUME Steps!StepAssumption, StepTyped, NEW t \in plan.steppers, NEW name \in plan.names, Steps!RangeStart(t, name), plan' = plan
  PROVE  EventBegins(t, [Steps!NoEvent EXCEPT !.kind = "start", !.name = name, !.range = lastRange + 1])
<1>1. plan \in Plans /\ lastRange \in Nat /\ info.step \in Nat /\ DOMAIN info = {"step", "inRange", "ranges"}
  BY DEF StepTyped
<1>2. lastRange + 1 \in Steps!Ranges /\ Steps!Ranges \subseteq Nat /\ name \in {"step", "other"}
  BY <1>1, PlanIs DEF Steps!RangeStart
<1>3. [Steps!NoEvent EXCEPT !.kind = "start", !.name = name, !.range = lastRange + 1] \in StepEvents
  BY <1>2 DEF Steps!NoEvent, StepEvents, Kinds
<1>4. /\ DOMAIN info' = {"step", "inRange", "ranges"} /\ info'.step \in Nat /\ info'.step >= info.step
      /\ name = "step" => info'.step >= 1
      /\ begun' \in [Steps!Ranges -> Nat]
  <2>1. CASE name = "step"
    <3>1. info' = [step |-> info.step + 1, inRange |-> TRUE, ranges |-> Append(info.ranges, lastRange + 1)]
      BY <2>1 DEF Steps!RangeStart
    <3>2. begun' = [begun EXCEPT ![lastRange + 1] = info.step + 1] /\ begun \in [Steps!Ranges -> Nat]
      BY <2>1 DEF Steps!RangeStart, StepTyped
    <3>3. DOMAIN info' = {"step", "inRange", "ranges"} /\ info'.step = info.step + 1
      BY <3>1
    <3>4. begun' \in [Steps!Ranges -> Nat]
      BY <1>1, <1>2, <3>2
    <3>5. QED
      BY <1>1, <3>3, <3>4
  <2>2. CASE name # "step"
    BY <1>1, <2>2 DEF Steps!RangeStart, StepTyped
  <2>3. QED
    BY <2>1, <2>2
<1>5. DOMAIN openRanges' \subseteq Steps!Ranges /\ \A r \in DOMAIN openRanges' : openRanges'[r].name \in {"step", "other"}
  <2>1. openRanges' = [i \in DOMAIN openRanges \cup {lastRange + 1} |->
                   IF i = lastRange + 1 THEN [owner |-> t, name |-> name] ELSE openRanges[i]]
    BY DEF Steps!RangeStart
  <2>2. QED
    BY <1>2, <2>1 DEF StepTyped
<1>6. lastRange' = lastRange + 1
  BY DEF Steps!RangeStart
<1>7. [Steps!NoEvent EXCEPT !.kind = "start", !.name = name, !.range = lastRange + 1].kind = "start"
      /\ [Steps!NoEvent EXCEPT !.kind = "start", !.name = name, !.range = lastRange + 1].name = name
  BY DEF Steps!NoEvent
<1>8. /\ pc[t] = "idle" /\ Steps!Begin(t, [Steps!NoEvent EXCEPT !.kind = "start", !.name = name, !.range = lastRange + 1])
      /\ UNCHANGED <<clock, stamped, pySteps, stepSource, boundaries, live, leaks>>
  BY DEF Steps!RangeStart, Steps!tracker
<1>9. QED
  BY <1>1, <1>3, <1>4, <1>5, <1>6, <1>7, <1>8 DEF EventBegins

\* The end of a range begins an event.
LEMMA RangeEndBegins ==
  ASSUME Steps!StepAssumption, StepTyped, NEW t \in plan.steppers, NEW r \in Steps!Ranges, Steps!RangeEnd(t, r), plan' = plan
  PROVE  EventBegins(t, [Steps!NoEvent EXCEPT !.kind = "end", !.name = openRanges[r].name, !.range = r])
<1>1. plan \in Plans /\ lastRange \in Nat /\ info.step \in Nat /\ DOMAIN info = {"step", "inRange", "ranges"}
  BY DEF StepTyped
<1>2. Steps!Ranges \subseteq Nat
  BY <1>1, PlanIs
<1>3. [Steps!NoEvent EXCEPT !.kind = "end", !.name = openRanges[r].name, !.range = r] \in StepEvents
  <2>1. openRanges[r].name \in {"step", "other"} /\ r \in Nat
    BY <1>2 DEF Steps!RangeEnd, StepTyped
  <2>2. QED
    BY <2>1 DEF Steps!NoEvent, StepEvents, Kinds
<1>4. DOMAIN info' = {"step", "inRange", "ranges"} /\ info'.step = info.step
  <2>1. info' = info \/ info' = [info EXCEPT !.inRange = FALSE, !.ranges = SelectSeq(@, LAMBDA i : i # r)]
    BY DEF Steps!RangeEnd, Steps!Left
  <2>2. QED
    BY <1>1, <2>1
<1>5. DOMAIN openRanges' \subseteq Steps!Ranges /\ \A i \in DOMAIN openRanges' : openRanges'[i].name \in {"step", "other"}
  <2>1. openRanges' = [i \in DOMAIN openRanges \ {r} |-> openRanges[i]]
    BY DEF Steps!RangeEnd, Steps!Restrict
  <2>2. QED
    BY <2>1 DEF StepTyped
<1>7. [Steps!NoEvent EXCEPT !.kind = "end", !.name = openRanges[r].name, !.range = r].kind = "end"
  BY DEF Steps!NoEvent
<1>8. /\ pc[t] = "idle" /\ Steps!Begin(t, [Steps!NoEvent EXCEPT !.kind = "end", !.name = openRanges[r].name, !.range = r])
      /\ UNCHANGED <<clock, stamped, pySteps, stepSource, boundaries, live, leaks, begun, lastRange>>
  BY DEF Steps!RangeEnd, Steps!tracker
<1>9. QED
  BY <1>1, <1>3, <1>4, <1>5, <1>7, <1>8 DEF EventBegins, StepTyped

\* An event of a mark or an allocation that is not about a range.
IsOther(event) ==
  \/ event = [Steps!NoEvent EXCEPT !.kind = "py"]
  \/ \E a \in PoolAddrs : event = [Steps!NoEvent EXCEPT !.kind = "malloc", !.addr = a]
  \/ \E a \in PoolAddrs : event = [Steps!NoEvent EXCEPT !.kind = "free", !.addr = a]

\* These begin an event, too.
LEMMA OthersBegin ==
  ASSUME Steps!StepAssumption, StepTyped, NEW t \in Threads, plan' = plan,
         NEW event, IsOther(event), pc[t] = "idle", Steps!Begin(t, event), UNCHANGED <<clock, openRanges, lastRange, Steps!report, Steps!tracker, Steps!history>>
  PROVE  EventBegins(t, event)
<1>1. event \in StepEvents /\ event.kind \in {"py", "malloc", "free"}
  <2>1. CASE event = [Steps!NoEvent EXCEPT !.kind = "py"]
    BY <2>1 DEF Steps!NoEvent, StepEvents, Kinds
  <2>2. ASSUME NEW a \in PoolAddrs, NEW k \in {"malloc", "free"}, event = [Steps!NoEvent EXCEPT !.kind = k, !.addr = a]
        PROVE  event \in StepEvents /\ event.kind \in {"py", "malloc", "free"}
    BY <2>2 DEF Steps!NoEvent, StepEvents, Kinds
  <2>3. QED
    BY <2>1, <2>2 DEF IsOther
<1>2. UNCHANGED <<clock, stamped, pySteps, stepSource, boundaries, live, leaks, info, openRanges, begun, lastRange>>
  BY DEF Steps!report, Steps!tracker, Steps!history
<1>3. /\ DOMAIN info' = {"step", "inRange", "ranges"} /\ info'.step \in Nat /\ info'.step >= info.step
      /\ DOMAIN openRanges' \subseteq Steps!Ranges /\ (\A r \in DOMAIN openRanges' : openRanges'[r].name \in {"step", "other"})
      /\ begun' \in [Steps!Ranges -> Nat] /\ lastRange' \in Nat
  <2>1. DOMAIN info = {"step", "inRange", "ranges"} /\ info.step \in Nat /\ info' = info
    BY <1>2 DEF StepTyped
  <2>2. /\ DOMAIN openRanges \subseteq Steps!Ranges /\ (\A r \in DOMAIN openRanges : openRanges[r].name \in {"step", "other"})
        /\ openRanges' = openRanges
    BY <1>2 DEF StepTyped
  <2>3. begun' \in [Steps!Ranges -> Nat] /\ lastRange' \in Nat
    BY <1>2 DEF StepTyped
  <2>4. DOMAIN info' = {"step", "inRange", "ranges"} /\ info'.step \in Nat /\ info'.step >= info.step
    BY <2>1
  <2>5. DOMAIN openRanges' \subseteq Steps!Ranges /\ (\A r \in DOMAIN openRanges' : openRanges'[r].name \in {"step", "other"})
    BY <2>2
  <2>6. QED
    BY <2>3, <2>4, <2>5
<1>4. QED
  BY <1>1, <1>2, <1>3 DEF EventBegins

\* Beginning keeps types, times and sources.
LEMMA BeginningKeeps ==
  ASSUME StepTyped, StepTimes, StepSources, NEW t \in Threads, NEW event, EventBegins(t, event)
  PROVE  /\ StepTyped' /\ StepTimes' /\ StepSources'
         /\ \A u \in Threads : u # t => ev'[u] = ev[u] /\ pc'[u] = pc[u]
         /\ ev'[t] = event /\ pc'[t] = "stamp"
<1>1. /\ \A u \in Threads : u # t => ev'[u] = ev[u] /\ pc'[u] = pc[u]
      /\ ev'[t] = event /\ pc'[t] = "stamp"
      /\ ev' \in [Threads -> StepEvents] /\ pc' \in [Threads -> {"idle", "stamp", "number", "send"}]
  BY DEF StepTyped, EventBegins, Steps!Begin
<1>2. StepTyped'
  <2>1. ASSUME NEW u \in Threads
        PROVE  /\ pc'[u] = "idle" <=> ev'[u].kind = "none"
               /\ pc'[u] = "number" => ev'[u].kind \in {"start", "end", "py"}
    <3>1. CASE u = t
      BY <1>1, <3>1 DEF EventBegins
    <3>2. CASE u # t
      BY <1>1, <3>2 DEF StepTyped
    <3>3. QED
      BY <3>1, <3>2
  <2>2. QED
    BY <1>1, <2>1 DEF StepTyped, EventBegins
<1>3. StepTimes'
  <2>1. \A u \in Threads : IsStamped(u)' => u # t /\ IsStamped(u) /\ ev'[u] = ev[u]
    BY <1>1 DEF IsStamped
  <2>2. UNCHANGED <<clock, boundaries>>
    BY DEF EventBegins
  <2>3. QED
    BY <2>1, <2>2 DEF StepTimes, Steps!BoundariesSorted
<1>4. StepSources'
  <2>1. UNCHANGED <<stepSource, boundaries, pySteps>> /\ info'.step \in Nat /\ info.step \in Nat /\ info'.step >= info.step
    BY DEF EventBegins, StepTyped
  <2>2. event.kind = "start" /\ event.name = "step" => info'.step >= 1
    BY DEF EventBegins
  <2>3. Steps!OneSource'
    BY <2>1 DEF Steps!OneSource, StepSources
  <2>4. ASSUME NEW u \in Threads, ev'[u].kind = "start", ev'[u].name = "step"
        PROVE  info'.step >= 1 /\ (pc'[u] = "send" => ev'[u].step \in 1..info'.step)
    BY <1>1, <2>1, <2>2, <2>4 DEF StepSources
  <2>5. ASSUME NEW u \in Threads, ev'[u].kind = "py", pc'[u] = "send"
        PROVE  ev'[u].step \in 1..pySteps'
    BY <1>1, <2>1, <2>5 DEF StepSources
  <2>6. QED
    BY <2>1, <2>3, <2>4, <2>5 DEF StepSources
<1>5. QED
  BY <1>1, <1>2, <1>3, <1>4
\* What an event that is under way is.
LEMMA EventIs ==
  ASSUME StepTyped, NEW t \in Threads
  PROVE  /\ ev[t] \in StepEvents /\ ev[t].ts \in Nat /\ ev[t].step \in Nat
         /\ ev[t].kind \in Kinds /\ ev[t].name \in {"none", "step", "other"}
         /\ DOMAIN ev[t] = {"kind", "name", "range", "addr", "ts", "step"}
<1>1. ev[t] \in StepEvents
  BY DEF StepTyped
<1>2. QED
  BY <1>1 DEF StepEvents

\* A timestamp is taken.
LEMMA StampIs ==
  ASSUME StepTyped, NEW t \in Threads, Steps!Stamp(t), plan' = plan
  PROVE  /\ pc[t] = "stamp" /\ pc' \in [Threads -> {"idle", "stamp", "number", "send"}] /\ ev' \in [Threads -> StepEvents]
         /\ \A u \in Threads : u # t => ev'[u] = ev[u] /\ pc'[u] = pc[u]
         /\ ev'[t].kind = ev[t].kind /\ ev'[t].name = ev[t].name /\ ev'[t].ts = clock + 1
         /\ ev'[t].step = IF ev[t].kind = "malloc" THEN stamped ELSE 0
         /\ pc'[t] = IF ev[t].kind \in {"malloc", "free"} THEN "send" ELSE "number"
         /\ clock' = clock + 1 /\ stamped' = stamped + (IF Steps!IsStepMark(ev[t]) THEN 1 ELSE 0)
         /\ UNCHANGED <<openRanges, lastRange, held, mallocs, info, pySteps, stepSource, boundaries, live, leaks, begun, ended, fired>>
<1>1. ev[t] \in StepEvents /\ clock \in Nat /\ stamped \in Nat
  BY DEF StepTyped
<1>0. PICK n : n = IF ev[t].kind = "malloc" THEN stamped ELSE 0
  OBVIOUS
<1>2. PICK e : e = [ev[t] EXCEPT !.ts = clock + 1, !.step = n]
  OBVIOUS
<1>3. /\ e \in StepEvents /\ e.kind = ev[t].kind /\ e.name = ev[t].name /\ e.ts = clock + 1
      /\ e.step = n
  <2>1. n \in Nat /\ clock + 1 \in Nat
    BY <1>0, <1>1
  <2>2. QED
    BY <1>1, <1>2, <2>1 DEF StepEvents
<1>4. ev' = [ev EXCEPT ![t] = e] /\ ev \in [Threads -> StepEvents]
  BY <1>0, <1>1, <1>2 DEF Steps!Stamp, StepTyped, StepEvents
<1>5. /\ ev' \in [Threads -> StepEvents] /\ ev'[t] = e
      /\ \A u \in Threads : u # t => ev'[u] = ev[u]
  BY <1>3, <1>4
<1>6. /\ pc[t] = "stamp" /\ pc' \in [Threads -> {"idle", "stamp", "number", "send"}]
      /\ pc'[t] = IF ev[t].kind \in {"malloc", "free"} THEN "send" ELSE "number"
      /\ \A u \in Threads : u # t => pc'[u] = pc[u]
  BY DEF Steps!Stamp, StepTyped
<1>7. /\ clock' = clock + 1 /\ stamped' = stamped + (IF Steps!IsStepMark(ev[t]) THEN 1 ELSE 0)
      /\ UNCHANGED <<openRanges, lastRange, held, mallocs, info, pySteps, stepSource, boundaries, live, leaks, begun, ended, fired>>
  BY DEF Steps!Stamp, Steps!app, Steps!report, Steps!tracker
<1>8. QED
  BY <1>0, <1>3, <1>5, <1>6, <1>7

\* It is later than all others.
LEMMA StampKeeps ==
  ASSUME StepTyped, StepTimes, StepSources, NEW t \in Threads, Steps!Stamp(t), plan' = plan
  PROVE  StepTyped' /\ StepTimes' /\ StepSources'
<1> USE StampIs
<1>1. clock \in Nat /\ clock' = clock + 1 /\ stamped \in Nat /\ ev[t].kind # "none"
  BY DEF StepTyped
<1>2. StepTyped'
  <2>1. ASSUME NEW u \in Threads
        PROVE  /\ pc'[u] = "idle" <=> ev'[u].kind = "none"
               /\ pc'[u] = "number" => ev'[u].kind \in {"start", "end", "py"}
    <3>1. CASE u = t
      <4>1. ev[t].kind \in Kinds
        BY EventIs
      <4>2. QED
        BY <1>1, <3>1, <4>1 DEF Kinds
    <3>2. CASE u # t
      BY <3>2 DEF StepTyped
    <3>3. QED
      BY <3>1, <3>2
  <2>2. clock' \in Nat /\ stamped' \in Nat
    BY <1>1
  <2>3. QED
    BY <2>1, <2>2 DEF StepTyped
<1>3. StepTimes'
  <2>1. Len(boundaries) \in Nat /\ \A i \in DOMAIN boundaries : boundaries[i].ts \in Nat /\ boundaries[i].ts <= clock
    BY BoundaryIs DEF StepTyped, StepTimes
  <2>2. \A u \in Threads : IsStamped(u) => ev[u].ts \in Nat /\ ev[u].ts <= clock
    BY EventIs DEF StepTimes
  <2>3. boundaries' = boundaries /\ ev'[t].ts = clock + 1
    OBVIOUS
  <2>4. \A u \in Threads : u # t => ev'[u] = ev[u] /\ (IsStamped(u)' <=> IsStamped(u))
    BY DEF IsStamped
  <2>5. \A i \in DOMAIN boundaries' : boundaries'[i].ts <= clock'
    BY <1>1, <2>1, <2>3
  <2>6. \A u \in Threads : IsStamped(u)' => ev'[u].ts <= clock'
    BY <1>1, <2>2, <2>3, <2>4
  <2>7. ASSUME NEW u \in Threads, NEW v \in Threads, IsStamped(u)', IsStamped(v)', u # v
        PROVE  ev'[u].ts # ev'[v].ts
    <3>1. CASE u = t
      BY <1>1, <2>2, <2>3, <2>4, <2>7, <3>1
    <3>2. CASE v = t
      BY <1>1, <2>2, <2>3, <2>4, <2>7, <3>2
    <3>3. CASE u # t /\ v # t
      BY <2>4, <2>7, <3>3 DEF StepTimes
    <3>4. QED
      BY <3>1, <3>2, <3>3
  <2>8. ASSUME NEW u \in Threads, NEW i \in DOMAIN boundaries, IsStamped(u)'
        PROVE  boundaries[i].ts # ev'[u].ts
    <3>1. CASE u = t
      BY <1>1, <2>1, <2>3, <3>1
    <3>2. CASE u # t
      BY <2>4, <2>8, <3>2 DEF StepTimes
    <3>3. QED
      BY <3>1, <3>2
  <2>9. Steps!BoundariesSorted'
    BY <2>3 DEF StepTimes, Steps!BoundariesSorted
  <2>10. QED
    BY <2>3, <2>5, <2>6, <2>7, <2>8, <2>9 DEF StepTimes
<1>4. StepSources'
  <2>1. UNCHANGED <<stepSource, boundaries, pySteps, info>>
    OBVIOUS
  <2>2. Steps!OneSource'
    BY <2>1 DEF Steps!OneSource, StepSources
  <2>3. ASSUME NEW u \in Threads, ev'[u].kind = "start", ev'[u].name = "step"
        PROVE  info'.step >= 1 /\ (pc'[u] = "send" => ev'[u].step \in 1..info'.step)
    BY <2>1, <2>3 DEF StepSources
  <2>4. ASSUME NEW u \in Threads, ev'[u].kind = "py", pc'[u] = "send"
        PROVE  ev'[u].step \in 1..pySteps'
    BY <2>1, <2>4 DEF StepSources
  <2>5. QED
    BY <2>1, <2>2, <2>3, <2>4 DEF StepSources
<1>5. QED
  BY <1>2, <1>3, <1>4

\* A mark or an end reads its number.
LEMMA NumberIs ==
  ASSUME StepTyped, NEW t \in Threads, Steps!Number(t), plan' = plan
  PROVE  /\ pc[t] = "number" /\ pc' \in [Threads -> {"idle", "stamp", "number", "send"}] /\ ev' \in [Threads -> StepEvents]
         /\ \A u \in Threads : u # t => ev'[u] = ev[u] /\ pc'[u] = pc[u]
         /\ ev'[t].kind = ev[t].kind /\ ev'[t].name = ev[t].name /\ ev'[t].ts = ev[t].ts /\ pc'[t] = "send"
         /\ ev[t].kind = "py" =>
              pySteps' = pySteps + 1 /\ ev'[t].step = pySteps + 1 /\ ended' = ended \cup {pySteps + 1}
         /\ ev[t].kind # "py" => pySteps' = pySteps /\ ev'[t].step = info.step /\ ended' = ended
         /\ UNCHANGED <<clock, openRanges, lastRange, held, mallocs, info, stepSource, boundaries, live, leaks, begun, stamped, fired>>
<1>1. ev[t] \in StepEvents /\ info.step \in Nat /\ pySteps \in Nat
  BY DEF StepTyped
<1>2. PICK n : n = IF ev[t].kind = "py" THEN pySteps + 1 ELSE info.step
  OBVIOUS
<1>3. n \in Nat
  BY <1>1, <1>2
<1>4. PICK e : e = [ev[t] EXCEPT !.step = n]
  OBVIOUS
<1>5. e \in StepEvents /\ e.kind = ev[t].kind /\ e.name = ev[t].name /\ e.ts = ev[t].ts /\ e.step = n
  BY <1>1, <1>3, <1>4 DEF StepEvents
<1>6. ev' = [ev EXCEPT ![t] = e] /\ ev \in [Threads -> StepEvents]
  BY <1>1, <1>2, <1>4 DEF Steps!Number, StepTyped, StepEvents
<1>7. /\ ev' \in [Threads -> StepEvents] /\ ev'[t] = e
      /\ \A u \in Threads : u # t => ev'[u] = ev[u]
  BY <1>5, <1>6
<1>8. /\ pc[t] = "number" /\ pc' \in [Threads -> {"idle", "stamp", "number", "send"}] /\ pc'[t] = "send"
      /\ \A u \in Threads : u # t => pc'[u] = pc[u]
  BY DEF Steps!Number, StepTyped
<1>9. /\ ev[t].kind = "py" => pySteps' = pySteps + 1 /\ ended' = ended \cup {pySteps + 1}
      /\ ev[t].kind # "py" => pySteps' = pySteps /\ ended' = ended
      /\ UNCHANGED <<clock, openRanges, lastRange, held, mallocs, info, stepSource, boundaries, live, leaks, begun, stamped, fired>>
  BY DEF Steps!Number, Steps!app, Steps!tracker
<1>10. QED
  BY <1>2, <1>5, <1>7, <1>8, <1>9

\* It is one that was given.
LEMMA NumberKeeps ==
  ASSUME StepTyped, StepTimes, StepSources, NEW t \in Threads, Steps!Number(t), plan' = plan
  PROVE  StepTyped' /\ StepTimes' /\ StepSources'
<1> USE NumberIs
<1>1. /\ info.step \in Nat /\ pySteps \in Nat /\ ev[t].kind \in {"start", "end", "py"}
      /\ pySteps' \in Nat /\ pySteps' >= pySteps
  BY DEF StepTyped
<1>2. StepTyped'
  <2>1. ASSUME NEW u \in Threads
        PROVE  /\ pc'[u] = "idle" <=> ev'[u].kind = "none"
               /\ pc'[u] = "number" => ev'[u].kind \in {"start", "end", "py"}
    <3>1. CASE u = t
      BY <1>1, <3>1
    <3>2. CASE u # t
      BY <3>2 DEF StepTyped
    <3>3. QED
      BY <3>1, <3>2
  <2>2. QED
    BY <1>1, <2>1 DEF StepTyped
<1>3. StepTimes'
  <2>1. boundaries' = boundaries /\ clock' = clock
    OBVIOUS
  <2>2. \A u \in Threads : ev'[u].ts = ev[u].ts /\ (IsStamped(u)' <=> IsStamped(u))
    BY DEF IsStamped
  <2>3. Steps!BoundariesSorted'
    BY <2>1 DEF StepTimes, Steps!BoundariesSorted
  <2>4. QED
    BY <2>1, <2>2, <2>3 DEF StepTimes
<1>4. StepSources'
  <2>1. UNCHANGED <<stepSource, boundaries, info>>
    OBVIOUS
  <2>2. Steps!OneSource'
    <3>1. ASSUME NEW i \in DOMAIN boundaries
          PROVE  boundaries[i].step \in (IF stepSource = "py" THEN 2..(pySteps' + 1) ELSE 1..info.step)
      <4>1. boundaries[i].step \in (IF stepSource = "py" THEN 2..(pySteps + 1) ELSE 1..info.step)
        BY DEF Steps!OneSource, StepSources
      <4>2. QED
        BY <1>1, <4>1
    <3>2. QED
      BY <2>1, <3>1 DEF Steps!OneSource
  <2>3. ASSUME NEW u \in Threads, ev'[u].kind = "start", ev'[u].name = "step"
        PROVE  info'.step >= 1 /\ (pc'[u] = "send" => ev'[u].step \in 1..info'.step)
    <3>1. CASE u = t
      BY <1>1, <2>1, <2>3, <3>1 DEF StepSources
    <3>2. CASE u # t
      BY <2>1, <2>3, <3>2 DEF StepSources
    <3>3. QED
      BY <3>1, <3>2
  <2>4. ASSUME NEW u \in Threads, ev'[u].kind = "py", pc'[u] = "send"
        PROVE  ev'[u].step \in 1..pySteps'
    <3>1. CASE u = t
      BY <1>1, <2>4, <3>1
    <3>2. CASE u # t
      <4>1. ev[u].step \in 1..pySteps
        BY <2>4, <3>2 DEF StepSources
      <4>2. QED
        BY <1>1, <3>2, <4>1
    <3>3. QED
      BY <3>1, <3>2
  <2>5. QED
    BY <2>1, <2>2, <2>3, <2>4 DEF StepSources
<1>5. QED
  BY <1>2, <1>3, <1>4
\* What a delivery does with the boundaries: nothing, or it inserts one of its source.
Delivers(t) ==
  \/ /\ UNCHANGED <<stepSource, boundaries>>
     /\ ~(ev[t].kind = "start" /\ ev[t].name = "step" /\ stepSource \in {"none", "mstx"})
     /\ ~(ev[t].kind = "py" /\ stepSource \in {"none", "py"})
  \/ /\ ev[t].kind = "start" /\ ev[t].name = "step" /\ stepSource \in {"none", "mstx"} /\ stepSource' = "mstx"
     /\ IsInserted(boundaries', [step |-> ev[t].step, ts |-> ev[t].ts])
  \/ /\ ev[t].kind = "py" /\ stepSource \in {"none", "py"} /\ stepSource' = "py"
     /\ IsInserted(boundaries', [step |-> ev[t].step + 1, ts |-> ev[t].ts])

\* An event is delivered.
LEMMA SendIs ==
  ASSUME StepTyped, StepTimes, NEW t \in Threads, Steps!Send(t), plan' = plan
  PROVE  /\ pc[t] = "send" /\ pc' \in [Threads -> {"idle", "stamp", "number", "send"}] /\ ev' \in [Threads -> StepEvents]
         /\ \A u \in Threads : u # t => ev'[u] = ev[u] /\ pc'[u] = pc[u]
         /\ ev'[t] = Steps!NoEvent /\ pc'[t] = "idle"
         /\ Delivers(t)
         /\ UNCHANGED <<clock, openRanges, lastRange, mallocs, info, pySteps, begun, stamped, ended>>
<1>1. Steps!NoEvent \in StepEvents
  BY DEF Steps!NoEvent, StepEvents, Kinds
<1>2. /\ pc[t] = "send" /\ pc' \in [Threads -> {"idle", "stamp", "number", "send"}] /\ ev' \in [Threads -> StepEvents]
      /\ \A u \in Threads : u # t => ev'[u] = ev[u] /\ pc'[u] = pc[u]
      /\ ev'[t] = Steps!NoEvent /\ pc'[t] = "idle"
  BY <1>1 DEF Steps!Send, StepTyped
<1>3. UNCHANGED <<clock, openRanges, lastRange, mallocs, info, pySteps, begun, stamped, ended>>
  BY DEF Steps!Send, Steps!report
<1>4. /\ boundaries \in Seq([step : Nat, ts : Nat]) /\ Steps!BoundariesSorted
      /\ \A i \in DOMAIN boundaries : boundaries[i].ts # ev[t].ts
      /\ ev[t].step \in Nat /\ ev[t].ts \in Nat /\ ev[t].step + 1 \in Nat
  BY <1>2, EventIs DEF StepTyped, StepTimes, IsStamped
<1>5. ASSUME ev[t].kind = "start" /\ Steps!TrackStart(ev[t])
      PROVE  Delivers(t)
  <2>1. CASE ev[t].name = "step" /\ Steps!Accepts("mstx")
    <3>1. stepSource' = "mstx" /\ boundaries' = Steps!Inserted(ev[t].step, ev[t].ts)
      BY <1>5, <2>1 DEF Steps!TrackStart
    <3>2. IsInserted(boundaries', [step |-> ev[t].step, ts |-> ev[t].ts])
      BY <1>4, <3>1, InsertedIs
    <3>3. stepSource \in {"none", "mstx"}
      BY <2>1 DEF Steps!Accepts
    <3>4. QED
      BY <1>5, <2>1, <3>1, <3>2, <3>3 DEF Delivers
  <2>2. CASE ~(ev[t].name = "step" /\ Steps!Accepts("mstx"))
    <3>1. UNCHANGED <<stepSource, boundaries>>
      BY <1>5, <2>2 DEF Steps!TrackStart
    <3>2. QED
      BY <1>5, <2>2, <3>1 DEF Steps!Accepts, Delivers
  <2>3. QED
    BY <2>1, <2>2
<1>6. ASSUME ev[t].kind = "py" /\ Steps!TrackPyStep(ev[t])
      PROVE  Delivers(t)
  <2>1. CASE Steps!Accepts("py")
    <3>1. stepSource' = "py" /\ boundaries' = Steps!Inserted(ev[t].step + 1, ev[t].ts)
      BY <1>6, <2>1 DEF Steps!TrackPyStep
    <3>2. IsInserted(boundaries', [step |-> ev[t].step + 1, ts |-> ev[t].ts])
      BY <1>4, <3>1, InsertedIs
    <3>3. stepSource \in {"none", "py"}
      BY <2>1 DEF Steps!Accepts
    <3>4. QED
      BY <1>6, <2>1, <3>1, <3>2, <3>3 DEF Delivers
  <2>2. CASE ~Steps!Accepts("py")
    <3>1. UNCHANGED <<stepSource, boundaries>>
      BY <1>6, <2>2 DEF Steps!TrackPyStep
    <3>2. QED
      BY <1>6, <2>2, <3>1 DEF Steps!Accepts, Delivers
  <2>3. QED
    BY <2>1, <2>2
<1>7. ASSUME Steps!TrackEnd(ev[t]) \/ Steps!TrackBlock(ev[t]), ev[t].kind \in {"end", "malloc", "free"}
      PROVE  Delivers(t)
  <2>1. UNCHANGED <<stepSource, boundaries>>
    BY <1>7 DEF Steps!TrackEnd, Steps!TrackBlock
  <2>2. QED
    BY <1>7, <2>1 DEF Delivers
<1>8. Delivers(t)
  BY <1>5, <1>6, <1>7 DEF Steps!Send
<1>9. QED
  BY <1>2, <1>3, <1>8

\* A new boundary keeps types, times and sources.
LEMMA InsertionKeeps ==
  ASSUME StepTyped, StepTimes, StepSources, NEW t \in Threads, IsStamped(t),
         NEW b \in [step : Nat, ts : Nat], b.ts = ev[t].ts, IsInserted(boundaries', b),
         stepSource' \in {"mstx", "py"}, stepSource \in {"none", stepSource'},
         b.step \in (IF stepSource' = "py" THEN 2..(pySteps + 1) ELSE 1..info.step),
         UNCHANGED <<clock, pySteps, info>>
  PROVE  /\ boundaries' \in Seq([step : Nat, ts : Nat]) /\ boundaries' # <<>>
         /\ \A i \in DOMAIN boundaries' : boundaries'[i].ts <= clock
         /\ \A u \in Threads, i \in DOMAIN boundaries' : u # t /\ IsStamped(u) => boundaries'[i].ts # ev[u].ts
         /\ Steps!BoundariesSorted' /\ Steps!OneSource'
<1>1. boundaries \in Seq([step : Nat, ts : Nat]) /\ Steps!BoundariesSorted
  BY DEF StepTyped, StepTimes
<1>2. boundaries' \in Seq([step : Nat, ts : Nat]) /\ Len(boundaries') = Len(boundaries) + 1 /\ Len(boundaries) \in Nat
  BY <1>1, BoundaryIs DEF IsInserted
<1>3. boundaries' # <<>>
  BY <1>2
<1>4. \A i \in DOMAIN boundaries' : boundaries'[i] = b \/ \E j \in DOMAIN boundaries : boundaries'[i] = boundaries[j]
  BY <1>1, InsertedAmong
<1>5. \A i \in DOMAIN boundaries' : boundaries'[i].ts <= clock
  <2>1. b.ts <= clock
    BY DEF StepTimes
  <2>2. QED
    BY <1>4, <2>1 DEF StepTimes
<1>6. ASSUME NEW u \in Threads, NEW i \in DOMAIN boundaries', u # t, IsStamped(u)
      PROVE  boundaries'[i].ts # ev[u].ts
  <2>1. b.ts # ev[u].ts
    BY <1>6 DEF StepTimes
  <2>2. \A j \in DOMAIN boundaries : boundaries[j].ts # ev[u].ts
    BY <1>6 DEF StepTimes
  <2>3. QED
    BY <1>4, <2>1, <2>2
<1>7. Steps!BoundariesSorted'
  BY <1>1, InsertedSorted DEF Steps!BoundariesSorted
<1>8. Steps!OneSource'
  <2>1. ASSUME NEW j \in DOMAIN boundaries
        PROVE  stepSource = stepSource' /\ boundaries[j].step \in (IF stepSource = "py" THEN 2..(pySteps + 1) ELSE 1..info.step)
    <3>1. boundaries # <<>>
      BY <1>1
    <3>2. stepSource # "none"
      BY <3>1 DEF StepSources
    <3>3. QED
      BY <3>2 DEF StepSources, Steps!OneSource
  <2>2. \A i \in DOMAIN boundaries' :
          boundaries'[i].step \in (IF stepSource' = "py" THEN 2..(pySteps + 1) ELSE 1..info.step)
    BY <1>4, <2>1
  <2>3. QED
    BY <2>2 DEF Steps!OneSource
<1>9. QED
  BY <1>2, <1>3, <1>5, <1>6, <1>7, <1>8

\* So does every delivery.
LEMMA DeliveryKeeps ==
  ASSUME StepTyped, StepTimes, StepSources, NEW t \in Threads, Steps!Send(t), plan' = plan
  PROVE  StepTyped' /\ StepTimes' /\ StepSources'
<1> USE SendIs
<1>1. /\ IsStamped(t) /\ ev[t].kind # "none" /\ Steps!NoEvent.kind = "none" /\ ~IsStamped(t)'
      /\ \A u \in Threads : u # t => ev'[u] = ev[u] /\ (IsStamped(u)' <=> IsStamped(u))
      /\ UNCHANGED <<clock, pySteps, info>>
  BY DEF IsStamped, StepTyped, Steps!NoEvent
<1>2. /\ boundaries' \in Seq([step : Nat, ts : Nat]) /\ (stepSource' = "none" <=> boundaries' = <<>>)
      /\ stepSource' \in {"none", "mstx", "py"}
      /\ \A i \in DOMAIN boundaries' : boundaries'[i].ts <= clock
      /\ \A u \in Threads, i \in DOMAIN boundaries' : u # t /\ IsStamped(u) => boundaries'[i].ts # ev[u].ts
      /\ Steps!BoundariesSorted' /\ Steps!OneSource'
  <2>1. CASE UNCHANGED <<stepSource, boundaries>>
    BY <1>1, <2>1 DEF StepTyped, StepTimes, StepSources, Steps!BoundariesSorted, Steps!OneSource
  <2>2. CASE /\ ev[t].kind = "start" /\ ev[t].name = "step" /\ stepSource \in {"none", "mstx"} /\ stepSource' = "mstx"
             /\ IsInserted(boundaries', [step |-> ev[t].step, ts |-> ev[t].ts])
    <3>1. PICK b : b = [step |-> ev[t].step, ts |-> ev[t].ts]
      OBVIOUS
    <3>2. b \in [step : Nat, ts : Nat] /\ b.ts = ev[t].ts /\ b.step = ev[t].step
      BY <3>1, EventIs
    <3>3. b.step \in 1..info.step
      BY <2>2, <3>2 DEF StepSources
    <3>4. stepSource' \in {"mstx", "py"} /\ stepSource \in {"none", stepSource'} /\ stepSource' # "py"
      BY <2>2
    <3>5. IsInserted(boundaries', b)
      BY <2>2, <3>1
    <3>6. QED
      BY <1>1, <3>2, <3>3, <3>4, <3>5, InsertionKeeps
  <2>3. CASE /\ ev[t].kind = "py" /\ stepSource \in {"none", "py"} /\ stepSource' = "py"
             /\ IsInserted(boundaries', [step |-> ev[t].step + 1, ts |-> ev[t].ts])
    <3>1. PICK b : b = [step |-> ev[t].step + 1, ts |-> ev[t].ts]
      OBVIOUS
    <3>2. b \in [step : Nat, ts : Nat] /\ b.ts = ev[t].ts /\ b.step = ev[t].step + 1
      BY <3>1, EventIs
    <3>3. b.step \in 2..(pySteps + 1)
      <4>1. ev[t].step \in 1..pySteps /\ pySteps \in Nat
        BY <2>3 DEF StepSources, StepTyped
      <4>2. QED
        BY <3>2, <4>1
    <3>4. stepSource' \in {"mstx", "py"} /\ stepSource \in {"none", stepSource'} /\ stepSource' = "py"
      BY <2>3
    <3>5. IsInserted(boundaries', b)
      BY <2>3, <3>1
    <3>6. QED
      BY <1>1, <3>2, <3>3, <3>4, <3>5, InsertionKeeps
  <2>4. QED
    BY <2>1, <2>2, <2>3 DEF Delivers
<1>3. StepTyped'
  <2>1. ASSUME NEW u \in Threads
        PROVE  /\ pc'[u] = "idle" <=> ev'[u].kind = "none"
               /\ pc'[u] = "number" => ev'[u].kind \in {"start", "end", "py"}
    BY <1>1 DEF StepTyped
  <2>2. QED
    BY <1>2, <2>1 DEF StepTyped
<1>4. StepTimes'
  <2>1. \A u \in Threads : IsStamped(u)' => u # t /\ IsStamped(u) /\ ev'[u] = ev[u]
    BY <1>1
  <2>2. \A u \in Threads : IsStamped(u)' => ev'[u].ts <= clock'
    BY <1>1, <2>1 DEF StepTimes
  <2>3. \A u, v \in Threads : IsStamped(u)' /\ IsStamped(v)' /\ u # v => ev'[u].ts # ev'[v].ts
    BY <2>1 DEF StepTimes
  <2>4. \A u \in Threads, i \in DOMAIN boundaries' : IsStamped(u)' => boundaries'[i].ts # ev'[u].ts
    BY <1>2, <2>1
  <2>5. \A i \in DOMAIN boundaries' : boundaries'[i].ts <= clock'
    BY <1>1, <1>2
  <2>6. QED
    BY <1>2, <2>2, <2>3, <2>4, <2>5 DEF StepTimes
<1>5. StepSources'
  <2>1. ASSUME NEW u \in Threads, ev'[u].kind = "start", ev'[u].name = "step"
        PROVE  info'.step >= 1 /\ (pc'[u] = "send" => ev'[u].step \in 1..info'.step)
    BY <1>1, <2>1 DEF StepSources
  <2>2. ASSUME NEW u \in Threads, ev'[u].kind = "py", pc'[u] = "send"
        PROVE  ev'[u].step \in 1..pySteps'
    BY <1>1, <2>2 DEF StepSources
  <2>3. QED
    BY <1>2, <2>1, <2>2 DEF StepSources
<1>6. QED
  BY <1>3, <1>4, <1>5
\* A step end calls only blocks leaks that were allocated in an earlier step.
LEMMA SuspectsAreOlder ==
  ASSUME NEW number, NEW l \in Steps!Suspects(number)
  PROVE  l[2] > LeakSkipSteps /\ number > l[2] /\ \E a \in DOMAIN live : l[1] = a
<1>1. PICK a \in DOMAIN live : /\ l = <<a, Steps!AllocStep(live[a].ts)>>
                               /\ Steps!AllocStep(live[a].ts) > LeakSkipSteps
                               /\ number > Steps!AllocStep(live[a].ts)
  BY DEF Steps!Suspects
<1>2. QED
  BY <1>1

\* What a delivery does with the blocks and the leaks.
LEMMA SendBlocks ==
  ASSUME NEW t \in Threads, Steps!Send(t)
  PROVE  /\ \/ live' = live
            \/ /\ ev[t].kind = "malloc"
               /\ live' = [a \in DOMAIN live \cup {ev[t].addr} |->
                             IF a = ev[t].addr THEN [ts |-> ev[t].ts, in |-> ev[t].step] ELSE live[a]]
            \/ ev[t].kind = "free" /\ live' = [a \in DOMAIN live \ {ev[t].addr} |-> live[a]]
         /\ leaks' = leaks \/ (ev[t].kind \in {"end", "py"} /\ leaks' = leaks \cup Steps!Suspects(ev[t].step))
<1>1. CASE ev[t].kind = "start" /\ Steps!TrackStart(ev[t])
  BY <1>1 DEF Steps!TrackStart
<1>2. CASE ev[t].kind = "end" /\ Steps!TrackEnd(ev[t])
  BY <1>2 DEF Steps!TrackEnd, Steps!StepEnd
<1>3. CASE ev[t].kind = "py" /\ Steps!TrackPyStep(ev[t])
  BY <1>3 DEF Steps!TrackPyStep, Steps!StepEnd
<1>4. CASE ev[t].kind \in {"malloc", "free"} /\ Steps!TrackBlock(ev[t])
  BY <1>4 DEF Steps!TrackBlock, Steps!Restrict
<1>5. QED
  BY <1>1, <1>2, <1>3, <1>4 DEF Steps!Send

-----------------------------------------------------------------------------
(* Nobody allocates *)

\* Where nobody allocates there are never blocks.
LEMMA NoBlocksStay ==
  ASSUME Steps!StepAssumption, StepTyped, StepTimes, NoBlocks, plan.allocators = {}, Steps!Next
  PROVE  NoBlocks'
<1>1. plan' = plan /\ plan \in Plans /\ plan.steppers \subseteq Threads
  BY PlanIs DEF Steps!Next, StepTyped
<1>2. ASSUME NEW t \in Threads, NEW event, EventBegins(t, event), event.kind \in {"start", "end", "py"}
      PROVE  NoBlocks'
  <2>1. /\ \A u \in Threads : u # t => ev'[u] = ev[u]
        /\ ev'[t] = event /\ live' = live /\ leaks' = leaks
    BY <1>2 DEF StepTyped, EventBegins, Steps!Begin
  <2>2. QED
    BY <1>2, <2>1 DEF NoBlocks
<1>3. ASSUME NEW t \in plan.steppers, NEW name \in plan.names, Steps!RangeStart(t, name)
      PROVE  NoBlocks'
  <2>1. PICK e : e = [Steps!NoEvent EXCEPT !.kind = "start", !.name = name, !.range = lastRange + 1]
    OBVIOUS
  <2>2. EventBegins(t, e) /\ t \in Threads
    BY <1>1, <1>3, <2>1, RangeStartBegins
  <2>3. e.kind = "start"
    BY <2>1 DEF Steps!NoEvent
  <2>4. QED
    BY <1>2, <2>2, <2>3
<1>4. ASSUME NEW t \in plan.steppers, NEW r \in Steps!Ranges, Steps!RangeEnd(t, r)
      PROVE  NoBlocks'
  <2>1. PICK e : e = [Steps!NoEvent EXCEPT !.kind = "end", !.name = openRanges[r].name, !.range = r]
    OBVIOUS
  <2>2. EventBegins(t, e) /\ t \in Threads
    BY <1>1, <1>4, <2>1, RangeEndBegins
  <2>3. e.kind = "end"
    BY <2>1 DEF Steps!NoEvent
  <2>4. QED
    BY <1>2, <2>2, <2>3
<1>5. ASSUME NEW t \in plan.steppers, Steps!PyStep(t)
      PROVE  NoBlocks'
  <2>1. PICK e : e = [Steps!NoEvent EXCEPT !.kind = "py"]
    OBVIOUS
  <2>2. IsOther(e) /\ e.kind = "py" /\ t \in Threads
    BY <1>1, <2>1 DEF IsOther, Steps!NoEvent
  <2>3. /\ pc[t] = "idle" /\ Steps!Begin(t, e)
        /\ UNCHANGED <<clock, openRanges, lastRange, Steps!report, Steps!tracker, Steps!history>>
    BY <1>5, <2>1 DEF Steps!PyStep, Steps!app
  <2>4. EventBegins(t, e)
    BY <1>1, <2>2, <2>3, OthersBegin
  <2>5. QED
    BY <1>2, <2>2, <2>4
<1>6. ASSUME NEW t \in Threads, Steps!Stamp(t)
      PROVE  NoBlocks'
  BY <1>1, <1>6, StampIs DEF NoBlocks
<1>7. ASSUME NEW t \in Threads, Steps!Number(t)
      PROVE  NoBlocks'
  BY <1>1, <1>7, NumberIs DEF NoBlocks
<1>8. ASSUME NEW t \in Threads, Steps!Send(t)
      PROVE  NoBlocks'
  <2>1. ev[t].kind \notin {"malloc", "free"} /\ DOMAIN live = {} /\ leaks = {}
    BY DEF NoBlocks
  <2>2. live' = live
    BY <1>8, <2>1, SendBlocks
  <2>3. leaks' = {}
    <3>1. \A number : Steps!Suspects(number) = {}
      BY <2>1, SuspectsAreOlder
    <3>2. leaks' = leaks \/ leaks' = leaks \cup Steps!Suspects(ev[t].step)
      BY <1>8, SendBlocks
    <3>3. QED
      BY <2>1, <3>1, <3>2
  <2>4. ev'[t] = Steps!NoEvent /\ Steps!NoEvent.kind = "none" /\ \A u \in Threads : u # t => ev'[u] = ev[u]
    BY <1>1, <1>8, SendIs DEF Steps!NoEvent
  <2>5. QED
    BY <2>1, <2>2, <2>3, <2>4 DEF NoBlocks
<1>9. QED
  BY <1>1, <1>3, <1>4, <1>5, <1>6, <1>7, <1>8 DEF Steps!Next

-----------------------------------------------------------------------------
(* One thread marks, in one way *)

\* All that holds when one thread marks the steps.
Ordered == Steps!StepAssumption /\ StepTyped /\ StepTimes /\ StepSources /\ MarksAlone /\ AloneInv

\* Only it is at work on a mark or an end.
LEMMA OneAtWork ==
  ASSUME Ordered, NEW t \in plan.steppers, NEW u \in Threads, ev[u].kind \in {"start", "end", "py"}
  PROVE  u = t
BY DEF Ordered, MarksAlone, AloneInv, OneMarks

\* Who marks is at work on one.
LEMMA MarksIs ==
  ASSUME NEW t \in Threads, NEW places, Marks(t, places)
  PROVE  ev[t].kind \in {"start", "py"} /\ pc[t] \in places
BY DEF Marks, Steps!IsStepMark

\* While it is idle all marks are delivered.
LEMMA IdleIsSettled ==
  ASSUME Ordered, NEW t \in plan.steppers, pc[t] = "idle"
  PROVE  /\ \A u \in Threads : ev[u].kind \notin {"start", "end", "py"}
         /\ \A u \in Threads : ~Marks(u, {"stamp", "number", "send"}) /\ ~Marks(u, {"number", "send"})
         /\ stamped = Len(boundaries) /\ info.step + pySteps = stamped
<1>1. ASSUME NEW u \in Threads
      PROVE  ev[u].kind \notin {"start", "end", "py"}
  <2>1. SUFFICES ASSUME ev[u].kind \in {"start", "end", "py"}
                 PROVE  FALSE
    OBVIOUS
  <2>2. u = t
    BY <2>1, OneAtWork
  <2>3. ev[u].kind = "none"
    BY <2>2 DEF Ordered, StepTyped
  <2>4. QED
    BY <2>1, <2>3
<1>2. ASSUME NEW u \in Threads
      PROVE  ~Marks(u, {"stamp", "number", "send"}) /\ ~Marks(u, {"number", "send"})
  BY <1>1, MarksIs
<1>3. QED
  BY <1>1, <1>2 DEF Ordered, AloneInv, InTurns

\* No more boundaries than marks that took a timestamp.
LEMMA NoMoreThanStamped ==
  ASSUME Ordered
  PROVE  Len(boundaries) <= stamped
<1>1. Len(boundaries) \in Nat /\ stamped \in Nat /\ InTurns
  BY BoundaryIs DEF Ordered, StepTyped, AloneInv
<1>2. CASE \A t \in Threads : ~Marks(t, {"stamp", "number", "send"})
  BY <1>1, <1>2 DEF InTurns
<1>3. ASSUME NEW t \in Threads, Marks(t, {"stamp", "number", "send"})
      PROVE  stamped = Len(boundaries) \/ stamped = Len(boundaries) + 1
  <2>1. Marks(t, {"stamp"}) \/ Marks(t, {"number"}) \/ Marks(t, {"send"})
    BY <1>3 DEF Marks
  <2>2. QED
    BY <1>1, <2>1 DEF InTurns
<1>4. QED
  BY <1>1, <1>2, <1>3
\* Births stay what they are while nothing is stamped or delivered.
LEMMA BirthsStay ==
  ASSUME \A u \in Threads : Marks(u, {"number", "send"})' => Marks(u, {"number", "send"}) /\ ev'[u].ts = ev[u].ts,
         UNCHANGED <<clock, stamped, boundaries>>, NEW n, NEW ts, BornAfter(n, ts)
  PROVE  BornAfter(n, ts)'
BY DEF BornAfter

\* Beginning an event keeps what the thread that marks does not touch.
LEMMA BeginningAlone ==
  ASSUME Ordered, NEW t \in Threads, NEW event, EventBegins(t, event), ended \subseteq ended'
  PROVE  /\ BlocksBorn' /\ Steps!LeaksOutlived'
         /\ \A u \in Threads : ~Marks(u, {"number", "send"})' \/ (u # t /\ Marks(u, {"number", "send"}))
         /\ \A u \in Threads : u # t => ev'[u] = ev[u] /\ pc'[u] = pc[u]
         /\ ev'[t] = event /\ pc'[t] = "stamp"
         /\ UNCHANGED <<clock, stamped, pySteps, stepSource, boundaries, live, leaks>>
<1>1. /\ \A u \in Threads : u # t => ev'[u] = ev[u] /\ pc'[u] = pc[u]
      /\ ev'[t] = event /\ pc'[t] = "stamp"
  BY BeginningKeeps DEF Ordered
<1>2. UNCHANGED <<clock, stamped, pySteps, stepSource, boundaries, live, leaks>>
  BY DEF EventBegins
<1>3. ASSUME NEW u \in Threads, Marks(u, {"number", "send"})'
      PROVE  u # t /\ Marks(u, {"number", "send"}) /\ ev'[u].ts = ev[u].ts
  <2>1. u # t
    BY <1>1, <1>3 DEF Marks
  <2>2. QED
    BY <1>1, <1>3, <2>1 DEF Marks
<1>4. BlocksBorn'
  <2>1. ASSUME NEW a \in DOMAIN live
        PROVE  BornAfter(live[a].in, live[a].ts)'
    <3>1. BornAfter(live[a].in, live[a].ts)
      BY DEF Ordered, AloneInv, BlocksBorn
    <3>2. PICK n, ts : n = live[a].in /\ ts = live[a].ts
      OBVIOUS
    <3>3. BornAfter(n, ts)'
      BY <1>2, <1>3, <3>1, <3>2, BirthsStay
    <3>4. n = live'[a].in /\ ts = live'[a].ts
      BY <1>2, <3>2
    <3>5. QED
      BY <3>3, <3>4 DEF BornAfter
  <2>2. ASSUME NEW u \in Threads, ev'[u].kind = "malloc", pc'[u] = "send"
        PROVE  BornAfter(ev[u].step, ev[u].ts)' /\ u # t
    <3>1. u # t
      BY <1>1, <2>2
    <3>2. BornAfter(ev[u].step, ev[u].ts)
      BY <1>1, <2>2, <3>1 DEF Ordered, AloneInv, BlocksBorn
    <3>3. PICK n, ts : n = ev[u].step /\ ts = ev[u].ts
      OBVIOUS
    <3>4. BornAfter(n, ts)'
      BY <1>2, <1>3, <3>2, <3>3, BirthsStay
    <3>5. n = ev'[u].step /\ ts = ev'[u].ts
      BY <1>1, <3>1, <3>3
    <3>6. QED
      BY <3>1, <3>4, <3>5 DEF BornAfter
  <2>3. QED
    BY <1>2, <2>1, <2>2 DEF BlocksBorn
<1>5. Steps!LeaksOutlived'
  BY <1>2 DEF Ordered, AloneInv, Steps!LeaksOutlived
<1>6. QED
  BY <1>1, <1>2, <1>3, <1>4, <1>5

\* A step starts when the one before has ended and is delivered.
LEMMA StartAlone ==
  ASSUME Ordered, NEW t \in plan.steppers, NEW name \in plan.names, Steps!RangeStart(t, name), plan' = plan
  PROVE  AloneInv'
<1> DEFINE e == [Steps!NoEvent EXCEPT !.kind = "start", !.name = name, !.range = lastRange + 1]
           r == lastRange + 1
<1>1. /\ Steps!StepAssumption /\ StepTyped /\ plan \in Plans /\ t \in Threads /\ name = "step" /\ ~plan.mixed
      /\ pc[t] = "idle" /\ info.step \in Nat /\ pySteps \in Nat /\ stamped \in Nat /\ r \in Nat
  BY PlanIs DEF Ordered, StepTyped, MarksAlone, Steps!RangeStart
<1>2. e.kind = "start" /\ e.name = "step"
  BY <1>1 DEF Steps!NoEvent
<1>3. EventBegins(t, e)
  BY <1>1, RangeStartBegins
<1>4. /\ info' = [step |-> info.step + 1, inRange |-> TRUE, ranges |-> Append(info.ranges, r)]
      /\ begun' = [begun EXCEPT ![r] = info.step + 1] /\ ended' = ended
      /\ openRanges' = [i \in DOMAIN openRanges \cup {r} |-> IF i = r THEN [owner |-> t, name |-> name] ELSE openRanges[i]]
      /\ ~Steps!UsesPy /\ Steps!OwnStepRanges(t) = {} /\ r <= plan.ranges
  BY <1>1 DEF Steps!RangeStart
<1> HIDE DEF e, r
<1>5. /\ BlocksBorn' /\ Steps!LeaksOutlived'
      /\ \A u \in Threads : ~Marks(u, {"number", "send"})' \/ (u # t /\ Marks(u, {"number", "send"}))
      /\ \A u \in Threads : u # t => ev'[u] = ev[u] /\ pc'[u] = pc[u]
      /\ ev'[t] = e /\ pc'[t] = "stamp"
      /\ UNCHANGED <<clock, stamped, pySteps, stepSource, boundaries, live, leaks>>
  BY <1>1, <1>3, <1>4, BeginningAlone
<1>6. /\ \A u \in Threads : ev[u].kind \notin {"start", "end", "py"}
      /\ \A u \in Threads : ~Marks(u, {"number", "send"})
      /\ stamped = Len(boundaries) /\ info.step + pySteps = stamped
  BY <1>1, IdleIsSettled
<1>7. info'.step = info.step + 1 /\ pySteps = 0 /\ pySteps' = 0
  BY <1>1, <1>4, <1>5 DEF Steps!UsesPy
<1>8. OneMarks'
  <2>1. DOMAIN openRanges = {}
    <3>1. SUFFICES ASSUME NEW i \in DOMAIN openRanges PROVE FALSE
      OBVIOUS
    <3>2. openRanges[i].owner = t /\ openRanges[i].name = "step"
      BY DEF Ordered, AloneInv, OneMarks, MarksAlone
    <3>3. QED
      BY <1>4, <3>2 DEF Steps!OwnStepRanges
  <2>2. DOMAIN openRanges' = {r} /\ openRanges'[r] = [owner |-> t, name |-> name]
    BY <1>4, <2>1
  <2>3. begun'[r] = info'.step
    <3>1. r \in Steps!Ranges /\ begun \in [Steps!Ranges -> Nat]
      BY <1>1, <1>4, PlanIs DEF StepTyped, r
    <3>2. QED
      BY <1>4, <1>7, <3>1
  <2>4. openRanges'[r].owner \in plan'.steppers /\ openRanges'[r].name = "step"
    BY <1>1, <2>2
  <2>5. \A u \in Threads : ev'[u].kind \in {"start", "end", "py"} => u = t
    BY <1>5, <1>6
  <2>6. \A u \in Threads : ev'[u].kind # "py"
    BY <1>2, <1>5, <1>6
  <2>7. QED
    BY <1>2, <1>5, <1>7, <2>2, <2>3, <2>4, <2>5, <2>6 DEF OneMarks
<1>9. InTurns'
  <2>1. Marks(t, {"stamp", "number", "send"})'
    BY <1>2, <1>5 DEF Marks, Steps!IsStepMark
  <2>2. \A u \in Threads : ~Marks(u, {"number"})' /\ ~Marks(u, {"send"})' /\ ~Marks(u, {"number", "send"})'
    BY <1>5, <1>6 DEF Marks
  <2>3. \A u \in Threads : Marks(u, {"stamp"})' => u = t
    BY <1>5, <1>6 DEF Marks, Steps!IsStepMark
  <2>4. /\ stamped' = Len(boundaries') /\ ev'[t].kind # "py"
        /\ info'.step + pySteps' = stamped' + 1
    BY <1>1, <1>2, <1>5, <1>6, <1>7
  <2>5. \A k \in DOMAIN boundaries' : boundaries'[k].step = IF stepSource' = "py" THEN k + 1 ELSE k
    BY <1>5 DEF Ordered, AloneInv, InTurns
  <2>6. QED
    BY <1>1, <2>1, <2>2, <2>3, <2>4, <2>5 DEF InTurns
<1>10. EndsAreEnded'
  <2>1. \A u \in Threads : ev'[u].kind \notin {"end", "py"}
    BY <1>2, <1>5, <1>6
  <2>2. QED
    BY <2>1 DEF EndsAreEnded
<1>11. QED
  BY <1>5, <1>8, <1>9, <1>10 DEF AloneInv

\* It ends.
LEMMA EndAlone ==
  ASSUME Ordered, NEW t \in plan.steppers, NEW r \in Steps!Ranges, Steps!RangeEnd(t, r), plan' = plan
  PROVE  AloneInv'
<1> DEFINE e == [Steps!NoEvent EXCEPT !.kind = "end", !.name = openRanges[r].name, !.range = r]
<1>1. /\ Steps!StepAssumption /\ StepTyped /\ plan \in Plans /\ t \in Threads
      /\ pc[t] = "idle" /\ info.step \in Nat /\ pySteps \in Nat /\ stamped \in Nat /\ r \in DOMAIN openRanges
  BY PlanIs DEF Ordered, StepTyped, MarksAlone, Steps!RangeEnd
<1>2. openRanges[r].name = "step" /\ begun[r] = info.step
  BY <1>1 DEF Ordered, AloneInv, OneMarks
<1>3. e.kind = "end" /\ e.name = "step"
  BY <1>2 DEF Steps!NoEvent
<1>4. EventBegins(t, e)
  BY <1>1, RangeEndBegins
<1>5. info'.step = info.step
  <2>1. info' = info \/ info' = [info EXCEPT !.inRange = FALSE, !.ranges = SelectSeq(@, LAMBDA i : i # r)]
    BY DEF Steps!RangeEnd, Steps!Left
  <2>2. DOMAIN info = {"step", "inRange", "ranges"}
    BY <1>1 DEF StepTyped
  <2>3. QED
    BY <2>1, <2>2
<1>6. /\ openRanges' = [i \in DOMAIN openRanges \ {r} |-> openRanges[i]] /\ ended' = ended \cup {info.step}
      /\ begun' = begun
  BY <1>2 DEF Steps!RangeEnd, Steps!Restrict
<1> HIDE DEF e
<1>7. /\ BlocksBorn' /\ Steps!LeaksOutlived'
      /\ \A u \in Threads : ~Marks(u, {"number", "send"})' \/ (u # t /\ Marks(u, {"number", "send"}))
      /\ \A u \in Threads : u # t => ev'[u] = ev[u] /\ pc'[u] = pc[u]
      /\ ev'[t] = e /\ pc'[t] = "stamp"
      /\ UNCHANGED <<clock, stamped, pySteps, stepSource, boundaries, live, leaks>>
  BY <1>1, <1>4, <1>6, BeginningAlone
<1>8. /\ \A u \in Threads : ev[u].kind \notin {"start", "end", "py"}
      /\ \A u \in Threads : ~Marks(u, {"number", "send"})
      /\ stamped = Len(boundaries) /\ info.step + pySteps = stamped
  BY <1>1, IdleIsSettled
<1>9. OneMarks'
  <2>1. \A i \in DOMAIN openRanges' : i \in DOMAIN openRanges /\ openRanges'[i] = openRanges[i]
    BY <1>6
  <2>2. \A i \in DOMAIN openRanges' : openRanges'[i].owner \in plan'.steppers /\ openRanges'[i].name = "step" /\ begun'[i] = info'.step
    BY <1>5, <1>6, <2>1 DEF Ordered, AloneInv, OneMarks
  <2>3. \A u \in Threads : ev'[u].kind \in {"start", "end", "py"} => u = t
    BY <1>7, <1>8
  <2>4. \A u \in Threads : ev'[u].kind # "py"
    BY <1>3, <1>7, <1>8
  <2>5. info'.step = 0 \/ pySteps' = 0
    BY <1>5, <1>7 DEF Ordered, AloneInv, OneMarks
  <2>6. QED
    BY <1>3, <1>7, <2>2, <2>3, <2>4, <2>5 DEF OneMarks
<1>10. InTurns'
  <2>1. \A u \in Threads : /\ ~Marks(u, {"stamp"})' /\ ~Marks(u, {"number"})' /\ ~Marks(u, {"send"})'
                           /\ ~Marks(u, {"number", "send"})'
    BY <1>3, <1>7, <1>8 DEF Marks, Steps!IsStepMark
  <2>2. stamped' = Len(boundaries') /\ info'.step + pySteps' = stamped'
    BY <1>5, <1>7, <1>8
  <2>3. \A k \in DOMAIN boundaries' : boundaries'[k].step = IF stepSource' = "py" THEN k + 1 ELSE k
    BY <1>7 DEF Ordered, AloneInv, InTurns
  <2>4. QED
    BY <2>1, <2>2, <2>3 DEF InTurns
<1>11. EndsAreEnded'
  <2>1. \A u \in Threads : ev'[u].kind \in {"end", "py"} => u = t
    BY <1>7, <1>8
  <2>2. info'.step \in ended' /\ pc'[t] = "stamp" /\ ev'[t].kind = "end"
    BY <1>3, <1>5, <1>6, <1>7
  <2>3. QED
    BY <2>1, <2>2 DEF EndsAreEnded
<1>12. QED
  BY <1>7, <1>9, <1>10, <1>11 DEF AloneInv

\* msmemscope.step().
LEMMA PyStepAlone ==
  ASSUME Ordered, NEW t \in plan.steppers, Steps!PyStep(t), plan' = plan
  PROVE  AloneInv'
<1> DEFINE e == [Steps!NoEvent EXCEPT !.kind = "py"]
<1>1. /\ Steps!StepAssumption /\ StepTyped /\ plan \in Plans /\ t \in Threads /\ ~plan.mixed
      /\ pc[t] = "idle" /\ info.step \in Nat /\ pySteps \in Nat /\ stamped \in Nat
  BY PlanIs DEF Ordered, StepTyped, MarksAlone, Steps!PyStep
<1>2. e.kind = "py" /\ IsOther(e)
  BY DEF Steps!NoEvent, IsOther
<1>3. Steps!Begin(t, e) /\ UNCHANGED <<clock, openRanges, lastRange, Steps!report, Steps!tracker, Steps!history>> /\ ~Steps!UsesMstx
  BY <1>1 DEF Steps!PyStep, Steps!app
<1>4. EventBegins(t, e)
  BY <1>1, <1>2, <1>3, OthersBegin
<1>5. UNCHANGED <<openRanges, info, begun, ended>> /\ info.step = 0
  BY <1>1, <1>3 DEF Steps!report, Steps!history, Steps!UsesMstx
<1> HIDE DEF e
<1>6. /\ BlocksBorn' /\ Steps!LeaksOutlived'
      /\ \A u \in Threads : ~Marks(u, {"number", "send"})' \/ (u # t /\ Marks(u, {"number", "send"}))
      /\ \A u \in Threads : u # t => ev'[u] = ev[u] /\ pc'[u] = pc[u]
      /\ ev'[t] = e /\ pc'[t] = "stamp"
      /\ UNCHANGED <<clock, stamped, pySteps, stepSource, boundaries, live, leaks>>
  BY <1>1, <1>4, <1>5, BeginningAlone
<1>7. /\ \A u \in Threads : ev[u].kind \notin {"start", "end", "py"}
      /\ \A u \in Threads : ~Marks(u, {"number", "send"})
      /\ stamped = Len(boundaries) /\ info.step + pySteps = stamped
  BY <1>1, IdleIsSettled
<1>8. OneMarks'
  <2>1. \A u \in Threads : ev'[u].kind \in {"start", "end", "py"} => u = t
    BY <1>6, <1>7
  <2>2. \A u \in Threads : ev'[u].kind \notin {"start", "end"}
    BY <1>2, <1>6, <1>7
  <2>3. \A i \in DOMAIN openRanges' : openRanges'[i].owner \in plan'.steppers /\ openRanges'[i].name = "step" /\ begun'[i] = info'.step
    BY <1>5 DEF Ordered, AloneInv, OneMarks
  <2>4. QED
    BY <1>5, <2>1, <2>2, <2>3 DEF OneMarks
<1>9. InTurns'
  <2>1. Marks(t, {"stamp", "number", "send"})'
    BY <1>2, <1>6 DEF Marks, Steps!IsStepMark
  <2>2. \A u \in Threads : ~Marks(u, {"number"})' /\ ~Marks(u, {"send"})' /\ ~Marks(u, {"number", "send"})'
    BY <1>6, <1>7 DEF Marks
  <2>3. \A u \in Threads : Marks(u, {"stamp"})' => u = t
    BY <1>6, <1>7 DEF Marks, Steps!IsStepMark
  <2>4. /\ stamped' = Len(boundaries') /\ ev'[t].kind = "py"
        /\ info'.step + pySteps' = stamped'
    BY <1>2, <1>5, <1>6, <1>7
  <2>5. \A k \in DOMAIN boundaries' : boundaries'[k].step = IF stepSource' = "py" THEN k + 1 ELSE k
    BY <1>6 DEF Ordered, AloneInv, InTurns
  <2>6. QED
    BY <1>1, <2>1, <2>2, <2>3, <2>4, <2>5 DEF InTurns
<1>10. EndsAreEnded'
  <2>1. \A u \in Threads : ev'[u].kind \in {"end", "py"} => u = t
    BY <1>6, <1>7
  <2>2. pc'[t] = "stamp" /\ ev'[t].kind = "py"
    BY <1>2, <1>6
  <2>3. QED
    BY <2>1, <2>2 DEF EndsAreEnded
<1>11. QED
  BY <1>6, <1>8, <1>9, <1>10 DEF AloneInv

\* An allocation or a free begins.
LEMMA BlockAlone ==
  ASSUME Ordered, NEW t \in plan.allocators, NEW a \in PoolAddrs, Steps!Malloc(t, a) \/ Steps!Free(t, a), plan' = plan
  PROVE  AloneInv'
<1>1. /\ Steps!StepAssumption /\ StepTyped /\ plan \in Plans /\ t \in Threads /\ t \notin plan.steppers
      /\ pc[t] = "idle"
  BY PlanIs DEF Ordered, StepTyped, MarksAlone, Steps!Malloc, Steps!Free
<1>2. PICK e : /\ IsOther(e) /\ e.kind \in {"malloc", "free"} /\ Steps!Begin(t, e)
               /\ UNCHANGED <<clock, openRanges, lastRange, Steps!report, Steps!tracker, Steps!history>>
  <2>1. CASE Steps!Malloc(t, a)
    <3>1. PICK e : e = [Steps!NoEvent EXCEPT !.kind = "malloc", !.addr = a]
      OBVIOUS
    <3>2. Steps!Begin(t, e) /\ UNCHANGED <<clock, openRanges, lastRange, Steps!report, Steps!tracker, Steps!history>>
      BY <2>1, <3>1 DEF Steps!Malloc
    <3>3. IsOther(e) /\ e.kind = "malloc"
      BY <3>1 DEF IsOther, Steps!NoEvent
    <3>4. QED
      BY <3>2, <3>3
  <2>2. CASE Steps!Free(t, a)
    <3>1. PICK e : e = [Steps!NoEvent EXCEPT !.kind = "free", !.addr = a]
      OBVIOUS
    <3>2. Steps!Begin(t, e) /\ UNCHANGED <<clock, openRanges, lastRange, Steps!report, Steps!tracker, Steps!history>>
      BY <2>2, <3>1 DEF Steps!Free, Steps!app
    <3>3. IsOther(e) /\ e.kind = "free"
      BY <3>1 DEF IsOther, Steps!NoEvent
    <3>4. QED
      BY <3>2, <3>3
  <2>3. QED
    BY <2>1, <2>2
<1>3. EventBegins(t, e)
  BY <1>1, <1>2, OthersBegin
<1>4. UNCHANGED <<openRanges, info, begun, ended>>
  BY <1>2 DEF Steps!report, Steps!history
<1>5. /\ BlocksBorn' /\ Steps!LeaksOutlived'
      /\ \A u \in Threads : ~Marks(u, {"number", "send"})' \/ (u # t /\ Marks(u, {"number", "send"}))
      /\ \A u \in Threads : u # t => ev'[u] = ev[u] /\ pc'[u] = pc[u]
      /\ ev'[t] = e /\ pc'[t] = "stamp"
      /\ UNCHANGED <<clock, stamped, pySteps, stepSource, boundaries, live, leaks>>
  BY <1>1, <1>3, <1>4, BeginningAlone
<1>6. ev[t].kind = "none"
  BY <1>1 DEF StepTyped
<1>7. OneMarks'
  <2>1. \A u \in Threads : ev'[u].kind \in {"start", "end", "py"} => ev'[u] = ev[u]
    BY <1>2, <1>5
  <2>2. QED
    BY <1>4, <1>5, <2>1 DEF Ordered, AloneInv, OneMarks
<1>8. InTurns'
  <2>1. \A u \in Threads : /\ Marks(u, {"stamp", "number", "send"})' <=> Marks(u, {"stamp", "number", "send"})
                           /\ Marks(u, {"stamp"})' <=> Marks(u, {"stamp"})
                           /\ Marks(u, {"number"})' <=> Marks(u, {"number"})
                           /\ Marks(u, {"send"})' <=> Marks(u, {"send"})
                           /\ Marks(u, {"number", "send"})' <=> Marks(u, {"number", "send"})
    BY <1>2, <1>5, <1>6 DEF Marks, Steps!IsStepMark
  <2>2. \A u \in Threads : Marks(u, {"stamp", "number", "send"}) => ev'[u] = ev[u]
    BY <1>5, <1>6, MarksIs
  <2>3. \A u \in Threads : /\ Marks(u, {"stamp"}) => Marks(u, {"stamp", "number", "send"})
                           /\ Marks(u, {"number"}) => Marks(u, {"stamp", "number", "send"})
                           /\ Marks(u, {"send"}) => Marks(u, {"stamp", "number", "send"})
                           /\ Marks(u, {"number", "send"}) => Marks(u, {"stamp", "number", "send"})
    BY DEF Marks
  <2>4. QED
    BY <1>4, <1>5, <2>1, <2>2, <2>3 DEF Ordered, AloneInv, InTurns
<1>9. EndsAreEnded'
  <2>1. \A u \in Threads : ev'[u].kind \in {"end", "py"} => ev'[u] = ev[u] /\ pc'[u] = pc[u]
    BY <1>2, <1>5
  <2>2. QED
    BY <1>4, <2>1 DEF Ordered, AloneInv, EndsAreEnded
<1>10. QED
  BY <1>5, <1>7, <1>8, <1>9 DEF AloneInv
\* At a mark nobody else is.
LEMMA MarksAtOne ==
  ASSUME Ordered, NEW t \in Threads, ev[t].kind \in {"start", "end", "py"}
  PROVE  t \in plan.steppers /\ \A u \in Threads : u # t => ev[u].kind \notin {"start", "end", "py"}
<1>1. t \in plan.steppers
  BY DEF Ordered, AloneInv, OneMarks
<1>2. QED
  BY <1>1, OneAtWork

\* An event takes its timestamp: it is after all that was stamped.
LEMMA StampAlone ==
  ASSUME Ordered, NEW t \in Threads, Steps!Stamp(t), plan' = plan
  PROVE  AloneInv'
<1>1. /\ StepTyped /\ clock \in Nat /\ stamped \in Nat /\ info.step \in Nat /\ pySteps \in Nat
      /\ Len(boundaries) \in Nat /\ DOMAIN boundaries = 1..Len(boundaries)
      /\ \A i \in DOMAIN boundaries : boundaries[i].ts \in Nat /\ boundaries[i].ts <= clock
  BY BoundaryIs DEF Ordered, StepTyped, StepTimes
<1>2. /\ pc[t] = "stamp"
      /\ \A u \in Threads : u # t => ev'[u] = ev[u] /\ pc'[u] = pc[u]
      /\ ev'[t].kind = ev[t].kind /\ ev'[t].name = ev[t].name /\ ev'[t].ts = clock + 1
      /\ ev'[t].step = IF ev[t].kind = "malloc" THEN stamped ELSE 0
      /\ pc'[t] = IF ev[t].kind \in {"malloc", "free"} THEN "send" ELSE "number"
      /\ clock' = clock + 1 /\ stamped' = stamped + (IF Steps!IsStepMark(ev[t]) THEN 1 ELSE 0)
      /\ UNCHANGED <<openRanges, info, pySteps, stepSource, boundaries, live, leaks, begun, ended>>
  BY <1>1, StampIs
<1>3. OneMarks'
  <2>1. \A u \in Threads : ev'[u].kind = ev[u].kind /\ ev'[u].name = ev[u].name
    BY <1>2
  <2>2. QED
    BY <1>2, <2>1 DEF Ordered, AloneInv, OneMarks
<1>4. Steps!LeaksOutlived'
  BY <1>2 DEF Ordered, AloneInv, Steps!LeaksOutlived
<1>5. EndsAreEnded'
  <2>1. ASSUME NEW u \in Threads, ev'[u].kind = "end", pc'[u] \in {"stamp", "number"}
        PROVE  info'.step \in ended'
    <3>1. ev[u].kind = "end" /\ pc[u] \in {"stamp", "number"}
      BY <1>2, <2>1
    <3>2. QED
      BY <1>2, <3>1 DEF Ordered, AloneInv, EndsAreEnded
  <2>2. ASSUME NEW u \in Threads, ev'[u].kind \in {"end", "py"}, pc'[u] = "send"
        PROVE  ev'[u].step \in ended'
    <3>1. u # t
      BY <1>2, <2>2
    <3>2. QED
      BY <1>2, <2>2, <3>1 DEF Ordered, AloneInv, EndsAreEnded
  <2>3. QED
    BY <2>1, <2>2 DEF EndsAreEnded
<1>6. CASE Steps!IsStepMark(ev[t])
  <2>1. /\ t \in plan.steppers /\ ev[t].kind \in {"start", "py"}
        /\ \A u \in Threads : u # t => ev[u].kind \notin {"start", "end", "py"}
    BY <1>6, MarksAtOne DEF Steps!IsStepMark
  <2>2. Marks(t, {"stamp"})
    BY <1>2, <1>6 DEF Marks
  <2>3. /\ stamped = Len(boundaries) /\ stamped' = stamped + 1
        /\ info.step + pySteps = IF ev[t].kind = "py" THEN stamped ELSE stamped + 1
    BY <1>2, <1>6, <2>2 DEF Ordered, AloneInv, InTurns
  <2>0. /\ clock \in Nat /\ stamped \in Nat /\ clock' = clock + 1 /\ stamped' = stamped + 1
        /\ ev'[t].ts = clock + 1
    BY <1>1, <1>2, <2>3
  <2>4. /\ pc'[t] = "number" /\ Steps!IsStepMark(ev'[t])
        /\ \A u \in Threads : u # t => ~Steps!IsStepMark(ev'[u])
    BY <1>2, <1>6, <2>1 DEF Steps!IsStepMark
  <2>5. InTurns'
    <3>1. Marks(t, {"stamp", "number", "send"})'
      BY <2>4 DEF Marks
    <3>2. \A u \in Threads : ~Marks(u, {"stamp"})' /\ ~Marks(u, {"send"})'
      BY <2>4 DEF Marks
    <3>3. \A u \in Threads : Marks(u, {"number"})' \/ Marks(u, {"number", "send"})' => u = t
      BY <2>4 DEF Marks
    <3>4. /\ stamped' = Len(boundaries') + 1
          /\ info'.step + pySteps' = IF ev'[t].kind = "py" THEN stamped' - 1 ELSE stamped'
      <4>1. Len(boundaries') = Len(boundaries) /\ info'.step + pySteps' = info.step + pySteps /\ ev'[t].kind = ev[t].kind
        BY <1>2
      <4>2. QED
        BY <2>0, <2>3, <4>1
    <3>5. \A k \in DOMAIN boundaries' : boundaries'[k].ts < ev'[t].ts
      BY <1>1, <1>2
    <3>6. \A k \in DOMAIN boundaries' : boundaries'[k].step = IF stepSource' = "py" THEN k + 1 ELSE k
      BY <1>2 DEF Ordered, AloneInv, InTurns
    <3>7. QED
      BY <3>1, <3>2, <3>3, <3>4, <3>5, <3>6 DEF InTurns
  <2>6. ASSUME NEW n, NEW ts, BornAfter(n, ts)
        PROVE  BornAfter(n, ts)'
    <3>1. n \in 0..stamped /\ ts \in Nat /\ ts <= clock
      BY <2>6 DEF BornAfter
    <3>2. n \in 0..stamped' /\ ts <= clock'
      BY <2>0, <3>1
    <3>3. \A k \in DOMAIN boundaries' : (k <= n => boundaries'[k].ts < ts) /\ (k > n => boundaries'[k].ts > ts)
      BY <1>2, <2>6 DEF BornAfter
    <3>4. n < stamped' /\ n # stamped' /\ ev'[t].ts > ts
      BY <2>0, <3>1
    <3>5. \A u \in Threads : Marks(u, {"number", "send"})' => u = t
      BY <2>4 DEF Marks
    <3>6. QED
      BY <3>1, <3>2, <3>3, <3>4, <3>5 DEF BornAfter
  <2>7. BlocksBorn'
    <3>1. \A b \in DOMAIN live' : BornAfter(live[b].in, live[b].ts)'
      <4>1. TAKE b \in DOMAIN live'
      <4>2. b \in DOMAIN live /\ live' = live
        BY <1>2
      <4>3. BornAfter(live[b].in, live[b].ts)
        BY <4>2 DEF Ordered, AloneInv, BlocksBorn
      <4>4. PICK n, ts : n = live[b].in /\ ts = live[b].ts
        OBVIOUS
      <4>5. BornAfter(n, ts)'
        BY <2>6, <4>3, <4>4
      <4>6. n = live'[b].in /\ ts = live'[b].ts
        BY <4>2, <4>4
      <4>7. QED
        BY <4>5, <4>6 DEF BornAfter
    <3>2. ASSUME NEW u \in Threads, ev'[u].kind = "malloc", pc'[u] = "send"
          PROVE  BornAfter(ev[u].step, ev[u].ts)' /\ u # t
      <4>1. u # t
        BY <2>4, <3>2
      <4>2. BornAfter(ev[u].step, ev[u].ts)
        BY <1>2, <3>2, <4>1 DEF Ordered, AloneInv, BlocksBorn
      <4>3. PICK n, ts : n = ev[u].step /\ ts = ev[u].ts
        OBVIOUS
      <4>4. BornAfter(n, ts)'
        BY <2>6, <4>2, <4>3
      <4>5. n = ev'[u].step /\ ts = ev'[u].ts
        BY <1>2, <4>1, <4>3
      <4>6. QED
        BY <4>1, <4>4, <4>5 DEF BornAfter
    <3>3. QED
      BY <3>1, <3>2 DEF BlocksBorn
  <2>8. QED
    BY <1>3, <1>4, <1>5, <2>5, <2>7 DEF AloneInv
<1>7. CASE ~Steps!IsStepMark(ev[t])
  <2>1. \A u \in Threads : /\ Marks(u, {"stamp", "number", "send"})' <=> Marks(u, {"stamp", "number", "send"})
                           /\ Marks(u, {"stamp"})' <=> Marks(u, {"stamp"})
                           /\ Marks(u, {"number"})' <=> Marks(u, {"number"})
                           /\ Marks(u, {"send"})' <=> Marks(u, {"send"})
                           /\ Marks(u, {"number", "send"})' <=> Marks(u, {"number", "send"})
    BY <1>2, <1>7 DEF Marks, Steps!IsStepMark
  <2>2. \A u \in Threads : Marks(u, {"stamp", "number", "send"}) => u # t /\ ev'[u] = ev[u]
    BY <1>2, <1>7 DEF Marks
  <2>3. \A u \in Threads : /\ Marks(u, {"stamp"}) => Marks(u, {"stamp", "number", "send"})
                           /\ Marks(u, {"number"}) => Marks(u, {"stamp", "number", "send"})
                           /\ Marks(u, {"send"}) => Marks(u, {"stamp", "number", "send"})
                           /\ Marks(u, {"number", "send"}) => Marks(u, {"stamp", "number", "send"})
    BY DEF Marks
  <2>4. stamped' = stamped
    BY <1>1, <1>2, <1>7
  <2>5. InTurns'
    BY <1>2, <2>1, <2>2, <2>3, <2>4 DEF Ordered, AloneInv, InTurns
  <2>6. ASSUME NEW n, NEW ts, BornAfter(n, ts)
        PROVE  BornAfter(n, ts)'
    <3>1. n \in 0..stamped' /\ ts \in Nat /\ ts <= clock'
      BY <1>1, <1>2, <2>4, <2>6 DEF BornAfter
    <3>2. \A k \in DOMAIN boundaries' : (k <= n => boundaries'[k].ts < ts) /\ (k > n => boundaries'[k].ts > ts)
      BY <1>2, <2>6 DEF BornAfter
    <3>3. \A u \in Threads : Marks(u, {"number", "send"})' => Marks(u, {"number", "send"}) /\ ev'[u] = ev[u]
      BY <2>1, <2>2, <2>3
    <3>4. QED
      BY <2>4, <2>6, <3>1, <3>2, <3>3 DEF BornAfter
  <2>7. ASSUME ev[t].kind = "malloc"
        PROVE  BornAfter(ev[t].step, ev[t].ts)'
    <3>1. Len(boundaries) <= stamped
      BY NoMoreThanStamped
    <3>2. \A k \in DOMAIN boundaries' : k <= stamped /\ ~(k > stamped) /\ boundaries'[k].ts < clock + 1
      BY <1>1, <1>2, <3>1
    <3>3. ASSUME NEW u \in Threads, Marks(u, {"number", "send"})'
          PROVE  ev'[u].ts < clock + 1
      <4>1. u # t /\ IsStamped(u) /\ ev'[u] = ev[u]
        BY <2>1, <2>2, <2>3, <3>3 DEF Marks, IsStamped
      <4>2. ev[u].ts <= clock /\ ev[u].ts \in Nat
        BY <1>1, <4>1, EventIs DEF Ordered, StepTimes
      <4>3. QED
        BY <1>1, <4>1, <4>2
    <3>4. stamped \in 0..stamped' /\ clock + 1 \in Nat /\ clock + 1 <= clock' /\ ~(stamped < stamped')
      BY <1>1, <1>2, <2>4
    <3>5. PICK n, ts : n = stamped /\ ts = clock + 1
      OBVIOUS
    <3>6. /\ n \in 0..stamped' /\ ts \in Nat /\ ts <= clock'
          /\ \A k \in DOMAIN boundaries' : (k <= n => boundaries'[k].ts < ts) /\ (k > n => boundaries'[k].ts > ts)
          /\ \A u \in Threads : Marks(u, {"number", "send"})' =>
               (n = stamped' => ev'[u].ts < ts) /\ (n < stamped' => ev'[u].ts > ts)
      BY <2>4, <3>2, <3>3, <3>4, <3>5
    <3>7. BornAfter(n, ts)'
      BY <3>6 DEF BornAfter
    <3>8. n = ev'[t].step /\ ts = ev'[t].ts
      BY <1>2, <2>7, <3>5
    <3>9. QED
      BY <3>7, <3>8 DEF BornAfter
  <2>8. BlocksBorn'
    <3>1. \A b \in DOMAIN live' : BornAfter(live[b].in, live[b].ts)'
      <4>1. TAKE b \in DOMAIN live'
      <4>2. b \in DOMAIN live /\ live' = live
        BY <1>2
      <4>3. BornAfter(live[b].in, live[b].ts)
        BY <4>2 DEF Ordered, AloneInv, BlocksBorn
      <4>4. PICK n, ts : n = live[b].in /\ ts = live[b].ts
        OBVIOUS
      <4>5. BornAfter(n, ts)'
        BY <2>6, <4>3, <4>4
      <4>6. n = live'[b].in /\ ts = live'[b].ts
        BY <4>2, <4>4
      <4>7. QED
        BY <4>5, <4>6 DEF BornAfter
    <3>2. ASSUME NEW u \in Threads, ev'[u].kind = "malloc", pc'[u] = "send"
          PROVE  BornAfter(ev[u].step, ev[u].ts)'
      <4>1. CASE u # t
        <5>2. BornAfter(ev[u].step, ev[u].ts)
          BY <1>2, <3>2, <4>1 DEF Ordered, AloneInv, BlocksBorn
        <5>3. PICK n, ts : n = ev[u].step /\ ts = ev[u].ts
          OBVIOUS
        <5>4. BornAfter(n, ts)'
          BY <2>6, <5>2, <5>3
        <5>5. n = ev'[u].step /\ ts = ev'[u].ts
          BY <1>2, <4>1, <5>3
        <5>6. QED
          BY <5>4, <5>5 DEF BornAfter
      <4>2. CASE u = t
        BY <1>2, <2>7, <3>2, <4>2
      <4>3. QED
        BY <4>1, <4>2
    <3>3. QED
      BY <3>1, <3>2 DEF BlocksBorn
  <2>9. QED
    BY <1>3, <1>4, <1>5, <2>5, <2>8 DEF AloneInv
<1>8. QED
  BY <1>6, <1>7
\* A mark or an end reads its number: that of its step.
LEMMA NumberAlone ==
  ASSUME Ordered, NEW t \in Threads, Steps!Number(t), plan' = plan
  PROVE  AloneInv'
<1>1. /\ StepTyped /\ stamped \in Nat /\ info.step \in Nat /\ pySteps \in Nat
      /\ Len(boundaries) \in Nat /\ ev[t].kind \in {"start", "end", "py"}
  BY BoundaryIs, NumberIs DEF Ordered, StepTyped
<1>2. /\ pc[t] = "number" /\ pc'[t] = "send"
      /\ \A u \in Threads : u # t => ev'[u] = ev[u] /\ pc'[u] = pc[u]
      /\ ev'[t].kind = ev[t].kind /\ ev'[t].name = ev[t].name /\ ev'[t].ts = ev[t].ts
      /\ ev[t].kind = "py" =>
           pySteps' = pySteps + 1 /\ ev'[t].step = pySteps + 1 /\ ended' = ended \cup {pySteps + 1}
      /\ ev[t].kind # "py" => pySteps' = pySteps /\ ev'[t].step = info.step /\ ended' = ended
      /\ UNCHANGED <<clock, openRanges, info, stepSource, boundaries, live, leaks, begun, stamped>>
  BY <1>1, NumberIs
<1>3. t \in plan.steppers /\ \A u \in Threads : u # t => ev[u].kind \notin {"start", "end", "py"}
  BY <1>1, MarksAtOne
<1>4. ended \subseteq ended'
  BY <1>1, <1>2
<1>5. ev[t].kind = "py" => info.step = 0
  BY DEF Ordered, AloneInv, OneMarks
<1>6. OneMarks'
  <2>1. \A u \in Threads : ev'[u].kind = ev[u].kind /\ ev'[u].name = ev[u].name
    BY <1>2
  <2>2. info'.step = 0 \/ (pySteps' = 0 /\ \A u \in Threads : ev'[u].kind # "py")
    BY <1>2, <1>5, <2>1 DEF Ordered, AloneInv, OneMarks
  <2>3. QED
    BY <1>2, <2>1, <2>2 DEF Ordered, AloneInv, OneMarks
<1>7. Steps!LeaksOutlived'
  BY <1>2, <1>4 DEF Ordered, AloneInv, Steps!LeaksOutlived
<1>8. EndsAreEnded'
  <2>1. \A u \in Threads : ev'[u].kind \in {"end", "py"} => u = t
    BY <1>2, <1>3
  <2>2. ev[t].kind = "end" => info.step \in ended
    BY <1>2 DEF Ordered, AloneInv, EndsAreEnded
  <2>3. ev'[t].kind \in {"end", "py"} => ev'[t].step \in ended'
    BY <1>1, <1>2, <2>2
  <2>4. QED
    BY <1>2, <2>1, <2>3 DEF EndsAreEnded
<1>9. InTurns'
  <2>1. CASE Steps!IsStepMark(ev[t])
    <3>1. Marks(t, {"number"}) /\ Marks(t, {"number", "send"})
      BY <1>2, <2>1 DEF Marks
    <3>2. /\ stamped = Len(boundaries) + 1
          /\ info.step + pySteps = IF ev[t].kind = "py" THEN stamped - 1 ELSE stamped
          /\ \A k \in DOMAIN boundaries : boundaries[k].ts < ev[t].ts
      BY <3>1 DEF Ordered, AloneInv, InTurns
    <3>3. Marks(t, {"stamp", "number", "send"})'
      BY <1>2, <2>1 DEF Marks, Steps!IsStepMark
    <3>4. \A u \in Threads : ~Marks(u, {"stamp"})' /\ ~Marks(u, {"number"})'
      BY <1>2, <1>3 DEF Marks, Steps!IsStepMark
    <3>5. \A u \in Threads : Marks(u, {"send"})' \/ Marks(u, {"number", "send"})' => u = t
      BY <1>2, <1>3 DEF Marks, Steps!IsStepMark
    <3>6. info.step + pySteps' = stamped /\ ev'[t].step = stamped
      <4>1. CASE ev[t].kind = "py"
        <5>1. pySteps' = pySteps + 1 /\ ev'[t].step = pySteps + 1 /\ info.step = 0 /\ info.step + pySteps = stamped - 1
          BY <1>2, <1>5, <3>2, <4>1
        <5>2. QED
          BY <1>1, <5>1
      <4>2. CASE ev[t].kind # "py"
        <5>1. ev[t].kind = "start" /\ ev[t].name = "step"
          BY <2>1, <4>2 DEF Steps!IsStepMark
        <5>2. info.step >= 1
          BY <5>1 DEF Ordered, StepSources
        <5>3. pySteps = 0
          BY <1>1, <5>2 DEF Ordered, AloneInv, OneMarks
        <5>4. pySteps' = pySteps /\ ev'[t].step = info.step /\ info.step + pySteps = stamped
          BY <1>2, <3>2, <4>2
        <5>5. QED
          BY <1>1, <5>3, <5>4
      <4>3. QED
        BY <4>1, <4>2
    <3>7. \A k \in DOMAIN boundaries' : boundaries'[k].ts < ev'[t].ts
      BY <1>2, <3>2
    <3>8. \A k \in DOMAIN boundaries' : boundaries'[k].step = IF stepSource' = "py" THEN k + 1 ELSE k
      BY <1>2 DEF Ordered, AloneInv, InTurns
    <3>9. stamped' = Len(boundaries') + 1 /\ info'.step + pySteps' = stamped' /\ ev'[t].step = stamped'
      BY <1>2, <3>2, <3>6
    <3>10. QED
      BY <3>3, <3>4, <3>5, <3>7, <3>8, <3>9 DEF InTurns
  <2>2. CASE ~Steps!IsStepMark(ev[t])
    <3>1. \A u \in Threads : ~Steps!IsStepMark(ev[u])
      BY <1>3, <2>2 DEF Steps!IsStepMark
    <3>2. \A u \in Threads : ~Steps!IsStepMark(ev'[u])
      BY <1>2, <3>1 DEF Steps!IsStepMark
    <3>3. stamped = Len(boundaries) /\ info.step + pySteps = stamped
      BY <3>1 DEF Ordered, AloneInv, InTurns, Marks
    <3>4. ev[t].kind # "py"
      BY <2>2 DEF Steps!IsStepMark
    <3>5. stamped' = Len(boundaries') /\ info'.step + pySteps' = stamped'
      BY <1>2, <3>3, <3>4
    <3>6. \A k \in DOMAIN boundaries' : boundaries'[k].step = IF stepSource' = "py" THEN k + 1 ELSE k
      BY <1>2 DEF Ordered, AloneInv, InTurns
    <3>7. QED
      BY <3>2, <3>5, <3>6 DEF InTurns, Marks
  <2>3. QED
    BY <2>1, <2>2
<1>10. \A u \in Threads : Marks(u, {"number", "send"})' => Marks(u, {"number", "send"}) /\ ev'[u].ts = ev[u].ts
  BY <1>2 DEF Marks, Steps!IsStepMark
<1>11. BlocksBorn'
  <2>1. ASSUME NEW n, NEW ts, BornAfter(n, ts)
        PROVE  BornAfter(n, ts)'
    BY <1>2, <1>10, <2>1, BirthsStay
  <2>2. \A b \in DOMAIN live' : BornAfter(live[b].in, live[b].ts)'
    <3>1. TAKE b \in DOMAIN live'
    <3>2. b \in DOMAIN live /\ live' = live
      BY <1>2
    <3>3. BornAfter(live[b].in, live[b].ts)
      BY <3>2 DEF Ordered, AloneInv, BlocksBorn
    <3>4. PICK n, ts : n = live[b].in /\ ts = live[b].ts
      OBVIOUS
    <3>5. BornAfter(n, ts)'
      BY <2>1, <3>3, <3>4
    <3>6. n = live'[b].in /\ ts = live'[b].ts
      BY <3>2, <3>4
    <3>7. QED
      BY <3>5, <3>6 DEF BornAfter
  <2>3. ASSUME NEW u \in Threads, ev'[u].kind = "malloc", pc'[u] = "send"
        PROVE  BornAfter(ev[u].step, ev[u].ts)'
    <3>1. u # t
      BY <1>1, <1>2, <2>3
    <3>2. BornAfter(ev[u].step, ev[u].ts)
      BY <1>2, <2>3, <3>1 DEF Ordered, AloneInv, BlocksBorn
    <3>3. PICK n, ts : n = ev[u].step /\ ts = ev[u].ts
      OBVIOUS
    <3>4. BornAfter(n, ts)'
      BY <2>1, <3>2, <3>3
    <3>5. n = ev'[u].step /\ ts = ev'[u].ts
      BY <1>2, <3>1, <3>3
    <3>6. QED
      BY <3>4, <3>5 DEF BornAfter
  <2>4. QED
    BY <2>2, <2>3 DEF BlocksBorn
<1>12. QED
  BY <1>6, <1>7, <1>8, <1>9, <1>11 DEF AloneInv

\* A delivered mark becomes the last boundary, of the step that was stamped last.
LEMMA DeliversLast ==
  ASSUME Ordered, NEW t \in Threads, Steps!Send(t), plan' = plan, Steps!IsStepMark(ev[t])
  PROVE  /\ Len(boundaries') = Len(boundaries) + 1 /\ stamped = Len(boundaries) + 1 /\ info.step + pySteps = stamped
         /\ boundaries'[Len(boundaries) + 1].ts = ev[t].ts
         /\ boundaries'[Len(boundaries) + 1].step =
              IF stepSource' = "py" THEN Len(boundaries) + 2 ELSE Len(boundaries) + 1
         /\ \A k \in DOMAIN boundaries : boundaries'[k] = boundaries[k]
         /\ boundaries # <<>> => stepSource' = stepSource
         /\ boundaries' \in Seq([step : Nat, ts : Nat])
<1>1. /\ StepTyped /\ StepTimes /\ StepSources /\ info.step \in Nat /\ pySteps \in Nat
      /\ Len(boundaries) \in Nat /\ DOMAIN boundaries = 1..Len(boundaries) /\ boundaries \in Seq([step : Nat, ts : Nat])
      /\ ev[t].ts \in Nat /\ ev[t].step \in Nat
  BY BoundaryIs, EventIs DEF Ordered, StepTyped
<1>2. pc[t] = "send" /\ Delivers(t)
  BY <1>1, SendIs
<1>3. Marks(t, {"send"}) /\ Marks(t, {"number", "send"})
  BY <1>2 DEF Marks
<1>4. /\ stamped = Len(boundaries) + 1 /\ info.step + pySteps = stamped /\ ev[t].step = stamped
      /\ \A k \in DOMAIN boundaries : boundaries[k].ts < ev[t].ts
  BY <1>3 DEF Ordered, AloneInv, InTurns
<1>5. \A b \in [step : Nat, ts : Nat] : b.ts = ev[t].ts /\ IsInserted(boundaries', b) =>
        /\ Len(boundaries') = Len(boundaries) + 1 /\ boundaries' \in Seq([step : Nat, ts : Nat])
        /\ boundaries'[Len(boundaries) + 1] = b
        /\ \A k \in DOMAIN boundaries : boundaries'[k] = boundaries[k]
  <2>1. TAKE b \in [step : Nat, ts : Nat]
  <2>2. HAVE b.ts = ev[t].ts /\ IsInserted(boundaries', b)
  <2>3. \A k \in DOMAIN boundaries : boundaries[k].ts < b.ts
    BY <1>4, <2>2
  <2>4. Len(boundaries') = Len(boundaries) + 1 /\ boundaries' \in Seq([step : Nat, ts : Nat])
    BY <2>2 DEF IsInserted
  <2>5. QED
    BY <1>1, <2>2, <2>3, <2>4, LatestIsLast
<1>6. boundaries # <<>> => stepSource # "none" /\ 1 \in DOMAIN boundaries
  BY <1>1 DEF StepSources
<1>7. CASE ev[t].kind = "start"
  <2>1. ev[t].name = "step"
    BY <1>7 DEF Steps!IsStepMark
  <2>2. info.step >= 1
    BY <1>1, <1>7, <2>1 DEF StepSources
  <2>3. pySteps = 0
    BY <1>1, <2>2 DEF Ordered, AloneInv, OneMarks
  <2>4. stepSource \in {"none", "mstx"}
    <3>1. SUFFICES ASSUME stepSource = "py" PROVE FALSE
      BY <1>1 DEF StepTyped
    <3>2. boundaries # <<>>
      BY <1>1, <3>1 DEF StepSources
    <3>3. boundaries[1].step \in 2..(pySteps + 1)
      BY <1>1, <1>6, <3>1, <3>2 DEF StepSources, Steps!OneSource
    <3>4. QED
      BY <2>3, <3>3
  <2>5. stepSource' = "mstx" /\ IsInserted(boundaries', [step |-> ev[t].step, ts |-> ev[t].ts])
    BY <1>2, <1>7, <2>1, <2>4 DEF Delivers
  <2>6. PICK b : b = [step |-> ev[t].step, ts |-> ev[t].ts]
    OBVIOUS
  <2>7. b \in [step : Nat, ts : Nat] /\ b.ts = ev[t].ts /\ b.step = Len(boundaries) + 1 /\ IsInserted(boundaries', b)
    BY <1>1, <1>4, <2>5, <2>6
  <2>8. /\ Len(boundaries') = Len(boundaries) + 1 /\ boundaries' \in Seq([step : Nat, ts : Nat])
        /\ boundaries'[Len(boundaries) + 1] = b
        /\ \A k \in DOMAIN boundaries : boundaries'[k] = boundaries[k]
    BY <1>5, <2>7
  <2>9. boundaries # <<>> => stepSource' = stepSource
    BY <1>6, <2>4, <2>5
  <2>10. QED
    BY <1>4, <2>5, <2>7, <2>8, <2>9
<1>8. CASE ev[t].kind = "py"
  <2>1. info.step = 0
    BY <1>8 DEF Ordered, AloneInv, OneMarks
  <2>2. stepSource \in {"none", "py"}
    <3>1. SUFFICES ASSUME stepSource = "mstx" PROVE FALSE
      BY <1>1 DEF StepTyped
    <3>2. boundaries # <<>>
      BY <1>1, <3>1 DEF StepSources
    <3>3. boundaries[1].step \in 1..info.step
      BY <1>1, <1>6, <3>1, <3>2 DEF StepSources, Steps!OneSource
    <3>4. QED
      BY <2>1, <3>3
  <2>3. stepSource' = "py" /\ IsInserted(boundaries', [step |-> ev[t].step + 1, ts |-> ev[t].ts])
    BY <1>2, <1>8, <2>2 DEF Delivers
  <2>4. PICK b : b = [step |-> ev[t].step + 1, ts |-> ev[t].ts]
    OBVIOUS
  <2>5. b \in [step : Nat, ts : Nat] /\ b.ts = ev[t].ts /\ b.step = Len(boundaries) + 2 /\ IsInserted(boundaries', b)
    BY <1>1, <1>4, <2>3, <2>4
  <2>6. /\ Len(boundaries') = Len(boundaries) + 1 /\ boundaries' \in Seq([step : Nat, ts : Nat])
        /\ boundaries'[Len(boundaries) + 1] = b
        /\ \A k \in DOMAIN boundaries : boundaries'[k] = boundaries[k]
    BY <1>5, <2>5
  <2>7. boundaries # <<>> => stepSource' = stepSource
    BY <1>6, <2>2, <2>3
  <2>8. QED
    BY <1>4, <2>3, <2>5, <2>6, <2>7
<1>9. QED
  BY <1>7, <1>8 DEF Steps!IsStepMark
\* Births stay what they are when an event is delivered: its boundary comes where they say.
LEMMA SendKeepsBirths ==
  ASSUME Ordered, NEW t \in Threads, Steps!Send(t), plan' = plan, NEW n, NEW ts, BornAfter(n, ts)
  PROVE  BornAfter(n, ts)'
<1>1. /\ StepTyped /\ StepTimes /\ stamped \in Nat /\ Len(boundaries) \in Nat /\ DOMAIN boundaries = 1..Len(boundaries)
      /\ boundaries \in Seq([step : Nat, ts : Nat])
  BY BoundaryIs DEF Ordered, StepTyped
<1>2. /\ pc[t] = "send" /\ ev'[t] = Steps!NoEvent /\ pc'[t] = "idle" /\ Delivers(t)
      /\ \A u \in Threads : u # t => ev'[u] = ev[u] /\ pc'[u] = pc[u]
      /\ UNCHANGED <<clock, stamped>>
  BY <1>1, SendIs
<1>3. CASE Steps!IsStepMark(ev[t])
  <2>1. /\ Len(boundaries') = Len(boundaries) + 1 /\ stamped = Len(boundaries) + 1
        /\ boundaries'[Len(boundaries) + 1].ts = ev[t].ts
        /\ \A k \in DOMAIN boundaries : boundaries'[k] = boundaries[k]
        /\ boundaries' \in Seq([step : Nat, ts : Nat])
    BY <1>3, DeliversLast
  <2>2. DOMAIN boundaries' = 1..(Len(boundaries) + 1)
    BY <2>1
  <2>3. Marks(t, {"number", "send"})
    BY <1>2, <1>3 DEF Marks
  <2>4. (n = stamped => ev[t].ts < ts) /\ (n < stamped => ev[t].ts > ts) /\ n \in 0..stamped
    BY <2>3 DEF BornAfter
  <2>5. ASSUME NEW k \in DOMAIN boundaries'
        PROVE  (k <= n => boundaries'[k].ts < ts) /\ (k > n => boundaries'[k].ts > ts)
    <3>1. CASE k \in DOMAIN boundaries
      BY <2>1, <3>1 DEF BornAfter
    <3>2. CASE k \notin DOMAIN boundaries
      <4>1. k = stamped /\ boundaries'[k].ts = ev[t].ts
        BY <1>1, <2>1, <2>2, <3>2
      <4>2. (k <= n => n = stamped) /\ (k > n => n < stamped)
        BY <1>1, <2>4, <4>1
      <4>3. QED
        BY <2>4, <4>1, <4>2
    <3>3. QED
      BY <3>1, <3>2
  <2>6. \A u \in Threads : ~Marks(u, {"number", "send"})'
    <3>1. TAKE u \in Threads
    <3>2. CASE u = t
      BY <1>2, <3>2 DEF Marks
    <3>3. CASE u # t
      <4>1. ev[u].kind \notin {"start", "end", "py"}
        BY <1>3, <3>3, MarksAtOne DEF Steps!IsStepMark
      <4>2. QED
        BY <1>2, <3>3, <4>1 DEF Marks, Steps!IsStepMark
    <3>4. QED
      BY <3>2, <3>3
  <2>7. n \in 0..stamped' /\ ts \in Nat /\ ts <= clock'
    BY <1>2 DEF BornAfter
  <2>8. QED
    BY <2>5, <2>6, <2>7 DEF BornAfter
<1>4. CASE ~Steps!IsStepMark(ev[t])
  <2>1. UNCHANGED boundaries
    BY <1>2, <1>4 DEF Delivers, Steps!IsStepMark
  <2>2. \A u \in Threads : Marks(u, {"number", "send"})' => Marks(u, {"number", "send"}) /\ ev'[u].ts = ev[u].ts
    BY <1>2 DEF Marks
  <2>3. QED
    BY <1>2, <2>1, <2>2, BirthsStay
<1>5. QED
  BY <1>3, <1>4

\* A delivery: the boundaries are those of all marks, a block comes as it was born, and
\* what a step end calls a leak has outlived its step.
LEMMA SendAlone ==
  ASSUME Ordered, NEW t \in Threads, Steps!Send(t), plan' = plan
  PROVE  AloneInv'
<1>1. /\ StepTyped /\ StepTimes /\ Len(boundaries) \in Nat /\ DOMAIN boundaries = 1..Len(boundaries)
      /\ stamped \in Nat
  BY BoundaryIs DEF Ordered, StepTyped
<1>2. /\ pc[t] = "send" /\ ev'[t] = Steps!NoEvent /\ pc'[t] = "idle" /\ Delivers(t)
      /\ \A u \in Threads : u # t => ev'[u] = ev[u] /\ pc'[u] = pc[u]
      /\ UNCHANGED <<clock, openRanges, info, pySteps, begun, stamped, ended>>
  BY <1>1, SendIs
<1>3. Steps!NoEvent.kind = "none" /\ ~Steps!IsStepMark(Steps!NoEvent)
  BY DEF Steps!NoEvent, Steps!IsStepMark
<1>4. OneMarks'
  <2>1. \A u \in Threads : ev'[u].kind = "none" \/ ev'[u] = ev[u]
    BY <1>2, <1>3
  <2>2. QED
    BY <1>2, <2>1 DEF Ordered, AloneInv, OneMarks
<1>5. EndsAreEnded'
  <2>1. \A u \in Threads : ev'[u].kind = "none" \/ (ev'[u] = ev[u] /\ pc'[u] = pc[u])
    BY <1>2, <1>3
  <2>2. QED
    BY <1>2, <2>1 DEF Ordered, AloneInv, EndsAreEnded
<1>6. Steps!LeaksOutlived'
  <2>1. \A l \in leaks : l[2] > LeakSkipSteps /\ \E n \in ended : n > l[2]
    BY DEF Ordered, AloneInv, Steps!LeaksOutlived
  <2>2. CASE ev[t].kind \in {"end", "py"} /\ leaks' = leaks \cup Steps!Suspects(ev[t].step)
    <3>1. ev[t].step \in ended
      BY <1>2, <2>2 DEF Ordered, AloneInv, EndsAreEnded
    <3>2. \A l \in Steps!Suspects(ev[t].step) : l[2] > LeakSkipSteps /\ ev[t].step > l[2]
      BY SuspectsAreOlder
    <3>3. QED
      BY <1>2, <2>1, <2>2, <3>1, <3>2 DEF Steps!LeaksOutlived
  <2>3. CASE leaks' = leaks
    BY <1>2, <2>1, <2>3 DEF Steps!LeaksOutlived
  <2>4. QED
    BY <2>2, <2>3, SendBlocks
<1>7. InTurns'
  <2>1. CASE Steps!IsStepMark(ev[t])
    <3>1. \A u \in Threads : ~Steps!IsStepMark(ev'[u])
      <4>1. TAKE u \in Threads
      <4>2. CASE u = t
        BY <1>2, <1>3, <4>2
      <4>3. CASE u # t
        <5>1. ev[u].kind \notin {"start", "end", "py"}
          BY <2>1, <4>3, MarksAtOne DEF Steps!IsStepMark
        <5>2. QED
          BY <1>2, <4>3, <5>1 DEF Steps!IsStepMark
      <4>4. QED
        BY <4>2, <4>3
    <3>2. /\ Len(boundaries') = Len(boundaries) + 1 /\ stamped = Len(boundaries) + 1 /\ info.step + pySteps = stamped
          /\ boundaries'[Len(boundaries) + 1].step =
               IF stepSource' = "py" THEN Len(boundaries) + 2 ELSE Len(boundaries) + 1
          /\ \A k \in DOMAIN boundaries : boundaries'[k] = boundaries[k]
          /\ boundaries # <<>> => stepSource' = stepSource
          /\ boundaries' \in Seq([step : Nat, ts : Nat])
      BY <2>1, DeliversLast
    <3>3. DOMAIN boundaries' = 1..(Len(boundaries) + 1)
      BY <3>2
    <3>4. ASSUME NEW k \in DOMAIN boundaries'
          PROVE  boundaries'[k].step = IF stepSource' = "py" THEN k + 1 ELSE k
      <4>1. CASE k \in DOMAIN boundaries
        <5>1. stepSource' = stepSource
          BY <1>1, <3>2, <4>1
        <5>2. boundaries[k].step = IF stepSource = "py" THEN k + 1 ELSE k
          BY <4>1 DEF Ordered, AloneInv, InTurns
        <5>3. QED
          BY <3>2, <4>1, <5>1, <5>2
      <4>2. CASE k \notin DOMAIN boundaries
        <5>1. k = Len(boundaries) + 1
          BY <1>1, <3>3, <4>2
        <5>2. Len(boundaries) + 2 = k + 1
          BY <1>1, <5>1
        <5>3. QED
          BY <3>2, <5>1, <5>2
      <4>3. QED
        BY <4>1, <4>2
    <3>5. stamped' = Len(boundaries') /\ info'.step + pySteps' = stamped'
      BY <1>2, <3>2
    <3>6. QED
      BY <3>1, <3>4, <3>5 DEF InTurns, Marks
  <2>2. CASE ~Steps!IsStepMark(ev[t])
    <3>1. UNCHANGED <<stepSource, boundaries>>
      BY <1>2, <2>2 DEF Delivers, Steps!IsStepMark
    <3>2. \A u \in Threads : /\ Marks(u, {"stamp", "number", "send"})' <=> Marks(u, {"stamp", "number", "send"})
                             /\ Marks(u, {"stamp"})' <=> Marks(u, {"stamp"})
                             /\ Marks(u, {"number"})' <=> Marks(u, {"number"})
                             /\ Marks(u, {"send"})' <=> Marks(u, {"send"})
                             /\ Marks(u, {"number", "send"})' <=> Marks(u, {"number", "send"})
      BY <1>2, <1>3, <2>2 DEF Marks
    <3>3. \A u \in Threads : Marks(u, {"stamp", "number", "send"}) => ev'[u] = ev[u]
      BY <1>2, <2>2 DEF Marks
    <3>4. \A u \in Threads : /\ Marks(u, {"stamp"}) => Marks(u, {"stamp", "number", "send"})
                             /\ Marks(u, {"number"}) => Marks(u, {"stamp", "number", "send"})
                             /\ Marks(u, {"send"}) => Marks(u, {"stamp", "number", "send"})
                             /\ Marks(u, {"number", "send"}) => Marks(u, {"stamp", "number", "send"})
      BY DEF Marks
    <3>5. QED
      BY <1>2, <3>1, <3>2, <3>3, <3>4 DEF Ordered, AloneInv, InTurns
  <2>3. QED
    BY <2>1, <2>2
<1>8. BlocksBorn'
  <2>1. ASSUME NEW b \in DOMAIN live'
        PROVE  \E n, ts : BornAfter(n, ts) /\ n = live'[b].in /\ ts = live'[b].ts
    <3>1. CASE b \in DOMAIN live /\ live'[b] = live[b]
      <4>1. BornAfter(live[b].in, live[b].ts)
        BY <3>1 DEF Ordered, AloneInv, BlocksBorn
      <4>2. QED
        BY <3>1, <4>1
    <3>2. CASE ev[t].kind = "malloc" /\ live'[b] = [ts |-> ev[t].ts, in |-> ev[t].step]
      <4>1. BornAfter(ev[t].step, ev[t].ts)
        BY <1>2, <3>2 DEF Ordered, AloneInv, BlocksBorn
      <4>2. QED
        BY <3>2, <4>1
    <3>3. CASE live' = live
      BY <3>1, <3>3
    <3>4. CASE /\ ev[t].kind = "malloc"
               /\ live' = [a \in DOMAIN live \cup {ev[t].addr} |->
                             IF a = ev[t].addr THEN [ts |-> ev[t].ts, in |-> ev[t].step] ELSE live[a]]
      <4>1. b = ev[t].addr \/ (b \in DOMAIN live /\ b # ev[t].addr)
        BY <3>4
      <4>2. CASE b = ev[t].addr
        BY <3>2, <3>4, <4>2
      <4>3. CASE b \in DOMAIN live /\ b # ev[t].addr
        BY <3>1, <3>4, <4>3
      <4>4. QED
        BY <4>1, <4>2, <4>3
    <3>5. CASE live' = [a \in DOMAIN live \ {ev[t].addr} |-> live[a]]
      BY <3>1, <3>5
    <3>6. QED
      BY <3>3, <3>4, <3>5, SendBlocks
  <2>2. ASSUME NEW b \in DOMAIN live'
        PROVE  BornAfter(live[b].in, live[b].ts)'
    <3>1. PICK n, ts : BornAfter(n, ts) /\ n = live'[b].in /\ ts = live'[b].ts
      BY <2>1
    <3>2. BornAfter(n, ts)'
      BY <3>1, SendKeepsBirths
    <3>3. QED
      BY <3>1, <3>2 DEF BornAfter
  <2>3. ASSUME NEW u \in Threads, ev'[u].kind = "malloc", pc'[u] = "send"
        PROVE  BornAfter(ev[u].step, ev[u].ts)'
    <3>1. u # t
      BY <1>2, <2>3
    <3>2. BornAfter(ev[u].step, ev[u].ts)
      BY <1>2, <2>3, <3>1 DEF Ordered, AloneInv, BlocksBorn
    <3>3. PICK n, ts : n = ev[u].step /\ ts = ev[u].ts
      OBVIOUS
    <3>4. BornAfter(n, ts)'
      BY <3>2, <3>3, SendKeepsBirths
    <3>5. n = ev'[u].step /\ ts = ev'[u].ts
      BY <1>2, <3>1, <3>3
    <3>6. QED
      BY <3>4, <3>5 DEF BornAfter
  <2>4. QED
    BY <2>2, <2>3 DEF BlocksBorn
<1>9. QED
  BY <1>4, <1>5, <1>6, <1>7, <1>8 DEF AloneInv

-----------------------------------------------------------------------------
(* The invariant *)

\* The first state.
LEMMA StepInit ==
  ASSUME Steps!StepAssumption, Steps!Init
  PROVE  StepInv
<1>1. /\ plan \in Plans /\ clock = 0 /\ stamped = 0 /\ pySteps = 0 /\ lastRange = 0
      /\ info = [step |-> 0, inRange |-> FALSE, ranges |-> <<>>] /\ openRanges = <<>> /\ live = <<>> /\ leaks = {}
      /\ begun = [r \in Steps!Ranges |-> 0] /\ boundaries = <<>> /\ stepSource = "none" /\ ended = {}
      /\ \A t \in Threads : pc[t] = "idle" /\ ev[t] = Steps!NoEvent
      /\ pc = [t \in Threads |-> "idle"] /\ ev = [t \in Threads |-> Steps!NoEvent]
  BY DEF Steps!Init
<1>2. DOMAIN openRanges = {} /\ DOMAIN live = {} /\ DOMAIN boundaries = {} /\ Len(boundaries) = 0
  BY <1>1
<1>3. Steps!NoEvent \in StepEvents /\ Steps!NoEvent.kind = "none" /\ ~Steps!IsStepMark(Steps!NoEvent)
  BY DEF Steps!NoEvent, StepEvents, Kinds, Steps!IsStepMark
<1>4. DOMAIN info = {"step", "inRange", "ranges"} /\ info.step = 0
  BY <1>1
<1>5. StepTyped
  BY <1>1, <1>2, <1>3, <1>4 DEF StepTyped
<1>6. StepTimes
  BY <1>1, <1>2 DEF StepTimes, IsStamped, Steps!BoundariesSorted
<1>7. StepSources
  BY <1>1, <1>2, <1>3 DEF StepSources, Steps!OneSource
<1>8. NoBlocks
  BY <1>1, <1>2, <1>3 DEF NoBlocks
<1>9. AloneInv
  <2>1. OneMarks
    BY <1>1, <1>2, <1>3, <1>4 DEF OneMarks
  <2>2. InTurns
    BY <1>1, <1>2, <1>3, <1>4 DEF InTurns, Marks
  <2>3. BlocksBorn /\ EndsAreEnded /\ Steps!LeaksOutlived
    BY <1>1, <1>2, <1>3 DEF BlocksBorn, EndsAreEnded, Steps!LeaksOutlived
  <2>4. QED
    BY <2>1, <2>2, <2>3 DEF AloneInv
<1>10. StepOrder
  BY <1>8, <1>9 DEF StepOrder
<1>11. QED
  BY <1>5, <1>6, <1>7, <1>10 DEF StepInv

\* Every step keeps the invariant.
LEMMA StepNext ==
  ASSUME Steps!StepAssumption, StepInv, [Steps!Next]_Steps!vars
  PROVE  StepInv'
<1>1. StepTyped /\ StepTimes /\ StepSources /\ StepOrder
  BY DEF StepInv
<1>2. CASE UNCHANGED Steps!vars
  <2>1. UNCHANGED <<plan, clock, openRanges, lastRange, held, mallocs, info, pySteps, pc, ev, stepSource, boundaries, live,
                    leaks, begun, stamped, ended, fired>>
    BY <1>2 DEF Steps!vars, Steps!app, Steps!report, Steps!tracker, Steps!history
  <2>2. StepTyped' /\ StepTimes' /\ StepSources'
    BY <1>1, <2>1 DEF StepTyped, StepTimes, StepSources, IsStamped, Steps!BoundariesSorted, Steps!OneSource
  <2>3. NoBlocks => NoBlocks'
    BY <2>1 DEF NoBlocks
  <2>4. AloneInv => AloneInv'
    <3>1. OneMarks => OneMarks'
      BY <2>1 DEF OneMarks
    <3>2. InTurns => InTurns'
      BY <2>1 DEF InTurns, Marks
    <3>3. BlocksBorn => BlocksBorn'
      BY <2>1 DEF BlocksBorn, BornAfter, Marks
    <3>4. EndsAreEnded /\ Steps!LeaksOutlived => EndsAreEnded' /\ Steps!LeaksOutlived'
      BY <2>1 DEF EndsAreEnded, Steps!LeaksOutlived
    <3>5. QED
      BY <3>1, <3>2, <3>3, <3>4 DEF AloneInv
  <2>5. QED
    BY <1>1, <2>1, <2>2, <2>3, <2>4 DEF StepInv, StepOrder, MarksAlone
<1>3. CASE Steps!Next
  <2>1. plan' = plan /\ plan \in Plans /\ plan.steppers \subseteq Threads /\ plan.allocators \subseteq Threads
    BY <1>1, <1>3, PlanIs DEF Steps!Next, StepTyped
  <2>2. MarksAlone /\ AloneInv => Ordered
    BY <1>1 DEF Ordered
  <2>3. (MarksAlone /\ AloneInv => AloneInv') /\ StepTyped' /\ StepTimes' /\ StepSources'
    <3>1. ASSUME NEW t \in plan.steppers, NEW name \in plan.names, Steps!RangeStart(t, name)
          PROVE  (MarksAlone /\ AloneInv => AloneInv') /\ StepTyped' /\ StepTimes' /\ StepSources'
      <4>1. PICK e : e = [Steps!NoEvent EXCEPT !.kind = "start", !.name = name, !.range = lastRange + 1]
        OBVIOUS
      <4>2. EventBegins(t, e) /\ t \in Threads
        BY <1>1, <2>1, <3>1, <4>1, RangeStartBegins
      <4>3. StepTyped' /\ StepTimes' /\ StepSources'
        BY <1>1, <4>2, BeginningKeeps
      <4>4. QED
        BY <2>1, <2>2, <3>1, <4>3, StartAlone
    <3>2. ASSUME NEW t \in plan.steppers, NEW r \in Steps!Ranges, Steps!RangeEnd(t, r)
          PROVE  (MarksAlone /\ AloneInv => AloneInv') /\ StepTyped' /\ StepTimes' /\ StepSources'
      <4>1. PICK e : e = [Steps!NoEvent EXCEPT !.kind = "end", !.name = openRanges[r].name, !.range = r]
        OBVIOUS
      <4>2. EventBegins(t, e) /\ t \in Threads
        BY <1>1, <2>1, <3>2, <4>1, RangeEndBegins
      <4>3. StepTyped' /\ StepTimes' /\ StepSources'
        BY <1>1, <4>2, BeginningKeeps
      <4>4. QED
        BY <2>1, <2>2, <3>2, <4>3, EndAlone
    <3>3. ASSUME NEW t \in plan.steppers, Steps!PyStep(t)
          PROVE  (MarksAlone /\ AloneInv => AloneInv') /\ StepTyped' /\ StepTimes' /\ StepSources'
      <4>1. PICK e : e = [Steps!NoEvent EXCEPT !.kind = "py"]
        OBVIOUS
      <4>2. /\ IsOther(e) /\ t \in Threads /\ pc[t] = "idle" /\ Steps!Begin(t, e)
            /\ UNCHANGED <<clock, openRanges, lastRange, Steps!report, Steps!tracker, Steps!history>>
        BY <2>1, <3>3, <4>1 DEF Steps!PyStep, Steps!app, IsOther
      <4>3. StepTyped' /\ StepTimes' /\ StepSources'
        BY <1>1, <2>1, <4>2, OthersBegin, BeginningKeeps
      <4>4. QED
        BY <2>1, <2>2, <3>3, <4>3, PyStepAlone
    <3>4. ASSUME NEW t \in plan.allocators, NEW a \in PoolAddrs, Steps!Malloc(t, a) \/ Steps!Free(t, a)
          PROVE  (MarksAlone /\ AloneInv => AloneInv') /\ StepTyped' /\ StepTimes' /\ StepSources'
      <4>1. \E e : /\ IsOther(e) /\ t \in Threads /\ pc[t] = "idle" /\ Steps!Begin(t, e)
                   /\ UNCHANGED <<clock, openRanges, lastRange, Steps!report, Steps!tracker, Steps!history>>
        <5>1. CASE Steps!Malloc(t, a)
          <6>1. PICK e : e = [Steps!NoEvent EXCEPT !.kind = "malloc", !.addr = a]
            OBVIOUS
          <6>2. /\ IsOther(e) /\ t \in Threads /\ pc[t] = "idle" /\ Steps!Begin(t, e)
                /\ UNCHANGED <<clock, openRanges, lastRange, Steps!report, Steps!tracker, Steps!history>>
            BY <2>1, <5>1, <6>1 DEF Steps!Malloc, IsOther
          <6>3. QED
            BY <6>2
        <5>2. CASE Steps!Free(t, a)
          <6>1. PICK e : e = [Steps!NoEvent EXCEPT !.kind = "free", !.addr = a]
            OBVIOUS
          <6>2. /\ IsOther(e) /\ t \in Threads /\ pc[t] = "idle" /\ Steps!Begin(t, e)
                /\ UNCHANGED <<clock, openRanges, lastRange, Steps!report, Steps!tracker, Steps!history>>
            BY <2>1, <5>2, <6>1 DEF Steps!Free, IsOther, Steps!app
          <6>3. QED
            BY <6>2
        <5>3. QED
          BY <3>4, <5>1, <5>2
      <4>2. PICK e : /\ IsOther(e) /\ t \in Threads /\ pc[t] = "idle" /\ Steps!Begin(t, e)
                     /\ UNCHANGED <<clock, openRanges, lastRange, Steps!report, Steps!tracker, Steps!history>>
        BY <4>1
      <4>3. StepTyped' /\ StepTimes' /\ StepSources'
        BY <1>1, <2>1, <4>2, OthersBegin, BeginningKeeps
      <4>4. QED
        BY <2>1, <2>2, <3>4, <4>3, BlockAlone
    <3>5. ASSUME NEW t \in Threads, Steps!Stamp(t)
          PROVE  (MarksAlone /\ AloneInv => AloneInv') /\ StepTyped' /\ StepTimes' /\ StepSources'
      BY <1>1, <2>1, <2>2, <3>5, StampKeeps, StampAlone
    <3>6. ASSUME NEW t \in Threads, Steps!Number(t)
          PROVE  (MarksAlone /\ AloneInv => AloneInv') /\ StepTyped' /\ StepTimes' /\ StepSources'
      BY <1>1, <2>1, <2>2, <3>6, NumberKeeps, NumberAlone
    <3>7. ASSUME NEW t \in Threads, Steps!Send(t)
          PROVE  (MarksAlone /\ AloneInv => AloneInv') /\ StepTyped' /\ StepTimes' /\ StepSources'
      BY <1>1, <2>1, <2>2, <3>7, DeliveryKeeps, SendAlone
    <3>8. QED
      BY <1>3, <3>1, <3>2, <3>3, <3>4, <3>5, <3>6, <3>7 DEF Steps!Next
  <2>4. plan.allocators = {} /\ NoBlocks => NoBlocks'
    BY <1>1, <1>3, NoBlocksStay
  <2>5. MarksAlone' <=> MarksAlone
    BY <2>1 DEF MarksAlone
  <2>6. StepOrder'
    BY <1>1, <2>1, <2>3, <2>4, <2>5 DEF StepOrder
  <2>7. QED
    BY <2>3, <2>6 DEF StepInv
<1>4. QED
  BY <1>2, <1>3

\* Once all is delivered a block is charged to the step that was current at its birth.
LEMMA ChargedRight ==
  ASSUME StepTyped, StepTimes, InTurns, BlocksBorn, Steps!Quiet
  PROVE  \A a \in DOMAIN live : Steps!AllocStep(live[a].ts) = Steps!Opened(live[a].in)
<1>1. /\ Len(boundaries) \in Nat /\ DOMAIN boundaries = 1..Len(boundaries) /\ stamped \in Nat
      /\ \A i \in 1..Len(boundaries) : boundaries[i].ts \in Nat
  BY BoundaryIs DEF StepTyped
<1>2. stamped = Len(boundaries)
  <2>1. \A t \in Threads : ~Marks(t, {"stamp", "number", "send"})
    BY DEF Steps!Quiet, Marks
  <2>2. QED
    BY <2>1 DEF InTurns
<1>3. TAKE a \in DOMAIN live
<1>4. PICK n, ts : n = live[a].in /\ ts = live[a].ts
  OBVIOUS
<1>5. BornAfter(n, ts)
  BY <1>4 DEF BlocksBorn
<1>6. /\ n \in 0..Len(boundaries) /\ ts \in Nat
      /\ \A k \in 1..Len(boundaries) : (k <= n => boundaries[k].ts < ts) /\ (k > n => boundaries[k].ts > ts)
  BY <1>1, <1>2, <1>5 DEF BornAfter
<1> DEFINE S == {i \in DOMAIN boundaries : boundaries[i].ts > ts}
<1>7. PICK f : f = Steps!FirstOf(S)
  OBVIOUS
<1>8. \A k \in 1..Len(boundaries) : k \in S <=> k > n
  BY <1>1, <1>6
<1>9. S \in SUBSET (1..Len(boundaries))
  BY <1>1
<1>10. f = n + 1
  <2> HIDE DEF S
  <2>1. /\ f \in 1..(Len(boundaries) + 1)
        /\ f <= Len(boundaries) => f \in S
        /\ \A i \in S : f <= i
    BY <1>1, <1>7, <1>9, FirstOfIs
  <2>2. n + 1 <= Len(boundaries) => f <= n + 1
    BY <1>1, <1>6, <1>8, <2>1
  <2>3. f <= Len(boundaries) => f > n
    BY <1>1, <1>8, <2>1
  <2>4. QED
    BY <1>1, <1>6, <2>1, <2>2, <2>3
<1>11. Steps!AllocStep(ts) = IF n = 0 THEN 0 ELSE boundaries[n].step
  <2>1. Steps!AllocStep(ts) = IF f - 1 = 0 THEN 0 ELSE boundaries[f - 1].step
    BY <1>7 DEF Steps!AllocStep
  <2>2. f - 1 = n
    BY <1>6, <1>10
  <2>3. QED
    BY <2>1, <2>2
<1>12. n > 0 => boundaries[n].step = IF stepSource = "py" THEN n + 1 ELSE n
  <2>1. n > 0 => n \in DOMAIN boundaries
    BY <1>1, <1>6
  <2>2. QED
    BY <2>1 DEF InTurns
<1>13. Steps!AllocStep(ts) = Steps!Opened(n)
  BY <1>6, <1>11, <1>12 DEF Steps!Opened
<1>14. QED
  BY <1>4, <1>13

\* The invariant implies the properties.
LEMMA StepsImply ==
  ASSUME Steps!StepAssumption, StepInv
  PROVE  /\ Steps!BoundariesAreSteps
         /\ InOneWay => Steps!AllocInCurrentStep /\ Steps!LeaksOutlived
<1>1. Steps!BoundariesAreSteps
  BY DEF StepInv, StepTimes, StepSources, Steps!BoundariesAreSteps
<1>2. ASSUME plan.allocators = {}
      PROVE  Steps!AllocInCurrentStep /\ Steps!LeaksOutlived
  BY <1>2 DEF StepInv, StepOrder, NoBlocks, Steps!AllocInCurrentStep, Steps!LeaksOutlived
<1>3. ASSUME MarksAlone
      PROVE  Steps!AllocInCurrentStep /\ Steps!LeaksOutlived
  <2>1. AloneInv
    BY <1>3 DEF StepInv, StepOrder
  <2>2. Steps!AllocInCurrentStep
    BY <2>1, ChargedRight DEF StepInv, AloneInv, Steps!AllocInCurrentStep
  <2>3. QED
    BY <2>1, <2>2 DEF AloneInv
<1>4. QED
  BY <1>1, <1>2, <1>3 DEF InOneWay

-----------------------------------------------------------------------------
(* HostBook: the books of host memory *)

\* The channels of host memory that hold addresses.
Channels == {"pinned", "cpu"}

\* The books: which values they hold, and how the three of them agree.
BooksAgreed ==
  /\ hostPtrs \in [HostAddrs -> Channels \cup {Book!None}]
  /\ halPtrs \subseteq HostAddrs
  /\ \A a \in halPtrs : hostPtrs[a] = "pinned"
  /\ open \in [HostAddrs -> [Channels -> {0, 1}]]
  /\ Book!OneOpenMalloc

\* Patching: who waits to patch has a thread, and waits only while torch is not
\* patched.
PatchingSafe ==
  /\ handlers \in BOOLEAN /\ pending \in BOOLEAN
  /\ deferred \in [waits : Nat, patches : Nat]
  /\ pending => ~handlers
  /\ Book!PendingIsServed

\* A maker that reports has an address.
MakersSafe ==
  /\ making \in [Makers -> [addr : HostAddrs \cup {Book!None}, at : {"idle", "report", "keep"}]]
  /\ \A m \in Makers : making[m].at = "report" => making[m].addr \in HostAddrs

\* The inductive invariant.
BookInv == BooksAgreed /\ PatchingSafe /\ MakersSafe

-----------------------------------------------------------------------------
(* The books *)

\* A MALLOC of an address nobody has reported keeps the books.
LEMMA MallocKeepsBooks ==
  ASSUME BooksAgreed, NEW a \in HostAddrs, NEW c \in Channels, hostPtrs[a] = Book!None,
         Book!Malloc(a, c), halPtrs' \subseteq halPtrs \cup {a}, a \in halPtrs' => c = "pinned"
  PROVE  BooksAgreed'
<1>1. open[a][c] = 0
  BY DEF BooksAgreed, Book!OneOpenMalloc, Channels, Book!None
<1>2. hostPtrs' \in [HostAddrs -> Channels \cup {Book!None}]
  BY DEF Book!Malloc, BooksAgreed
<1>3. \A b \in HostAddrs : hostPtrs'[b] = IF b = a THEN c ELSE hostPtrs[b]
  BY DEF Book!Malloc, BooksAgreed
<1>4. open' = [open EXCEPT ![a][c] = 1]
  BY <1>1 DEF Book!Malloc, BooksAgreed
<1>5. open' \in [HostAddrs -> [Channels -> {0, 1}]]
  BY <1>4 DEF BooksAgreed
<1>6. \A b \in HostAddrs : \A d \in Channels :
         open'[b][d] = IF b = a /\ d = c THEN 1 ELSE open[b][d]
  BY <1>4 DEF BooksAgreed
<1>7. Book!OneOpenMalloc'
  BY <1>3, <1>5, <1>6 DEF Book!OneOpenMalloc, BooksAgreed, Channels, Book!None
<1>8. halPtrs' \subseteq HostAddrs /\ \A b \in halPtrs' : hostPtrs'[b] = "pinned"
  BY <1>3 DEF BooksAgreed
<1>9. QED
  BY <1>2, <1>5, <1>7, <1>8 DEF BooksAgreed

\* So does a FREE of an address by the channel that has it.
LEMMA FreeKeepsBooks ==
  ASSUME BooksAgreed, NEW a \in HostAddrs, NEW c \in Channels, hostPtrs[a] = c,
         hostPtrs' = [hostPtrs EXCEPT ![a] = Book!None],
         open' = [open EXCEPT ![a][c] = @ - 1],
         halPtrs' \subseteq halPtrs, a \notin halPtrs'
  PROVE  BooksAgreed'
<1>1. open[a][c] = 1
  BY DEF BooksAgreed, Book!OneOpenMalloc, Channels, Book!None
<1>2. hostPtrs' \in [HostAddrs -> Channels \cup {Book!None}]
  BY DEF BooksAgreed
<1>3. \A b \in HostAddrs : hostPtrs'[b] = IF b = a THEN Book!None ELSE hostPtrs[b]
  BY DEF BooksAgreed
<1>4. open' = [open EXCEPT ![a][c] = 0]
  BY <1>1 DEF BooksAgreed
<1>5. open' \in [HostAddrs -> [Channels -> {0, 1}]]
  BY <1>4 DEF BooksAgreed
<1>6. \A b \in HostAddrs : \A d \in Channels :
         open'[b][d] = IF b = a /\ d = c THEN 0 ELSE open[b][d]
  BY <1>4 DEF BooksAgreed
<1>7. Book!OneOpenMalloc'
  BY <1>3, <1>5, <1>6 DEF Book!OneOpenMalloc, BooksAgreed, Channels, Book!None
<1>8. halPtrs' \subseteq HostAddrs /\ \A b \in halPtrs' : hostPtrs'[b] = "pinned"
  BY <1>3 DEF BooksAgreed
<1>9. QED
  BY <1>2, <1>5, <1>7, <1>8 DEF BooksAgreed

\* A step that leaves the books alone keeps them.
LEMMA SameBooks ==
  ASSUME BooksAgreed, UNCHANGED Book!books
  PROVE  BooksAgreed'
BY DEF BooksAgreed, Book!OneOpenMalloc, Book!books

\* The reports of EventReport, in the order of the module.
LEMMA RegisterKeepsBooks ==
  ASSUME BooksAgreed, NEW a \in HostAddrs, Book!ReportHostRegister(a)
  PROVE  BooksAgreed'
<1>1. CASE skip \/ Book!Taken(a, "pinned")
  BY <1>1, SameBooks DEF Book!ReportHostRegister
<1>2. CASE ~(skip \/ Book!Taken(a, "pinned"))
  <2>1. hostPtrs[a] = Book!None /\ Book!Malloc(a, "pinned") /\ halPtrs' = halPtrs \cup {a}
    BY <1>2 DEF Book!ReportHostRegister, Book!Taken
  <2>2. QED
    BY <2>1, MallocKeepsBooks DEF Channels
<1>3. QED
  BY <1>1, <1>2

\* An unregistration leaves them in agreement.
LEMMA UnregisterKeepsBooks ==
  ASSUME BooksAgreed, NEW a \in HostAddrs, Book!ReportHostUnregister(a)
  PROVE  BooksAgreed'
<1>1. CASE skip \/ a \notin halPtrs
  BY <1>1, SameBooks DEF Book!ReportHostUnregister
<1>2. CASE ~(skip \/ a \notin halPtrs)
  <2>1. hostPtrs[a] = "pinned"
    BY <1>2 DEF BooksAgreed
  <2>2. /\ halPtrs' = halPtrs \ {a}
        /\ hostPtrs' = [hostPtrs EXCEPT ![a] = Book!None]
        /\ open' = [open EXCEPT ![a]["pinned"] = @ - 1]
    BY <1>2, <2>1 DEF Book!ReportHostUnregister
  <2>3. QED
    BY <2>1, <2>2, FreeKeepsBooks DEF Channels
<1>3. QED
  BY <1>1, <1>2

\* So does a free of the cpu channel.
LEMMA CpuFreeKeepsBooks ==
  ASSUME BooksAgreed, NEW a \in HostAddrs, Book!ReportCpuFree(a)
  PROVE  BooksAgreed'
<1>1. CASE skip \/ hostPtrs[a] # "cpu"
  BY <1>1, SameBooks DEF Book!ReportCpuFree
<1>2. CASE ~(skip \/ hostPtrs[a] # "cpu")
  <2>1. /\ hostPtrs[a] = "cpu"
        /\ hostPtrs' = [hostPtrs EXCEPT ![a] = Book!None]
        /\ open' = [open EXCEPT ![a]["cpu"] = @ - 1]
        /\ halPtrs' = halPtrs
    BY <1>2 DEF Book!ReportCpuFree
  <2>2. a \notin halPtrs
    BY <2>1 DEF BooksAgreed
  <2>3. QED
    BY <2>1, <2>2, FreeKeepsBooks DEF Channels
<1>3. QED
  BY <1>1, <1>2

\* And a storage that is freed.
LEMMA StorageFreedKeepsBooks ==
  ASSUME BooksAgreed, NEW a \in HostAddrs, Book!StorageFreed(a)
  PROVE  BooksAgreed'
BY CpuFreeKeepsBooks, SameBooks DEF Book!StorageFreed

-----------------------------------------------------------------------------
(* The steps *)

\* The invariant holds at first.
LEMMA BookInit == Book!Init => BookInv
<1> SUFFICES ASSUME Book!Init PROVE BookInv
  OBVIOUS
<1>1. BooksAgreed
  BY DEF Book!Init, BooksAgreed, Book!OneOpenMalloc, Channels, Book!None
<1>2. PatchingSafe
  BY DEF Book!Init, PatchingSafe, Book!PendingIsServed
<1>3. MakersSafe
  BY DEF Book!Init, MakersSafe, Book!Idle, Book!None
<1>4. QED
  BY <1>1, <1>2, <1>3 DEF BookInv

\* Each step keeps the books: eight of them report, the others leave them alone.
LEMMA BooksStep ==
  ASSUME BookInv, [Book!Next]_Book!vars
  PROVE  BooksAgreed'
<1> USE DEF BookInv
<1>1. CASE UNCHANGED Book!vars
  BY <1>1, SameBooks DEF Book!vars
<1>2. ASSUME NEW a \in HostAddrs, Book!Register(a) PROVE BooksAgreed'
  BY <1>2, RegisterKeepsBooks DEF Book!Register
<1>3. ASSUME NEW a \in HostAddrs, Book!Unregister(a) PROVE BooksAgreed'
  BY <1>3, UnregisterKeepsBooks DEF Book!Unregister
<1>4. ASSUME NEW a \in HostAddrs, Book!Collect(a) PROVE BooksAgreed'
  BY <1>4, StorageFreedKeepsBooks, SameBooks DEF Book!Collect
<1>5. ASSUME NEW a \in HostAddrs, Book!Flush(a) PROVE BooksAgreed'
  BY <1>5, StorageFreedKeepsBooks DEF Book!Flush
<1>6. ASSUME NEW m \in Makers, NEW a \in HostAddrs, Book!Make(m, a) PROVE BooksAgreed'
  BY <1>6, SameBooks DEF Book!Make
<1>7. ASSUME NEW m \in Makers, Book!ReportCpuTensor(m) PROVE BooksAgreed'
  <2> DEFINE a == making[m].addr
  <2>1. a \in HostAddrs
    BY <1>7 DEF Book!ReportCpuTensor, MakersSafe
  <2>2. CASE Book!Accepted(a)
    <3>1. hostPtrs[a] = Book!None /\ Book!Malloc(a, "cpu") /\ halPtrs' = halPtrs
      BY <1>7, <2>2 DEF Book!ReportCpuTensor, Book!Accepted, Book!Taken
    <3>2. a \notin halPtrs
      BY <3>1 DEF BooksAgreed, Book!None
    <3>3. QED
      BY <2>1, <3>1, <3>2, MallocKeepsBooks DEF Channels
  <2>3. CASE ~Book!Accepted(a)
    BY <1>7, <2>3, SameBooks DEF Book!ReportCpuTensor
  <2>4. QED
    BY <2>2, <2>3
<1>8. ASSUME NEW m \in Makers, Book!Keep(m) PROVE BooksAgreed'
  BY <1>8, SameBooks DEF Book!Keep
<1>9. CASE Book!SetStep \/ Book!Enable \/ Book!Disable \/ Book!Forget
  BY <1>9, SameBooks DEF Book!SetStep, Book!Enable, Book!Disable, Book!Forget
<1>10. CASE Book!ImportNpu \/ Book!NpuImported \/ Book!OnDeviceReady \/ Book!DeferredEnds \/ Book!DeferredPatches
  BY <1>10, SameBooks DEF Book!ImportNpu, Book!NpuImported, Book!OnDeviceReady, Book!DeferredEnds, Book!DeferredPatches
<1>11. QED
  BY <1>1, <1>2, <1>3, <1>4, <1>5, <1>6, <1>7, <1>8, <1>9, <1>10 DEF Book!Next

\* Patching changes in enables, disables and the four ways to get to patch.
LEMMA PatchingStep ==
  ASSUME BookInv, [Book!Next]_Book!vars
  PROVE  PatchingSafe'
<1> USE DEF BookInv, PatchingSafe, Book!PendingIsServed
<1>1. CASE UNCHANGED Book!patching
  BY <1>1 DEF Book!patching
<1>2. CASE Book!Enable
  <2>1. CASE Book!NpuInitialized
    BY <1>2, <2>1 DEF Book!Enable, Book!RegisterHandlers
  <2>2. CASE ~Book!NpuInitialized
    <3>1. /\ pending' = TRUE /\ handlers' = handlers /\ handlers = FALSE
          /\ deferred' = [deferred EXCEPT !.waits = @ + 1]
      BY <1>2, <2>2 DEF Book!Enable
    <3>2. deferred' \in [waits : Nat, patches : Nat] /\ deferred'.waits > 0
      BY <3>1
    <3>3. QED
      BY <3>1, <3>2
  <2>3. QED
    BY <2>1, <2>2
<1>3. CASE Book!Disable
  BY <1>3 DEF Book!Disable
<1>4. CASE Book!ImportNpu
  BY <1>4 DEF Book!ImportNpu
<1>5. CASE Book!NpuImported
  BY <1>5 DEF Book!NpuImported, Book!RegisterHandlers
<1>6. CASE Book!OnDeviceReady
  BY <1>6 DEF Book!OnDeviceReady
<1>7. CASE Book!DeferredEnds
  BY <1>7 DEF Book!DeferredEnds, Book!GivesUp
<1>8. CASE Book!DeferredPatches
  BY <1>8 DEF Book!DeferredPatches, Book!RegisterHandlers
<1>9. CASE \/ UNCHANGED Book!vars
           \/ \E a \in HostAddrs :
                \/ Book!Register(a) \/ Book!Unregister(a) \/ Book!Collect(a) \/ Book!Flush(a)
                \/ \E m \in Makers : Book!Make(m, a)
           \/ \E m \in Makers : Book!ReportCpuTensor(m) \/ Book!Keep(m)
           \/ Book!SetStep \/ Book!Forget
  BY <1>1, <1>9 DEF Book!vars, Book!Register, Book!Unregister, Book!Collect, Book!Flush, Book!Make, Book!ReportCpuTensor, Book!Keep,
                    Book!SetStep, Book!Forget
<1>10. QED
  BY <1>2, <1>3, <1>4, <1>5, <1>6, <1>7, <1>8, <1>9 DEF Book!Next

\* A maker gets an address in Make only.
LEMMA MakersStep ==
  ASSUME BookInv, [Book!Next]_Book!vars
  PROVE  MakersSafe'
<1> USE DEF BookInv, MakersSafe
<1>1. CASE UNCHANGED making
  BY <1>1
<1>2. ASSUME NEW m \in Makers, NEW a \in HostAddrs, Book!Make(m, a) PROVE MakersSafe'
  BY <1>2 DEF Book!Make
<1>3. ASSUME NEW m \in Makers, Book!ReportCpuTensor(m) PROVE MakersSafe'
  BY <1>3 DEF Book!ReportCpuTensor, Book!Idle
<1>4. ASSUME NEW m \in Makers, Book!Keep(m) PROVE MakersSafe'
  BY <1>4 DEF Book!Keep, Book!Idle
<1>5. CASE \/ UNCHANGED Book!vars
           \/ \E a \in HostAddrs : Book!Register(a) \/ Book!Unregister(a) \/ Book!Collect(a) \/ Book!Flush(a)
           \/ Book!SetStep \/ Book!Enable \/ Book!Disable \/ Book!Forget
           \/ Book!ImportNpu \/ Book!NpuImported \/ Book!OnDeviceReady \/ Book!DeferredEnds \/ Book!DeferredPatches
  BY <1>1, <1>5 DEF Book!vars, Book!python, Book!Register, Book!Unregister, Book!Collect, Book!Flush, Book!SetStep, Book!Enable, Book!Disable,
                    Book!Forget, Book!ImportNpu, Book!NpuImported, Book!OnDeviceReady, Book!DeferredEnds, Book!DeferredPatches
<1>6. QED
  BY <1>2, <1>3, <1>4, <1>5 DEF Book!Next

-----------------------------------------------------------------------------
(* BlockTable: the shards of the table of live blocks *)

\* The slots of a table of capacity cap.
Slots(cap) == 0..cap - 1

\* Every entry can be reached from its home over slots that are not empty.
Reachable(ks, cap, i) ==
  \A j \in Slots(cap) :
    Table!Distance(j, Table!BlockBucketOf(ks[i], cap), cap) < Table!Distance(i, Table!BlockBucketOf(ks[i], cap), cap) => ks[j] # Table!Empty

\* The arrays of a table, without what their entries mean.
IsArrays(t, cap) ==
  /\ cap \in Nat /\ cap > 1
  /\ DOMAIN t.keys = Slots(cap) /\ DOMAIN t.vals = Slots(cap)
  /\ \A i \in Slots(cap) : t.keys[i] \in Addrs \cup {Table!Empty}

\* The table holds the addresses D with the sizes of f, each once and reachable,
\* in the slots other than those of H.
HoldsOutside(t, cap, D, f, H) ==
  /\ IsArrays(t, cap)
  /\ \A i \in Slots(cap) \ H : t.keys[i] # Table!Empty => t.keys[i] \in D /\ t.vals[i] = f[t.keys[i]]
  /\ \A a \in D : a # Table!Empty /\ \E i \in Slots(cap) \ H : t.keys[i] = a
  /\ \A i, j \in Slots(cap) \ H : t.keys[i] # Table!Empty /\ t.keys[i] = t.keys[j] => i = j
  /\ \A i \in Slots(cap) \ H : t.keys[i] # Table!Empty => Reachable(t.keys, cap, i)

\* The table holds D with the sizes of f.
Holds(t, cap, D, f) == HoldsOutside(t, cap, D, f, {})

\* While an entry is removed all but its hole j does, which is not yet empty.
HoldsBut(t, cap, D, f, j) ==
  HoldsOutside(t, cap, D, f, {j}) /\ j \in Slots(cap) /\ t.keys[j] # Table!Empty

\* A slot is empty.
HasRoom(t, cap) == \E i \in Slots(cap) : t.keys[i] = Table!Empty

\* What a probe for a looks for in a table that holds D.
Sought(S, a, D) == S = {a, Table!Empty} \/ (S = {a} /\ a \in D) \/ (S = {Table!Empty} /\ a \notin D)

\* The slot of a, or, if there is none, the empty one where it would be found.
IsPlace(p, t, cap, D, a) ==
  /\ p \in Slots(cap)
  /\ a \in D => t.keys[p] = a
  /\ a \notin D =>
       /\ t.keys[p] = Table!Empty
       /\ \A j \in Slots(cap) :
            Table!Distance(j, Table!BlockBucketOf(a, cap), cap) < Table!Distance(p, Table!BlockBucketOf(a, cap), cap) => t.keys[j] # Table!Empty

\* The inductive invariant.
TableInv ==
  /\ IsFiniteSet(DOMAIN blocks) /\ count = Cardinality(DOMAIN blocks)
  /\ \/ keys = <<>> /\ vals = <<>> /\ DOMAIN blocks = {}
     \/ \E cap \in Nat : count < cap /\ Holds([keys |-> keys, vals |-> vals], cap, DOMAIN blocks, blocks)

-----------------------------------------------------------------------------
(* Distances and probes *)

\* A distance around the end, without the remainder.
LEMMA DistanceIs ==
  ASSUME NEW cap \in Nat, cap > 0, NEW i \in Slots(cap), NEW j \in Slots(cap)
  PROVE  Table!Distance(i, j, cap) = IF i >= j THEN i - j ELSE i + cap - j
BY DEF Table!Distance, Slots

\* It is less than the capacity.
LEMMA DistanceIn ==
  ASSUME NEW cap \in Nat, cap > 0, NEW i \in Slots(cap), NEW j \in Slots(cap)
  PROVE  Table!Distance(i, j, cap) \in Nat /\ Table!Distance(i, j, cap) < cap
BY DistanceIs DEF Slots

\* It is not 0 between two slots, and leads from one to the other.
LEMMA DistanceLeads ==
  ASSUME NEW cap \in Nat, cap > 0, NEW i \in Slots(cap), NEW j \in Slots(cap)
  PROVE  /\ i # j <=> 1 <= Table!Distance(i, j, cap)
         /\ (j + Table!Distance(i, j, cap)) % cap = i
<1> DEFINE d == IF i >= j THEN i - j ELSE i + cap - j
<1>1. Table!Distance(i, j, cap) = d
  BY DistanceIs
<1>2. i \in 0..cap - 1 /\ j \in 0..cap - 1
  BY DEF Slots
<1>3. (i # j <=> 1 <= d) /\ (j + d) % cap = i
  BY <1>2
<1>4. QED
  BY <1>1, <1>3

\* What lies behind k as seen from j is nearer to k than to j.
LEMMA DistanceShrinks ==
  ASSUME NEW cap \in Nat, cap > 0, NEW i \in Slots(cap), NEW j \in Slots(cap), NEW k \in Slots(cap),
         k # j, Table!Distance(k, j, cap) < Table!Distance(i, j, cap)
  PROVE  Table!Distance(i, k, cap) < Table!Distance(i, j, cap)
<1>1. /\ Table!Distance(i, j, cap) = IF i >= j THEN i - j ELSE i + cap - j
      /\ Table!Distance(k, j, cap) = IF k >= j THEN k - j ELSE k + cap - j
      /\ Table!Distance(i, k, cap) = IF i >= k THEN i - k ELSE i + cap - k
  BY DistanceIs
<1>2. QED
  BY <1>1 DEF Slots

\* If j is on the way from h to i, what is on the way from j to i is on that from h.
LEMMA DistanceNests ==
  ASSUME NEW cap \in Nat, cap > 0, NEW h \in Slots(cap), NEW i \in Slots(cap), NEW j \in Slots(cap),
         NEW l \in Slots(cap), Table!Distance(j, h, cap) < Table!Distance(i, h, cap), l # i,
         Table!Distance(l, j, cap) <= Table!Distance(i, j, cap)
  PROVE  Table!Distance(l, h, cap) < Table!Distance(i, h, cap)
<1>1. /\ Table!Distance(j, h, cap) = IF j >= h THEN j - h ELSE j + cap - h
      /\ Table!Distance(i, h, cap) = IF i >= h THEN i - h ELSE i + cap - h
      /\ Table!Distance(l, h, cap) = IF l >= h THEN l - h ELSE l + cap - h
      /\ Table!Distance(l, j, cap) = IF l >= j THEN l - j ELSE l + cap - j
      /\ Table!Distance(i, j, cap) = IF i >= j THEN i - j ELSE i + cap - j
  BY DistanceIs
<1>2. QED
  BY <1>1 DEF Slots

\* The home of an address is a slot.
LEMMA HomeIsSlot ==
  ASSUME Table!TableAssumption, NEW cap \in Nat, cap > 0, NEW a \in Addrs
  PROVE  Table!BlockBucketOf(a, cap) \in Slots(cap)
<1>1. Home[a] \in Nat
  BY DEF Table!TableAssumption
<1>2. QED
  BY <1>1 DEF Table!BlockBucketOf, Slots

\* A table counts as any module does.
LEMMA CardinalityIs ==
  ASSUME NEW S
  PROVE  Table!Cardinality(S) = Cardinality(S)
BY DEF Cardinality, Table!Cardinality

\* The capacity of a table is that of its arrays.
LEMMA CapIs ==
  ASSUME NEW ks, NEW cap \in Nat, cap > 0, DOMAIN ks = Slots(cap)
  PROVE  Table!Cap(ks) = cap
BY FS_Interval, CardinalityIs DEF Table!Cap, Slots

\* A probe stops at a slot it looks for, and no such slot is nearer to the home.
LEMMA ProbeStops ==
  ASSUME Table!TableAssumption, NEW ks, NEW cap \in Nat, cap > 0, DOMAIN ks = Slots(cap),
         NEW a \in Addrs, NEW S, \E i \in Slots(cap) : ks[i] \in S
  PROVE  /\ Table!Probe(ks, a, S) \in Slots(cap) /\ ks[Table!Probe(ks, a, S)] \in S
         /\ \A j \in Slots(cap) : ks[j] \in S =>
              Table!Distance(Table!Probe(ks, a, S), Table!BlockBucketOf(a, cap), cap) <= Table!Distance(j, Table!BlockBucketOf(a, cap), cap)
<1> DEFINE h == Table!BlockBucketOf(a, cap)
           hits == {i \in DOMAIN ks : ks[i] \in S}
           Ways == {Table!Distance(i, h, cap) : i \in hits}
<1>1. h \in Slots(cap)
  BY HomeIsSlot
<1> HIDE DEF h
<1>2. \A i \in Slots(cap) : Table!Distance(i, h, cap) \in Nat
  BY <1>1, DistanceIn
<1>3. Ways \in SUBSET Nat /\ Ways # {}
  BY <1>2
<1>4. PICK w \in Ways : \A v \in Ways : w <= v
  <2> HIDE DEF Ways
  <2>1. QED
    BY <1>3, LeastNat
<1>5. \E i \in hits : \A j \in hits : Table!Distance(i, h, cap) <= Table!Distance(j, h, cap)
  BY <1>4
<1>6. Table!Probe(ks, a, S) = CHOOSE i \in hits : \A j \in hits : Table!Distance(i, h, cap) <= Table!Distance(j, h, cap)
  BY CapIs DEF Table!Probe, h
<1>7. /\ Table!Probe(ks, a, S) \in hits
      /\ \A j \in hits : Table!Distance(Table!Probe(ks, a, S), h, cap) <= Table!Distance(j, h, cap)
  <2> HIDE DEF hits
  <2>1. QED
    BY <1>5, <1>6
<1>8. QED
  BY <1>7 DEF h

\* A table that holds less than its capacity has an empty slot.
LEMMA SlotStaysEmpty ==
  ASSUME NEW t, NEW cap \in Nat, NEW D, NEW f, Holds(t, cap, D, f),
         IsFiniteSet(D), Cardinality(D) < cap
  PROVE  HasRoom(t, cap)
<1>1. SUFFICES ASSUME \A i \in Slots(cap) : t.keys[i] # Table!Empty PROVE FALSE
  BY DEF HasRoom
<1> DEFINE g == [i \in Slots(cap) |-> t.keys[i]]
<1>2. g \in [Slots(cap) -> D]
  BY <1>1 DEF Holds, HoldsOutside
<1>3. IsFiniteSet(Slots(cap)) /\ Cardinality(Slots(cap)) = cap
  BY FS_Interval DEF Slots, Holds, HoldsOutside, IsArrays
<1> HIDE DEF g
<1>4. PICK i, j \in Slots(cap) : i # j /\ g[i] = g[j]
  BY <1>2, <1>3, FS_PigeonHole
<1>5. QED
  BY <1>1, <1>4 DEF g, Holds, HoldsOutside

\* Two slots are not as far from one home.
LEMMA DistancesDiffer ==
  ASSUME NEW cap \in Nat, cap > 0, NEW h \in Slots(cap), NEW i \in Slots(cap), NEW j \in Slots(cap),
         Table!Distance(i, h, cap) = Table!Distance(j, h, cap)
  PROVE  i = j
BY DistanceIs DEF Slots

\* A probe for an address ends at its slot, or, if there is none, at the empty slot
\* where it would be found.
LEMMA ProbeFinds ==
  ASSUME Table!TableAssumption, NEW t, NEW cap \in Nat, NEW D, NEW f, Holds(t, cap, D, f), NEW a \in Addrs,
         NEW S, Sought(S, a, D), HasRoom(t, cap)
  PROVE  IsPlace(Table!Probe(t.keys, a, S), t, cap, D, a)
<1> USE DEF Sought, HasRoom
<1> DEFINE h == Table!BlockBucketOf(a, cap)
           p == Table!Probe(t.keys, a, S)
<1>1. IsArrays(t, cap) /\ cap > 0 /\ DOMAIN t.keys = Slots(cap)
  BY DEF Holds, HoldsOutside, IsArrays
<1>2. a \in D => \E i \in Slots(cap) : t.keys[i] = a
  BY DEF Holds, HoldsOutside
<1>3. \E i \in Slots(cap) : t.keys[i] \in S
  BY <1>2
<1>4. /\ p \in Slots(cap) /\ t.keys[p] \in S
      /\ \A j \in Slots(cap) : t.keys[j] \in S => Table!Distance(p, h, cap) <= Table!Distance(j, h, cap)
  BY <1>1, <1>3, ProbeStops
<1>5. h \in Slots(cap)
  BY <1>1, HomeIsSlot
<1> HIDE DEF p, h
<1>6. \A i \in Slots(cap) : Table!Distance(i, h, cap) \in Nat
  BY <1>1, <1>5, DistanceIn
<1>7. ASSUME a \in D PROVE t.keys[p] = a
  <2>1. PICK i \in Slots(cap) : t.keys[i] = a
    BY <1>2, <1>7
  <2>2. a # Table!Empty
    BY <1>7 DEF Holds, HoldsOutside
  <2>3. Table!Distance(p, h, cap) <= Table!Distance(i, h, cap)
    BY <1>4, <1>7, <2>1
  <2>4. CASE Table!Distance(p, h, cap) < Table!Distance(i, h, cap)
    <3>1. Reachable(t.keys, cap, i)
      BY <2>1, <2>2 DEF Holds, HoldsOutside
    <3>2. t.keys[p] # Table!Empty
      BY <1>4, <2>1, <2>4, <3>1 DEF Reachable, h
    <3>3. QED
      BY <1>4, <1>7, <3>2
  <2>5. CASE Table!Distance(p, h, cap) = Table!Distance(i, h, cap)
    BY <1>1, <1>4, <1>5, <2>1, <2>5, DistancesDiffer
  <2>6. QED
    BY <1>4, <1>6, <2>1, <2>3, <2>4, <2>5
<1>8. ASSUME a \notin D
      PROVE  t.keys[p] = Table!Empty /\ \A j \in Slots(cap) : Table!Distance(j, h, cap) < Table!Distance(p, h, cap) => t.keys[j] # Table!Empty
  <2>1. \A i \in Slots(cap) : t.keys[i] # Table!Empty => t.keys[i] \in D
    BY DEF Holds, HoldsOutside
  <2>2. t.keys[p] = Table!Empty
    BY <1>4, <1>8, <2>1
  <2>3. ASSUME NEW j \in Slots(cap), Table!Distance(j, h, cap) < Table!Distance(p, h, cap), t.keys[j] = Table!Empty
        PROVE  FALSE
    <3>1. t.keys[j] \in S
      BY <1>8, <2>3
    <3>2. Table!Distance(p, h, cap) <= Table!Distance(j, h, cap)
      BY <1>4, <3>1
    <3>3. QED
      BY <1>4, <1>6, <2>3, <3>2
  <2>4. QED
    BY <2>2, <2>3
<1>9. QED
  BY <1>4, <1>7, <1>8 DEF p, h, IsPlace

-----------------------------------------------------------------------------
(* Insertion and growth *)

\* What is written where its address is, or where a probe for it ends, is held.
LEMMA PutHolds ==
  ASSUME Table!TableAssumption, NEW t, NEW cap \in Nat, NEW D, NEW f, Holds(t, cap, D, f), NEW a \in Addrs,
         NEW p, IsPlace(p, t, cap, D, a), NEW size, NEW g, g[a] = size, \A x \in D \ {a} : g[x] = f[x]
  PROVE  Holds(Table!Written(t, p, a, size), cap, D \cup {a}, g)
<1> USE DEF IsPlace
<1> DEFINE u == Table!Written(t, p, a, size)
<1>1. IsArrays(t, cap)
  BY DEF Holds, HoldsOutside
<1>2. /\ DOMAIN u.keys = Slots(cap) /\ DOMAIN u.vals = Slots(cap)
      /\ \A i \in Slots(cap) : u.keys[i] = IF i = p THEN a ELSE t.keys[i]
      /\ \A i \in Slots(cap) : u.vals[i] = IF i = p THEN size ELSE t.vals[i]
  BY <1>1 DEF Table!Written, IsArrays
<1> HIDE DEF u
<1>3. IsArrays(u, cap)
  BY <1>1, <1>2 DEF IsArrays
<1>4. a # Table!Empty
  BY DEF Table!TableAssumption, Table!Empty
<1>5. \A i \in Slots(cap) : i # p /\ t.keys[i] # Table!Empty => t.keys[i] \in D \ {a}
  BY DEF Holds, HoldsOutside
<1>6. ASSUME NEW i \in Slots(cap), u.keys[i] # Table!Empty
      PROVE  u.keys[i] \in D \cup {a} /\ u.vals[i] = g[u.keys[i]]
  <2>1. CASE i = p
    BY <1>2, <2>1
  <2>2. CASE i # p
    <3>1. u.keys[i] \in D \ {a} /\ u.vals[i] = t.vals[i] /\ t.vals[i] = f[t.keys[i]]
      BY <1>2, <1>5, <1>6, <2>2 DEF Holds, HoldsOutside
    <3>2. QED
      BY <1>2, <2>2, <3>1
  <2>3. QED
    BY <2>1, <2>2
<1>7. ASSUME NEW x \in D \cup {a}
      PROVE  x # Table!Empty /\ \E i \in Slots(cap) : u.keys[i] = x
  <2>1. CASE x = a
    BY <1>2, <1>4, <2>1
  <2>2. CASE x # a
    <3>1. x # Table!Empty
      BY <2>2 DEF Holds, HoldsOutside
    <3>2. PICK i \in Slots(cap) : t.keys[i] = x
      BY <2>2 DEF Holds, HoldsOutside
    <3>3. i # p
      BY <2>2, <3>1, <3>2
    <3>4. QED
      BY <1>2, <3>1, <3>2, <3>3
  <2>3. QED
    BY <2>1, <2>2
<1>8. ASSUME NEW i \in Slots(cap), NEW j \in Slots(cap), u.keys[i] # Table!Empty, u.keys[i] = u.keys[j]
      PROVE  i = j
  <2>1. CASE i # p /\ j # p
    BY <1>2, <1>8, <2>1 DEF Holds, HoldsOutside
  <2>2. CASE i = p \/ j = p
    BY <1>2, <1>4, <1>5, <1>8, <2>2
  <2>3. QED
    BY <2>1, <2>2
<1>9. \A i \in Slots(cap) : t.keys[i] # Table!Empty => u.keys[i] # Table!Empty
  BY <1>2, <1>4
<1>10. ASSUME NEW i \in Slots(cap), t.keys[i] # Table!Empty, t.keys[i] = u.keys[i]
       PROVE  Reachable(u.keys, cap, i)
  BY <1>9, <1>10 DEF Holds, HoldsOutside, Reachable
<1>11. ASSUME NEW i \in Slots(cap), u.keys[i] # Table!Empty
       PROVE  Reachable(u.keys, cap, i)
  <2>1. CASE i # p \/ a \in D
    <3>1. t.keys[i] = u.keys[i]
      BY <1>2, <2>1
    <3>2. QED
      BY <1>10, <1>11, <3>1
  <2>2. CASE i = p /\ a \notin D
    BY <1>2, <1>9, <2>2 DEF Reachable
  <2>3. QED
    BY <2>1, <2>2
<1>12. QED
  BY <1>3, <1>6, <1>7, <1>8, <1>11 DEF Holds, HoldsOutside, u

\* A fresh table holds nothing.
LEMMA FreshHolds ==
  ASSUME NEW cap \in Nat, cap > 1, NEW f
  PROVE  Holds(Table!Fresh(cap), cap, {}, f)
BY DEF Table!Fresh, Holds, HoldsOutside, IsArrays, Slots

\* An entry that moves into a larger table comes to those that have.
LEMMA MovedHolds ==
  ASSUME Table!TableAssumption, NEW t, NEW cap \in Nat, NEW D, NEW f, Holds(t, cap, D, f),
         IsFiniteSet(D), Cardinality(D) < cap, NEW i \in 1..cap, NEW to,
         Holds(to, 2 * cap, {t.keys[j] : j \in 0..i - 2} \ {Table!Empty}, f)
  PROVE  Holds(Table!Moved(to, t, i - 1), 2 * cap, {t.keys[j] : j \in 0..i - 1} \ {Table!Empty}, f)
<1> DEFINE a == t.keys[i - 1]
           E == {t.keys[j] : j \in 0..i - 2} \ {Table!Empty}
<1>1. i - 1 \in Slots(cap) /\ (0..i - 2) \subseteq Slots(cap) /\ 2 * cap \in Nat /\ cap < 2 * cap
  BY DEF Slots, Holds, HoldsOutside, IsArrays
<1>2. {t.keys[j] : j \in 0..i - 1} = {t.keys[j] : j \in 0..i - 2} \cup {a}
  <2>1. 0..i - 1 = (0..i - 2) \cup {i - 1}
    OBVIOUS
  <2>2. QED
    BY <2>1
<1>3. CASE a = Table!Empty
  BY <1>2, <1>3 DEF Table!Moved
<1>4. CASE a # Table!Empty
  <2>1. a \in Addrs /\ a \in D /\ f[a] = t.vals[i - 1]
    BY <1>1, <1>4 DEF Holds, HoldsOutside, IsArrays
  <2>2. \A j \in 0..i - 2 : t.keys[j] # a
    BY <1>1, <1>4 DEF Holds, HoldsOutside
  <2>3. a \notin E
    BY <2>2
  <2>4. E \in SUBSET D
    BY <1>1 DEF Holds, HoldsOutside
  <2>5. IsFiniteSet(E) /\ Cardinality(E) <= Cardinality(D) /\ Cardinality(D) \in Nat /\ Cardinality(E) \in Nat
    <3> HIDE DEF E
    <3>1. QED
      BY <2>4, FS_Subset, FS_CardinalityType
  <2> DEFINE twice == 2 * cap
  <2>6. Holds(to, twice, E, f)
    OBVIOUS
  <2>7. twice \in Nat /\ Cardinality(E) < twice
    BY <1>1, <2>5
  <2> DEFINE p == Table!Probe(to.keys, a, {Table!Empty})
  <2> HIDE DEF a, E, twice
  <2>8. IsPlace(p, to, twice, E, a)
    <3>1. HasRoom(to, twice)
      BY <2>5, <2>6, <2>7, SlotStaysEmpty
    <3>2. Sought({Table!Empty}, a, E)
      BY <2>3 DEF Sought
    <3>3. QED
      BY <2>1, <2>6, <2>7, <3>1, <3>2, ProbeFinds
  <2> HIDE DEF p
  <2>9. Holds(Table!Written(to, p, a, f[a]), twice, E \cup {a}, f)
    BY <2>1, <2>6, <2>7, <2>8, PutHolds
  <2>10. Table!Moved(to, t, i - 1) = Table!Written(to, p, a, f[a])
    BY <1>4, <2>1 DEF Table!Moved, a, p
  <2>11. {t.keys[j] : j \in 0..i - 1} \ {Table!Empty} = E \cup {a}
    BY <1>2, <1>4 DEF E
  <2>12. QED
    BY <2>9, <2>10, <2>11 DEF twice
<1>5. QED
  BY <1>3, <1>4

\* The larger table holds what the table held.
LEMMA GrownHolds ==
  ASSUME Table!TableAssumption, NEW t, NEW cap \in Nat, NEW D, NEW f, Holds(t, cap, D, f),
         IsFiniteSet(D), Cardinality(D) < cap
  PROVE  Holds(Table!Grown(t), 2 * cap, D, f)
<1> DEFINE EntriesBefore(i) == {t.keys[j] : j \in 0..i - 1} \ {Table!Empty}
           IsMove(m, n) == m = [i \in 0..n |-> IF i = 0 THEN Table!Fresh(2 * Table!Cap(t.keys)) ELSE Table!Moved(m[i - 1], t, i - 1)]
<1>1. cap > 1 /\ Table!Cap(t.keys) = cap
  BY CapIs DEF Holds, HoldsOutside, IsArrays
\* A function over the slots follows the recursion.
<1>2. \A n \in Nat : \E m : IsMove(m, n)
  <2> DEFINE S == {n \in Nat : ~ \E m : IsMove(m, n)}
  <2>1. SUFFICES S = {}
    OBVIOUS
  <2>2. SUFFICES ASSUME S # {} PROVE FALSE
    OBVIOUS
  <2>3. PICK n \in S : \A k \in S : n <= k
    <3>1. S \in SUBSET Nat
      OBVIOUS
    <3> HIDE DEF S
    <3>2. QED
      BY <2>2, <3>1, LeastNat
  <2>4. CASE n = 0
    <3> DEFINE m == [i \in 0..0 |-> Table!Fresh(2 * Table!Cap(t.keys))]
    <3>1. IsMove(m, 0)
      OBVIOUS
    <3>2. QED
      BY <2>3, <2>4, <3>1
  <2>5. CASE n # 0
    <3>1. n \in Nat /\ n - 1 \in Nat /\ n - 1 \notin S
      <4>1. n \in Nat /\ n - 1 \in Nat
        BY <2>3, <2>5
      <4> HIDE DEF S
      <4>2. QED
        BY <2>3, <4>1
    <3>2. PICK m : IsMove(m, n - 1)
      BY <3>1
    <3> DEFINE g == [i \in 0..n |-> IF i = n THEN Table!Moved(m[n - 1], t, n - 1) ELSE m[i]]
    <3>3. \A i \in 0..n : g[i] = IF i = 0 THEN Table!Fresh(2 * Table!Cap(t.keys)) ELSE Table!Moved(g[i - 1], t, i - 1)
      <4> SUFFICES ASSUME NEW i \in 0..n
                   PROVE  g[i] = IF i = 0 THEN Table!Fresh(2 * Table!Cap(t.keys)) ELSE Table!Moved(g[i - 1], t, i - 1)
        OBVIOUS
      <4>1. CASE i = n
        BY <2>5, <3>1, <4>1
      <4>2. CASE i # n
        <5>1. i \in 0..n - 1 /\ (i # 0 => i - 1 \in 0..n - 1 /\ i - 1 # n)
          BY <3>1, <4>2
        <5>2. m[i] = IF i = 0 THEN Table!Fresh(2 * Table!Cap(t.keys)) ELSE Table!Moved(m[i - 1], t, i - 1)
          BY <3>2, <5>1
        <5>3. g[i] = m[i] /\ (i # 0 => g[i - 1] = m[i - 1])
          BY <3>1, <4>2, <5>1
        <5>4. QED
          BY <5>2, <5>3
      <4>3. QED
        BY <4>1, <4>2
    <3>4. g = [i \in 0..n |-> g[i]]
      OBVIOUS
    <3> HIDE DEF g
    <3>5. IsMove(g, n)
      BY <3>3, <3>4
    <3>6. QED
      BY <2>3, <3>5
  <2>6. QED
    BY <2>4, <2>5
<1>3. PICK m : IsMove(m, cap) /\ Table!Grown(t) = m[cap]
  <2>1. PICK m : IsMove(m, Table!Cap(t.keys))
    BY <1>1, <1>2
  <2>2. \E g : IsMove(g, Table!Cap(t.keys)) /\ Table!Grown(t) = g[Table!Cap(t.keys)]
    BY <2>1 DEF Table!Grown
  <2> HIDE DEF IsMove
  <2>3. QED
    BY <1>1, <2>2
<1>4. ASSUME NEW n \in 0..cap
      PROVE  Holds(m[n], 2 * cap, EntriesBefore(n), f)
  <2> DEFINE S == {k \in 0..cap : ~Holds(m[k], 2 * cap, EntriesBefore(k), f)}
  <2>1. SUFFICES S = {}
    BY Zenon
  <2>2. SUFFICES ASSUME S # {} PROVE FALSE
    OBVIOUS
  <2>3. PICK k \in S : \A j \in S : k <= j
    <3>1. S \in SUBSET Nat
      OBVIOUS
    <3> HIDE DEF S
    <3>2. QED
      BY <2>2, <3>1, LeastNat
  <2>4. CASE k = 0
    <3>1. m[0] = Table!Fresh(2 * Table!Cap(t.keys))
      BY <1>3
    <3>2. EntriesBefore(0) = {}
      OBVIOUS
    <3>3. Holds(Table!Fresh(2 * Table!Cap(t.keys)), 2 * cap, {}, f)
      BY <1>1, FreshHolds
    <3>4. QED
      BY <2>3, <2>4, <3>1, <3>2, <3>3
  <2>5. CASE k # 0
    <3>1. k \in 1..cap /\ k - 1 \in 0..cap /\ k - 1 \notin S
      <4>1. k \in 1..cap /\ k - 1 \in 0..cap
        BY <2>3, <2>5
      <4> HIDE DEF S
      <4>2. QED
        BY <2>3, <4>1
    <3>2. Holds(m[k - 1], 2 * cap, EntriesBefore(k - 1), f)
      BY <3>1
    <3>3. m[k] = Table!Moved(m[k - 1], t, k - 1)
      BY <1>3, <3>1
    <3>4. EntriesBefore(k - 1) = {t.keys[j] : j \in 0..k - 2} \ {Table!Empty}
      BY <3>1
    <3>5. Holds(Table!Moved(m[k - 1], t, k - 1), 2 * cap, {t.keys[j] : j \in 0..k - 1} \ {Table!Empty}, f)
      BY <3>1, <3>2, <3>4, MovedHolds
    <3>6. QED
      BY <2>3, <3>3, <3>5
  <2>6. QED
    BY <2>4, <2>5
<1>5. EntriesBefore(cap) = D
  BY DEF Holds, HoldsOutside, Slots
<1>6. cap \in 0..cap
  OBVIOUS
<1> HIDE DEF EntriesBefore
<1>7. QED
  BY <1>3, <1>4, <1>5, <1>6

-----------------------------------------------------------------------------
(* Removal *)

\* The slot n behind slot j.
LEMMA SlotBehind ==
  ASSUME NEW cap \in Nat, cap > 0, NEW j \in Slots(cap), NEW n \in 1..cap
  PROVE  /\ (j + n) % cap = IF j + n < cap THEN j + n ELSE j + n - cap
         /\ (j + n) % cap \in Slots(cap)
         /\ n < cap => Table!Distance((j + n) % cap, j, cap) = n
<1>1. (j + n) % cap = IF j + n < cap THEN j + n ELSE j + n - cap
  BY DEF Slots
<1>2. (j + n) % cap \in Slots(cap)
  BY <1>1 DEF Slots
<1>3. QED
  BY <1>1, <1>2, DistanceIs DEF Slots

\* The cluster behind an empty slot: what is reached from it without a gap.
LEMMA ClusterIs ==
  ASSUME NEW ks, NEW cap \in Nat, cap > 0, DOMAIN ks = Slots(cap), NEW j \in Slots(cap), ks[j] = Table!Empty
  PROVE  /\ Table!Cluster(ks, j) \subseteq Slots(cap)
         /\ \A k \in Slots(cap) :
              k \in Table!Cluster(ks, j) <=>
                /\ k # j
                /\ \A l \in Slots(cap) :
                     1 <= Table!Distance(l, j, cap) /\ Table!Distance(l, j, cap) <= Table!Distance(k, j, cap) => ks[l] # Table!Empty
<1> DEFINE N == {n \in 1..cap : ks[(j + n) % cap] = Table!Empty}
           IsEnd(n) == ks[(j + n) % cap] = Table!Empty /\ \A m \in 1..n - 1 : ks[(j + m) % cap] # Table!Empty
           end == CHOOSE n \in 1..cap : IsEnd(n)
<1>1. end \in 1..cap /\ IsEnd(end)
  <2>1. cap \in N
    <3>1. (j + cap) % cap = j
      <4>1. cap \in 1..cap /\ j \in 0..cap - 1
        BY DEF Slots
      <4>2. QED
        BY <4>1, SlotBehind
    <3>2. QED
      BY <3>1
  <2>2. N \in SUBSET Nat
    OBVIOUS
  <2> HIDE DEF N
  <2>3. PICK n \in N : \A m \in N : n <= m
    BY <2>1, <2>2, LeastNat
  <2>4. n \in 1..cap /\ IsEnd(n)
    BY <2>3 DEF N
  <2> HIDE DEF IsEnd
  <2>5. QED
    BY <2>4
<1>2. Table!Cluster(ks, j) = {(j + n) % cap : n \in 1..end - 1}
  BY CapIs DEF Table!Cluster
<1> HIDE DEF end
<1>3. Table!Cluster(ks, j) \subseteq Slots(cap)
  BY <1>1, <1>2, SlotBehind
<1>4. ASSUME NEW k \in Table!Cluster(ks, j)
      PROVE  k # j /\ \A l \in Slots(cap) :
               1 <= Table!Distance(l, j, cap) /\ Table!Distance(l, j, cap) <= Table!Distance(k, j, cap) => ks[l] # Table!Empty
  <2>1. PICK n \in 1..end - 1 : k = (j + n) % cap
    BY <1>2, <1>4
  <2>2. n \in 1..cap /\ n < cap /\ n < end
    BY <1>1, <2>1
  <2>3. Table!Distance(k, j, cap) = n
    BY <2>1, <2>2, SlotBehind
  <2>4. k # j
    <3>1. k \in Slots(cap)
      BY <1>3, <1>4
    <3>2. QED
      BY <2>1, <2>3, <3>1, DistanceLeads
  <2>5. ASSUME NEW l \in Slots(cap), 1 <= Table!Distance(l, j, cap), Table!Distance(l, j, cap) <= Table!Distance(k, j, cap)
        PROVE  ks[l] # Table!Empty
    <3> DEFINE d == Table!Distance(l, j, cap)
    <3>1. d \in 1..end - 1 /\ d \in 1..cap
      BY <1>1, <2>2, <2>3, <2>5, DistanceIn
    <3>2. (j + d) % cap = l
      BY DistanceLeads
    <3>3. QED
      BY <1>1, <3>1, <3>2
  <2>6. QED
    BY <2>4, <2>5
<1>5. ASSUME NEW k \in Slots(cap), k # j,
             \A l \in Slots(cap) :
               1 <= Table!Distance(l, j, cap) /\ Table!Distance(l, j, cap) <= Table!Distance(k, j, cap) => ks[l] # Table!Empty
      PROVE  k \in Table!Cluster(ks, j)
  <2> DEFINE d == Table!Distance(k, j, cap)
  <2>1. d \in 1..cap /\ d < cap /\ (j + d) % cap = k
    BY <1>5, DistanceIn, DistanceLeads
  <2>2. d < end
    <3>1. SUFFICES ASSUME end <= d PROVE FALSE
      BY <1>1, <2>1
    <3>2. Table!Distance((j + end) % cap, j, cap) = end /\ (j + end) % cap \in Slots(cap)
      BY <1>1, <2>1, <3>1, SlotBehind
    <3>3. ks[(j + end) % cap] # Table!Empty
      BY <1>1, <1>5, <3>1, <3>2
    <3>4. QED
      BY <1>1, <3>3
  <2>3. d \in 1..end - 1
    BY <1>1, <2>1, <2>2
  <2>4. QED
    BY <1>2, <2>1, <2>3
<1>6. QED
  BY <1>3, <1>4, <1>5

\* A hole that no entry behind it may fill stays: every entry can be reached.
LEMMA HoleRests ==
  ASSUME Table!TableAssumption, NEW t, NEW cap \in Nat, NEW D, NEW f, NEW j, HoldsBut(t, cap, D, f, j), NEW v,
         NEW u, u = Table!Written(t, j, Table!Empty, v),
         \A k \in Table!Cluster(u.keys, j) : ~Table!Movable(j, k, Table!BlockBucketOf(u.keys[k], cap), cap)
  PROVE  Holds(u, cap, D, f)
<1>1. /\ IsArrays(u, cap) /\ u.keys[j] = Table!Empty /\ j \in Slots(cap)
      /\ \A i \in Slots(cap) \ {j} : u.keys[i] = t.keys[i] /\ u.vals[i] = t.vals[i]
  <2>1. IsArrays(t, cap) /\ j \in Slots(cap)
    BY DEF HoldsBut, HoldsOutside
  <2>2. QED
    BY <2>1 DEF Table!Written, IsArrays
<1>2. DOMAIN u.keys = Slots(cap) /\ cap > 0
  BY <1>1 DEF IsArrays
<1>3. ASSUME NEW i \in Slots(cap), u.keys[i] # Table!Empty
      PROVE  Reachable(u.keys, cap, i)
  <2> DEFINE h == Table!BlockBucketOf(u.keys[i], cap)
  <2>1. i # j /\ u.keys[i] = t.keys[i] /\ u.keys[i] \in Addrs
    BY <1>1, <1>3 DEF IsArrays
  <2>2. h \in Slots(cap)
    BY <1>2, <2>1, HomeIsSlot
  <2>3. \A l \in Slots(cap) : Table!Distance(l, h, cap) < Table!Distance(i, h, cap) => t.keys[l] # Table!Empty
    BY <1>3, <2>1 DEF HoldsBut, HoldsOutside, Reachable
  <2> HIDE DEF h
  <2>4. ~(Table!Distance(j, h, cap) < Table!Distance(i, h, cap))
    <3>1. SUFFICES ASSUME Table!Distance(j, h, cap) < Table!Distance(i, h, cap) PROVE FALSE
      OBVIOUS
    <3>2. ASSUME NEW l \in Slots(cap), 1 <= Table!Distance(l, j, cap), Table!Distance(l, j, cap) <= Table!Distance(i, j, cap)
          PROVE  u.keys[l] # Table!Empty
      <4>1. CASE l = i
        BY <1>3, <4>1
      <4>2. CASE l # i
        <5>1. Table!Distance(l, h, cap) < Table!Distance(i, h, cap) /\ l # j
          BY <1>1, <1>2, <2>2, <3>1, <3>2, <4>2, DistanceNests, DistanceLeads
        <5>2. QED
          BY <1>1, <2>3, <5>1
      <4>3. QED
        BY <4>1, <4>2
    <3>3. i \in Table!Cluster(u.keys, j)
      BY <1>1, <1>2, <2>1, <3>2, ClusterIs
    <3>4. ~Table!Movable(j, i, h, cap)
      BY <3>3 DEF h
    <3>5. Table!Distance(j, h, cap) \in Nat /\ Table!Distance(i, h, cap) \in Nat
      BY <1>1, <1>2, <2>2, DistanceIn
    <3>6. QED
      BY <3>1, <3>4, <3>5 DEF Table!Movable
  <2>5. QED
    BY <1>1, <2>3, <2>4 DEF Reachable, h
<1>4. QED
  BY <1>1, <1>3 DEF Holds, HoldsBut, HoldsOutside

\* The entry of slot k goes to the hole j, and leaves one that is farther on.
LEMMA HoleMoves ==
  ASSUME Table!TableAssumption, NEW t, NEW cap \in Nat, NEW D, NEW f, NEW j, HoldsBut(t, cap, D, f, j), NEW v,
         NEW u, u = Table!Written(t, j, Table!Empty, v),
         NEW k \in Table!Cluster(u.keys, j), Table!Movable(j, k, Table!BlockBucketOf(u.keys[k], cap), cap),
         NEW w, w = Table!Written(u, j, u.keys[k], u.vals[k])
  PROVE  /\ HoldsBut(w, cap, D, f, k)
         /\ \A e \in Slots(cap) :
              t.keys[e] = Table!Empty => w.keys[e] = Table!Empty /\ Table!Distance(e, k, cap) < Table!Distance(e, j, cap)
<1>1. /\ IsArrays(u, cap) /\ u.keys[j] = Table!Empty /\ j \in Slots(cap) /\ t.keys[j] # Table!Empty
      /\ \A i \in Slots(cap) \ {j} : u.keys[i] = t.keys[i] /\ u.vals[i] = t.vals[i]
  <2>1. IsArrays(t, cap) /\ j \in Slots(cap) /\ t.keys[j] # Table!Empty
    BY DEF HoldsBut, HoldsOutside
  <2>2. QED
    BY <2>1 DEF Table!Written, IsArrays
<1>2. DOMAIN u.keys = Slots(cap) /\ DOMAIN u.vals = Slots(cap) /\ cap > 0
  BY <1>1 DEF IsArrays
<1>3. /\ k \in Slots(cap) /\ k # j
      /\ \A l \in Slots(cap) :
           1 <= Table!Distance(l, j, cap) /\ Table!Distance(l, j, cap) <= Table!Distance(k, j, cap) => u.keys[l] # Table!Empty
  BY <1>1, <1>2, ClusterIs
<1>4. Table!Distance(k, j, cap) \in Nat /\ 1 <= Table!Distance(k, j, cap)
  BY <1>1, <1>2, <1>3, DistanceIn, DistanceLeads
<1>5. u.keys[k] # Table!Empty /\ u.keys[k] = t.keys[k] /\ u.vals[k] = t.vals[k] /\ t.keys[k] \in Addrs
  BY <1>1, <1>3, <1>4 DEF IsArrays
<1>6. /\ DOMAIN w.keys = Slots(cap) /\ DOMAIN w.vals = Slots(cap)
      /\ w.keys[j] = t.keys[k] /\ w.vals[j] = t.vals[k]
      /\ \A i \in Slots(cap) \ {j} : w.keys[i] = t.keys[i] /\ w.vals[i] = t.vals[i]
  BY <1>1, <1>2, <1>5 DEF Table!Written
<1>7. IsArrays(w, cap)
  BY <1>1, <1>5, <1>6 DEF IsArrays
<1>8. \A i \in Slots(cap) : w.keys[i] # Table!Empty <=> t.keys[i] # Table!Empty
  BY <1>1, <1>5, <1>6
<1>9. ASSUME NEW i \in Slots(cap) \ {k}, w.keys[i] # Table!Empty
      PROVE  Reachable(w.keys, cap, i)
  <2>1. CASE i # j
    <3>1. Reachable(t.keys, cap, i)
      BY <1>8, <1>9, <2>1 DEF HoldsBut, HoldsOutside
    <3>2. QED
      BY <1>6, <1>8, <2>1, <3>1 DEF Reachable
  <2>2. CASE i = j
    <3> DEFINE h == Table!BlockBucketOf(t.keys[k], cap)
    <3>1. Reachable(t.keys, cap, k)
      BY <1>3, <1>5 DEF HoldsBut, HoldsOutside
    <3>2. Table!Distance(j, h, cap) <= Table!Distance(k, h, cap)
      BY <1>5 DEF Table!Movable
    <3>3. h \in Slots(cap)
      BY <1>2, <1>5, HomeIsSlot
    <3> HIDE DEF h
    <3>4. ASSUME NEW l \in Slots(cap), Table!Distance(l, h, cap) < Table!Distance(j, h, cap)
          PROVE  w.keys[l] # Table!Empty
      <4>1. Table!Distance(l, h, cap) < Table!Distance(k, h, cap)
        BY <1>1, <1>2, <1>3, <3>2, <3>3, <3>4, DistanceIn
      <4>2. QED
        BY <1>8, <3>1, <4>1 DEF Reachable, h
    <3>5. QED
      BY <1>6, <2>2, <3>4 DEF Reachable, h
  <2>3. QED
    BY <2>1, <2>2
<1>10. \A i \in Slots(cap) \ {k} : w.keys[i] # Table!Empty => w.keys[i] \in D /\ w.vals[i] = f[w.keys[i]]
  BY <1>3, <1>5, <1>6 DEF HoldsBut, HoldsOutside
<1>11. ASSUME NEW a \in D
       PROVE  a # Table!Empty /\ \E i \in Slots(cap) \ {k} : w.keys[i] = a
  <2>1. a # Table!Empty /\ \E i \in Slots(cap) \ {j} : t.keys[i] = a
    BY DEF HoldsBut, HoldsOutside
  <2>2. PICK i \in Slots(cap) \ {j} : t.keys[i] = a
    BY <2>1
  <2>3. CASE i = k
    BY <1>1, <1>3, <1>6, <2>1, <2>2, <2>3
  <2>4. CASE i # k
    BY <1>6, <2>1, <2>2, <2>4
  <2>5. QED
    BY <2>3, <2>4
<1>12. ASSUME NEW i \in Slots(cap) \ {k}, NEW l \in Slots(cap) \ {k}, w.keys[i] # Table!Empty, w.keys[i] = w.keys[l]
       PROVE  i = l
  BY <1>3, <1>5, <1>6, <1>12 DEF HoldsBut, HoldsOutside
<1>13. ASSUME NEW e \in Slots(cap), t.keys[e] = Table!Empty
       PROVE  w.keys[e] = Table!Empty /\ Table!Distance(e, k, cap) < Table!Distance(e, j, cap)
  <2>1. w.keys[e] = Table!Empty /\ e # j /\ u.keys[e] = Table!Empty
    BY <1>1, <1>8, <1>13
  <2>2. ~(1 <= Table!Distance(e, j, cap) /\ Table!Distance(e, j, cap) <= Table!Distance(k, j, cap))
    BY <1>3, <2>1
  <2>3. QED
    <3>1. /\ Table!Distance(e, j, cap) \in Nat /\ Table!Distance(k, j, cap) \in Nat
          /\ 1 <= Table!Distance(e, j, cap)
      BY <1>1, <1>2, <1>3, <2>1, DistanceIn, DistanceLeads
    <3>2. Table!Distance(k, j, cap) < Table!Distance(e, j, cap)
      BY <2>2, <3>1
    <3>3. QED
      BY <1>1, <1>2, <1>3, <2>1, <3>2, DistanceShrinks
<1>14. QED
  BY <1>3, <1>5, <1>7, <1>8, <1>9, <1>10, <1>11, <1>12, <1>13 DEF HoldsBut, HoldsOutside

\* A table whose removal is done, or one that is on the way: the hole has an empty
\* slot e ahead, nearer with each turn.
IsTurn(p, n, cap, D, f) ==
  /\ p.done => Holds(p.t, cap, D, f)
  /\ ~p.done =>
       /\ HoldsBut(p.t, cap, D, f, p.hole)
       /\ \E e \in Slots(cap) : p.t.keys[e] = Table!Empty /\ Table!Distance(e, p.hole, cap) + n < cap

\* A turn leads to one of these.
LEMMA ShiftedIsTurn ==
  ASSUME Table!TableAssumption, NEW p, NEW n \in Nat, NEW cap \in Nat, NEW D, NEW f,
         IsTurn(p, n, cap, D, f), ~p.done
  PROVE  IsTurn(Table!Shifted(p), n + 1, cap, D, f)
<1> DEFINE j == p.hole
           v == p.t.vals[j]
           u == Table!Written(p.t, j, Table!Empty, v)
           movable == {k \in Table!Cluster(u.keys, j) : Table!Movable(j, k, Table!BlockBucketOf(u.keys[k], cap), cap)}
           Nearest(k) == \A l \in movable : Table!Distance(k, j, cap) <= Table!Distance(l, j, cap)
<1>1. HoldsBut(p.t, cap, D, f, j)
  BY DEF IsTurn
<1>2. PICK e \in Slots(cap) : p.t.keys[e] = Table!Empty /\ Table!Distance(e, j, cap) + n < cap
  BY DEF IsTurn
<1>3. cap > 0 /\ Table!Cap(p.t.keys) = cap /\ j \in Slots(cap)
  BY <1>1, CapIs DEF HoldsBut, HoldsOutside, IsArrays
<1>4. Table!Shifted(p) =
        IF movable = {} THEN [t |-> u, hole |-> j, done |-> TRUE]
        ELSE LET k == CHOOSE k \in movable : Nearest(k)
             IN [t |-> Table!Written(u, j, u.keys[k], u.vals[k]), hole |-> k, done |-> FALSE]
  BY <1>3 DEF Table!Shifted
<1>5. IsArrays(u, cap) /\ u.keys[j] = Table!Empty
  <2>1. IsArrays(p.t, cap) /\ j \in Slots(cap)
    BY <1>1 DEF HoldsBut, HoldsOutside
  <2> HIDE DEF j, v
  <2>2. QED
    BY <2>1 DEF Table!Written, IsArrays
<1>6. CASE movable = {}
  <2>1. \A k \in Table!Cluster(u.keys, j) : ~Table!Movable(j, k, Table!BlockBucketOf(u.keys[k], cap), cap)
    BY <1>6
  <2> HIDE DEF u
  <2>2. Holds(u, cap, D, f)
    BY <1>1, <2>1, HoleRests DEF u
  <2>3. Table!Shifted(p) = [t |-> u, hole |-> j, done |-> TRUE]
    BY <1>4, <1>6
  <2>4. QED
    BY <2>2, <2>3 DEF IsTurn
<1>7. CASE movable # {}
  <2> DEFINE k == CHOOSE k \in movable : Nearest(k)
             w == Table!Written(u, j, u.keys[k], u.vals[k])
  <2>1. k \in movable
    <3>1. IsArrays(u, cap) /\ u.keys[j] = Table!Empty
      BY <1>5
    <3> HIDE DEF u
    <3>2. movable \in SUBSET Slots(cap)
      BY <1>3, <3>1, ClusterIs DEF IsArrays
    <3> HIDE DEF movable
    <3> DEFINE Ways == {Table!Distance(l, j, cap) : l \in movable}
    <3>3. Ways \in SUBSET Nat /\ Ways # {}
      BY <1>3, <1>7, <3>2, DistanceIn
    <3>4. PICK d \in Ways : \A x \in Ways : d <= x
      <4> HIDE DEF Ways
      <4>1. QED
        BY <3>3, LeastNat
    <3>5. \E l \in movable : Nearest(l)
      BY <3>4
    <3> HIDE DEF Nearest
    <3>6. QED
      BY <3>5
  <2>2. Table!Shifted(p) = [t |-> w, hole |-> k, done |-> FALSE]
    <3> HIDE DEF u, j, movable, Nearest
    <3>1. QED
      BY <1>4, <1>7
  <2> HIDE DEF u, j, k
  <2>3. k \in Table!Cluster(u.keys, j) /\ Table!Movable(j, k, Table!BlockBucketOf(u.keys[k], cap), cap)
    BY <2>1
  <2> HIDE DEF w, v
  <2>4. /\ HoldsBut(w, cap, D, f, k)
        /\ w.keys[e] = Table!Empty /\ Table!Distance(e, k, cap) < Table!Distance(e, j, cap)
    BY <1>1, <1>2, <2>3, HoleMoves DEF u, w
  <2>5. Table!Distance(e, k, cap) \in Nat /\ Table!Distance(e, j, cap) \in Nat
    BY <1>2, <1>3, <2>4, DistanceIn DEF HoldsBut
  <2>6. Table!Distance(e, k, cap) + (n + 1) < cap
    BY <1>2, <2>4, <2>5
  <2> HIDE DEF movable
  <2>7. QED
    BY <2>2, <2>4, <2>6 DEF IsTurn
<1>8. QED
  BY <1>6, <1>7

\* A table from which an entry is removed holds the others.
LEMMA RemovedHolds ==
  ASSUME Table!TableAssumption, NEW t, NEW cap \in Nat, NEW D, NEW f, Holds(t, cap, D, f),
         NEW i \in Slots(cap), t.keys[i] # Table!Empty, HasRoom(t, cap)
  PROVE  Holds(Table!RemoveAt(t, i), cap, D \ {t.keys[i]}, f)
<1> DEFINE R == D \ {t.keys[i]}
           first == [t |-> t, hole |-> i, done |-> FALSE]
           IsFill(m, n) ==
             m = [k \in 0..n |-> IF k = 0 THEN first ELSE IF m[k - 1].done THEN m[k - 1] ELSE Table!Shifted(m[k - 1])]
<1>1. cap > 1 /\ Table!Cap(t.keys) = cap
  BY CapIs DEF Holds, HoldsOutside, IsArrays
<1>2. \A n \in Nat : \E m : IsFill(m, n)
  <2> DEFINE S == {n \in Nat : ~ \E m : IsFill(m, n)}
  <2>1. SUFFICES S = {}
    OBVIOUS
  <2>2. SUFFICES ASSUME S # {} PROVE FALSE
    OBVIOUS
  <2>3. PICK n \in S : \A k \in S : n <= k
    <3>1. S \in SUBSET Nat
      OBVIOUS
    <3> HIDE DEF S
    <3>2. QED
      BY <2>2, <3>1, LeastNat
  <2>4. CASE n = 0
    <3> DEFINE m == [k \in 0..0 |-> first]
    <3>1. IsFill(m, 0)
      OBVIOUS
    <3>2. QED
      BY <2>3, <2>4, <3>1
  <2>5. CASE n # 0
    <3>1. n \in Nat /\ n - 1 \in Nat /\ n - 1 \notin S
      <4>1. n \in Nat /\ n - 1 \in Nat
        BY <2>3, <2>5
      <4> HIDE DEF S
      <4>2. QED
        BY <2>3, <4>1
    <3>2. PICK m : IsFill(m, n - 1)
      BY <3>1
    <3> DEFINE Turn(p) == IF p.done THEN p ELSE Table!Shifted(p)
               g == [k \in 0..n |-> IF k = n THEN Turn(m[n - 1]) ELSE m[k]]
    <3>3. \A k \in 0..n : g[k] = IF k = 0 THEN first ELSE Turn(g[k - 1])
      <4> SUFFICES ASSUME NEW k \in 0..n PROVE g[k] = IF k = 0 THEN first ELSE Turn(g[k - 1])
        OBVIOUS
      <4> HIDE DEF first
      <4>1. CASE k = n
        BY <2>5, <3>1, <4>1
      <4>2. CASE k # n
        <5>1. k \in 0..n - 1 /\ (k # 0 => k - 1 \in 0..n - 1 /\ k - 1 # n)
          BY <3>1, <4>2
        <5>2. m[k] = IF k = 0 THEN first ELSE Turn(m[k - 1])
          BY <3>2, <5>1
        <5>3. g[k] = m[k] /\ (k # 0 => g[k - 1] = m[k - 1])
          BY <3>1, <4>2, <5>1
        <5> HIDE DEF Turn
        <5>4. QED
          BY <5>2, <5>3
      <4>3. QED
        BY <4>1, <4>2
    <3>4. g = [k \in 0..n |-> g[k]]
      OBVIOUS
    <3> HIDE DEF g
    <3>5. IsFill(g, n)
      BY <3>3, <3>4
    <3>6. QED
      BY <2>3, <3>5
  <2>6. QED
    BY <2>4, <2>5
<1>3. PICK m : IsFill(m, cap) /\ Table!RemoveAt(t, i) = m[cap].t
  <2>1. PICK m : IsFill(m, Table!Cap(t.keys))
    BY <1>1, <1>2
  <2>2. \E g : IsFill(g, Table!Cap(t.keys)) /\ Table!RemoveAt(t, i) = g[Table!Cap(t.keys)].t
    BY <2>1 DEF Table!RemoveAt
  <2> HIDE DEF IsFill
  <2>3. QED
    BY <1>1, <2>2
<1>4. IsTurn(first, 0, cap, R, f)
  <2>1. HoldsBut(t, cap, R, f, i)
    BY DEF Holds, HoldsBut, HoldsOutside
  <2>2. PICK e \in Slots(cap) : t.keys[e] = Table!Empty
    BY DEF HasRoom
  <2>3. Table!Distance(e, i, cap) \in Nat /\ Table!Distance(e, i, cap) < cap
    BY <1>1, DistanceIn
  <2> HIDE DEF R
  <2>4. QED
    BY <2>1, <2>2, <2>3 DEF IsTurn
<1>5. \A n \in 0..cap : IsTurn(m[n], n, cap, R, f)
  <2> DEFINE S == {n \in 0..cap : ~IsTurn(m[n], n, cap, R, f)}
  <2>1. SUFFICES ASSUME S # {} PROVE FALSE
    OBVIOUS
  <2>2. PICK n \in S : \A k \in S : n <= k
    <3>1. S \in SUBSET Nat
      OBVIOUS
    <3> HIDE DEF S
    <3>2. QED
      BY <2>1, <3>1, LeastNat
  <2>3. CASE n = 0
    BY <1>3, <1>4, <2>2, <2>3
  <2>4. CASE n # 0
    <3>1. n - 1 \in Nat /\ n \in 0..cap /\ n - 1 \in 0..cap /\ n - 1 \notin S
      <4>1. n - 1 \in Nat /\ n \in 0..cap /\ n - 1 \in 0..cap
        BY <2>2, <2>4
      <4> HIDE DEF S
      <4>2. QED
        BY <2>2, <4>1
    <3>2. IsTurn(m[n - 1], n - 1, cap, R, f)
      BY <3>1
    <3>3. m[n] = IF m[n - 1].done THEN m[n - 1] ELSE Table!Shifted(m[n - 1])
      BY <1>3, <2>4, <3>1
    <3>4. CASE m[n - 1].done
      <4>1. IsTurn(m[n], n, cap, R, f)
        BY <3>2, <3>3, <3>4 DEF IsTurn
      <4>2. QED
        BY <2>2, <4>1
    <3>5. CASE ~m[n - 1].done
      <4> DEFINE k == n - 1
                 p == m[k]
      <4>1. k \in Nat /\ n = k + 1
        BY <3>1
      <4> HIDE DEF k, p, R
      <4>2. IsTurn(Table!Shifted(p), k + 1, cap, R, f)
        BY <3>2, <3>5, <4>1, ShiftedIsTurn DEF k, p
      <4>3. QED
        BY <2>2, <3>3, <3>5, <4>1, <4>2 DEF k, p
    <3>6. QED
      BY <3>4, <3>5
  <2>5. QED
    BY <2>3, <2>4
<1>6. IsTurn(m[cap], cap, cap, R, f)
  BY <1>1, <1>5
<1>7. m[cap].done
  <2>1. SUFFICES ASSUME ~m[cap].done PROVE FALSE
    OBVIOUS
  <2>2. PICK e \in Slots(cap) : Table!Distance(e, m[cap].hole, cap) + cap < cap /\ m[cap].hole \in Slots(cap)
    BY <1>6, <2>1 DEF IsTurn, HoldsBut
  <2>3. Table!Distance(e, m[cap].hole, cap) \in Nat
    BY <1>1, <2>2, DistanceIn
  <2>4. QED
    BY <1>1, <2>2, <2>3
<1>8. QED
  BY <1>3, <1>6, <1>7 DEF IsTurn

-----------------------------------------------------------------------------
(* The operations *)

\* The table of the shard.
Arrays == [keys |-> keys, vals |-> vals]

\* An entry put in its place comes to those the table holds.
LEMMA PlaceHolds ==
  ASSUME Table!TableAssumption, NEW t, NEW cap \in Nat, NEW D, NEW f, Holds(t, cap, D, f), NEW a \in Addrs,
         HasRoom(t, cap), NEW size, NEW g, g[a] = size, \A x \in D \ {a} : g[x] = f[x]
  PROVE  Holds(Table!Written(t, Table!Probe(t.keys, a, {a, Table!Empty}), a, size), cap, D \cup {a}, g)
<1> DEFINE p == Table!Probe(t.keys, a, {a, Table!Empty})
<1>1. Sought({a, Table!Empty}, a, D)
  BY DEF Sought
<1>2. IsPlace(p, t, cap, D, a)
  BY <1>1, ProbeFinds
<1> HIDE DEF p
<1>3. Holds(Table!Written(t, p, a, size), cap, D \cup {a}, g)
  BY <1>2, PutHolds
<1>4. QED
  BY <1>3 DEF p

\* What the table finds.
LEMMA HasIs ==
  ASSUME Table!TableAssumption, NEW t, NEW cap \in Nat, NEW D, NEW f, Holds(t, cap, D, f), NEW a \in Addrs,
         HasRoom(t, cap)
  PROVE  Table!Has(t.keys, a) <=> a \in D
<1> DEFINE p == Table!Probe(t.keys, a, {a, Table!Empty})
<1>1. (a \in D => t.keys[p] = a) /\ (a \notin D => t.keys[p] = Table!Empty)
  <2>1. Sought({a, Table!Empty}, a, D)
    BY DEF Sought
  <2>2. IsPlace(p, t, cap, D, a)
    BY <2>1, ProbeFinds
  <2> HIDE DEF p
  <2>3. QED
    BY <2>2 DEF IsPlace
<1>2. a # Table!Empty
  BY DEF Table!TableAssumption, Table!Empty
<1>3. t.keys # <<>>
  <2>1. 0 \in DOMAIN t.keys
    BY DEF Holds, HoldsOutside, IsArrays, Slots
  <2>2. QED
    BY <2>1
<1> HIDE DEF p
<1>4. Table!Has(t.keys, a) <=> t.keys[p] = a
  BY <1>3 DEF Table!Has, p
<1>5. QED
  BY <1>1, <1>2, <1>4

\* The addresses a table holds are those of blocks.
LEMMA HeldAreAddresses ==
  ASSUME NEW t, NEW cap \in Nat, NEW D, NEW f, Holds(t, cap, D, f)
  PROVE  D \in SUBSET Addrs
BY DEF Holds, HoldsOutside, IsArrays

\* With room made for another entry the table holds what it did.
LEMMA RoomyHolds ==
  ASSUME Table!TableAssumption, TableInv, NEW t \in Table!Roomy
  PROVE  \E cap \in Nat : count + 1 < cap /\ Holds(t, cap, DOMAIN blocks, blocks)
<1>1. count \in Nat
  BY FS_CardinalityType DEF TableInv
<1>2. CASE keys = <<>>
  <2>1. t = Table!Fresh(InitCap)
    BY <1>2 DEF Table!Roomy
  <2>2. DOMAIN blocks = {}
    <3>1. SUFFICES ASSUME NEW cap \in Nat, Holds(Arrays, cap, DOMAIN blocks, blocks) PROVE FALSE
      BY DEF TableInv, Arrays
    <3>2. 0 \in DOMAIN keys
      BY <3>1 DEF Arrays, Holds, HoldsOutside, IsArrays, Slots
    <3>3. QED
      BY <1>2, <3>2
  <2>3. count = 0
    BY <2>2, FS_EmptySet DEF TableInv
  <2>4. InitCap \in Nat /\ InitCap > 1
    BY DEF Table!TableAssumption
  <2>5. Holds(t, InitCap, DOMAIN blocks, blocks)
    BY <2>1, <2>2, <2>4, FreshHolds
  <2>6. QED
    BY <2>3, <2>4, <2>5
<1>3. CASE keys # <<>>
  <2>1. PICK cap \in Nat : count < cap /\ Holds(Arrays, cap, DOMAIN blocks, blocks)
    BY <1>3 DEF TableInv, Arrays
  <2>2. Table!Cap(keys) = cap
    <3>1. cap > 0 /\ DOMAIN keys = Slots(cap)
      BY <2>1 DEF Arrays, Holds, HoldsOutside, IsArrays
    <3>2. QED
      BY <3>1, CapIs
  <2>3. CASE Table!Fits(cap)
    <3>1. t = Arrays
      BY <1>3, <2>2, <2>3 DEF Table!Roomy, Arrays
    <3>2. count + 1 < cap
      BY <1>1, <2>3 DEF Table!Fits
    <3>3. QED
      BY <2>1, <3>1, <3>2
  <2>4. CASE ~Table!Fits(cap)
    <3>1. t = Table!Grown(Arrays) /\ count + 1 < cap
      BY <1>1, <1>3, <2>2, <2>4 DEF Table!Roomy, Arrays
    <3> DEFINE twice == 2 * cap
    <3>2. Holds(Table!Grown(Arrays), twice, DOMAIN blocks, blocks)
      BY <2>1, GrownHolds DEF TableInv
    <3>3. twice \in Nat /\ count + 1 < twice
      BY <1>1, <3>1
    <3> HIDE DEF twice
    <3>4. QED
      BY <3>1, <3>2, <3>3
  <2>5. QED
    BY <2>3, <2>4
<1>4. QED
  BY <1>2, <1>3

\* InsertBlock keeps the invariant.
LEMMA InsertKeeps ==
  ASSUME Table!TableAssumption, TableInv, NEW a \in Addrs, NEW size, Table!InsertBlock(a, size)
  PROVE  TableInv'
<1> DEFINE D == DOMAIN blocks
<1>1. PICK t \in Table!Roomy : /\ Table!Becomes(Table!Written(t, Table!Probe(t.keys, a, {a, Table!Empty}), a, size))
                         /\ count' = IF Table!Has(t.keys, a) THEN count ELSE count + 1
  BY DEF Table!InsertBlock
<1>2. PICK cap \in Nat : count + 1 < cap /\ Holds(t, cap, D, blocks)
  BY RoomyHolds
<1>3. IsFiniteSet(D) /\ Cardinality(D) \in Nat /\ count = Cardinality(D)
  BY FS_CardinalityType DEF TableInv
<1>4. HasRoom(t, cap)
  <2>1. Cardinality(D) < cap
    BY <1>2, <1>3
  <2> HIDE DEF D
  <2>2. QED
    BY <1>2, <1>3, <2>1, SlotStaysEmpty
<1> DEFINE p == Table!Probe(t.keys, a, {a, Table!Empty})
<1>6. DOMAIN blocks' = D \cup {a} /\ blocks'[a] = size /\ \A x \in D \ {a} : blocks'[x] = blocks[x]
  BY DEF Table!InsertBlock
<1>7. Holds(Table!Written(t, p, a, size), cap, D \cup {a}, blocks')
  <2> DEFINE g == blocks'
  <2>1. g[a] = size /\ \A x \in D \ {a} : g[x] = blocks[x]
    BY <1>6
  <2> HIDE DEF D, p, g
  <2>2. Holds(Table!Written(t, p, a, size), cap, D \cup {a}, g)
    BY <1>2, <1>4, <2>1, PlaceHolds DEF p
  <2>3. QED
    BY <2>2 DEF g
<1>8. [keys |-> keys', vals |-> vals'] = Table!Written(t, p, a, size)
  BY <1>1 DEF Table!Becomes, Table!Written
<1>9. Table!Has(t.keys, a) <=> a \in D
  <2> HIDE DEF D
  <2>1. QED
    BY <1>2, <1>4, HasIs
<1>10. IsFiniteSet(D \cup {a}) /\ count' = Cardinality(D \cup {a}) /\ count' < cap
  <2>1. /\ IsFiniteSet(D \cup {a})
        /\ Cardinality(D \cup {a}) = IF a \in D THEN Cardinality(D) ELSE Cardinality(D) + 1
    BY <1>3, FS_AddElement
  <2> HIDE DEF D
  <2>2. QED
    BY <1>1, <1>2, <1>3, <1>9, <2>1
<1> HIDE DEF D, p
<1>11. QED
  BY <1>6, <1>7, <1>8, <1>10 DEF TableInv

\* CaptureAndRemoveBlock does.
LEMMA RemoveKeeps ==
  ASSUME Table!TableAssumption, TableInv, NEW a \in Addrs, Table!CaptureAndRemoveBlock(a)
  PROVE  TableInv'
<1> DEFINE D == DOMAIN blocks
<1>1. keys # <<>>
  BY DEF Table!CaptureAndRemoveBlock, Table!Has
<1>2. PICK cap \in Nat : count < cap /\ Holds(Arrays, cap, D, blocks)
  BY <1>1 DEF TableInv, Arrays
<1>3. IsFiniteSet(D) /\ Cardinality(D) \in Nat /\ count = Cardinality(D)
  BY FS_CardinalityType DEF TableInv
<1>4. HasRoom(Arrays, cap)
  <2> HIDE DEF D
  <2>1. QED
    BY <1>2, <1>3, SlotStaysEmpty
<1>5. a \in D
  <2> HIDE DEF D
  <2>1. Table!Has(Arrays.keys, a) <=> a \in D
    BY <1>2, <1>4, HasIs
  <2>2. QED
    BY <2>1 DEF Table!CaptureAndRemoveBlock, Arrays
<1> DEFINE p == Table!Probe(Arrays.keys, a, {a})
<1>6. p \in Slots(cap) /\ Arrays.keys[p] = a
  <2> HIDE DEF D
  <2>1. Sought({a}, a, D)
    BY <1>5 DEF Sought
  <2>2. IsPlace(p, Arrays, cap, D, a)
    BY <1>2, <1>4, <2>1, ProbeFinds
  <2> HIDE DEF p
  <2>3. QED
    BY <1>5, <2>2 DEF IsPlace
<1>7. a # Table!Empty
  BY DEF Table!TableAssumption, Table!Empty
<1>8. Holds(Table!RemoveAt(Arrays, p), cap, D \ {a}, blocks)
  <2> HIDE DEF D, p
  <2>1. Holds(Table!RemoveAt(Arrays, p), cap, D \ {Arrays.keys[p]}, blocks)
    BY <1>2, <1>4, <1>6, <1>7, RemovedHolds
  <2>2. QED
    BY <1>6, <2>1
<1>9. keys' = Table!RemoveAt(Arrays, p).keys /\ vals' = Table!RemoveAt(Arrays, p).vals
  BY DEF Table!CaptureAndRemoveBlock, Table!Becomes, Arrays
<1>10. DOMAIN blocks' = D \ {a} /\ \A x \in D \ {a} : blocks'[x] = blocks[x]
  BY DEF Table!CaptureAndRemoveBlock
<1>11. IsFiniteSet(D \ {a}) /\ count' = Cardinality(D \ {a}) /\ count' < cap
  <2>1. IsFiniteSet(D \ {a}) /\ Cardinality(D \ {a}) = Cardinality(D) - 1
    BY <1>3, <1>5, FS_RemoveElement
  <2>2. count' = count - 1
    BY DEF Table!CaptureAndRemoveBlock
  <2> HIDE DEF D
  <2>3. QED
    BY <1>2, <1>3, <2>1, <2>2
<1>12. Holds([keys |-> keys', vals |-> vals'], cap, D \ {a}, blocks')
  <2> DEFINE r == Table!RemoveAt(Arrays, p)
             g == blocks'
             u == [keys |-> keys', vals |-> vals']
  <2>1. u.keys = r.keys /\ u.vals = r.vals /\ Holds(r, cap, D \ {a}, blocks) /\ \A x \in D \ {a} : g[x] = blocks[x]
    BY <1>8, <1>9, <1>10
  <2> HIDE DEF D, r, g, u
  <2>2. Holds(u, cap, D \ {a}, g)
    BY <2>1 DEF Holds, HoldsOutside, IsArrays
  <2>3. QED
    BY <2>2 DEF g, u
<1> HIDE DEF D, p
<1>13. QED
  BY <1>10, <1>11, <1>12 DEF TableInv

\* The table starts with no arrays.
LEMMA TableInit ==
  ASSUME Table!Init
  PROVE  TableInv
<1>1. DOMAIN blocks = {}
  BY DEF Table!Init
<1>2. QED
  BY <1>1, FS_EmptySet DEF Table!Init, TableInv

\* Every step keeps the invariant.
LEMMA TableNext ==
  ASSUME Table!TableAssumption, TableInv, [Table!Next]_Table!vars
  PROVE  TableInv'
<1>1. ASSUME NEW a \in Addrs, NEW size \in Sizes, Table!InsertBlock(a, size)
      PROVE  TableInv'
  BY <1>1, InsertKeeps
<1>2. ASSUME NEW a \in Addrs, Table!CaptureAndRemoveBlock(a)
      PROVE  TableInv'
  BY <1>2, RemoveKeeps
<1>3. CASE UNCHANGED Table!vars
  BY <1>3 DEF Table!vars, TableInv
<1>4. QED
  BY <1>1, <1>2, <1>3 DEF Table!Next

\* A table that holds a map is that map.
LEMMA TableImplies ==
  ASSUME Table!TableAssumption, TableInv
  PROVE  Table!TableIsMap
<1> DEFINE D == DOMAIN blocks
<1>1. CASE keys = <<>> /\ D = {}
  <2>1. DOMAIN keys = {}
    BY <1>1
  <2>2. \A a \in Addrs : Table!Has(keys, a) <=> FALSE
    BY <1>1 DEF Table!Has
  <2>3. count = Cardinality(D)
    BY DEF TableInv
  <2>4. {keys[i] : i \in DOMAIN keys} \ {Table!Empty} = D
    BY <1>1, <2>1
  <2>5. QED
    BY <1>1, <2>2, <2>3, <2>4, CardinalityIs DEF Table!TableIsMap, Table!FindsExactly, Table!ProbesEnd
<1>2. CASE ~(keys = <<>> /\ D = {})
  <2>1. PICK cap \in Nat : count < cap /\ Holds(Arrays, cap, D, blocks)
    BY <1>2 DEF TableInv, Arrays
  <2>2. IsFiniteSet(D) /\ count = Cardinality(D)
    BY DEF TableInv
  <2> HIDE DEF D
  <2>3. HasRoom(Arrays, cap)
    BY <2>1, <2>2, SlotStaysEmpty
  <2>4. \A a \in Addrs : Table!Has(Arrays.keys, a) <=> a \in D
    BY <2>1, <2>3, HasIs
  <2>5. ASSUME NEW a \in D
        PROVE  Arrays.vals[Table!Probe(Arrays.keys, a, {a})] = blocks[a]
    <3>1. a \in Addrs /\ a # Table!Empty
      BY <2>1, HeldAreAddresses DEF Table!TableAssumption, Table!Empty
    <3> DEFINE p == Table!Probe(Arrays.keys, a, {a})
    <3>2. p \in Slots(cap) /\ Arrays.keys[p] = a
      <4>1. Sought({a}, a, D)
        BY DEF Sought
      <4>2. IsPlace(p, Arrays, cap, D, a)
        BY <2>1, <2>3, <3>1, <4>1, ProbeFinds
      <4> HIDE DEF p
      <4>3. QED
        BY <4>2 DEF IsPlace
    <3> HIDE DEF p
    <3>3. Arrays.vals[p] = blocks[a]
      BY <2>1, <3>1, <3>2 DEF Holds, HoldsOutside
    <3>4. QED
      BY <3>3 DEF p
  <2>6. DOMAIN keys = Slots(cap)
    BY <2>1 DEF Arrays, Holds, HoldsOutside, IsArrays
  <2>7. {keys[i] : i \in DOMAIN keys} \ {Table!Empty} = D
    <3>1. \A i \in Slots(cap) : keys[i] # Table!Empty => keys[i] \in D
      BY <2>1 DEF Arrays, Holds, HoldsOutside
    <3>2. \A a \in D : a # Table!Empty /\ \E i \in Slots(cap) : keys[i] = a
      BY <2>1 DEF Arrays, Holds, HoldsOutside
    <3>3. QED
      BY <2>6, <3>1, <3>2
  <2>8. Arrays.keys = keys /\ Arrays.vals = vals
    BY DEF Arrays
  <2>9. Table!ProbesEnd
    BY <2>3, <2>6, <2>8 DEF Table!ProbesEnd, HasRoom
  <2>10. Table!FindsExactly
    BY <2>2, <2>4, <2>5, <2>7, <2>8, CardinalityIs DEF Table!FindsExactly, D
  <2>11. QED
    BY <2>9, <2>10 DEF Table!TableIsMap
<1>3. QED
  BY <1>1, <1>2

-----------------------------------------------------------------------------
(* Theorems: each part keeps its invariant, which implies its property *)

\* A step is one of the part of the behaviour.
LEMMA StepsOfParts ==
  ASSUME [Next]_vars
  PROVE  /\ part' = part
         /\ part = "link" => [Link!Next]_Link!vars
         /\ part = "watch" => [Watch!Next]_Watch!vars
         /\ part = "gaps" => [Gaps!Next]_Gaps!vars
         /\ part = "ids" => [Ids!Next]_Ids!vars
         /\ part = "steps" => [Steps!Next]_Steps!vars
         /\ part = "frames" => [Frames!Next]_Frames!vars
         /\ part = "book" => [Book!Next]_Book!vars
         /\ part = "blocks" => [Table!Next]_Table!vars
<1>1. CASE Next
  BY <1>1 DEF Next, NextOf
<1>2. CASE UNCHANGED vars
  BY <1>2 DEF vars, linkVars, watchVars, gapsVars, idsVars, stepsVars, framesVars, bookVars, blocksVars,
              Link!vars, Watch!vars, Gaps!vars, Ids!vars, Frames!vars, Book!vars, Table!vars,
              Book!books, Book!memory, Book!python, Book!patching,
              Steps!vars, Steps!app, Steps!report, Steps!tracker, Steps!history
<1>3. QED
  BY <1>1, <1>2

\* Executions bear the names of their launches, for any threads, task keys and
\* buffers, unless a read of the log was thrown away (KernelLink).
THEOREM NamesStayRight == Spec => []NamesRight
<1> DEFINE Kept == part = "link" => LinkInv
<1>1. Init => Kept
  BY LinkInit, LinkParameters DEF Init, InitOf
<1>2. Kept /\ [Next]_vars => Kept'
  BY StepsOfParts, LinkNext, LinkParameters
<1>3. Kept => NamesRight
  BY LinkParameters DEF NamesRight, LinkInv
<1>4. QED
  BY <1>1, <1>2, <1>3, PTL DEF Spec

\* Dumps are as many as were asked for and on both sides of what is watched, for
\* any workers, addresses, outputs and limits (MemoryWatch).
THEOREM DumpsStayAsAsked == Spec => []DumpsAsAsked
<1> DEFINE Kept == part = "watch" => WatchInv
<1>1. Init => Kept
  BY WatchInit, WatchParameters DEF Init, InitOf
<1>2. Kept /\ [Next]_vars => Kept'
  BY StepsOfParts, WatchNext, WatchParameters
<1>3. Kept => DumpsAsAsked
  BY WatchImplies, WatchParameters DEF DumpsAsAsked
<1>4. QED
  BY <1>1, <1>2, <1>3, PTL DEF Spec

\* The extremes of a pool are those of what it counted, for any pools, totals and
\* steps (HealthGaps).
THEOREM GapsStayExact == Spec => []GapsExact
<1> DEFINE Kept == part = "gaps" => GapsInv
<1>1. Init => Kept
  BY GapsInit, GapsParameters DEF Init, InitOf
<1>2. Kept /\ [Next]_vars => Kept'
  BY StepsOfParts, GapsNext, GapsParameters
<1>3. Kept => GapsExact
  BY GapsImply, GapsParameters DEF GapsExact
<1>4. QED
  BY <1>1, <1>2, <1>3, PTL DEF Spec

\* Events bear the numbers of their cards, for any environment and any machine, but
\* for what the translation cannot know and an old interface (DeviceIds).
THEOREM IdsStayPhysical == Spec => []IdsArePhysical
<1> DEFINE Kept == part = "ids" => IdsInv
<1>1. Init => Kept
  BY IdsInit, IdsParameters DEF Init, InitOf
<1>2. Kept /\ [Next]_vars => Kept'
  BY StepsOfParts, IdsNext, IdsParameters
<1>3. Kept => IdsArePhysical
  BY IdsImply, IdsParameters DEF IdsArePhysical
<1>4. QED
  BY <1>1, <1>2, <1>3, PTL DEF Spec

\* The boundaries of steps are in order and from one source, for any application
\* that marks steps; where one thread marks them, in one way and without other
\* ranges, a block is charged to the step it was allocated in, and what is called a
\* leak has outlived its step (StepTracking: SetStepInfo, ReportMark and
\* ReportPyStepRecord of EventReport, StepTracker, LeakAnalyzer).
THEOREM StepsStayRight ==
  Spec => [](/\ part = "steps" => Steps!BoundariesAreSteps
             /\ (part = "steps" => InOneWay) => StepsRight)
<1> DEFINE Kept == part = "steps" => StepInv
<1>1. Init => Kept
  BY StepInit, StepsParameters DEF Init, InitOf
<1>2. Kept /\ [Next]_vars => Kept'
  BY StepsOfParts, StepNext, StepsParameters
<1>3. Kept => /\ part = "steps" => Steps!BoundariesAreSteps
              /\ (part = "steps" => InOneWay) => StepsRight
  BY StepsImply, StepsParameters DEF StepsRight
<1>4. QED
  BY <1>1, <1>2, <1>3, PTL DEF Spec

\* Responses arrive whole, for any texts, limits of a frame and capacities of the
\* socket (ControlFrames).
THEOREM ResponsesStayWhole == Spec => []ResponsesWhole
<1> DEFINE Kept == part = "frames" => FramesInv
<1>1. Init => Kept
  BY FramesInit, FramesParameters DEF Init, InitOf
<1>2. Kept /\ [Next]_vars => Kept'
  BY StepsOfParts, FramesNext, FramesParameters
<1>3. Kept => ResponsesWhole
  BY FramesImply, FramesParameters DEF ResponsesWhole
<1>4. QED
  BY <1>1, <1>2, <1>3, PTL DEF Spec

\* The books of host memory are kept: an address of the host is never open in two
\* channels or twice in one, no FREE comes without its MALLOC, and a pending enable
\* has a thread that will patch (HostBook: ReportHostRegister, ReportHostUnregister
\* and ReportCpuTensor of EventReport; cpu_tensor_collection.py); and the table of
\* heap blocks is the map of them, for any hash and any history of insertions,
\* growths and removals (BlockTable: BlockShard of host_mem_hooks.cpp).
THEOREM BooksAreKept == Spec => []BooksKept
<1> DEFINE Kept == (part = "book" => BookInv) /\ (part = "blocks" => TableInv)
<1>1. Init => Kept
  BY BookInit, TableInit DEF Init, InitOf
<1>2. Kept /\ [Next]_vars => Kept'
  <2>1. BookInv /\ [Book!Next]_Book!vars => BookInv'
    BY BooksStep, PatchingStep, MakersStep DEF BookInv
  <2>2. TableInv /\ [Table!Next]_Table!vars => TableInv'
    BY TableNext, TableParameters
  <2>3. QED
    BY <2>1, <2>2, StepsOfParts
<1>3. Kept => BooksKept
  <2>1. BookInv => Book!BooksKept
    BY DEF BookInv, BooksAgreed, PatchingSafe, Book!BooksKept
  <2>2. TableInv => Table!TableIsMap
    BY TableImplies, TableParameters
  <2>3. QED
    BY <2>1, <2>2 DEF BooksKept
<1>4. QED
  BY <1>1, <1>2, <1>3, PTL DEF Spec
=============================================================================
