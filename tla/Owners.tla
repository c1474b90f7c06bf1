------------------------------- MODULE Owners -------------------------------
(***************************************************************************)
(* Who owns a block (describe_trace.cpp and decompose_analyzer.cpp).       *)
(* Framework hooks open labels of a level and users open labels of their   *)
(* own; both are kept per thread, in stacks of bounded height.  A block    *)
(* takes the labels of the thread that allocates it; an address can be     *)
(* labelled directly, and an operator that touches a block marks it        *)
(* weakly.  --events and shadow mode decide whether an allocation is seen. *)
(*                                                                         *)
(* Of the system's levels there are two, one of them the level of the weak *)
(* mark.  Labels have no characters that ToSafeString replaces.            *)
(***************************************************************************)
EXTENDS Integers, Sequences, SequencesExt

CONSTANTS
  Threads,   \* threads of the application
  Blocks,    \* blocks
  Contexts,  \* thread -> what it may open: records [level, label], of hooks or users
  Direct,    \* what an address may be labelled with
  MaxStack,  \* maxStackSize, 3 in the code and no more
  MaxOpen,   \* thread -> bound on the labels it has open
  MaxLater   \* bound on the labels opened and closed while there are blocks

VARIABLES
  open,      \* thread -> the contexts the program is in, in their order
  system,    \* thread -> level -> the stack of labels with their counts
  user,      \* thread -> the stack of labels
  owner,     \* live block -> level or user position -> label
  overfull,  \* history: threads that dropped a label since they last were in no context
  bornIn,    \* history: live block -> what is to be known of it
  later      \* labels opened and closed since there are blocks

vars == <<open, system, user, owner, overfull, bornIn, later>>

Levels == {"process", "detail"}
UserPlaces == <<"USER_DEFINED_1", "USER_DEFINED_2", "USER_DEFINED_3">>
Places == Levels \cup {UserPlaces[i] : i \in 1..MaxStack}
NoLabel == "none"
Ops == "aten"

Nothing == [p \in {} |-> NoLabel]
IsUser(c) == c.level = "user"
OpenWith(t, level) == SelectSeq(open[t], LAMBDA c : c.level = level)

-----------------------------------------------------------------------------
(* DescribeTrace *)

Changes ==
  IF DOMAIN owner = {} THEN later' = 0 ELSE later < MaxLater /\ later' = later + 1

Enter(t, c, drops) ==
  /\ Changes
  /\ Len(open[t]) < MaxOpen[t]
  /\ open' = [open EXCEPT ![t] = Append(@, c)]
  /\ overfull' = IF drops THEN overfull \cup {t} ELSE overfull

\* A context ends, in whatever order; of two alike it is the inner one.
Leave(t, c) ==
  /\ Changes /\ Contains(open[t], c)
  /\ open' = [open EXCEPT ![t] = RemoveAt(@, CHOOSE i \in 1..Len(@) : @[i] = c /\ \A j \in (i + 1)..Len(@) : @[j] # c)]
  /\ overfull' = IF open'[t] = <<>> THEN overfull \ {t} ELSE overfull

\* Where a label is in a stack, 0 if it is not.
Position(stack, label) ==
  LET S == {i \in 1..Len(stack) : stack[i].label = label}
  IN IF S = {} THEN 0 ELSE CHOOSE i \in S : \A j \in S : j <= i

AddDescribe(t, c) ==
  LET stack == system[t][c.level]
      i == Position(stack, c.label)
      drops == i = 0 /\ Len(stack) >= MaxStack
  IN /\ Enter(t, c, drops)
     /\ system' = [system EXCEPT ![t][c.level] =
                     IF i > 0 THEN [@ EXCEPT ![i].count = @ + 1]
                     ELSE IF drops THEN @ ELSE Append(@, [label |-> c.label, count |-> 1])]
     /\ UNCHANGED <<user, owner, bornIn>>

\* Mutant: a description lives for one event too many.
UsedUp_BelowZero(count) == count < 0

UsedUp(count) == count <= 0

EraseDescribe(t, c) ==
  LET stack == system[t][c.level]
      i == Position(stack, c.label)
      less == [stack EXCEPT ![i].count = @ - 1]
  IN /\ Leave(t, c)
     /\ system' = [system EXCEPT ![t][c.level] =
                     IF i = 0 THEN @ ELSE IF UsedUp(less[i].count) THEN RemoveAt(@, i) ELSE less]
     /\ UNCHANGED <<user, owner, bornIn>>

AddUserDescribe(t, label) ==
  /\ Enter(t, [level |-> "user", label |-> label], Len(user[t]) >= MaxStack)
  /\ user' = [user EXCEPT ![t] = IF Len(@) >= MaxStack THEN @ ELSE Append(@, [label |-> label])]
  /\ UNCHANGED <<system, owner, bornIn>>

EraseUserDescribe(t, label) ==
  LET i == Position(user[t], label) IN
  /\ Leave(t, [level |-> "user", label |-> label])
  /\ user' = [user EXCEPT ![t] = IF i = 0 THEN @ ELSE RemoveAt(@, i)]
  /\ UNCHANGED <<system, owner, bornIn>>

\* The label at a place of the users'.
AtPlace(labels, p) ==
  LET S == {i \in 1..Len(labels) : i <= MaxStack /\ UserPlaces[i] = p}
  IN IF S = {} THEN NoLabel ELSE labels[CHOOSE i \in S : TRUE]

\* GetDescribe: the top of a level, and the users' labels in their order.
GetDescribe(t) ==
  [p \in Places |->
     IF p \in Levels
     THEN IF system[t][p] = <<>> THEN NoLabel ELSE Last(system[t][p]).label
     ELSE AtPlace([i \in 1..Len(user[t]) |-> user[t][i].label], p)]

-----------------------------------------------------------------------------
(* DecomposeAnalyzer *)

\* AddLabel: nothing is not a label.
WithLabels(labels, more) == [p \in Places |-> IF more[p] = NoLabel THEN labels[p] ELSE more[p]]
Unowned == [p \in Places |-> NoLabel]

\* InitOwner; a block that is allocated while nothing is traced gets no owner.
InitOwner(t, b, shadow) ==
  /\ b \notin DOMAIN owner
  /\ owner' = [x \in DOMAIN owner \cup {b} |->
                 IF x # b THEN owner[x] ELSE IF shadow THEN Unowned ELSE WithLabels(Unowned, GetDescribe(t))]
  /\ bornIn' = [x \in DOMAIN bornIn \cup {b} |->
                 IF x # b THEN bornIn[x]
                 ELSE [open |-> IF shadow THEN <<>> ELSE open[t], exact |-> shadow \/ t \notin overfull,
                       direct |-> Nothing, touched |-> FALSE]]
  /\ UNCHANGED <<open, system, user, overfull, later>>

\* The access of an operator is a weak mark.
Weak(labels) == labels["detail"] = NoLabel

UpdateOwnerByAtenAccess(b) ==
  /\ b \in DOMAIN owner
  /\ owner' = IF Weak(owner[b]) THEN [owner EXCEPT ![b]["detail"] = Ops] ELSE owner
  /\ bornIn' = [bornIn EXCEPT ![b].touched = TRUE]
  /\ UNCHANGED <<open, system, user, overfull, later>>

\* A label of an address takes its place over any other.
UpdateOwner(b, p, label) ==
  /\ b \in DOMAIN owner
  /\ owner' = [owner EXCEPT ![b] = WithLabels(@, [Unowned EXCEPT ![p] = label])]
  /\ bornIn' = [bornIn EXCEPT ![b].direct = [q \in DOMAIN @ \cup {p} |-> IF q = p THEN label ELSE @[q]]]
  /\ UNCHANGED <<open, system, user, overfull, later>>

Free(b) ==
  /\ b \in DOMAIN owner
  /\ owner' = [x \in DOMAIN owner \ {b} |-> owner[x]]
  /\ bornIn' = [x \in DOMAIN bornIn \ {b} |-> bornIn[x]]
  /\ UNCHANGED <<open, system, user, overfull, later>>

-----------------------------------------------------------------------------
Init ==
  /\ open = [t \in Threads |-> <<>>]
  /\ system = [t \in Threads |-> [l \in Levels |-> <<>>]]
  /\ user = [t \in Threads |-> <<>>]
  /\ owner = Nothing /\ bornIn = Nothing /\ overfull = {} /\ later = 0

Next ==
  \/ \E t \in Threads :
       \/ \E c \in Contexts[t] :
            \/ ~IsUser(c) /\ (AddDescribe(t, c) \/ EraseDescribe(t, c))
            \/ IsUser(c) /\ (AddUserDescribe(t, c.label) \/ EraseUserDescribe(t, c.label))
       \/ \E b \in Blocks, shadow \in BOOLEAN : InitOwner(t, b, shadow)
  \/ \E b \in Blocks :
       \/ UpdateOwnerByAtenAccess(b) \/ Free(b)
       \/ \E c \in Direct : UpdateOwner(b, IF IsUser(c) THEN UserPlaces[1] ELSE c.level, c.label)

-----------------------------------------------------------------------------
(* Properties *)

LabelsOf(contexts, level) == {contexts[i].label : i \in {j \in 1..Len(contexts) : contexts[j].level = level}}

\* The users' labels of the contexts, in their order.
UserOrder(contexts) ==
  LET own == SelectSeq(contexts, IsUser) IN [i \in 1..Len(own) |-> own[i].label]

\* The context of a level that was opened last, not counting those that were open
\* already: a label that is opened again inside itself keeps its place.
Innermost(contexts, level) ==
  LET first == {i \in 1..Len(contexts) : contexts[i].level = level /\ \A j \in 1..(i - 1) : contexts[j] # contexts[i]}
  IN IF first = {} THEN NoLabel ELSE contexts[CHOOSE i \in first : \A j \in first : j <= i].label

\* An operator that touches the block marks it where it has no label.
Marked(b, p, label) == IF p = "detail" /\ bornIn[b].touched /\ label = NoLabel THEN Ops ELSE label

\* What a block without a direct label at the place p may say.
BornRight(b, p) ==
  LET was == bornIn[b] IN
  IF p \in Levels
  THEN /\ owner[b][p] \in LabelsOf(was.open, p) \cup {NoLabel, Marked(b, p, NoLabel)}
       /\ was.exact => owner[b][p] = Marked(b, p, Innermost(was.open, p))
  ELSE /\ owner[b][p] \in LabelsOf(was.open, "user") \cup {NoLabel}
       /\ was.exact => owner[b][p] = AtPlace(UserOrder(was.open), p)

\* A block says of itself the last label its address was given and otherwise
\* labels its allocation was inside of, on its own thread; unless a stack
\* overflowed, it has the innermost of every level there was and the users' in
\* their order, whichever order the contexts were left in (InitOwner,
\* decompose_analyzer.cpp:88, DescribeTrace, describe_trace.h:30).
OwnersRight ==
  \A b \in DOMAIN owner : \A p \in Places :
    IF p \in DOMAIN bornIn[b].direct THEN owner[b][p] = bornIn[b].direct[p] ELSE BornRight(b, p)
=============================================================================
