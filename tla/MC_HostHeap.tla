---------------------------- MODULE MC_HostHeap ----------------------------
(* Two threads of the application, two addresses, tables of one or two slots. *)
EXTENDS HostHeap, TLC

CONSTANTS t1, t2

TwoThreads == {t1, t2}
MallocAndRealloc == [t \in TwoThreads |-> IF t = t1 THEN {"malloc", "free"} ELSE {"free", "realloc"}]
MallocAndFree == [t \in TwoThreads |-> IF t = t1 THEN {"malloc", "realloc"} ELSE {"free"}]

Plan(n, c, slots, snapshots, forks, oom) ==
  [windows |-> n, calls |-> c, slots |-> slots, snapshots |-> snapshots, forks |-> forks, oom |-> oom]
WindowPlans == {Plan(1, 4, 2, FALSE, FALSE, FALSE), Plan(2, 4, 1, FALSE, FALSE, FALSE), Plan(1, 3, 1, TRUE, TRUE, FALSE)}
ReopenPlan == {Plan(2, 1, 1, FALSE, FALSE, FALSE)}
FreezePlan == {Plan(1, 2, 1, TRUE, FALSE, FALSE)}
OomPlan == {Plan(1, 1, 1, FALSE, FALSE, TRUE)}
=============================================================================
