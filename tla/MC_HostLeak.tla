---------------------------- MODULE MC_HostLeak ----------------------------
EXTENDS HostLeak, TLC

CONSTANTS t1, t2, s1, s2, s3

Plan(n, q, b, slow, stuck) ==
  [requests |-> n, queries |-> q, beats |-> b, slow |-> slow, stuck |-> stuck]

WindowPlans == {Plan(5, 1, 0, FALSE, FALSE), Plan(5, 1, 0, TRUE, FALSE), Plan(3, 0, 2, FALSE, FALSE),
                Plan(1, 0, 4, FALSE, FALSE)}
StuckPlans == {Plan(2, 0, 0, TRUE, TRUE)}
OverviewPlans == {Plan(2, 1, 0, FALSE, FALSE)}
=============================================================================
