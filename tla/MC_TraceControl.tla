-------------------------- MODULE MC_TraceControl --------------------------
EXTENDS TraceControl

CONSTANTS app, channel, runtime, leaver

AllThreads == {app, channel, runtime, leaver}
OnlyApp == {app}
AllRequests == [t \in AllThreads |-> CASE t = app -> {"start", "stop", "config"}
                                       [] t = channel -> {"start", "stop", "set"}
                                       [] t = runtime -> {"acl"}
                                       [] t = leaver -> {"exit"}]
SomeCollectors == <<"triton", "cpu">>
Setting(analyses, scope, cpu) == [analyses |-> analyses, scope |-> scope, cpu |-> cpu]
SomeSettings == {Setting({"host"}, {"op"}, TRUE), Setting({"decompose"}, {"launch"}, FALSE),
                 Setting({"host", "decompose"}, {"op", "launch"}, TRUE)}
=============================================================================
