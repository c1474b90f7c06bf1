------------------------------ MODULE MC_Parts ------------------------------
(***************************************************************************)
(* Small instances of the parts, and of the others that share no state     *)
(* with one another and are only model-checked: each of these keeps its    *)
(* variables in the first of the 12 that are declared here.                *)
(***************************************************************************)
EXTENDS Parts

CONSTANTS OtherParts   \* the other parts of a run

ASSUME OtherPartsAssumption ==
  OtherParts \subseteq
    {"editor", "settings", "inefficient", "compare", "trace", "owners", "hijack"}

VARIABLES v1, v2, v3, v4, v5, v6, v7, v8, v9, v10, v11, v12

others == <<v1, v2, v3, v4, v5, v6, v7, v8, v9, v10, v11, v12>>
from10 == <<v10, v11, v12>>
from8 == <<v8, v9, from10>>
from4 == <<v4, v5, v6, v7, from8>>

UpTo(n, S) == UNION {[1..m -> S] : m \in 0..n}

-----------------------------------------------------------------------------
(* The constants of Parts *)

\* Two threads launch on one device of the new kind, whose tasks may get one
\* of two ids; four logs fill the buffer.
LinkKeys == {<<0, 1, 1>>, <<0, 2, 2>>}
LinkNoKey == <<0, 0, 0>>

\* Two threads run operators, the command line names a first and a last one, and
\* Python code watches two addresses, once or without a limit.
OnceOrAlways == {-1, 1}

\* Lists of up to three of the numbers of three cards and a token that is none.
DeviceLists == UpTo(3, {0, 1, 2, 99})
NoList == <<-1>>

\* Five blocks whose homes collide at the end of the table, which grows once.
Colliding == <<7, 7, 6, 3, 0>>

\* Two responses of up to seven bytes, with one that ends in the middle of a
\* chunk's last character and with escaped ones that grow over the limit.
IsText(t) == \A i \in 0..Len(t) : (i > 0 /\ t[i] = "lead") <=> (i < Len(t) /\ t[i + 1] = "trail")
TextsOf(n) == {t \in [1..n -> {"plain", "escaped", "lead", "trail"}] : IsText(t)}
Responses ==
  TextsOf(0) \cup TextsOf(1) \cup TextsOf(2)
  \cup {t \in TextsOf(7) : Cardinality({i \in 1..7 : t[i] = "plain"}) >= 5}

\* One thread marks steps, in one way, while another allocates; two threads mark
\* them in both ways at once.
Alone ==
  [steppers |-> {"s1"}, allocators |-> {"a1"}, mixed |-> FALSE, names |-> {"step"},
   ranges |-> 4, pySteps |-> 4, mallocs |-> 2]
Shared == [steppers |-> {"s1", "s2"}, allocators |-> {}, mixed |-> TRUE, names |-> {"step"},
           ranges |-> 3, pySteps |-> 2, mallocs |-> 0]
BothPlans == {Alone, Shared}

-----------------------------------------------------------------------------
(* The other parts *)

\* Lines of one character, a history of two, four lines.
Editor == INSTANCE LineEditor WITH
  Chars <- {0, 1}, Space <- 0, Words <- {<<1, 1>>, <<1, 2>>}, MaxLine <- 1, MaxHistory <- 2, MaxLines <- 4,
  text <- v1, cursor <- v2, browsing <- v3, history <- v4, state <- v5, succeeded <- v6, lines <- v7

-----------------------------------------------------------------------------
(* Options of every kind, with good and bad values. *)
Opt(key, value) == [key |-> key, value |-> value]

AnalysisOptions ==
  {Opt("analysis", v) : v \in
     {<<>>, <<"decompose", "oomfoo">>, <<"inefficient">>, <<"oom:K">>, <<"oom:bad">>, <<"host-leaks">>,
      <<"oom", "host-leaks">>, <<"leaks", "none">>, <<"unknown">>}}
EventOptions ==
  {Opt("events", v) : v \in {<<"access">>, <<"launch", "traceback">>, <<"none">>, <<"traceback", "unknown">>}}
StackOptions == {Opt("stacks", v) : v \in {<<>>, <<"c">>, <<"c", "bad">>, <<"none">>}}
OtherOptions ==
  {Opt("device", v) : v \in {<<>>, <<"cpu">>, <<"npu:0", "bad">>}}
  \cup {Opt("output", "a"), Opt("output", "bad"), Opt("watch", <<"start", "end">>), Opt("watch", <<"start">>),
        Opt("plain", "bad"), Opt("unknownKey", "")}
LineOptions ==
  {Opt(key, "") : key \in {"help", "version", "compare", "verbose", "quiet", "command", "program", "unknownKey"}}
  \cup {Opt("input", v) : v \in {"two", "one", "long"}}
  \cup {Opt("output", "empty"), Opt("pid", "good"), Opt("pid", "bad"), Opt("logLevel", "warn"), Opt("logLevel", "bad"),
        Opt("analysis", <<"host-leaks">>), Opt("events", <<"none">>), Opt("output", "a"), Opt("collectMode", "deferred"),
        Opt("steps", <<"1", "2">>), Opt("steps", <<"1", "2", "3">>), Opt("level", <<"0", "kernel">>),
        Opt("watch", <<"start", "end", "full-content">>)}

\* Command lines of up to three options; requests of one and of two that set
\* different things.
Pairs(S, T) == {<<a, b>> : a \in S, b \in T} \cup {<<b, a>> : a \in S, b \in T}
Set == INSTANCE Settings WITH
  CommandLines <- UpTo(3, LineOptions),
  PythonCalls <- UpTo(1, AnalysisOptions \cup EventOptions \cup StackOptions \cup OtherOptions)
                 \cup Pairs(AnalysisOptions, EventOptions) \cup {<<Opt("output", "a"), Opt("output", "bad")>>, <<Opt("output", "a"), Opt("watch", <<"start">>)>>},
  ControlLines <- UpTo(1, AnalysisOptions \cup StackOptions \cup OtherOptions)
                  \cup Pairs(AnalysisOptions, StackOptions),
  MaxSteps <- 2,
  line <- v1, cfg <- v2, traceback <- v3

\* Two blocks of up to three events, two threads with operators, three APIs, a start
\* or a stop of tracing.
Ineff == INSTANCE Inefficient WITH
  Blocks <- {1, 2}, Threads <- {1, 2}, Threshold <- 1, MaxApi <- 3, MaxEvents <- 3, MaxSwitches <- 1,
  apiId <- v1, isOpStart <- v2, apiTmp <- v3, mallocApi <- v4, freeApi <- v5, events <- v6,
  labels <- v7, running <- v8, done <- v9, overlapped <- v10, switches <- v11

\* Dumps of up to three lines, some of four, of an operator, a kernel and a size,
\* one with a bad name and one with a bad line.
Comp == INSTANCE MemoryCompare WITH
  Files <- UpTo(3, {1, 7, 8}) \cup {<<7, 8, 7, 8>>, <<8, 7, 8, 7>>, <<7, 1, 7, 8>>, <<8, 9, 1>>, <<7, 0>>},
  Sizes <- {1}, Kernels <- {8}, Invalid <- {9}, Broken <- 0,
  base <- v1, compare <- v2, at <- v3, d <- v4, k <- v5, diagonal <- v6, path <- v7, rows <- v8, late <- v9, framework <- v10, levels <- v11

\* Three functions, one of them ignored and one in C, three calls.
Trace == INSTANCE PythonTrace WITH
  Functions <- {"f", "g", "d"}, Ignored <- {"d"}, InC <- {"g"}, MaxDepth <- 3, MaxCalls <- 3,
  frames <- v1, frameStack <- v2, throw <- v3, active <- v4, tracing <- v5, written <- v6,
  returned <- v7, astray <- v8, calls <- v9

\* One thread opens up to three contexts: of three labels of a level, of another
\* level and of two users; stacks of two.  A second thread opens one of each kind.
Context(level, labels) == [level : {level}, label : labels]
Owning == <<Context("detail", {"a", "b", "c"}) \cup Context("process", {"p"}) \cup Context("user", {"x", "y"}),
            Context("detail", {"b"}) \cup Context("user", {"y"})>>
Own == INSTANCE Owners WITH
  Threads <- {1, 2}, Blocks <- {1}, Contexts <- Owning, Direct <- Context("detail", {"a"}) \cup Context("user", {"x"}),
  MaxStack <- 2, MaxOpen <- <<3, 1>>, MaxLater <- 1,
  open <- v1, system <- v2, user <- v3, owner <- v4, overfull <- v5, bornIn <- v6, later <- v7

\* Two functions of a module that is imported and reloaded, two units of two
\* priorities, one call.
Hooks == INSTANCE Hijack WITH
  Functions <- {-1, -2}, Module <- 0, Priorities <- {1, 2}, MaxUnits <- 2, MaxImports <- 2, MaxCalls <- 1,
  units <- v1, count <- v2, wrapperOf <- v3, hooks <- v4, ori <- v5, module <- v6, attr <- v7, told <- v8,
  call <- v9, astray <- v10, imports <- v11, calls <- v12

-----------------------------------------------------------------------------
Empty10 == v10 = <<>> /\ v11 = <<>> /\ v12 = <<>>
Empty8 == v8 = <<>> /\ v9 = <<>> /\ Empty10
Empty4 == v4 = <<>> /\ v5 = <<>> /\ v6 = <<>> /\ v7 = <<>> /\ Empty8

OtherInit(p) ==
  \/ p = "editor" /\ Editor!Init /\ Empty8
  \/ p = "settings" /\ Set!Init /\ Empty4
  \/ p = "inefficient" /\ Ineff!Init /\ v12 = <<>>
  \/ p = "compare" /\ Comp!Init /\ v12 = <<>>
  \/ p = "trace" /\ Trace!Init /\ Empty10
  \/ p = "owners" /\ Own!Init /\ Empty8
  \/ p = "hijack" /\ Hooks!Init

AllInit ==
  \/ Init /\ v1 = <<>> /\ v2 = <<>> /\ v3 = <<>> /\ Empty4
  \/ part \in OtherParts /\ OtherInit(part) /\ Empty(part)

OtherNext ==
  \/ part = "editor" /\ Editor!Next /\ UNCHANGED from8
  \/ part = "settings" /\ Set!Next /\ UNCHANGED from4
  \/ part = "inefficient" /\ Ineff!Next /\ UNCHANGED v12
  \/ part = "compare" /\ Comp!Next /\ UNCHANGED v12
  \/ part = "trace" /\ Trace!Next /\ UNCHANGED from10
  \/ part = "owners" /\ Own!Next /\ UNCHANGED from8
  \/ part = "hijack" /\ Hooks!Next

AllNext ==
  \/ UNCHANGED others /\ Next
  \/ UNCHANGED vars /\ OtherNext

AllSpec == AllInit /\ [][AllNext]_<<vars, others>>

-----------------------------------------------------------------------------
(* The properties of the other parts *)

\* The history is of the last commands, the cursor on the line (LineEditor).
EditorSound == part = "editor" => Editor!EditorSound

\* Settings do not depend on their order and do not contradict themselves (Settings).
SettingsSound == part = "settings" => Set!SettingsSound

\* Blocks are labelled inefficient exactly if they are (Inefficient).
LabelsRight == part = "inefficient" => Ineff!LabelsRight

\* A comparison loses no operator and pairs as many as can be (MemoryCompare).
AlignsAll == part = "compare" => Comp!AlignsAll

\* The events of Python calls are of calls (PythonTrace).
PairsAreCalls == part = "trace" => Trace!PairsAreCalls

\* Blocks say who owned them when they were allocated (Owners).
OwnersRight == part = "owners" => Own!OwnersRight

\* Hooked functions run as registered and are restored (Hijack).
HijackSound == part = "hijack" => Hooks!HijackSound
=============================================================================
