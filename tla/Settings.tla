------------------------------ MODULE Settings ------------------------------
(***************************************************************************)
(* Where the settings of a run come from.  The command line is parsed      *)
(* option by option (client_parser.cpp) and leads to help, a comparison,   *)
(* an attach or a launch; a launch writes the configuration.  Afterwards   *)
(* config() of the Python module builds a configuration from the defaults  *)
(* and its arguments, and "set config" of the control channel changes a    *)
(* copy of the current one.                                                *)
(*                                                                         *)
(* The tokens of a value are split already.  Requests come one at a time;  *)
(* their races are in TraceControl.  The hooks that an analysis needs are  *)
(* loaded.  Settings that are only checked and stored (the mode, threshold *)
(* and rate of host leaks) are one option, "plain".                        *)
(***************************************************************************)
EXTENDS Naturals, Sequences, SequencesExt, TLC

CONSTANTS
  CommandLines,    \* sequences of options of a command line
  PythonCalls,     \* sequences of arguments of config()
  ControlLines,    \* sequences of arguments of "set config"
  MaxSteps         \* SELECTED_STEP_MAX_NUM

VARIABLES
  line,      \* the command line that is still to be obeyed
  cfg,       \* config_
  traceback  \* PythonTrace is active

vars == <<line, cfg, traceback>>

Npu == {"leaks", "decompose", "inefficient", "oom"}
HostLeaks == "host-leaks"
Events == {"alloc", "free", "launch", "access"}
SetOf(tokens) == {tokens[i] : i \in 1..Len(tokens)}

\* The options the parser of the command line knows.
Keys == {"help", "version", "verbose", "quiet", "steps", "stacks", "analysis", "compare", "watch", "input", "output",
         "format", "level", "events", "logLevel", "collectMode", "device", "plain", "pid", "command", "program"}

\* The arguments of config(); the once-only ones can be set once in a process.
OnceKeys == {"format", "output", "watch"}
PythonKeys == OnceKeys \cup {"stacks", "level", "events", "device", "analysis", "plain"}

\* ClientParser::InitialConfig.
InitialConfig ==
  [analysis |-> {"leaks"}, topK |-> 0, events |-> {"alloc", "free", "launch"},
   dumpEvents |-> {"alloc", "free", "launch"}, stacks |-> {}, device |-> {"npu"}, level |-> {"op"}, steps |-> <<>>,
   watch |-> "off", format |-> "csv", output |-> "default", plain |-> "default",
   logLevel |-> "info", collectMode |-> "immediate", effective |-> FALSE]

-----------------------------------------------------------------------------
(* The parsers; a parser of an option returns the configuration and whether *)
(* the value was refused.                                                   *)

Refused(c) == [config |-> c, bad |-> TRUE]
Taken(c) == [config |-> c, bad |-> FALSE]

\* Tokens up to the first that decides by itself, all of them if none does.
UpTo(tokens, deciding) ==
  LET at == {i \in 1..Len(tokens) : tokens[i] \in deciding}
  IN IF at = {} THEN tokens ELSE SubSeq(tokens, 1, CHOOSE i \in at : \A j \in at : i <= j)

\* ParseAnalysis: whatever begins with "oom" is oom; a limit that is refused
\* stops the parser, an unknown token and "none" too.
AnalysisOf(token) == IF token \in {"oom:K", "oomfoo"} THEN "oom" ELSE token

ParseAnalysis(tokens, c) ==
  LET read == UpTo(tokens, {"none", "unknown", "oom:bad"})
      topK == IF "oom:K" \in SetOf(read) THEN "K" ELSE c.topK
      types == {AnalysisOf(t) : t \in SetOf(read)}
  IN CASE read # <<>> /\ Last(read) = "none" -> Taken([c EXCEPT !.analysis = {}, !.topK = topK])
       [] read # <<>> /\ Last(read) \in {"unknown", "oom:bad"} -> Refused([c EXCEPT !.topK = topK])
       [] HostLeaks \in types /\ types # {HostLeaks} -> Refused([c EXCEPT !.topK = topK])
       [] OTHER -> Taken([c EXCEPT !.analysis = types, !.topK = topK])

\* ParseEventTraceType; what is to be written is what the user named.
ParseEvents(tokens, c) ==
  LET read == UpTo(tokens, {"none", "unknown"})
      named == SetOf(read) \cap Events
  IN CASE read # <<>> /\ Last(read) = "none" -> Taken([c EXCEPT !.events = {}, !.dumpEvents = {}])
       [] read # <<>> /\ Last(read) = "unknown" -> Refused(c)
       [] OTHER -> Taken([c EXCEPT !.events = named, !.dumpEvents = named])

\* The trace of Python follows the option at once, also if the request fails.
Traceback(tokens, active) ==
  LET read == UpTo(tokens, {"none", "unknown"})
  IN CASE read # <<>> /\ Last(read) = "none" -> FALSE
       [] read # <<>> /\ Last(read) = "unknown" -> active \/ "traceback" \in SetOf(read)
       [] OTHER -> "traceback" \in SetOf(read)

\* ParseCallstack: what is named is added to what is on, an empty value turns
\* both off; tokens before a bad one have their effect.
ParseCallstack(tokens, c) ==
  LET read == UpTo(tokens, {"bad"})
      on == [c EXCEPT !.stacks = IF tokens = <<>> THEN {} ELSE @ \cup (SetOf(read) \ {"bad"})]
  IN IF "bad" \in SetOf(read) THEN Refused(on) ELSE Taken(on)

\* ParseDevice: all or some devices; nothing named is refused, and the devices
\* before are gone then.
ParseDevice(tokens, c) ==
  LET named == SetOf(UpTo(tokens, {"bad"}))
  IN IF named = {} \/ "bad" \in named THEN Refused([c EXCEPT !.device = named \cap {"npu", "cpu"}])
     ELSE Taken([c EXCEPT !.device = named])

\* ParseDataLevel: 0 and 1 are the old names of op and kernel.
ParseDataLevel(tokens, c) ==
  LET meaning == ("0" :> "op") @@ ("op" :> "op") @@ ("1" :> "kernel") @@ ("kernel" :> "kernel")
  IN IF SetOf(tokens) \subseteq DOMAIN meaning THEN Taken([c EXCEPT !.level = {meaning[t] : t \in SetOf(tokens)}])
     ELSE Refused(c)

\* ParseSelectSteps: the steps before a bad one, or before one too many, stay.
ParseSelectSteps(tokens, c) ==
  LET good == SelectSeq(UpTo(tokens, {"bad"}), LAMBDA t : t # "bad")
      kept == SubSeq(good, 1, IF Len(good) < MaxSteps THEN Len(good) ELSE MaxSteps)
  IN IF kept = tokens THEN Taken([c EXCEPT !.steps = kept]) ELSE Refused([c EXCEPT !.steps = kept])

\* ParseWatchConfig: start, end and perhaps "full-content", which no later watch
\* takes back.
ParseWatchConfig(parts, c) ==
  IF Len(parts) < 2 \/ "bad" \in SetOf(parts) THEN Refused(c)
  ELSE Taken([c EXCEPT !.watch = IF Len(parts) = 3 \/ @ = "full" THEN "full" ELSE "on"])

\* ParseOutputPath: what is too long is passed over.
ParseOutputPath(path, c) ==
  CASE path = "bad" -> Refused(c)
    [] path \in {"long", "empty"} -> Taken(c)
    [] OTHER -> Taken([c EXCEPT !.output = path])

\* The parsers that accept a value as a whole.
ParseValue(option, c) ==
  IF option.value = "bad" THEN Refused(c) ELSE Taken([c EXCEPT ![option.key] = option.value])

Parse(option, c) ==
  CASE option.key = "analysis" -> ParseAnalysis(option.value, c)
    [] option.key = "events" -> ParseEvents(option.value, c)
    [] option.key = "stacks" -> ParseCallstack(option.value, c)
    [] option.key = "device" -> ParseDevice(option.value, c)
    [] option.key = "level" -> ParseDataLevel(option.value, c)
    [] option.key = "steps" -> ParseSelectSteps(option.value, c)
    [] option.key = "watch" -> ParseWatchConfig(option.value, c)
    [] option.key = "output" -> ParseOutputPath(option.value, c)
    [] OTHER -> ParseValue(option, c)

-----------------------------------------------------------------------------
(* The command line *)

\* Two files, no more and no fewer; what is too long is passed over.
ParseInputPaths(paths, u) ==
  CASE paths = "long" -> u
    [] paths = "two" -> [u EXCEPT !.flags = @ \cup {"paths"}]
    [] OTHER -> [u EXCEPT !.printHelp = TRUE]

\* What one option does to the user's command; a bad value asks for the help,
\* and the rest is parsed all the same.
ParseUserCommand(u, option) ==
  LET flagged(flag) == [u EXCEPT !.flags = @ \cup {flag}]
      helped == [u EXCEPT !.printHelp = TRUE]
      parsed == Parse(option, u.config)
      u1 == [u EXCEPT !.config = parsed.config, !.printHelp = @ \/ parsed.bad]
  IN CASE option.key \notin Keys \/ option.key = "help" -> helped
       [] option.key \in {"version", "compare", "verbose", "quiet", "command", "program"} -> flagged(option.key)
       [] option.key = "logLevel" -> [u1 EXCEPT !.flags = @ \cup {"explicit"}]
       [] option.key = "input" -> ParseInputPaths(option.value, u)
       [] option.key = "output" /\ option.value = "empty" -> flagged("noOutput")
       [] option.key = "pid" -> IF option.value = "bad" \/ u.printHelp THEN helped ELSE flagged("attach")
       [] OTHER -> u1

ResolveLogLevel(flags, options, given) ==
  CASE "explicit" \in flags -> given
    [] "explicit" \notin flags /\ "verbose" \in flags -> "debug"
    [] "explicit" \notin flags /\ "verbose" \notin flags /\ "quiet" \in flags -> "error"
    [] OTHER -> given

UserCommandPrecheck(flags) ==
  /\ "compare" \in flags <=> "paths" \in flags
  /\ "noOutput" \notin flags
  /\ "attach" \in flags => flags \cap {"compare", "program"} = {}
  /\ "command" \in flags => "attach" \in flags

\* ClientParser::Parse and DoUserCommand.
OutcomeOf(options) ==
  LET start == [config |-> InitialConfig, printHelp |-> FALSE, flags |-> {}]
      u == FoldLeft(ParseUserCommand, start, options)
      does == CASE u.printHelp -> "help"
                [] ~u.printHelp /\ "version" \in u.flags -> "version"
                [] ~u.printHelp /\ "version" \notin u.flags /\ ~UserCommandPrecheck(u.flags) -> "help"
                [] OTHER -> IF "attach" \in u.flags THEN "attach" ELSE IF "compare" \in u.flags THEN "compare" ELSE "launch"
  IN [does |-> does,
      config |-> IF does \in {"help", "version", "attach"} THEN InitialConfig
                 ELSE [u.config EXCEPT !.logLevel = ResolveLogLevel(u.flags, options, @)]]

-----------------------------------------------------------------------------
(* ConfigManager *)

\* SetEventDefaultConfig, then SetAnalysisDefaultConfig.
Completed(c) ==
  LET byEvent == IF c.events \cap {"alloc", "free", "access"} # {} THEN c.events \cup {"alloc", "free"} ELSE c.events
      byAnalysis == (IF c.analysis # {} THEN {"alloc", "free"} ELSE {})
                    \cup (IF c.analysis \cap {"decompose", "inefficient"} # {} THEN {"access"} ELSE {})
                    \cup (IF "inefficient" \in c.analysis THEN {"launch"} ELSE {})
  IN [c EXCEPT !.events = byEvent \cup byAnalysis]

SetConfig(c) == cfg' = [Completed(c) EXCEPT !.effective = TRUE]

\* GetConfigAfterInit: defaults, except for what can be set once.
Fresh == [InitialConfig EXCEPT !.collectMode = "deferred", !.effective = cfg.effective,
                                 !.format = cfg.format, !.output = cfg.output, !.watch = cfg.watch]

\* One argument of config(): what can be set once is passed over when the
\* configuration is in effect or this call has set it; what is not an argument
\* is refused.
Argument(acc, option) ==
  LET parsed == IF option.key \in PythonKeys THEN Parse(option, acc.config) ELSE Refused(acc.config)
      once == {option.key} \cap OnceKeys
  IN IF acc.bad \/ (once # {} /\ (acc.config.effective \/ once \subseteq acc.onceSet)) THEN acc
     ELSE [config |-> parsed.config, bad |-> parsed.bad, onceSet |-> acc.onceSet \cup once]

\* The tokens of "events" that were parsed before the call was refused.
PythonConfig(options) ==
  LET Upto(i) == FoldLeft(Argument, [config |-> Fresh, bad |-> FALSE, onceSet |-> {}], SubSeq(options, 1, i))
      result == Upto(Len(options))
      seen == {i \in 1..Len(options) : options[i].key = "events" /\ ~Upto(i - 1).bad}
  IN /\ line = <<>>
     /\ IF result.bad THEN UNCHANGED cfg ELSE SetConfig(result.config)
     /\ traceback' = IF seen = {} THEN traceback ELSE Traceback(options[CHOOSE i \in seen : TRUE].value, traceback)
     /\ UNCHANGED line

\* Mutant: analyses that exclude each other are taken.
ControlAnalysis_AnyMix(tokens, c) ==
  LET named == SetOf(tokens) \ {"none"}
  IN IF named \cap {"unknown", "oomfoo", "oom:bad"} # {} THEN Refused(c)
     ELSE Taken([c EXCEPT !.analysis = {AnalysisOf(t) : t \in named}])

\* The analysis of "set config": "none" is passed over, "oomfoo" unknown.
ControlAnalysis(tokens, c) ==
  LET named == SetOf(tokens) \ {"none"}
      types == {AnalysisOf(t) : t \in named}
  IN IF named \cap {"unknown", "oomfoo", "oom:bad"} # {} \/ (HostLeaks \in types /\ types # {HostLeaks}) THEN Refused(c)
     ELSE Taken([c EXCEPT !.analysis = types, !.topK = IF "oom:K" \in named THEN "K" ELSE @])

\* The call stacks of "set config": an empty value is refused, "none" by itself
\* turns both off.
ControlStacks(tokens, c) ==
  CASE tokens = <<>> -> Refused(c)
    [] tokens = <<"none">> -> Taken([c EXCEPT !.stacks = {}])
    [] OTHER -> IF "none" \in SetOf(tokens) THEN Refused(c) ELSE ParseCallstack(tokens, c)

ControlArgument(acc, option) ==
  IF acc.bad THEN acc
  ELSE CASE option.key = "analysis" -> ControlAnalysis(option.value, acc.config)
         [] option.key = "stacks" -> ControlStacks(option.value, acc.config)
         [] option.key = "plain" -> ParseValue(option, acc.config)
         [] OTHER -> Refused(acc.config)

DoSetConfig(options) ==
  LET result == FoldLeft(ControlArgument, Taken(cfg), options)
  IN /\ line = <<>>
     /\ IF result.bad THEN UNCHANGED cfg ELSE SetConfig(result.config)
     /\ UNCHANGED <<line, traceback>>

-----------------------------------------------------------------------------
\* The command line of a process that msmemscope launches; a process that loads
\* the module by itself has none.  After help, an attach or a comparison nothing
\* more happens.
Launch ==
  /\ line # <<>> /\ OutcomeOf(line).does = "launch"
  /\ SetConfig(OutcomeOf(line).config)
  /\ line' = <<>>
  /\ UNCHANGED traceback

Init ==
  /\ line \in CommandLines \cup {<<>>}
  /\ cfg = Completed(InitialConfig) /\ traceback = FALSE

Next == \/ Launch
        \/ \E options \in PythonCalls : PythonConfig(options)
        \/ \E options \in ControlLines : DoSetConfig(options)

-----------------------------------------------------------------------------
(* Properties *)

\* Options that name different settings mean the same in either order: the same
\* command, with the same configuration ("与参数出现顺序无关", ResolveLogLevel,
\* client_parser.cpp:1105).
OrderFree ==
  (\A i, j \in 1..Len(line) : i # j => line[i].key # line[j].key) => OutcomeOf(line) = OutcomeOf(Reverse(line))

\* Host-leaks stands alone, whoever set the analysis and what was set before
\* (client_parser.cpp:504, control_command_handler.cpp:696).
HostLeaksAlone == HostLeaks \in cfg.analysis => cfg.analysis = {HostLeaks}

\* An analysis and an event get the events they are computed from, whichever way
\* and in how many steps the configuration came about (SetConfigImpl,
\* event_trace_manager.cpp:123).
EventsSuffice ==
  /\ cfg.analysis # {} \/ cfg.events \cap {"alloc", "free", "access"} # {} => {"alloc", "free"} \subseteq cfg.events
  /\ "inefficient" \in cfg.analysis => Events \subseteq cfg.events
  /\ "decompose" \in cfg.analysis => "access" \in cfg.events

\* Something is always collected from, though the parser takes the devices away
\* before it refuses a value (client_parser.cpp:979, 1005).
DeviceRemains == cfg.device # {}

Consistent == HostLeaksAlone /\ EventsSuffice /\ DeviceRemains

\* Both: no way to set the configuration leads to one that contradicts itself.
SettingsSound == OrderFree /\ Consistent
=============================================================================
