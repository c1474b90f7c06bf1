---------------------------- MODULE TraceControl ----------------------------
(***************************************************************************)
(* Starting, stopping and configuring the collection                       *)
(* (src/csrc/event_trace/trace_manager/event_trace_manager.cpp).  Python   *)
(* code, the control channel, the aclInit hook and the exit of the process *)
(* all change the same four things: the status of the trace, the stop      *)
(* latch of the host window, the configuration and the collectors written  *)
(* in Python.  Only the last part of SetTraceStatus runs under a lock.     *)
(*                                                                         *)
(* What a start does to the memory states is in TracePipeline, what        *)
(* set_enabled does inside the heap hooks in HostHeap.                     *)
(***************************************************************************)
EXTENDS Naturals, Sequences, FiniteSets

CONSTANTS
  Threads,      \* the threads that make requests
  Python,       \* those that run Python code: a request holds the interpreter lock
  Requests,     \* what each thread may ask for
  None,         \* no thread
  Collectors,   \* the order in which the collectors are switched
  Settings,     \* what a configuration may ask for: analyses (of the two told apart here), levels
                \* and events (of the three told apart here), CPU tensors
  MaxRequests   \* bound on the requests of a run

ASSUME ControlAssumption ==
  /\ Python \subseteq Threads /\ None \notin Threads
  /\ Requests \in [Threads -> SUBSET {"start", "stop", "config", "set", "acl", "exit"}]
  /\ Collectors \in Seq({"aten", "triton", "decompose", "cpu"}) \ {<<>>}
  /\ Settings \subseteq [analyses : SUBSET {"decompose", "host"}, scope : SUBSET {"op", "launch", "access"},
                         cpu : BOOLEAN]
  /\ MaxRequests \in Nat

VARIABLES
  status,      \* status_ is IN_TRACING
  latch,       \* hostMemStopLatch_
  cfg,         \* config_: analyses, levels and events, CPU tensors, --steps given, effective
  aclInit,     \* aclInit_
  window,      \* the window of the heap hooks is open
  exiting,     \* g_exiting of the heap hooks
  enabled,     \* the collectors that are switched on
  subscribed,  \* the analyzers that follow the configuration
  announced,   \* the last status sent to the trace
  mutex,       \* the thread that holds EventTraceManager::mutex_
  gil,         \* the thread that holds the interpreter lock
  pc,          \* where each thread is
  job,         \* what it works on
  asked        \* requests made

shared == <<status, latch, cfg, aclInit, window, exiting, enabled, subscribed, announced>>
locks == <<mutex, gil>>
threads == <<pc, job, asked>>
vars == <<shared, locks, threads>>

At(t, p) == pc[t] = p
Go(t, p) == pc' = [pc EXCEPT ![t] = p]

InFlight(t) == pc[t] \notin {"idle", "ended"}

-----------------------------------------------------------------------------
(* Requests *)

\* InitialConfig turns on the op level, and the events alloc, free and launch.
Default == [analyses |-> {}, scope |-> {"op", "launch"}, cpu |-> FALSE]

\* A setting, and whether --steps and the configuration were given.
Config(wanted, steps, effective) ==
  [analyses |-> wanted.analyses, scope |-> wanted.scope, cpu |-> wanted.cpu, steps |-> steps, effective |-> effective]

\* What a thread carries: the request and those it overlapped, the configuration
\* it will store, the window and the collector it decided on.
Job(r, c) == [request |-> r, met |-> {}, cfg |-> c, window |-> FALSE, next |-> 1, on |-> FALSE]
NoJob == Job("none", Config(Default, FALSE, FALSE))

\* A request begins, and it and those in flight overlap.
Accept(t, r, c, p) ==
  /\ job' = [u \in Threads |->
               IF u = t THEN [Job(r, c) EXCEPT !.met = {job[v].request : v \in {w \in Threads : InFlight(w)}}]
               ELSE IF InFlight(u) THEN [job[u] EXCEPT !.met = @ \cup {r}] ELSE job[u]]
  /\ Go(t, p)

\* A request that is over gives the interpreter back.
Release(t, over) ==
  /\ gil' = IF over /\ gil = t THEN None ELSE gil
  /\ job' = IF over THEN [job EXCEPT ![t] = NoJob] ELSE job

Ask(t, r) ==
  /\ At(t, "idle") /\ r \in Requests[t] /\ asked < MaxRequests
  /\ t \in Python => gil = None /\ gil' = t
  /\ t \notin Python => UNCHANGED gil
  /\ asked' = asked + 1
  /\ UNCHANGED mutex

\* start() of the module does not look; the start of the channel does.
Start(t) ==
  /\ Ask(t, "start")
  /\ t \in Python \/ ~status
  /\ Accept(t, "start", cfg, "latch")
  /\ UNCHANGED shared

Stop(t) ==
  /\ Ask(t, "stop")
  /\ t \in Python \/ status
  /\ Accept(t, "stop", cfg, "latch")
  /\ UNCHANGED shared

\* GetConfigAfterInit: all but the settings made once starts from the defaults;
\* only the command line has --steps.
Fresh(wanted) == Config(wanted, FALSE, cfg.effective)

\* A list of analyses with host-leaks and another one is refused.
Exclusive(analyses) == "host" \in analyses => analyses = {"host"}

\* config() is ignored while tracing, and when a value is refused.
Configure(t, wanted) ==
  /\ Ask(t, "config")
  /\ ~status /\ Exclusive(wanted.analyses)
  /\ Accept(t, "config", Fresh(wanted), "write")
  /\ UNCHANGED shared

\* set config of the channel copies the configuration and changes the analyses.
SetConfig(t, wanted) ==
  /\ Ask(t, "set")
  /\ ~status /\ Exclusive(wanted.analyses)
  /\ Accept(t, "set", [cfg EXCEPT !.analyses = wanted.analyses], "write")
  /\ UNCHANGED shared

\* The hook of aclInit.
AclInit(t) ==
  /\ Ask(t, "acl")
  /\ aclInit' = TRUE
  /\ Accept(t, "acl", cfg, "judge")
  /\ UNCHANGED <<status, latch, cfg, window, exiting, enabled, subscribed, announced>>

\* CloseHostMemWindowAtExit, once the heap hooks have seen the exit.
Exit(t) ==
  /\ Ask(t, "exit")
  /\ exiting' = TRUE /\ latch' = TRUE
  /\ Accept(t, "exit", cfg, "window")
  /\ UNCHANGED <<status, cfg, aclInit, window, enabled, subscribed, announced>>

-----------------------------------------------------------------------------
(* SetTraceStatus *)

Target(t) == job[t].request = "start"

\* ReportTraceStatus: the latch, the window, the event.
Latch(t) ==
  /\ At(t, "latch")
  /\ latch' = ~Target(t)
  /\ Go(t, "window")
  /\ UNCHANGED <<status, cfg, aclInit, window, exiting, enabled, subscribed, announced, locks, job, asked>>

\* Mutant: the latch is not looked at.
WindowWanted_NoLatch == "host" \in cfg.analyses

\* UpdateHostMemWindow decides and then calls set_enabled.
WindowWanted == "host" \in cfg.analyses /\ ~latch

DecideWindow(t) ==
  /\ At(t, "window")
  /\ job' = [job EXCEPT ![t].window = WindowWanted]
  /\ Go(t, "apply")
  /\ UNCHANGED <<shared, locks, asked>>

MayOpen == ~exiting

AfterWindow(t) == CASE job[t].request \in {"start", "stop"} -> "announce"
                    [] job[t].request = "exit" -> "ended"
                    [] OTHER -> "idle"

ApplyWindow(t) ==
  /\ At(t, "apply")
  /\ window' = (job[t].window /\ (window \/ MayOpen))
  /\ Go(t, AfterWindow(t))
  /\ Release(t, AfterWindow(t) # "announce")
  /\ UNCHANGED <<status, latch, cfg, aclInit, exiting, enabled, subscribed, announced, mutex, asked>>

\* IsNeedSkip: with --steps nothing is announced outside the selected steps, and
\* which step it is the marks of the application say.
MaySkip == cfg.steps

Announce(t) ==
  /\ At(t, "announce")
  /\ announced' = Target(t) \/ (MaySkip /\ UNCHANGED announced)
  /\ Go(t, "lock")
  /\ UNCHANGED <<status, latch, cfg, aclInit, window, exiting, enabled, subscribed, locks, job, asked>>

\* Mutant: the lock is not waited for.
MutexFree_NotAsked == TRUE

MutexFree == mutex = None

Lock(t) ==
  /\ At(t, "lock") /\ MutexFree
  /\ mutex' = t
  /\ status' = Target(t)
  /\ Go(t, "judge")
  /\ UNCHANGED <<latch, cfg, aclInit, window, exiting, enabled, subscribed, announced, gil, job, asked>>

-----------------------------------------------------------------------------
(* The collectors: every one is judged and then switched through a call to *)
(* Python, which needs the interpreter lock.                               *)

IsNeedTraceOp == "op" \in cfg.scope
HandleWithATenCollect == status /\ IsNeedTraceOp /\ aclInit
ShouldEnableTritonCollect == status /\ IsNeedTraceOp /\ cfg.scope \cap {"launch", "access"} # {} /\ aclInit
HandleWithDecompose == status /\ "decompose" \in cfg.analyses /\ aclInit
HandleWithCpuTensorCollect == status /\ cfg.cpu

Judged(c) == CASE c = "aten" -> HandleWithATenCollect
               [] c = "triton" -> ShouldEnableTritonCollect
               [] c = "decompose" -> HandleWithDecompose
               [] c = "cpu" -> HandleWithCpuTensorCollect

Judge(t) ==
  /\ At(t, "judge")
  /\ job' = [job EXCEPT ![t].on = Judged(Collectors[job[t].next])]
  /\ Go(t, "call")
  /\ UNCHANGED <<shared, locks, asked>>

\* A call without the lock takes it for as long as the call lasts.
MemScopePythonCall(t) == gil \in {None, t}

\* Where a thread goes after the last collector, and what it lets go of.
AfterCollectors(t) == IF job[t].request \in {"config", "set"} THEN "subscribe" ELSE "idle"

\* Mutant: a stop keeps the lock.
Unlocked_StopKeeps(t) == IF mutex = t /\ Target(t) THEN None ELSE mutex

Unlocked(t) == IF mutex = t THEN None ELSE mutex

Switched(t, c) == IF job[t].on THEN enabled \cup {c} ELSE enabled \ {c}

Call(t) ==
  /\ At(t, "call") /\ MemScopePythonCall(t)
  /\ enabled' = Switched(t, Collectors[job[t].next])
  /\ IF job[t].next < Len(Collectors)
     THEN /\ job' = [job EXCEPT ![t].next = @ + 1]
          /\ Go(t, "judge")
          /\ UNCHANGED locks
     ELSE /\ Go(t, AfterCollectors(t))
          /\ mutex' = Unlocked(t)
          /\ Release(t, AfterCollectors(t) = "idle")
  /\ UNCHANGED <<status, latch, cfg, aclInit, window, exiting, subscribed, announced, asked>>

-----------------------------------------------------------------------------
(* ConfigManager::SetConfig *)

\* SetAnalysisDefaultConfig: decompose needs the accesses.
SetAnalysisDefaultConfig(c) ==
  [c EXCEPT !.scope = @ \cup (IF "decompose" \in c.analyses THEN {"access"} ELSE {})]

SetConfigImpl(t) ==
  /\ At(t, "write")
  /\ cfg' = [SetAnalysisDefaultConfig(job[t].cfg) EXCEPT !.effective = TRUE]
  /\ Go(t, "judge")
  /\ UNCHANGED <<status, latch, aclInit, window, exiting, enabled, subscribed, announced, locks, job, asked>>

\* UpdateAnalysisType: the host analyzer is never unsubscribed here.
Subscribed == (cfg.analyses \cap {"decompose", "host"}) \cup (subscribed \cap {"host"})

UpdateAnalysisType(t) ==
  /\ At(t, "subscribe")
  /\ subscribed' = Subscribed
  /\ Go(t, "window")
  /\ UNCHANGED <<status, latch, cfg, aclInit, window, exiting, enabled, announced, locks, job, asked>>

-----------------------------------------------------------------------------
\* InitConfig reads what the command line saved, or takes the defaults;
\* InitTraceStatus and the constructor of EventReport follow it.  The first use
\* of EventReport opens the window.
Init ==
  /\ \E saved, deferred, steps \in BOOLEAN, given \in Settings \cup {Default} :
       /\ ~saved => ~deferred /\ ~steps /\ given = Default
       /\ Exclusive(given.analyses)
       /\ cfg = SetAnalysisDefaultConfig(Config(given, steps, saved))
       /\ status = (saved /\ ~deferred)
       /\ latch = deferred
       /\ window = ("host" \in given.analyses /\ ~deferred)
       /\ subscribed = given.analyses
       /\ announced = status
  /\ aclInit = FALSE /\ exiting = FALSE /\ enabled = {}
  /\ mutex = None /\ gil = None
  /\ pc = [t \in Threads |-> "idle"]
  /\ job = [t \in Threads |-> NoJob]
  /\ asked = 0

Step(t) ==
  \/ Latch(t) \/ DecideWindow(t) \/ ApplyWindow(t) \/ Announce(t) \/ Lock(t)
  \/ Judge(t) \/ Call(t) \/ SetConfigImpl(t) \/ UpdateAnalysisType(t)

Next ==
  \E t \in Threads :
    \/ Start(t) \/ Stop(t) \/ AclInit(t) \/ Exit(t)
    \/ \E wanted \in Settings : SetConfig(t, wanted) \/ Configure(t, wanted)
    \/ Step(t)

\* A thread that may go on does; nobody has to ask for anything.
Spec == Init /\ [][Next]_vars /\ \A t \in Threads : WF_vars(Step(t))

-----------------------------------------------------------------------------
(* Properties *)

\* The collectors that are on are those that should be.
Switches == enabled = {c \in {Collectors[i] : i \in 1..Len(Collectors)} : Judged(c)}

\* The trace, the latch, the window, the event (but for the skipped steps) and the
\* collectors agree.
Settled(s) ==
  /\ status = s /\ latch = ~s
  /\ ~cfg.steps => announced = s
  /\ ~exiting => window = (s /\ "host" \in cfg.analyses)
  /\ cfg.analyses \subseteq subscribed
  /\ Switches

\* A start or stop that no other request overlapped leaves everything in
\* agreement (the window only until the exit), whatever earlier requests that raced
\* left behind; and starts, stops and an exit that race with one another only leave
\* the collectors as the status of the last of them wants them, at each of their ends
\* (SetTraceStatus, event_trace_manager.cpp:324).
CallsSettle ==
  [][\A t \in Threads, s \in BOOLEAN :
       (job[t].request \in {"start", "stop"} /\ s = Target(t) /\ job'[t] = NoJob)
         => /\ job[t].met = {} => Settled(s)'
            /\ job[t].met \cap {"config", "set", "acl"} = {} => status' = s /\ Switches']_vars

\* The exit closes the window for good: "UpdateHostMemWindow必闭窗且此后不再重开"
\* (CloseHostMemWindowAtExit, event_report.cpp:2417).
ExitClosesWindow == \A t \in Threads : At(t, "ended") => ~window

\* A thread holds EventTraceManager::mutex_ and waits for the interpreter, the
\* other way round for the second.
Cycle(t, u) == mutex = t /\ gil = u /\ t # u /\ At(t, "call") /\ At(u, "lock")

\* The lock order written down in py_stack_capture.cpp:223 for the locks taken by
\* threads that hold the interpreter lock: never the interpreter inside the lock.
NoLockCycle == \A t, u \in Threads : ~Cycle(t, u)

\* Every request ends; the only thing that stops one is a start or stop of the
\* channel that meets one of Python's (SetTraceStatus, event_trace_manager.cpp:341).
RequestsEnd == \A t \in Threads : InFlight(t) ~> (~InFlight(t) \/ \E u, v \in Threads : Cycle(u, v))
=============================================================================
