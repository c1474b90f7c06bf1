------------------------- MODULE TraceControlProofs -------------------------
(***************************************************************************)
(* Theorems of TraceControl, for all threads, requests, collectors and     *)
(* settings.                                                               *)
(*                                                                         *)
(* Requests in flight know of each other (Aware).  CalmStage says how much *)
(* of its work a start or stop that met nothing has done at each place,    *)
(* SwitchStage what one that met only starts, stops and exits has switched *)
(* while it holds the lock; Followed, that the analyzers follow the        *)
(* configuration or somebody is on the way to subscribe them.              *)
(***************************************************************************)
EXTENDS TraceControl, TLAPS

\* The collectors there are.
Kinds == {"aten", "triton", "decompose", "cpu"}

\* The requests there are.
Names == {"start", "stop", "config", "set", "acl", "exit"}

\* What the configuration holds.
Configs == [analyses : SUBSET {"decompose", "host"}, scope : SUBSET {"op", "launch", "access"},
            cpu : BOOLEAN, steps : BOOLEAN, effective : BOOLEAN]

\* What a thread holds.
Jobs == [request : Names \cup {"none"}, met : SUBSET Names, cfg : Configs, window : BOOLEAN,
         next : 1..Len(Collectors), on : BOOLEAN]

\* Where a thread may be.
Places == {"idle", "ended", "latch", "window", "apply", "announce", "lock", "judge", "call", "write", "subscribe"}

\* The collectors that are switched.
Named == {Collectors[i] : i \in 1..Len(Collectors)}

\* The places of each request.
PlacesOf(r) ==
  CASE r = "none" -> {"idle", "ended"}
    [] r \in {"start", "stop"} -> {"latch", "window", "apply", "announce", "lock", "judge", "call"}
    [] r \in {"config", "set"} -> {"write", "judge", "call", "subscribe", "window", "apply"}
    [] r = "acl" -> {"judge", "call"}
    [] r = "exit" -> {"window", "apply"}

\* The types of the state, and every thread at a place of its request.
Types ==
  /\ job \in [Threads -> Jobs] /\ pc \in [Threads -> Places]
  /\ \A t \in Threads : pc[t] \in PlacesOf(job[t].request)
  /\ cfg \in Configs
  /\ status \in BOOLEAN /\ latch \in BOOLEAN /\ aclInit \in BOOLEAN /\ window \in BOOLEAN
  /\ exiting \in BOOLEAN /\ announced \in BOOLEAN
  /\ enabled \subseteq Named

\* Requests in flight have met.
Aware == \A t, u \in Threads : t # u /\ InFlight(t) /\ InFlight(u) => job[u].request \in job[t].met

\* The configuration was stored, and its analyzers are not subscribed yet.
Following(t) == job[t].request \in {"config", "set"} /\ pc[t] \in {"judge", "call", "subscribe"}

\* The analyzers follow the configuration, or somebody will subscribe them.
Followed == cfg.analyses \subseteq subscribed \/ \E t \in Threads : Following(t)

\* A start or stop.
Switcher(t) == job[t].request \in {"start", "stop"}

\* What a calm start or stop has done at each place.
Done(t, s) ==
  /\ pc[t] # "latch" => latch = ~s
  /\ pc[t] = "apply" => job[t].window = ("host" \in cfg.analyses /\ s)
  /\ pc[t] \in {"announce", "lock", "judge", "call"} /\ ~exiting => window = (s /\ "host" \in cfg.analyses)
  /\ pc[t] \in {"lock", "judge", "call"} /\ ~cfg.steps => announced = s

\* Every calm start or stop has done what its place says.
CalmStage == \A t \in Threads : job[t].met = {} /\ Switcher(t) => Done(t, Target(t))

\* A start or stop switches the collectors with the lock, from the first on.
Locked == \A t \in Threads : Switcher(t) =>
  /\ pc[t] \in {"latch", "window", "apply", "announce", "lock"} => job[t].next = 1
  /\ pc[t] \in {"judge", "call"} => mutex = t

\* What a start or stop has switched, if nothing was configured meanwhile.
Switching(t, s) ==
  /\ pc[t] \in {"judge", "call"} =>
       /\ status = s
       /\ \A i \in 1..(job[t].next - 1) : Collectors[i] \in enabled <=> Judged(Collectors[i])
  /\ pc[t] = "call" => job[t].on = Judged(Collectors[job[t].next])

\* The requests that change what the collectors depend on.
Configuring == {"config", "set", "acl"}

SwitchStage == \A t \in Threads :
  job[t].met \cap Configuring = {} /\ Switcher(t) => Switching(t, Target(t))

\* The inductive invariant.
ControlInv == Types /\ Aware /\ Followed /\ CalmStage /\ Locked /\ SwitchStage

-----------------------------------------------------------------------------
(* The moves of a thread *)

\* The others are at their places with their jobs.
Others(t) == \A u \in Threads \ {t} : pc'[u] = pc[u] /\ job'[u] = job[u]

\* A request begins, and meets those in flight.
Begins(t, r, p) ==
  /\ r \in Names /\ p \in PlacesOf(r) /\ (r \in {"start", "stop"} => p = "latch")
  /\ pc[t] = "idle" /\ pc' = [pc EXCEPT ![t] = p]
  /\ job' \in [Threads -> Jobs] /\ job'[t].request = r /\ job'[t].next = 1
  /\ job'[t].met = {job[v].request : v \in {w \in Threads : InFlight(w)}}
  /\ \A u \in Threads \ {t} :
       job'[u] = IF InFlight(u) THEN [job[u] EXCEPT !.met = @ \cup {r}] ELSE job[u]
  /\ mutex' = mutex

\* What is known of the constants.
LEMMA CollectorFacts ==
  /\ Len(Collectors) \in Nat /\ Len(Collectors) >= 1
  /\ \A i \in 1..Len(Collectors) : Collectors[i] \in Kinds /\ Collectors[i] \in Named
<1>1. Collectors \in Seq(Kinds) /\ Collectors # <<>>
  BY ControlAssumption DEF Kinds
<1>2. QED
  BY <1>1 DEF Named

\* A job with other contents is a job.
LEMMA JobTypes ==
  ASSUME NEW j \in Jobs
  PROVE  /\ NoJob \in Jobs
         /\ \A b \in BOOLEAN : [j EXCEPT !.window = b] \in Jobs /\ [j EXCEPT !.on = b] \in Jobs
         /\ \A m \in SUBSET Names : [j EXCEPT !.met = m] \in Jobs
         /\ \A r \in Names, c \in Configs : Job(r, c) \in Jobs
         /\ j.next < Len(Collectors) => [j EXCEPT !.next = @ + 1] \in Jobs
<1>1. Len(Collectors) \in Nat /\ 1 \in 1..Len(Collectors)
  BY CollectorFacts
<1>2. \A r \in Names, c \in Configs : Job(r, c) \in Jobs
  BY <1>1 DEF Job, Jobs
<1>3. NoJob \in Jobs
  <2>1. Config(Default, FALSE, FALSE) \in Configs
    BY DEF Config, Default, Configs
  <2>2. QED
    BY <1>1, <2>1 DEF NoJob, Job, Jobs
<1>4. /\ \A b \in BOOLEAN : [j EXCEPT !.window = b] \in Jobs /\ [j EXCEPT !.on = b] \in Jobs
      /\ \A m \in SUBSET Names : [j EXCEPT !.met = m] \in Jobs
  BY DEF Jobs
<1>5. j.next < Len(Collectors) => [j EXCEPT !.next = @ + 1] \in Jobs
  BY <1>1 DEF Jobs
<1>6. QED
  BY <1>2, <1>3, <1>4, <1>5

\* Accept begins a request.
LEMMA AcceptBegins ==
  ASSUME Types, NEW t \in Threads, NEW r \in Names, NEW c \in Configs, NEW p \in PlacesOf(r),
         r \in {"start", "stop"} => p = "latch", Ask(t, r), Accept(t, r, c, p)
  PROVE  Begins(t, r, p)
<1> DEFINE met == {job[v].request : v \in {w \in Threads : InFlight(w)}}
<1>1. Job(r, c) \in Jobs
  BY JobTypes DEF Types
<1>2. met \subseteq Names
  <2>1. ASSUME NEW w \in Threads, InFlight(w) PROVE job[w].request \in Names
    BY <2>1 DEF Types, Jobs, InFlight, PlacesOf
  <2>2. QED
    BY <2>1
<1>3. [Job(r, c) EXCEPT !.met = met] \in Jobs
  BY <1>1, <1>2, JobTypes
<1>4. \A u \in Threads : [job[u] EXCEPT !.met = @ \cup {r}] \in Jobs
  <2>1. ASSUME NEW u \in Threads PROVE [job[u] EXCEPT !.met = job[u].met \cup {r}] \in Jobs
    <3>1. job[u] \in Jobs /\ job[u].met \cup {r} \in SUBSET Names
      BY DEF Types, Jobs
    <3>2. QED
      BY <3>1, JobTypes
  <2>2. QED
    BY <2>1
<1>5. job' = [u \in Threads |-> IF u = t THEN [Job(r, c) EXCEPT !.met = met]
                                ELSE IF InFlight(u) THEN [job[u] EXCEPT !.met = @ \cup {r}] ELSE job[u]]
  BY DEF Accept
<1>6. job' \in [Threads -> Jobs]
  BY <1>3, <1>4, <1>5 DEF Types
<1>7. job'[t].request = r /\ job'[t].next = 1 /\ job'[t].met = met
  BY <1>1, <1>5 DEF Job
<1>8. \A u \in Threads \ {t} :
        job'[u] = IF InFlight(u) THEN [job[u] EXCEPT !.met = @ \cup {r}] ELSE job[u]
  BY <1>5
<1>9. QED
  BY <1>6, <1>7, <1>8 DEF Begins, Ask, Accept, At, Go

\* A thread asks for something: the books of the collection stay as they are.
LEMMA AskMoves ==
  ASSUME Types, NEW t \in Threads,
         \/ Start(t) \/ Stop(t) \/ AclInit(t) \/ Exit(t)
         \/ \E wanted \in Settings : SetConfig(t, wanted) \/ Configure(t, wanted)
  PROVE  /\ \E r, p : Begins(t, r, p) /\ (r # "acl" => aclInit' = aclInit)
         /\ UNCHANGED <<cfg, status, window, enabled, subscribed, announced>>
         /\ aclInit' \in BOOLEAN /\ latch' \in BOOLEAN /\ exiting' \in BOOLEAN
<1>1. cfg \in Configs
  BY DEF Types
<1>2. CASE Start(t)
  <2>1. Begins(t, "start", "latch")
    BY <1>1, <1>2, AcceptBegins DEF Start, Names, PlacesOf
  <2>2. QED
    BY <1>2, <2>1 DEF Start, shared, Types
<1>3. CASE Stop(t)
  <2>1. Begins(t, "stop", "latch")
    BY <1>1, <1>3, AcceptBegins DEF Stop, Names, PlacesOf
  <2>2. QED
    BY <1>3, <2>1 DEF Stop, shared, Types
<1>4. CASE AclInit(t)
  <2>1. Begins(t, "acl", "judge")
    BY <1>1, <1>4, AcceptBegins DEF AclInit, Names, PlacesOf
  <2>2. QED
    BY <1>4, <2>1 DEF AclInit, Types
<1>5. CASE Exit(t)
  <2>1. Begins(t, "exit", "window")
    BY <1>1, <1>5, AcceptBegins DEF Exit, Names, PlacesOf
  <2>2. QED
    BY <1>5, <2>1 DEF Exit, Types
<1>6. ASSUME NEW wanted \in Settings, SetConfig(t, wanted) PROVE
         /\ \E r, p : Begins(t, r, p) /\ (r # "acl" => aclInit' = aclInit)
         /\ UNCHANGED <<cfg, status, window, enabled, subscribed, announced>>
         /\ aclInit' \in BOOLEAN /\ latch' \in BOOLEAN /\ exiting' \in BOOLEAN
  <2>1. [cfg EXCEPT !.analyses = wanted.analyses] \in Configs
    BY <1>1, ControlAssumption DEF Configs
  <2>2. Begins(t, "set", "write")
    BY <1>6, <2>1, AcceptBegins DEF SetConfig, Names, PlacesOf
  <2>3. QED
    BY <1>6, <2>2 DEF SetConfig, shared, Types
<1>7. ASSUME NEW wanted \in Settings, Configure(t, wanted) PROVE
         /\ \E r, p : Begins(t, r, p) /\ (r # "acl" => aclInit' = aclInit)
         /\ UNCHANGED <<cfg, status, window, enabled, subscribed, announced>>
         /\ aclInit' \in BOOLEAN /\ latch' \in BOOLEAN /\ exiting' \in BOOLEAN
  <2>1. Fresh(wanted) \in Configs
    BY <1>1, ControlAssumption DEF Fresh, Config, Configs
  <2>2. Begins(t, "config", "write")
    BY <1>7, <2>1, AcceptBegins DEF Configure, Names, PlacesOf
  <2>3. QED
    BY <1>7, <2>2 DEF Configure, shared, Types
<1>8. QED
  BY <1>2, <1>3, <1>4, <1>5, <1>6, <1>7

\* A step of a request keeps the types; the request stays, or is over.
LEMMA StepMoves ==
  ASSUME Types, NEW t \in Threads, Step(t)
  PROVE  /\ Types' /\ Others(t) /\ InFlight(t) /\ exiting' = exiting /\ aclInit' = aclInit
         /\ \/ job'[t].request = job[t].request /\ job'[t].met = job[t].met
            \/ job'[t] = NoJob /\ job'[t].request = "none" /\ (pc[t] = "call" \/ pc[t] = "apply")
<1> DEFINE j == job[t]
           Result == /\ Types' /\ Others(t) /\ InFlight(t) /\ exiting' = exiting /\ aclInit' = aclInit
                     /\ \/ job'[t].request = job[t].request /\ job'[t].met = job[t].met
                        \/ job'[t] = NoJob /\ job'[t].request = "none" /\ (pc[t] = "call" \/ pc[t] = "apply")
<1> SUFFICES Result
  OBVIOUS
<1>1. /\ j \in Jobs /\ pc[t] \in PlacesOf(j.request) /\ j.request \in Names \cup {"none"}
      /\ NoJob.request = "none" /\ NoJob \in Jobs
  <2>1. j \in Jobs /\ pc[t] \in PlacesOf(j.request) /\ NoJob \in Jobs
    BY JobTypes DEF Types
  <2>2. QED
    BY <2>1 DEF Jobs, NoJob, Job
\* The thread goes to p with the job k; what it changes has its type.
<1>2. ASSUME NEW p \in Places, NEW k \in Jobs, pc[t] \notin {"idle", "ended"},
             pc' = [pc EXCEPT ![t] = p], job' = [job EXCEPT ![t] = k], p \in PlacesOf(k.request),
             cfg' \in Configs, status' \in BOOLEAN, latch' \in BOOLEAN, window' \in BOOLEAN, announced' \in BOOLEAN,
             enabled' \subseteq Named, exiting' = exiting, aclInit' = aclInit,
             \/ k.request = j.request /\ k.met = j.met
             \/ k = NoJob /\ (pc[t] = "call" \/ pc[t] = "apply")
      PROVE  Result
  <2>1. pc' \in [Threads -> Places] /\ job' \in [Threads -> Jobs] /\ pc'[t] = p /\ job'[t] = k
    BY <1>2 DEF Types
  <2>2. Others(t)
    BY <1>2 DEF Others, Types
  <2>3. \A u \in Threads : pc'[u] \in PlacesOf(job'[u].request)
    BY <1>2, <2>1, <2>2 DEF Types, Others
  <2>4. Types'
    BY <1>2, <2>1, <2>3 DEF Types
  <2>5. QED
    BY <1>1, <1>2, <2>1, <2>2, <2>4 DEF InFlight
<1>3. /\ cfg \in Configs /\ status \in BOOLEAN /\ latch \in BOOLEAN /\ window \in BOOLEAN /\ announced \in BOOLEAN
      /\ enabled \subseteq Named /\ job = [job EXCEPT ![t] = j]
  BY DEF Types
<1> HIDE DEF Result
<1>4. CASE Latch(t)
  <2>1. j.request \in {"start", "stop"}
    BY <1>1, <1>4 DEF Latch, At, PlacesOf, Names
  <2>2. "window" \in Places /\ "window" \in PlacesOf(j.request)
    BY <2>1 DEF Places, PlacesOf
  <2>3. latch' \in BOOLEAN
    BY <1>4 DEF Latch
  <2>4. QED
    BY <1>1, <1>2, <1>3, <1>4, <2>2, <2>3 DEF Latch, At, Go, locks
<1>5. CASE DecideWindow(t)
  <2>1. j.request \in {"start", "stop", "config", "set", "exit"}
    BY <1>1, <1>5 DEF DecideWindow, At, PlacesOf, Names
  <2>2. "apply" \in Places /\ "apply" \in PlacesOf(j.request)
    BY <2>1 DEF Places, PlacesOf
  <2> DEFINE k == [j EXCEPT !.window = WindowWanted]
  <2>3. k \in Jobs /\ k.request = j.request /\ k.met = j.met
    <3>1. WindowWanted \in BOOLEAN
      BY DEF WindowWanted
    <3>2. QED
      BY <1>1, <3>1, JobTypes DEF Jobs
  <2>4. job' = [job EXCEPT ![t] = k]
    BY <1>5 DEF DecideWindow
  <2>5. pc' = [pc EXCEPT ![t] = "apply"] /\ pc[t] = "window" /\ UNCHANGED shared
    BY <1>5 DEF DecideWindow, At, Go
  <2> HIDE DEF k
  <2>6. QED
    BY <1>2, <1>3, <2>2, <2>3, <2>4, <2>5 DEF shared
<1>6. CASE ApplyWindow(t)
  <2>1. j.request \in {"start", "stop", "config", "set", "exit"}
    BY <1>1, <1>6 DEF ApplyWindow, At, PlacesOf, Names
  <2> DEFINE p == AfterWindow(t)
  <2>2. /\ p \in Places
        /\ \/ p = "announce" /\ j.request \in {"start", "stop"} /\ p \in PlacesOf(j.request) /\ job' = [job EXCEPT ![t] = j]
           \/ p \in {"idle", "ended"} /\ job' = [job EXCEPT ![t] = NoJob]
    BY <1>3, <1>6, <2>1 DEF ApplyWindow, AfterWindow, Release, Places, PlacesOf
  <2>3. p \in {"idle", "ended"} => p \in PlacesOf("none")
    BY DEF PlacesOf
  <2>4. /\ pc' = [pc EXCEPT ![t] = p] /\ pc[t] = "apply" /\ window' \in BOOLEAN
        /\ UNCHANGED <<status, latch, cfg, aclInit, exiting, enabled, announced>>
    BY <1>6 DEF ApplyWindow, At, Go
  <2> HIDE DEF p
  <2>5. QED
    BY <1>1, <1>2, <1>3, <2>2, <2>3, <2>4
<1>7. CASE Announce(t)
  <2>1. j.request \in {"start", "stop"}
    BY <1>1, <1>7 DEF Announce, At, PlacesOf, Names
  <2>2. "lock" \in Places /\ "lock" \in PlacesOf(j.request)
    BY <2>1 DEF Places, PlacesOf
  <2>3. announced' \in BOOLEAN
    BY <1>3, <1>7 DEF Announce, Target
  <2>4. QED
    BY <1>1, <1>2, <1>3, <1>7, <2>2, <2>3 DEF Announce, At, Go, locks
<1>8. CASE Lock(t)
  <2>1. j.request \in {"start", "stop"}
    BY <1>1, <1>8 DEF Lock, At, PlacesOf, Names
  <2>2. "judge" \in Places /\ "judge" \in PlacesOf(j.request)
    BY <2>1 DEF Places, PlacesOf
  <2>3. status' \in BOOLEAN
    BY <1>8 DEF Lock, Target
  <2>4. QED
    BY <1>1, <1>2, <1>3, <1>8, <2>2, <2>3 DEF Lock, At, Go
<1>9. CASE Judge(t)
  <2>1. j.request \in {"start", "stop", "config", "set", "acl"}
    BY <1>1, <1>9 DEF Judge, At, PlacesOf, Names
  <2>2. "call" \in Places /\ "call" \in PlacesOf(j.request)
    BY <2>1 DEF Places, PlacesOf
  <2>3. Judged(Collectors[j.next]) \in BOOLEAN
    BY <1>1, <1>3, CollectorFacts DEF Jobs, Kinds, Judged, HandleWithATenCollect, ShouldEnableTritonCollect, IsNeedTraceOp,
                                  HandleWithDecompose, HandleWithCpuTensorCollect, Types, Configs
  <2> DEFINE k == [j EXCEPT !.on = Judged(Collectors[j.next])]
  <2>4. k \in Jobs /\ k.request = j.request /\ k.met = j.met
    BY <1>1, <2>3, JobTypes DEF Jobs
  <2>5. job' = [job EXCEPT ![t] = k]
    BY <1>9 DEF Judge
  <2>6. pc' = [pc EXCEPT ![t] = "call"] /\ pc[t] = "judge" /\ UNCHANGED shared
    BY <1>9 DEF Judge, At, Go
  <2> HIDE DEF k
  <2>7. QED
    BY <1>2, <1>3, <2>2, <2>4, <2>5, <2>6 DEF shared
<1>10. CASE Call(t)
  <2>1. j.request \in {"start", "stop", "config", "set", "acl"}
    BY <1>1, <1>10 DEF Call, At, PlacesOf, Names
  <2>2. enabled' \subseteq Named
    BY <1>1, <1>3, <1>10, CollectorFacts DEF Call, Switched, Jobs
  <2>3. /\ pc[t] = "call"
        /\ UNCHANGED <<status, latch, cfg, aclInit, window, exiting, announced>>
    BY <1>10 DEF Call, At
  <2>4. CASE j.next < Len(Collectors)
    <3> DEFINE k == [j EXCEPT !.next = @ + 1]
    <3>1. k \in Jobs /\ k.request = j.request /\ k.met = j.met
      BY <1>1, <2>4, JobTypes DEF Jobs
    <3>2. job' = [job EXCEPT ![t] = k] /\ pc' = [pc EXCEPT ![t] = "judge"]
      BY <1>10, <2>4 DEF Call, Go
    <3>3. "judge" \in Places /\ "judge" \in PlacesOf(j.request)
      BY <2>1 DEF Places, PlacesOf
    <3> HIDE DEF k
    <3>4. QED
      BY <1>2, <1>3, <2>2, <2>3, <3>1, <3>2, <3>3
  <2>5. CASE ~(j.next < Len(Collectors))
    <3>1. /\ pc' = [pc EXCEPT ![t] = AfterCollectors(t)]
          /\ \/ /\ AfterCollectors(t) = "subscribe" /\ j.request \in {"config", "set"}
                /\ job' = [job EXCEPT ![t] = j]
             \/ AfterCollectors(t) = "idle" /\ job' = [job EXCEPT ![t] = NoJob]
      BY <1>3, <1>10, <2>5 DEF Call, Go, AfterCollectors, Release
    <3>2. /\ "subscribe" \in Places /\ "idle" \in Places /\ "idle" \in PlacesOf("none")
          /\ j.request \in {"config", "set"} => "subscribe" \in PlacesOf(j.request)
      BY DEF Places, PlacesOf
    <3>3. QED
      BY <1>1, <1>2, <1>3, <2>2, <2>3, <3>1, <3>2
  <2>6. QED
    BY <2>4, <2>5
<1>11. CASE SetConfigImpl(t)
  <2>1. j.request \in {"config", "set"}
    BY <1>1, <1>11 DEF SetConfigImpl, At, PlacesOf, Names
  <2>2. "judge" \in Places /\ "judge" \in PlacesOf(j.request)
    BY <2>1 DEF Places, PlacesOf
  <2>3. cfg' \in Configs
    BY <1>1, <1>11 DEF SetConfigImpl, SetAnalysisDefaultConfig, Jobs, Configs
  <2>4. QED
    BY <1>1, <1>2, <1>3, <1>11, <2>2, <2>3 DEF SetConfigImpl, At, Go, locks
<1>12. CASE UpdateAnalysisType(t)
  <2>1. j.request \in {"config", "set"}
    BY <1>1, <1>12 DEF UpdateAnalysisType, At, PlacesOf, Names
  <2>2. "window" \in Places /\ "window" \in PlacesOf(j.request)
    BY <2>1 DEF Places, PlacesOf
  <2>3. QED
    BY <1>1, <1>2, <1>3, <1>12, <2>2 DEF UpdateAnalysisType, At, Go, locks
<1>13. QED
  BY <1>4, <1>5, <1>6, <1>7, <1>8, <1>9, <1>10, <1>11, <1>12 DEF Step

-----------------------------------------------------------------------------
(* The invariant *)

\* The state the process starts in.
LEMMA InitInv == Init => ControlInv
<1> SUFFICES ASSUME Init PROVE ControlInv
  OBVIOUS
<1> PICK saved, deferred, steps \in BOOLEAN, given \in Settings \cup {Default} :
      /\ cfg = SetAnalysisDefaultConfig(Config(given, steps, saved))
      /\ status = (saved /\ ~deferred)
      /\ latch = deferred
      /\ window = ("host" \in given.analyses /\ ~deferred)
      /\ subscribed = given.analyses
      /\ announced = status
  BY DEF Init
<1>1. /\ Config(given, steps, saved) \in Configs
      /\ cfg \in Configs /\ cfg.analyses = given.analyses
  <2>1. Config(given, steps, saved) \in Configs /\ Config(given, steps, saved).analyses = given.analyses
    <3>1. given \in [analyses : SUBSET {"decompose", "host"}, scope : SUBSET {"op", "launch", "access"}, cpu : BOOLEAN]
      <4>1. CASE given = Default
        BY <4>1 DEF Default
      <4>2. CASE given \in Settings
        BY <4>2, ControlAssumption
      <4>3. QED
        BY <4>1, <4>2
    <3>2. QED
      BY <3>1 DEF Config, Configs
  <2>2. QED
    BY <2>1 DEF SetAnalysisDefaultConfig, Configs
<1>2. /\ NoJob \in Jobs /\ NoJob.request = "none"
  <2>1. Len(Collectors) \in Nat /\ 1 \in 1..Len(Collectors)
    BY CollectorFacts
  <2>2. Config(Default, FALSE, FALSE) \in Configs
    BY DEF Config, Default, Configs
  <2>3. QED
    BY <2>1, <2>2 DEF NoJob, Job, Jobs
<1>3. Types
  <2>1. cfg \in Configs
    BY <1>1
  <2>2. \A t \in Threads : pc[t] \in PlacesOf(job[t].request)
    BY <1>2 DEF Init, PlacesOf
  <2>3. status \in BOOLEAN /\ latch \in BOOLEAN /\ window \in BOOLEAN /\ announced \in BOOLEAN
    OBVIOUS
  <2>4. QED
    BY <1>2, <2>1, <2>2, <2>3 DEF Types, Init, Places
<1>4. \A t \in Threads : job[t].request = "none"
  BY <1>2 DEF Init
<1>5. cfg.analyses \subseteq subscribed
  BY <1>1
<1>6. QED
  BY <1>3, <1>4, <1>5 DEF ControlInv, Aware, InFlight, Init, Followed, CalmStage, Locked, SwitchStage, Switcher

\* A new request keeps the invariant: it meets those in flight, and has done
\* nothing yet.
LEMMA AskKeeps ==
  ASSUME ControlInv, NEW t \in Threads,
         \/ Start(t) \/ Stop(t) \/ AclInit(t) \/ Exit(t)
         \/ \E wanted \in Settings : SetConfig(t, wanted) \/ Configure(t, wanted)
  PROVE  ControlInv'
<1>1. Types /\ Aware /\ Followed /\ CalmStage /\ Locked /\ SwitchStage
  BY DEF ControlInv
<1>2. /\ \E r, p : Begins(t, r, p) /\ (r # "acl" => aclInit' = aclInit)
      /\ UNCHANGED <<cfg, status, window, enabled, subscribed, announced>>
      /\ aclInit' \in BOOLEAN /\ latch' \in BOOLEAN /\ exiting' \in BOOLEAN
  BY <1>1, AskMoves
<1>3. PICK r, p : Begins(t, r, p) /\ (r # "acl" => aclInit' = aclInit)
  BY <1>2
<1>4. p \in Places /\ p \notin {"idle", "ended"}
  BY <1>3 DEF Begins, PlacesOf, Places, Names
<1>5. /\ pc'[t] = p /\ job'[t].request = r /\ job'[t].next = 1 /\ pc[t] = "idle" /\ mutex' = mutex
      /\ Switcher(t)' => pc'[t] = "latch"
  BY <1>1, <1>3 DEF Begins, Types, Switcher
\* The others go on, and know of it if they are in flight.
<1>6. ASSUME NEW u \in Threads \ {t}
      PROVE  /\ pc'[u] = pc[u] /\ job'[u].request = job[u].request /\ job'[u].next = job[u].next
             /\ job'[u].on = job[u].on
             /\ InFlight(u) => job'[u].met = job[u].met \cup {r}
             /\ ~InFlight(u) => job'[u] = job[u] /\ ~Switcher(u)
  <2>1. pc'[u] = pc[u]
    BY <1>1, <1>3 DEF Begins, Types
  <2>2. job[u] \in Jobs /\ pc[u] \in PlacesOf(job[u].request)
    BY <1>1 DEF Types
  <2>3. job'[u] = IF InFlight(u) THEN [job[u] EXCEPT !.met = @ \cup {r}] ELSE job[u]
    BY <1>3 DEF Begins
  <2>4. ~InFlight(u) => ~Switcher(u)
    BY <2>2 DEF InFlight, Switcher, PlacesOf
  <2>5. QED
    BY <2>1, <2>2, <2>3, <2>4 DEF Jobs
<1>7. Types'
  <2>1. pc' \in [Threads -> Places] /\ job' \in [Threads -> Jobs]
    BY <1>1, <1>3, <1>4 DEF Begins, Types
  <2>2. \A u \in Threads : pc'[u] \in PlacesOf(job'[u].request)
    BY <1>1, <1>3, <1>5, <1>6 DEF Begins, Types
  <2>3. QED
    BY <1>1, <1>2, <2>1, <2>2 DEF Types
<1>8. Aware'
  <2>1. \A u \in Threads \ {t} : InFlight(u)' => InFlight(u)
    BY <1>6 DEF InFlight
  <2>2. ASSUME NEW u \in Threads \ {t}, InFlight(u)
        PROVE  r \in job'[u].met /\ job'[u].request \in job'[t].met
    BY <1>3, <1>6, <2>2 DEF Begins
  <2>3. ASSUME NEW u \in Threads \ {t}, NEW v \in Threads \ {t}, u # v, InFlight(u), InFlight(v)
        PROVE  job'[v].request \in job'[u].met
    BY <1>1, <1>6, <2>3 DEF Aware
  <2>4. QED
    BY <1>5, <2>1, <2>2, <2>3 DEF Aware
<1>9. Followed'
  <2>1. \A u \in Threads : Following(u) => Following(u)'
    BY <1>5, <1>6 DEF Following
  <2>2. QED
    BY <1>1, <1>2, <2>1 DEF Followed
<1>10. CalmStage'
  <2>1. SUFFICES ASSUME NEW u \in Threads, (job[u].met = {} /\ Switcher(u))'
                 PROVE  Done(u, Target(u))'
    BY DEF CalmStage
  <2>2. u = t
    BY <1>6, <2>1 DEF Switcher
  <2>3. QED
    BY <1>5, <2>1, <2>2 DEF Done
<1>11. Locked'
  <2>1. SUFFICES ASSUME NEW u \in Threads, Switcher(u)'
                 PROVE  /\ pc'[u] \in {"latch", "window", "apply", "announce", "lock"} => job'[u].next = 1
                        /\ pc'[u] \in {"judge", "call"} => mutex' = u
    BY DEF Locked
  <2>2. QED
    BY <1>1, <1>5, <1>6, <2>1 DEF Locked, Switcher
<1>12. SwitchStage'
  <2>1. SUFFICES ASSUME NEW u \in Threads, (job[u].met \cap Configuring = {} /\ Switcher(u))'
                 PROVE  Switching(u, Target(u))'
    BY DEF SwitchStage
  <2>2. CASE u = t
    BY <1>5, <2>1, <2>2 DEF Switching
  <2>3. CASE u # t
    <3>1. job'[u].met = job[u].met \cup {r} /\ Switcher(u)
      BY <1>6, <2>1, <2>3 DEF Switcher
    <3>2. r # "acl" /\ job[u].met \cap Configuring = {}
      <4>1. (job[u].met \cup {r}) \cap {"config", "set", "acl"} = {}
        BY <2>1, <3>1 DEF Configuring
      <4>2. QED
        BY <4>1 DEF Configuring
    <3>3. \A c : Judged(c)' = Judged(c)
      <4>1. UNCHANGED <<cfg, status, aclInit>>
        BY <1>2, <1>3, <3>2
      <4>2. QED
        BY <4>1 DEF Judged, HandleWithATenCollect, ShouldEnableTritonCollect, IsNeedTraceOp,
                    HandleWithDecompose, HandleWithCpuTensorCollect
    <3>4. Switching(u, Target(u)) /\ Target(u)' = Target(u)
      BY <1>1, <1>6, <2>3, <3>1, <3>2 DEF SwitchStage, Target
    <3>5. QED
      BY <1>2, <1>6, <2>3, <3>3, <3>4 DEF Switching
  <2>4. QED
    BY <2>2, <2>3
<1>13. QED
  BY <1>7, <1>8, <1>9, <1>10, <1>11, <1>12 DEF ControlInv

\* What a call of a collector has switched, once it is over: every one up to it
\* is on if it should be.
LEMMA CallSwitches ==
  ASSUME Types, NEW t \in Threads, Call(t), NEW s, Switching(t, s)
  PROVE  \A i \in 1..job[t].next : Collectors[i] \in enabled' <=> Judged(Collectors[i])
<1>1. /\ pc[t] = "call" /\ enabled' = Switched(t, Collectors[job[t].next])
      /\ job[t].on = Judged(Collectors[job[t].next])
      /\ \A i \in 1..(job[t].next - 1) : Collectors[i] \in enabled <=> Judged(Collectors[i])
      /\ job[t].next \in Nat
  BY CollectorFacts DEF Call, At, Switching, Types, Jobs
<1>2. SUFFICES ASSUME NEW i \in 1..job[t].next PROVE Collectors[i] \in enabled' <=> Judged(Collectors[i])
  OBVIOUS
<1>3. CASE Collectors[i] = Collectors[job[t].next]
  BY <1>1, <1>3 DEF Switched
<1>4. CASE Collectors[i] # Collectors[job[t].next]
  <2>1. i \in 1..(job[t].next - 1)
    BY <1>1, <1>4
  <2>2. QED
    BY <1>1, <1>4, <2>1 DEF Switched
<1>5. QED
  BY <1>3, <1>4

\* A step of a calm start or stop does the next part of its work.
LEMMA StepDoes ==
  ASSUME Types, NEW t \in Threads, Step(t), NEW s \in BOOLEAN, s = Target(t), Done(t, s),
         Switcher(t), Switcher(t)'
  PROVE  Done(t, s)'
<1> DEFINE j == job[t]
<1>1. /\ j \in Jobs /\ pc[t] \in PlacesOf(j.request) /\ pc \in [Threads -> Places] /\ job \in [Threads -> Jobs]
      /\ status \in BOOLEAN /\ latch \in BOOLEAN /\ window \in BOOLEAN /\ exiting \in BOOLEAN
  BY DEF Types
<1>2. pc[t] \in {"latch", "window", "apply", "announce", "lock", "judge", "call"}
  BY <1>1 DEF PlacesOf, Switcher
<1>3. CASE Latch(t)
  BY <1>1, <1>3 DEF Latch, At, Go, Done
<1>4. CASE DecideWindow(t)
  <2>1. /\ pc'[t] = "apply" /\ job'[t].window = WindowWanted /\ pc[t] = "window" /\ UNCHANGED shared
    BY <1>1, <1>4 DEF DecideWindow, At, Go, Jobs
  <2>2. QED
    BY <1>1, <2>1 DEF Done, WindowWanted, shared
<1>5. CASE ApplyWindow(t)
  <2>1. /\ AfterWindow(t) = "announce" /\ pc[t] = "apply"
        /\ window' = (j.window /\ (window \/ ~exiting))
        /\ UNCHANGED <<status, latch, cfg, aclInit, exiting, enabled, subscribed, announced>>
    BY <1>5 DEF ApplyWindow, AfterWindow, At, MayOpen, Switcher
  <2>2. pc'[t] = "announce"
    BY <1>1, <1>5, <2>1 DEF ApplyWindow, Go
  <2>3. QED
    BY <1>1, <2>1, <2>2 DEF Done
<1>6. CASE Announce(t)
  <2>1. /\ pc[t] = "announce" /\ pc'[t] = "lock" /\ (announced' = s \/ cfg.steps)
        /\ UNCHANGED <<latch, cfg, window, exiting>>
    BY <1>1, <1>6 DEF Announce, At, Go, MaySkip
  <2>2. QED
    BY <2>1 DEF Done
<1>7. CASE Lock(t)
  <2>1. pc[t] = "lock" /\ pc'[t] = "judge" /\ UNCHANGED <<latch, cfg, window, exiting, announced>>
    BY <1>1, <1>7 DEF Lock, At, Go
  <2>2. QED
    BY <2>1 DEF Done
<1>8. CASE Judge(t)
  <2>1. pc[t] = "judge" /\ pc'[t] = "call" /\ UNCHANGED <<latch, cfg, window, exiting, announced>>
    BY <1>1, <1>8 DEF Judge, At, Go, shared
  <2>2. QED
    BY <2>1 DEF Done
<1>9. CASE Call(t)
  <2>1. pc[t] = "call" /\ UNCHANGED <<latch, cfg, window, exiting, announced>>
    BY <1>9 DEF Call, At
  <2>2. pc'[t] \in {"judge", "subscribe", "idle"}
    BY <1>1, <1>9 DEF Call, Go, AfterCollectors
  <2>3. QED
    BY <2>1, <2>2 DEF Done
<1>10. CASE SetConfigImpl(t) \/ UpdateAnalysisType(t)
  BY <1>2, <1>10 DEF SetConfigImpl, UpdateAnalysisType, At
<1>11. QED
  BY <1>3, <1>4, <1>5, <1>6, <1>7, <1>8, <1>9, <1>10 DEF Step

\* A step of a start or stop switches the next collector, or none.
LEMMA StepSwitches ==
  ASSUME Types, Locked, NEW t \in Threads, Step(t), NEW s \in BOOLEAN, s = Target(t), Switching(t, s),
         Switcher(t), Switcher(t)'
  PROVE  Switching(t, s)'
<1> DEFINE j == job[t]
<1>1. /\ j \in Jobs /\ pc[t] \in PlacesOf(j.request) /\ pc \in [Threads -> Places] /\ job \in [Threads -> Jobs]
      /\ j.next \in Nat
  BY CollectorFacts DEF Types, Jobs
<1>2. pc[t] \in {"latch", "window", "apply", "announce", "lock", "judge", "call"}
  BY <1>1 DEF PlacesOf, Switcher
<1>3. CASE Latch(t) \/ DecideWindow(t) \/ ApplyWindow(t) \/ Announce(t)
  <2>1. pc'[t] \in {"window", "apply", "announce", "lock", "idle", "ended"}
    BY <1>1, <1>3 DEF Latch, DecideWindow, ApplyWindow, AfterWindow, Announce, Go
  <2>2. QED
    BY <2>1 DEF Switching
<1>4. CASE Lock(t)
  <2>1. pc[t] = "lock" /\ pc'[t] = "judge" /\ status' = s /\ job' = job
    BY <1>1, <1>4 DEF Lock, At, Go
  <2>2. job[t].next = 1
    BY <2>1 DEF Locked
  <2>3. QED
    BY <2>1, <2>2 DEF Switching
<1>5. CASE Judge(t)
  <2>1. /\ pc[t] = "judge" /\ pc'[t] = "call" /\ job'[t].on = Judged(Collectors[j.next]) /\ job'[t].next = j.next
        /\ UNCHANGED shared
    BY <1>1, <1>5 DEF Judge, At, Go, Jobs
  <2>2. \A c : Judged(c)' = Judged(c)
    BY <2>1 DEF shared, Judged, HandleWithATenCollect, ShouldEnableTritonCollect, IsNeedTraceOp,
                HandleWithDecompose, HandleWithCpuTensorCollect
  <2>3. QED
    BY <1>1, <2>1, <2>2 DEF Switching, shared
<1>6. CASE Call(t)
  <2>1. /\ pc[t] = "call"
        /\ UNCHANGED <<status, latch, cfg, aclInit, window, exiting, subscribed, announced>>
    BY <1>6 DEF Call, At
  <2>2. j.next < Len(Collectors)
    <3>1. ASSUME ~(j.next < Len(Collectors)) PROVE FALSE
      <4>1. job' = [job EXCEPT ![t] = NoJob]
        BY <1>6, <3>1 DEF Call, AfterCollectors, Release, Switcher
      <4>2. QED
        BY <1>1, <4>1 DEF NoJob, Job, Switcher
    <3>2. QED
      BY <3>1
  <2>3. job'[t].next = j.next + 1 /\ pc'[t] = "judge"
    BY <1>1, <1>6, <2>2 DEF Call, Go, Jobs
  <2>4. \A i \in 1..j.next : Collectors[i] \in enabled' <=> Judged(Collectors[i])
    BY <1>6, CallSwitches
  <2>5. \A c : Judged(c)' = Judged(c)
    BY <2>1 DEF Judged, HandleWithATenCollect, ShouldEnableTritonCollect, IsNeedTraceOp,
                HandleWithDecompose, HandleWithCpuTensorCollect
  <2>6. \A i \in 1..(job'[t].next - 1) : Collectors[i] \in enabled' <=> Judged(Collectors[i])'
    BY <1>1, <2>3, <2>4, <2>5
  <2>7. QED
    BY <1>1, <2>1, <2>3, <2>6 DEF Switching
<1>7. CASE SetConfigImpl(t) \/ UpdateAnalysisType(t)
  BY <1>2, <1>7 DEF SetConfigImpl, UpdateAnalysisType, At
<1>8. QED
  BY <1>3, <1>4, <1>5, <1>6, <1>7 DEF Step

\* While a start or stop switches the collectors, another that is not configuring
\* changes nothing they depend on.
LEMMA OthersWait ==
  ASSUME Types, Locked, NEW t \in Threads, Step(t), job[t].request \notin Configuring,
         NEW u \in Threads \ {t}, Switcher(u), pc[u] \in {"judge", "call"}
  PROVE  UNCHANGED <<cfg, status, enabled, aclInit>>
<1>1. mutex = u /\ mutex # None
  BY ControlAssumption DEF Locked
<1>2. pc[t] \in PlacesOf(job[t].request) /\ job[t].request \in Names \cup {"none"}
  BY DEF Types, Jobs
<1>3. ~Call(t)
  <2>1. ASSUME Call(t) PROVE FALSE
    <3>1. pc[t] = "call"
      BY <2>1 DEF Call, At
    <3>2. Switcher(t)
      BY <1>2, <3>1 DEF PlacesOf, Names, Configuring, Switcher
    <3>3. QED
      BY <1>1, <3>1, <3>2 DEF Locked
  <2>2. QED
    BY <2>1
<1>4. ~SetConfigImpl(t)
  <2>1. ASSUME SetConfigImpl(t) PROVE FALSE
    <3>1. pc[t] = "write"
      BY <2>1 DEF SetConfigImpl, At
    <3>2. QED
      BY <1>2, <3>1 DEF PlacesOf, Names, Configuring
  <2>2. QED
    BY <2>1
<1>5. ~Lock(t)
  BY <1>1 DEF Lock, MutexFree
<1>6. QED
  BY <1>3, <1>4, <1>5 DEF Step, Latch, DecideWindow, ApplyWindow, Announce, Judge, UpdateAnalysisType, shared

\* A step takes the lock when it is free and gives back its own.
LEMMA StepLocks ==
  ASSUME Types, Locked, NEW t \in Threads, Step(t)
  PROVE  Locked'
<1>1. Types' /\ Others(t)
  BY StepMoves
<1>2. /\ pc \in [Threads -> Places] /\ job \in [Threads -> Jobs] /\ pc[t] \in PlacesOf(job[t].request)
      /\ job[t].request \in Names \cup {"none"}
  BY DEF Types, Jobs
<1>3. mutex \notin {None, t} => mutex' = mutex
  BY DEF Step, Latch, DecideWindow, ApplyWindow, Announce, Lock, MutexFree, Judge, Call, Unlocked,
         SetConfigImpl, UpdateAnalysisType, locks
<1>4. ASSUME NEW u \in Threads \ {t}, Switcher(u)'
      PROVE  /\ pc'[u] \in {"latch", "window", "apply", "announce", "lock"} => job'[u].next = 1
             /\ pc'[u] \in {"judge", "call"} => mutex' = u
  BY <1>1, <1>3, <1>4, ControlAssumption DEF Others, Locked, Switcher
<1>5. ASSUME Switcher(t)'
      PROVE  /\ pc'[t] \in {"latch", "window", "apply", "announce", "lock"} => job'[t].next = 1
             /\ pc'[t] \in {"judge", "call"} => mutex' = t
  <2>1. job'[t].request = job[t].request /\ Switcher(t)
    BY <1>5, StepMoves DEF Switcher
  <2>2. CASE Latch(t) \/ Announce(t)
    <3>1. job' = job /\ pc[t] \in {"latch", "announce"} /\ pc'[t] \in {"window", "lock"}
      BY <1>2, <2>2 DEF Latch, Announce, At, Go
    <3>2. QED
      BY <2>1, <3>1 DEF Locked
  <2>3. CASE DecideWindow(t)
    <3>1. job'[t].next = job[t].next /\ pc[t] = "window" /\ pc'[t] = "apply"
      BY <1>2, <2>3 DEF DecideWindow, At, Go, Jobs
    <3>2. QED
      BY <2>1, <3>1 DEF Locked
  <2>4. CASE ApplyWindow(t)
    <3>1. job' = job /\ pc[t] = "apply" /\ pc'[t] = "announce"
      BY <1>2, <2>1, <2>4 DEF ApplyWindow, AfterWindow, Release, At, Go, Switcher
    <3>2. QED
      BY <2>1, <3>1 DEF Locked
  <2>5. CASE Lock(t)
    <3>1. pc'[t] = "judge" /\ mutex' = t
      BY <1>2, <2>5 DEF Lock, Go
    <3>2. QED
      BY <3>1
  <2>6. CASE Judge(t)
    <3>1. pc[t] = "judge" /\ pc'[t] = "call" /\ mutex' = mutex
      BY <1>2, <2>6 DEF Judge, At, Go, locks
    <3>2. QED
      BY <2>1, <3>1 DEF Locked
  <2>7. CASE Call(t)
    <3>1. pc[t] = "call" /\ mutex = t
      BY <2>1, <2>7 DEF Call, At, Locked
    <3>2. (pc'[t] = "judge" /\ mutex' = mutex) \/ pc'[t] = "idle"
      BY <1>2, <2>1, <2>7 DEF Call, Go, AfterCollectors, locks, Switcher
    <3>3. QED
      BY <3>1, <3>2
  <2>8. CASE SetConfigImpl(t) \/ UpdateAnalysisType(t)
    <3>1. pc[t] \in {"write", "subscribe"}
      BY <2>8 DEF SetConfigImpl, UpdateAnalysisType, At
    <3>2. QED
      BY <1>2, <2>1, <3>1 DEF PlacesOf, Switcher
  <2>9. QED
    BY <2>2, <2>3, <2>4, <2>5, <2>6, <2>7, <2>8 DEF Step
<1>6. QED
  BY <1>4, <1>5 DEF Locked

\* A step keeps the analyzers behind the configuration, or leaves somebody on the
\* way to subscribe them.
LEMMA StepFollows ==
  ASSUME Types, Followed, NEW t \in Threads, Step(t)
  PROVE  Followed'
<1>1. Types' /\ Others(t)
  BY StepMoves
<1>2. pc \in [Threads -> Places] /\ job \in [Threads -> Jobs] /\ pc[t] \in PlacesOf(job[t].request)
  BY DEF Types
<1>3. \A u \in Threads \ {t} : Following(u) => Following(u)'
  BY <1>1 DEF Others, Following
<1>4. CASE SetConfigImpl(t)
  <2>1. pc[t] = "write" /\ pc'[t] = "judge" /\ job' = job
    BY <1>2, <1>4 DEF SetConfigImpl, At, Go
  <2>2. job[t].request \in {"config", "set"}
    <3>1. job[t].request \in Names \cup {"none"}
      BY <1>2 DEF Jobs
    <3>2. QED
      BY <1>2, <2>1, <3>1 DEF PlacesOf, Names
  <2>3. QED
    BY <2>1, <2>2 DEF Followed, Following
<1>5. CASE UpdateAnalysisType(t)
  <2>1. cfg' = cfg /\ cfg.analyses \subseteq {"decompose", "host"} /\ subscribed' = Subscribed
    BY <1>5 DEF UpdateAnalysisType, Types, Configs
  <2>2. QED
    BY <2>1 DEF Subscribed, Followed
<1>6. CASE Latch(t) \/ DecideWindow(t) \/ ApplyWindow(t) \/ Announce(t) \/ Lock(t) \/ Judge(t) \/ Call(t)
  <2>1. UNCHANGED <<cfg, subscribed>>
    BY <1>6 DEF Latch, DecideWindow, ApplyWindow, Announce, Lock, Judge, Call, shared
  <2>2. Following(t) => Following(t)'
    <3>1. SUFFICES ASSUME Following(t) PROVE Following(t)'
      OBVIOUS
    <3>2. CASE Judge(t)
      <4>1. pc'[t] = "call" /\ job'[t].request = job[t].request
        BY <1>2, <3>2 DEF Judge, Go, Jobs
      <4>2. QED
        BY <3>1, <4>1 DEF Following
    <3>3. CASE Call(t)
      <4>1. \/ pc'[t] = "judge" /\ job'[t].request = job[t].request
            \/ pc'[t] = "subscribe" /\ job' = job
        BY <1>2, <3>1, <3>3 DEF Call, Go, Jobs, AfterCollectors, Release, Following
      <4>2. QED
        BY <3>1, <4>1 DEF Following
    <3>4. QED
      BY <1>6, <3>1, <3>2, <3>3 DEF Following, Latch, DecideWindow, ApplyWindow, Announce, Lock, At
  <2>3. QED
    BY <1>3, <2>1, <2>2 DEF Followed
<1>7. QED
  BY <1>4, <1>5, <1>6 DEF Step

\* A step of a request keeps the invariant.
LEMMA StepKeeps ==
  ASSUME ControlInv, NEW t \in Threads, Step(t)
  PROVE  ControlInv'
<1>1. Types /\ Aware /\ Followed /\ CalmStage /\ Locked /\ SwitchStage
  BY DEF ControlInv
<1>2. /\ Types' /\ Others(t) /\ InFlight(t)
      /\ \/ job'[t].request = job[t].request /\ job'[t].met = job[t].met
         \/ job'[t].request = "none"
  BY <1>1, StepMoves
<1>3. \A u \in Threads : Switcher(u)' => Switcher(u) /\ Target(u)' = Target(u) /\ job'[u].met = job[u].met
  BY <1>2 DEF Others, Switcher, Target
<1>4. \A u \in Threads \ {t} : Switcher(u) => job[t].request \in job[u].met
  <2>1. \A u \in Threads : Switcher(u) => InFlight(u)
    BY <1>1 DEF Types, PlacesOf, Switcher, InFlight
  <2>2. QED
    BY <1>1, <1>2, <2>1 DEF Aware
<1>5. Aware'
  <2>1. InFlight(t)' => job'[t].request # "none"
    BY <1>2 DEF Types, PlacesOf, Names, InFlight, Jobs
  <2>2. QED
    BY <1>1, <1>2, <2>1 DEF Aware, Others, InFlight
<1>6. CalmStage'
  <2>1. SUFFICES ASSUME NEW u \in Threads, (job[u].met = {} /\ Switcher(u))'
                 PROVE  Done(u, Target(u))'
    BY DEF CalmStage
  <2>2. u = t /\ Switcher(t) /\ job[t].met = {}
    BY <1>3, <1>4, <2>1
  <2>3. PICK s \in BOOLEAN : s = Target(t)
    BY DEF Target
  <2>4. Done(t, s)
    <3>1. Done(t, Target(t))
      BY <1>1, <2>2 DEF CalmStage
    <3>2. QED
      BY <2>3, <3>1
  <2>5. Done(t, s)'
    BY <1>1, <2>1, <2>2, <2>3, <2>4, StepDoes
  <2>6. Target(u)' = s
    BY <1>3, <2>1, <2>2, <2>3
  <2>7. QED
    BY <2>2, <2>5, <2>6 DEF Done
<1>7. SwitchStage'
  <2>1. SUFFICES ASSUME NEW u \in Threads, (job[u].met \cap Configuring = {} /\ Switcher(u))'
                 PROVE  Switching(u, Target(u))'
    BY DEF SwitchStage
  <2>2. PICK s \in BOOLEAN : s = Target(u)
    BY DEF Target
  <2>3. Switcher(u) /\ job[u].met \cap Configuring = {} /\ Target(u)' = s
    BY <1>3, <2>1, <2>2
  <2>4. Switching(u, s)
    <3>1. Switching(u, Target(u))
      BY <1>1, <2>3 DEF SwitchStage
    <3>2. QED
      BY <2>2, <3>1
  <2>5. Switching(u, s)'
    <3>1. CASE u = t
      BY <1>1, <2>1, <2>2, <2>3, <2>4, <3>1, StepSwitches
    <3>2. CASE u # t /\ pc[u] \in {"judge", "call"}
      <4>1. UNCHANGED <<cfg, status, enabled, aclInit>>
        BY <1>1, <1>4, <2>3, <3>2, OthersWait
      <4>2. \A c : Judged(c)' = Judged(c)
        BY <4>1 DEF Judged, HandleWithATenCollect, ShouldEnableTritonCollect, IsNeedTraceOp,
                    HandleWithDecompose, HandleWithCpuTensorCollect
      <4>3. pc'[u] = pc[u] /\ job'[u] = job[u]
        BY <1>2, <3>2 DEF Others
      <4>4. QED
        BY <2>4, <4>1, <4>2, <4>3 DEF Switching
    <3>3. CASE u # t /\ pc[u] \notin {"judge", "call"}
      BY <1>2, <3>3 DEF Others, Switching
    <3>4. QED
      BY <3>1, <3>2, <3>3
  <2>6. QED
    BY <2>3, <2>5 DEF Switching
<1>8. Followed' /\ Locked'
  BY <1>1, StepFollows, StepLocks
<1>9. QED
  BY <1>2, <1>5, <1>6, <1>7, <1>8 DEF ControlInv

\* Every step keeps the invariant.
LEMMA NextKeeps == ControlInv /\ [Next]_vars => ControlInv'
<1> SUFFICES ASSUME ControlInv, [Next]_vars PROVE ControlInv'
  OBVIOUS
<1>1. CASE UNCHANGED vars
  <2>1. /\ UNCHANGED <<status, latch, cfg, aclInit, window, exiting, enabled, subscribed, announced>>
        /\ UNCHANGED <<pc, job, mutex>>
    BY <1>1 DEF vars, shared, threads, locks
  <2>2. Types'
    BY <2>1 DEF ControlInv, Types
  <2>3. Aware'
    BY <2>1 DEF ControlInv, Aware, InFlight
  <2>4. Followed' /\ Locked'
    BY <2>1 DEF ControlInv, Followed, Following, Locked, Switcher
  <2>5. CalmStage'
    <3>1. SUFFICES ASSUME NEW t \in Threads, (job[t].met = {} /\ Switcher(t))'
                   PROVE  Done(t, Target(t))'
      BY DEF CalmStage
    <3>2. Done(t, Target(t)) /\ Target(t)' = Target(t)
      BY <2>1, <3>1 DEF ControlInv, CalmStage, Target, Switcher
    <3>3. QED
      BY <2>1, <3>2 DEF Done
  <2>6. SwitchStage'
    <3>1. \A c : Judged(c)' = Judged(c)
      BY <2>1 DEF Judged, HandleWithATenCollect, ShouldEnableTritonCollect, IsNeedTraceOp,
                  HandleWithDecompose, HandleWithCpuTensorCollect
    <3>2. SUFFICES ASSUME NEW t \in Threads, (job[t].met \cap Configuring = {} /\ Switcher(t))'
                   PROVE  Switching(t, Target(t))'
      BY DEF SwitchStage
    <3>3. Switching(t, Target(t)) /\ Target(t)' = Target(t)
      BY <2>1, <3>2 DEF ControlInv, SwitchStage, Target, Switcher
    <3>4. QED
      BY <2>1, <3>1, <3>3 DEF Switching
  <2>7. QED
    BY <2>2, <2>3, <2>4, <2>5, <2>6 DEF ControlInv
<1>2. CASE Next
  BY <1>2, AskKeeps, StepKeeps DEF Next
<1>3. QED
  BY <1>1, <1>2

-----------------------------------------------------------------------------
(* Theorems *)

\* The last call of a start or stop finds everything else in agreement if it met
\* nothing, and the collectors if it met no request that configures.
LEMMA LastCallSettles ==
  ASSUME ControlInv, NEW t \in Threads, Step(t), NEW s \in BOOLEAN, s = Target(t),
         Switcher(t), job'[t] = NoJob
  PROVE  /\ job[t].met = {} => Settled(s)'
         /\ job[t].met \cap Configuring = {} => status' = s /\ Switches'
<1>1. Types /\ Aware /\ Followed /\ CalmStage /\ SwitchStage
  BY DEF ControlInv
<1>2. job \in [Threads -> Jobs] /\ pc \in [Threads -> Places] /\ NoJob.request = "none"
  BY <1>1 DEF Types, NoJob, Job
<1>3. pc[t] = "call" \/ pc[t] = "apply"
  BY <1>1, <1>2, StepMoves DEF Switcher
<1>4. Call(t)
  <2>1. ~ApplyWindow(t)
    <3>1. ASSUME ApplyWindow(t) PROVE job' = job
      BY <3>1 DEF ApplyWindow, AfterWindow, Release, Switcher
    <3>2. QED
      BY <1>2, <3>1 DEF Switcher
  <2>2. QED
    BY <1>3, <2>1 DEF Step, Latch, DecideWindow, Announce, Lock, Judge, SetConfigImpl, UpdateAnalysisType, At
<1>5. /\ job[t].next \in 1..Len(Collectors) /\ Len(Collectors) \in Nat /\ pc[t] = "call"
      /\ UNCHANGED <<status, latch, cfg, aclInit, window, exiting, subscribed, announced>>
  BY <1>1, <1>4, CollectorFacts DEF Types, Jobs, Call, At
<1>6. job[t].next = Len(Collectors)
  <2>1. ASSUME job[t].next < Len(Collectors) PROVE FALSE
    <3>1. job' = [job EXCEPT ![t].next = @ + 1]
      BY <1>4, <2>1 DEF Call
    <3>2. job'[t].request = job[t].request
      BY <1>2, <3>1 DEF Jobs
    <3>3. QED
      BY <1>2, <3>2 DEF Switcher
  <2>2. QED
    BY <1>5, <2>1
<1>7. ASSUME job[t].met \cap Configuring = {} PROVE status' = s /\ Switches'
  <2>1. Switching(t, s)
    <3>1. Switching(t, Target(t))
      BY <1>1, <1>7 DEF SwitchStage
    <3>2. QED
      BY <3>1
  <2>2. \A i \in 1..Len(Collectors) : Collectors[i] \in enabled' <=> Judged(Collectors[i])
    <3>1. \A i \in 1..job[t].next : Collectors[i] \in enabled' <=> Judged(Collectors[i])
      BY <1>1, <1>4, <2>1, CallSwitches
    <3>2. QED
      BY <1>6, <3>1
  <2>3. \A c : Judged(c)' = Judged(c)
    BY <1>5 DEF Judged, HandleWithATenCollect, ShouldEnableTritonCollect, IsNeedTraceOp,
                HandleWithDecompose, HandleWithCpuTensorCollect
  <2>4. enabled' \subseteq Named
    BY <1>1, StepMoves DEF Types
  <2>5. Switches'
    BY <2>2, <2>3, <2>4 DEF Switches, Named
  <2>6. status' = s
    BY <1>5, <2>1 DEF Switching
  <2>7. QED
    BY <2>5, <2>6
<1>8. ASSUME job[t].met = {} PROVE Settled(s)'
  <2>1. Done(t, s)
    <3>1. Done(t, Target(t))
      BY <1>1, <1>8 DEF CalmStage
    <3>2. QED
      BY <3>1
  <2>2. status' = s /\ Switches'
    BY <1>7, <1>8
  <2>3. cfg.analyses \subseteq subscribed
    <3>1. \A u \in Threads : ~Following(u)
      <4>1. \A u \in Threads \ {t} : ~InFlight(u)
        BY <1>1, <1>5, <1>8 DEF Aware, InFlight
      <4>2. QED
        BY <4>1 DEF Following, InFlight, Switcher
    <3>2. QED
      BY <1>1, <3>1 DEF Followed
  <2>4. /\ latch = ~s /\ (~cfg.steps => announced = s)
        /\ ~exiting => window = (s /\ "host" \in cfg.analyses)
    BY <1>5, <2>1 DEF Done
  <2>5. QED
    BY <1>5, <2>2, <2>3, <2>4 DEF Settled
<1>9. QED
  BY <1>7, <1>8

\* A step of the program that ends a start or stop settles what it should.
LEMMA NextSettles ==
  ASSUME ControlInv, [Next]_vars
  PROVE  \A t \in Threads, s \in BOOLEAN :
           (job[t].request \in {"start", "stop"} /\ s = Target(t) /\ job'[t] = NoJob)
             => /\ job[t].met = {} => Settled(s)'
                /\ job[t].met \cap {"config", "set", "acl"} = {} => status' = s /\ Switches'
<1> SUFFICES ASSUME NEW t \in Threads, NEW s \in BOOLEAN,
                    job[t].request \in {"start", "stop"} /\ s = Target(t) /\ job'[t] = NoJob
             PROVE  /\ job[t].met = {} => Settled(s)'
                    /\ job[t].met \cap Configuring = {} => status' = s /\ Switches'
  BY DEF Configuring
<1>1. Types /\ NoJob.request = "none"
  BY DEF ControlInv, NoJob, Job
<1>2. job'[t].request # job[t].request /\ pc[t] # "idle"
  BY <1>1 DEF Types, PlacesOf
<1>3. Next
  BY <1>2 DEF vars, threads
<1>4. PICK u \in Threads :
        \/ \/ Start(u) \/ Stop(u) \/ AclInit(u) \/ Exit(u)
           \/ \E wanted \in Settings : SetConfig(u, wanted) \/ Configure(u, wanted)
        \/ Step(u)
  BY <1>3 DEF Next
<1>5. CASE Step(u)
  <2>1. u = t
    BY <1>1, <1>2, <1>5, StepMoves DEF Others
  <2>2. QED
    BY <1>5, <2>1, LastCallSettles DEF Switcher
<1>6. CASE ~Step(u)
  <2>1. PICK r, p : Begins(u, r, p)
    BY <1>1, <1>4, <1>6, AskMoves
  <2>2. u # t
    BY <1>2, <2>1 DEF Begins
  <2>3. job'[t].request = job[t].request
    BY <1>1, <2>1, <2>2 DEF Begins, Types, Jobs
  <2>4. QED
    BY <1>2, <2>3
<1>7. QED
  BY <1>5, <1>6

\* A start or stop that no other request overlapped leaves the status, the latch,
\* the window, the last event (outside --steps), the subscriptions and the collectors
\* in agreement, whatever the requests before it left behind; those that race with
\* each other and an exit only leave the collectors as the status wants them: for all
\* threads, collectors and settings (SetTraceStatus, event_trace_manager.cpp:324).
THEOREM CallsAlwaysSettle == Spec => CallsSettle
<1>1. Init => ControlInv
  BY InitInv
<1>2. ControlInv /\ [Next]_vars => ControlInv'
  BY NextKeeps
<1>3. ControlInv /\ [Next]_vars =>
        [\A t \in Threads, s \in BOOLEAN :
           (job[t].request \in {"start", "stop"} /\ s = Target(t) /\ job'[t] = NoJob)
             => /\ job[t].met = {} => Settled(s)'
                /\ job[t].met \cap {"config", "set", "acl"} = {} => status' = s /\ Switches']_vars
  BY NextSettles
<1>4. QED
  BY <1>1, <1>2, <1>3, PTL DEF Spec, CallsSettle
=============================================================================
