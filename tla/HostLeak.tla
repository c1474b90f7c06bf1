----------------------------- MODULE HostLeak -----------------------------
(***************************************************************************)
(* The analysis of host leaks (src/csrc/analysis/host_leak_analyzer.cpp)   *)
(* on top of the windows of the heap hooks: threads that open and close    *)
(* windows, ask for an overview in the middle of one, or end the process.  *)
(* Every boundary of a window is dispatched to the analyzer on the thread  *)
(* that caused it, and the analyzer pulls the closing snapshot while it    *)
(* handles the end.                                                        *)
(*                                                                         *)
(* A snapshot is represented by the window it was taken of, 0 for none.    *)
(***************************************************************************)
EXTENDS HostWindow, HostSeries

CONSTANTS
  Threads,      \* the threads that call start, stop and display, or exit
  None,         \* no thread
  MaxRequests,  \* bound on the requests to open or close a window
  MaxQueries,   \* bound on the overviews asked for
  MaxBeats,     \* bound on the beats of a window
  Plans         \* what a run may meet: requests, queries, beats; locks that stay
                \* busy until a wait runs out, a handler that never returns

ASSUME LeakAssumption ==
  /\ None \notin Threads
  /\ MaxRequests \in Nat /\ MaxQueries \in Nat /\ MaxBeats \in Nat
  /\ Plans \subseteq [requests : 0..MaxRequests, queries : 0..MaxQueries, beats : 0..MaxBeats,
                      slow : BOOLEAN, stuck : BOOLEAN]

VARIABLES
  pc,         \* where each thread is
  gate,       \* g_enabled, g_closing and g_exiting
  svcMtx,     \* the thread that holds g_svcMtx
  handling,   \* the thread in HandleStageEnd, which holds the locks of the
              \* dispatcher and of the analyzer
  ws,         \* windows_ of the analyzer: the window and the statistics pulled
  query,      \* the window each thread asks about and the snapshot it got
  reports,    \* the reports written
  overviews,  \* the overviews rendered
  lost,       \* the boundaries that reached no analyzer
  used,       \* the windows in which something was recorded
  asked,      \* requests and queries made
  plan        \* the member of Plans this run follows

service == <<told, final, gate, svcMtx>>
analyzer == <<handling, ws, reports, overviews, lost>>
recording == <<used, seriesVars>>
bounds == <<asked, plan>>
vars == <<pc, service, analyzer, query, bounds, recording>>

At(t, p) == pc[t] = p
Go(t, p) == pc' = [pc EXCEPT ![t] = p]

Leaving(t) == t = gate.exiting
Running == \A t \in Threads : pc[t] # "ended"

Closed == [open |-> FALSE, id |-> 0, stats |-> 0]

-----------------------------------------------------------------------------
(* SvcSetEnabled as the threads enter it, and the dispatch of a boundary *)

\* UpdateHostMemWindow; start, stop and config decide which way.
Ask(t) ==
  /\ At(t, "idle") /\ asked.requests < plan.requests
  /\ asked' = [asked EXCEPT !.requests = @ + 1]
  /\ \/ Cardinality({u \in Threads : pc[u] \in {"open", "announce"}}) + told.id < MaxWindows /\ Go(t, "open")
     \/ Go(t, "close")
  /\ UNCHANGED <<service, analyzer, query, plan, recording>>

\* Nothing to open, or the close of the last window did not end in 60 s.
NoOpen(t) ==
  /\ At(t, "open") /\ svcMtx = None
  /\ gate.enabled \/ gate.exiting # None \/ (gate.closing /\ plan.slow)
  /\ Go(t, "idle")
  /\ UNCHANGED <<service, analyzer, query, bounds, recording>>

\* Mutant: a window may open while another closes.
MayOpen_Early == TRUE

MayOpen == ~gate.closing

Open(t) ==
  /\ At(t, "open") /\ svcMtx = None
  /\ ~gate.enabled /\ gate.exiting = None /\ MayOpen
  /\ svcMtx' = t
  /\ ClearFinal /\ SeriesCleared
  /\ Go(t, "announce")
  /\ UNCHANGED <<gate, analyzer, query, bounds, used>>

\* A boundary waits 15 s for the lock of the dispatcher or of the analyzer, then
\* it is dropped.
Deliverable == handling = None
Dropped(kind) ==
  /\ plan.slow
  /\ lost' = lost \cup {[kind |-> kind, id |-> told'.id]}

\* HandleStageStart: ignored while a window is open.
HandleStageStart(id) == ws' = IF ws.open THEN ws ELSE [open |-> TRUE, id |-> id, stats |-> 0]

Announce(t) ==
  /\ At(t, "announce")
  /\ SendStart
  /\ \/ Deliverable /\ HandleStageStart(told'.id) /\ UNCHANGED lost
     \/ Dropped("START") /\ UNCHANGED ws
  /\ Go(t, "opened")
  /\ UNCHANGED <<gate, svcMtx, handling, reports, overviews, query, bounds, recording>>

OpenGate(t) ==
  /\ At(t, "opened")
  /\ gate' = [gate EXCEPT !.enabled = TRUE]
  /\ svcMtx' = None
  /\ Go(t, "idle")
  /\ UNCHANGED <<told, final, analyzer, query, bounds, recording>>

\* The window is closed already.
NoClose(t) ==
  /\ At(t, "close") /\ svcMtx = None /\ ~gate.enabled
  /\ Go(t, IF Leaving(t) THEN "await" ELSE "idle")
  /\ UNCHANGED <<service, analyzer, query, bounds, recording>>

Close(t) ==
  /\ At(t, "close") /\ svcMtx = None /\ gate.enabled
  /\ gate' = [gate EXCEPT !.enabled = FALSE, !.closing = TRUE]
  /\ svcMtx' = t
  /\ Go(t, "aggregate")
  /\ UNCHANGED <<told, final, analyzer, query, bounds, recording>>

CloseAggregate(t) ==
  /\ At(t, "aggregate")
  /\ Aggregate
  /\ svcMtx' = None
  /\ Go(t, "report")
  /\ UNCHANGED <<gate, analyzer, query, bounds, recording>>

\* STAGE_END goes out without g_svcMtx; an end without a start is ignored.
ReportEnd(t) ==
  /\ At(t, "report")
  /\ SendEnd
  /\ \/ /\ Deliverable /\ ws.open
        /\ handling' = t /\ ws' = [ws EXCEPT !.open = FALSE]
        /\ Go(t, "stats") /\ UNCHANGED lost
     \/ Deliverable /\ ~ws.open /\ Go(t, "reported") /\ UNCHANGED <<handling, ws, lost>>
     \/ Dropped("END") /\ Go(t, "reported") /\ UNCHANGED <<handling, ws>>
  /\ UNCHANGED <<gate, svcMtx, reports, overviews, query, bounds, recording>>

\* SvcGetStats: what the closing aggregate froze, or the counters as they run.
Stats == IF told.kind = "START" THEN told.id ELSE final

\* HandleStageEnd asks for the statistics and then for the tables.
PullStats(t) ==
  /\ At(t, "stats") /\ ~plan.stuck
  /\ ws' = [ws EXCEPT !.stats = Stats]
  /\ Go(t, "tables")
  /\ UNCHANGED <<service, handling, reports, overviews, lost, query, bounds, recording>>

\* WriteWindowReport: nothing is written of a window without data.
Written(r) == IF r.stats \in used \/ r.tables \in used THEN Append(reports, r) ELSE reports

WriteReport(t) ==
  /\ At(t, "tables")
  /\ reports' = Written([id |-> ws.id, stats |-> ws.stats, tables |-> final, regular |-> TRUE])
  /\ handling' = None
  /\ Go(t, "reported")
  /\ UNCHANGED <<service, ws, overviews, lost, query, bounds, recording>>

\* Mutant: the flag of the closing stays set.
CloseDone_StillClosing(t) ==
  /\ At(t, "reported") /\ svcMtx = None
  /\ Go(t, IF Leaving(t) THEN "await" ELSE "idle")
  /\ UNCHANGED <<service, analyzer, query, bounds, recording>>

CloseDone(t) ==
  /\ At(t, "reported") /\ svcMtx = None
  /\ gate' = [gate EXCEPT !.closing = FALSE]
  /\ Go(t, IF Leaving(t) THEN "await" ELSE "idle")
  /\ UNCHANGED <<told, final, svcMtx, analyzer, query, bounds, recording>>

SetEnabled(t) ==
  \/ NoOpen(t) \/ Open(t) \/ Announce(t) \/ OpenGate(t) \/ NoClose(t) \/ Close(t)
  \/ CloseAggregate(t) \/ ReportEnd(t) \/ PullStats(t) \/ WriteReport(t) \/ CloseDone(t)

\* A heap call of the application counts an allocation or a free in the window;
\* one that met the open gate may do so until the aggregate freezes the counters.
Record ==
  /\ Running /\ (gate.enabled \/ \E t \in Threads : At(t, "aggregate"))
  /\ used' = used \cup {told.id}
  /\ UNCHANGED <<pc, service, analyzer, query, bounds, seriesVars>>

\* The warm-up thread, while a window is open and the beats of the run last; before
\* anything was recorded there is no stack to sample.
Sample ==
  /\ Running /\ gate.enabled /\ beat < plan.beats
  /\ Beat
  /\ told.id \notin used => recorded'.beats = recorded.beats
  /\ UNCHANGED <<pc, service, analyzer, query, bounds, used>>

-----------------------------------------------------------------------------
(* QueryInterimOverview: look, take the snapshot without the lock, look again *)

Find(t) ==
  /\ At(t, "idle") /\ asked.queries < plan.queries
  /\ Deliverable
  /\ asked' = [asked EXCEPT !.queries = @ + 1]
  /\ query' = [query EXCEPT ![t] = [id |-> ws.id, got |-> 0]]
  /\ IF ws.open THEN Go(t, "snapshot") ELSE UNCHANGED pc
  /\ UNCHANGED <<service, analyzer, plan, recording>>

\* SvcDumpInterimSnapshot: nothing when recording is off, and no error either.
Snapshot(t) ==
  /\ At(t, "snapshot")
  /\ \/ ~gate.enabled /\ UNCHANGED query
     \/ svcMtx = None /\ gate.enabled /\ query' = [query EXCEPT ![t].got = told.id]
  /\ Go(t, "recheck")
  /\ UNCHANGED <<service, analyzer, bounds, recording>>

Same(t) == ws.open /\ ws.id = query[t].id

Render(t) ==
  /\ At(t, "recheck")
  /\ Deliverable
  /\ overviews' = IF Same(t) THEN overviews \cup {query[t]} ELSE overviews
  /\ Go(t, "idle")
  /\ UNCHANGED <<service, handling, ws, reports, lost, query, bounds, recording>>

Overview(t) == Find(t) \/ Snapshot(t) \/ Render(t)

-----------------------------------------------------------------------------
(* The end of the process *)

\* exit: the flag of the hooks, then CloseHostMemWindowAtExit.
Exit(t) ==
  /\ At(t, "idle") /\ gate.exiting = None
  /\ gate' = [gate EXCEPT !.exiting = t]
  /\ Go(t, "close")
  /\ UNCHANGED <<told, final, svcMtx, analyzer, query, bounds, recording>>

\* It waits for a close that is under way, at most 120 s.
Await(t) ==
  /\ At(t, "await") /\ (~gate.closing \/ plan.slow)
  /\ Go(t, "destroy")
  /\ UNCHANGED <<service, analyzer, query, bounds, recording>>

\* ~HostLeakAnalyzer: UnSubscribe takes the lock of the dispatcher, then a window
\* that is still open gets a report with whatever statistics there are, and no tables.
Fallback ==
  IF ws.open
  THEN /\ reports' = Written([id |-> ws.id, stats |-> Stats, tables |-> 0, regular |-> FALSE])
       /\ ws' = [ws EXCEPT !.open = FALSE]
  ELSE UNCHANGED <<reports, ws>>

Destroy(t) ==
  /\ At(t, "destroy") /\ handling = None
  /\ Fallback
  /\ Go(t, "ended")
  /\ UNCHANGED <<service, handling, overviews, lost, query, bounds, recording>>

Ending(t) == Exit(t) \/ Await(t) \/ Destroy(t)

-----------------------------------------------------------------------------
Init ==
  /\ WindowInit /\ SeriesInit
  /\ pc = [t \in Threads |-> "idle"]
  /\ gate = [enabled |-> FALSE, closing |-> FALSE, exiting |-> None] /\ svcMtx = None
  /\ handling = None /\ ws = Closed /\ reports = <<>> /\ overviews = {} /\ lost = {}
  /\ query = [t \in Threads |-> [id |-> 0, got |-> 0]] /\ used = {}
  /\ asked = [requests |-> 0, queries |-> 0] /\ plan \in Plans

Step(t) == Running /\ (Ask(t) \/ SetEnabled(t) \/ Overview(t) \/ Ending(t))

Next == Record \/ Sample \/ \E t \in Threads : Step(t)

\* A call that has begun goes on, and the process ends at last.
Fairness == \A t \in Threads : WF_vars(Step(t) /\ pc[t] # "idle") /\ WF_vars(Running /\ Exit(t))

Spec == Init /\ [][Next]_vars /\ Fairness

-----------------------------------------------------------------------------
(* Properties *)

\* The statistics and the tables of a report, pulled one after the other while
\* another thread may be opening the next window, are of one window; it is the window
\* the report names, or, when a boundary was lost, that one or a later one.
ReportIsOfWindow == \A i \in DOMAIN reports : LET r == reports[i] IN
  /\ r.regular => r.tables = r.stats
  /\ r.id <= r.stats /\ (lost = {} => r.id = r.stats)

\* Both boundaries of a window were handled, as far as they were reported.
Bounded(n) == \A b \in lost : b.id # n

\* No data are reported twice and a window without data not at all.  When the process
\* has ended every window with data is reported, however its close raced with the
\* exit, unless one of its own boundaries was lost: what happened to those of other
\* windows does not matter.
EveryWindowReported ==
  /\ \A i \in DOMAIN reports : reports[i].stats \in used
  /\ \A i, j \in DOMAIN reports : i < j => reports[i].stats < reports[j].stats
  /\ (\E t \in Threads : At(t, "ended")) =>
       \A n \in used : Bounded(n) => \E i \in DOMAIN reports : reports[i].stats = n

\* The data of an overview are of the window it names, or, when a boundary was lost,
\* of that one or a later one; 0 stands for no data.
OverviewIsOfWindow == \A o \in overviews :
  o.got # 0 => o.id <= o.got /\ (lost = {} => o.id = o.got)

\* What is shown of a window, in a report or in an overview, is of that window, and
\* every window in which anything was recorded is reported.
ReportsAreTrue == ReportIsOfWindow /\ OverviewIsOfWindow /\ EveryWindowReported

\* The comment in SvcDumpInterimSnapshot: that recording is off has already been
\* ruled out by the look its caller takes at the window, so an overview that is
\* rendered has a snapshot and no zeros in its place.
SnapshotWasTaken == \A o \in overviews : o.got # 0

\* An exit that was begun comes to its end.
ExitEnds == gate.exiting # None ~> \E t \in Threads : At(t, "ended")
=============================================================================
