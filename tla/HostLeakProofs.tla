--------------------------- MODULE HostLeakProofs ---------------------------
(***************************************************************************)
(* Theorems of HostLeak, for all sets of threads and all plans.            *)
(*                                                                         *)
(* InTurn says that one thread at a time opens or closes a window and what *)
(* the boundary, the closing snapshot and the locks are in each place of   *)
(* it.  Kept says what the analyzer then knows while the process runs, with *)
(* and without lost boundaries: the window it has open, and the reports of *)
(* the windows before.                                                     *)
(***************************************************************************)
EXTENDS HostLeak, TLAPS

Opening == {"announce", "opened"}
Closing == {"aggregate", "report", "stats", "tables", "reported"}
Busy    == Opening \cup Closing
Places  == Busy \cup {"idle", "open", "close", "await", "destroy", "ended", "snapshot", "recheck"}

Gates   == [enabled : BOOLEAN, closing : BOOLEAN, exiting : Threads \cup {None}]
Reports == [id : Nat, stats : Nat, tables : Nat, regular : BOOLEAN]

Types ==
  /\ pc \in [Threads -> Places]
  /\ WindowTypeOK
  /\ gate \in Gates
  /\ svcMtx \in Threads \cup {None} /\ handling \in Threads \cup {None}
  /\ ws \in [open : BOOLEAN, id : Nat, stats : Nat]
  /\ query \in [Threads -> [id : Nat, got : Nat]]
  /\ reports \in Seq(Reports)
  /\ used \subseteq Nat \ {0}

\* What is settled at each place of the thread that opens or closes.
InPlace(t) ==
  /\ svcMtx = t <=> pc[t] \in {"announce", "opened", "aggregate"}
  /\ handling = t <=> pc[t] \in {"stats", "tables"}
  /\ pc[t] \in Opening => ~gate.enabled /\ ~gate.closing /\ final = 0
  /\ pc[t] \in Closing => ~gate.enabled /\ gate.closing
  /\ pc[t] \in {"opened", "aggregate", "report"} => told.kind = "START"
  /\ pc[t] \in {"announce", "stats", "tables", "reported"} => told.kind = "END"
  /\ pc[t] = "aggregate" => final = 0
  /\ pc[t] \in {"report", "stats", "tables", "reported"} => final = told.id

InTurn ==
  /\ \A t, u \in Threads : pc[t] \in Busy /\ pc[u] \in Busy => t = u
  /\ \A t \in Threads : InPlace(t)
  /\ gate.enabled => ~gate.closing /\ told.kind = "START" /\ final = 0
  /\ gate.closing => \E t \in Threads : pc[t] \in Closing
  /\ ~gate.enabled /\ (\A t \in Threads : pc[t] \notin Busy) => told.kind = "END"
  /\ told.kind = "START" => told.id # 0
  /\ final \in {0, told.id}

\* The windows that are over and done with for the analyzer.
Finished == IF told.kind = "START" \/ handling # None \/ ws.open THEN told.id - 1 ELSE told.id

\* The window the analyzer has open, against the one that was reported last.
Followed ==
  /\ ws.id <= told.id
  /\ lost = {} => ws.id = told.id
  /\ told.kind = "START" /\ Bounded(told.id) => ws.open
  /\ told.kind = "END" /\ ws.open => ~Bounded(told.id)
  /\ \A t \in Threads : pc[t] = "tables" => ws.stats = told.id
  /\ handling # None => told.id # 0 /\ ~ws.open

\* The reports are of windows with data that are over, each once.
Once ==
  /\ \A i \in 1..Len(reports) : reports[i].stats \in used \cap 1..Finished
  /\ \A i, j \in 1..Len(reports) : i < j => reports[i].stats < reports[j].stats

Complete == \A n \in used : n <= Finished /\ Bounded(n) => \E i \in 1..Len(reports) : reports[i].stats = n

Kept == Running => Followed /\ Once /\ Complete /\ \A n \in used : n <= told.id

\* The snapshot of an overview was taken after its window was looked up.
Queried == \A t \in Threads :
  /\ pc[t] \in {"snapshot", "recheck"} => query[t].id <= told.id
  /\ pc[t] = "snapshot" => query[t].got = 0
  /\ pc[t] = "recheck" => query[t].got = 0 \/ query[t].got \in query[t].id..told.id

LeakInv == Types /\ InTurn /\ Kept /\ Queried /\ ReportIsOfWindow /\ OverviewIsOfWindow /\ EveryWindowReported

-----------------------------------------------------------------------------
(* One thread at a time opens or closes a window *)

LEMMA InitTypes == Init => Types
<1> SUFFICES ASSUME Init PROVE Types
  OBVIOUS
<1> USE LeakAssumption, WindowAssumption DEF Init, WindowInit
<1>1. pc \in [Threads -> Places] /\ query \in [Threads -> [id : Nat, got : Nat]]
  BY DEF Places
<1>2. WindowTypeOK
  BY DEF WindowTypeOK, Boundaries
<1>3. gate \in Gates /\ ws \in [open : BOOLEAN, id : Nat, stats : Nat] /\ reports \in Seq(Reports)
  BY DEF Gates, Closed
<1>4. QED
  BY <1>1, <1>2, <1>3 DEF Types

LEMMA InitInTurn == Init => InTurn
BY LeakAssumption DEF Init, WindowInit, InTurn, InPlace, Busy, Opening, Closing

\* The steps that leave the window alone.
Passing(t) ==
  \/ Ask(t) \/ NoOpen(t) \/ NoClose(t) \/ Find(t) \/ Snapshot(t) \/ Render(t) \/ Await(t)

LEMMA PassingTypes ==
  ASSUME Types, NEW t \in Threads, Passing(t)
  PROVE  /\ Types'
         /\ pc[t] \in {"idle", "open", "close", "snapshot", "recheck", "await"}
         /\ pc'[t] \in {"idle", "open", "close", "snapshot", "recheck", "await", "destroy"}
         /\ \A u \in Threads \ {t} : pc'[u] = pc[u] /\ query'[u] = query[u]
         /\ UNCHANGED <<service, handling, ws, reports, lost, used>>
<1> USE DEF Types, Go, At, bounds, service, analyzer, recording
<1>1. /\ pc[t] \in {"idle", "open", "close", "snapshot", "recheck", "await"}
      /\ \E p \in {"idle", "open", "close", "snapshot", "recheck", "await", "destroy"} : pc' = [pc EXCEPT ![t] = p]
      /\ UNCHANGED <<service, handling, ws, reports, lost, used>>
  <2>1. CASE Find(t)
    BY <2>1 DEF Find
  <2>2. CASE Ask(t) \/ NoOpen(t) \/ NoClose(t) \/ Snapshot(t) \/ Render(t) \/ Await(t)
    BY <2>2 DEF Ask, NoOpen, NoClose, Snapshot, Render, Await
  <2>3. QED
    BY <2>1, <2>2 DEF Passing
<1>2. query' \in [Threads -> [id : Nat, got : Nat]] /\ \A u \in Threads \ {t} : query'[u] = query[u]
  <2>1. CASE Find(t)
    BY <2>1 DEF Find
  <2>2. CASE Snapshot(t)
    <3>1. told.id \in Nat
      BY WindowAssumption DEF WindowTypeOK, Boundaries
    <3>2. [query[t] EXCEPT !.got = told.id] \in [id : Nat, got : Nat]
      BY <3>1
    <3>3. query' = query \/ query' = [query EXCEPT ![t] = [query[t] EXCEPT !.got = told.id]]
      BY <2>2 DEF Snapshot
    <3>4. QED
      BY <3>2, <3>3
  <2>3. CASE Ask(t) \/ NoOpen(t) \/ NoClose(t) \/ Render(t) \/ Await(t)
    BY <2>3 DEF Ask, NoOpen, NoClose, Render, Await
  <2>4. QED
    BY <2>1, <2>2, <2>3 DEF Passing
<1>3. pc' \in [Threads -> Places] /\ \A u \in Threads \ {t} : pc'[u] = pc[u]
  BY <1>1 DEF Places
<1>4. WindowTypeOK'
  BY <1>1 DEF WindowTypeOK
<1>5. QED
  BY <1>1, <1>2, <1>3, <1>4

LEMMA PassingInTurn ==
  ASSUME Types, InTurn, NEW t \in Threads, Passing(t)
  PROVE  InTurn'
<1>1. /\ pc[t] \notin Busy /\ pc'[t] \notin Busy /\ \A u \in Threads \ {t} : pc'[u] = pc[u]
      /\ UNCHANGED <<told, final, gate, svcMtx, handling>>
  BY PassingTypes DEF Busy, Opening, Closing, service
<1>2. \A u \in Threads : InPlace(u)'
  BY <1>1 DEF InTurn, InPlace, Busy, Opening, Closing
<1>3. QED
  BY <1>1, <1>2 DEF InTurn, Busy

\* The steps of the window, each from one place to the next.
Turn(t) ==
  \/ Open(t) \/ Announce(t) \/ OpenGate(t) \/ Close(t) \/ CloseAggregate(t)
  \/ ReportEnd(t) \/ PullStats(t) \/ WriteReport(t) \/ CloseDone(t)

\* The statistics that are pulled are those of a window.
LEMMA StatsIsNat == ASSUME Types PROVE Stats \in Nat
BY WindowAssumption DEF Types, WindowTypeOK, Boundaries, Stats

\* A report more, or none.
LEMMA WrittenIsSeq ==
  ASSUME Types, NEW r \in Reports
  PROVE  Written(r) \in Seq(Reports)
<1>1. Append(reports, r) \in Seq(Reports) /\ reports \in Seq(Reports)
  BY DEF Types
<1>2. QED
  BY <1>1 DEF Written

LEMMA TurnTypes ==
  ASSUME Types, NEW t \in Threads, Turn(t)
  PROVE  Types' /\ UNCHANGED used /\ \A u \in Threads \ {t} : pc'[u] = pc[u]
<1> USE DEF Types, Go, At, bounds, service, analyzer, recording
<1>1. pc' \in [Threads -> Places] /\ \A u \in Threads \ {t} : pc'[u] = pc[u]
  BY DEF Turn, Open, Announce, OpenGate, Close, CloseAggregate, ReportEnd, PullStats, WriteReport, CloseDone,
         Places, Busy, Opening, Closing
<1>2. WindowTypeOK'
  BY WindowAssumption DEF Turn, Open, Announce, OpenGate, Close, CloseAggregate, ReportEnd, PullStats,
         WriteReport, CloseDone, WindowTypeOK, Boundaries, ClearFinal, SendStart, Aggregate, SendEnd
<1>3. gate' \in Gates /\ svcMtx' \in Threads \cup {None} /\ handling' \in Threads \cup {None}
  BY DEF Turn, Open, Announce, OpenGate, Close, CloseAggregate, ReportEnd, PullStats, WriteReport, CloseDone,
         Gates
<1>4. ws' \in [open : BOOLEAN, id : Nat, stats : Nat]
  <2>1. told'.id \in Nat /\ Stats \in Nat
    BY <1>2, StatsIsNat, WindowAssumption DEF WindowTypeOK, Boundaries
  <2>2. [ws EXCEPT !.open = FALSE] \in [open : BOOLEAN, id : Nat, stats : Nat]
        /\ [ws EXCEPT !.stats = Stats] \in [open : BOOLEAN, id : Nat, stats : Nat]
        /\ [open |-> TRUE, id |-> told'.id, stats |-> 0] \in [open : BOOLEAN, id : Nat, stats : Nat]
    BY <2>1
  <2>3. CASE Announce(t)
    BY <2>2, <2>3 DEF Announce, HandleStageStart
  <2>4. CASE ReportEnd(t) \/ PullStats(t)
    BY <2>2, <2>4 DEF ReportEnd, PullStats
  <2>5. CASE ~Announce(t) /\ ~ReportEnd(t) /\ ~PullStats(t)
    BY <2>5 DEF Turn, Open, OpenGate, Close, CloseAggregate, WriteReport, CloseDone
  <2>6. QED
    BY <2>3, <2>4, <2>5
<1>5. reports' \in Seq(Reports)
  <2>1. CASE WriteReport(t)
    <3>1. final \in Nat
      BY WindowAssumption DEF WindowTypeOK
    <3>2. [id |-> ws.id, stats |-> ws.stats, tables |-> final, regular |-> TRUE] \in Reports
      BY <3>1 DEF Reports
    <3>3. QED
      BY <2>1, <3>2, WrittenIsSeq DEF WriteReport
  <2>2. CASE ~WriteReport(t)
    BY <2>2 DEF Turn, Open, Announce, OpenGate, Close, CloseAggregate, ReportEnd, PullStats, CloseDone
  <2>3. QED
    BY <2>1, <2>2
<1>6. UNCHANGED <<query, used>>
  BY DEF Turn, Open, Announce, OpenGate, Close, CloseAggregate, ReportEnd, PullStats, WriteReport, CloseDone
<1>7. QED
  BY <1>1, <1>2, <1>3, <1>4, <1>5, <1>6

LEMMA TurnInTurn ==
  ASSUME Types, InTurn, NEW t \in Threads, Turn(t)
  PROVE  InTurn'
<1> USE DEF Types, Go, At, bounds, service, analyzer, recording, InPlace, Busy, Opening, Closing
<1> Types' /\ \A u \in Threads \ {t} : pc'[u] = pc[u]
  BY TurnTypes
<1> None \notin Threads
  BY LeakAssumption
<1>1. CASE Open(t)
  BY <1>1 DEF Open, MayOpen, ClearFinal, InTurn, Gates, WindowTypeOK, Boundaries
<1>2. CASE Announce(t)
  BY <1>2, WindowAssumption DEF Announce, SendStart, InTurn, Gates, WindowTypeOK, Boundaries
<1>3. CASE OpenGate(t)
  BY <1>3 DEF OpenGate, InTurn, Gates
<1>4. CASE Close(t)
  BY <1>4 DEF Close, InTurn, Gates
<1>5. CASE CloseAggregate(t)
  BY <1>5 DEF CloseAggregate, Aggregate, InTurn, Gates, WindowTypeOK, Boundaries
<1>6. CASE ReportEnd(t)
  <2>1. /\ pc[t] = "report" /\ told'.kind = "END" /\ told'.id = told.id /\ final' = told.id
        /\ UNCHANGED <<gate, svcMtx>>
    BY <1>6 DEF ReportEnd, SendEnd, WindowTypeOK, Boundaries
  <2>2. \A u \in Threads : handling # u \/ pc[u] \in {"stats", "tables"}
    BY DEF InTurn
  <2>3. handling = None \/ handling' = handling
    BY <1>6 DEF ReportEnd, Deliverable
  <2>4. handling # None => FALSE
    BY <2>1, <2>2 DEF InTurn
  <2>5. \/ handling' = t /\ pc'[t] = "stats"
        \/ handling' = None /\ pc'[t] = "reported"
    BY <1>6, <2>4 DEF ReportEnd
  <2>6. ~gate.enabled /\ gate.closing /\ \A u \in Threads \ {t} : pc[u] \notin Busy
    BY <2>1 DEF InTurn
  <2>7. InPlace(t)'
    BY <2>1, <2>5, <2>6 DEF InTurn
  <2>8. ASSUME NEW u \in Threads \ {t} PROVE InPlace(u)'
    BY <2>1, <2>4, <2>5, <2>6 DEF InTurn
  <2>9. pc'[t] \in Closing /\ \A u \in Threads \ {t} : pc'[u] \notin Busy
    BY <2>5, <2>6
  <2>10. QED
    BY <2>1, <2>6, <2>7, <2>8, <2>9 DEF InTurn
<1>7. CASE PullStats(t)
  BY <1>7 DEF PullStats, InTurn
<1>8. CASE WriteReport(t)
  BY <1>8 DEF WriteReport, InTurn
<1>9. CASE CloseDone(t)
  BY <1>9 DEF CloseDone, InTurn, Gates
<1>10. QED
  BY <1>1, <1>2, <1>3, <1>4, <1>5, <1>6, <1>7, <1>8, <1>9 DEF Turn

-----------------------------------------------------------------------------
(* The end of the process, and the samples *)

Others(t) == Passing(t) \/ Turn(t) \/ Exit(t) \/ Destroy(t)

LEMMA StepsAreOthers == ASSUME NEW t \in Threads, Step(t) PROVE Running /\ Others(t)
BY DEF Step, Others, Passing, Turn, SetEnabled, Overview, Ending

LEMMA EndingTypes ==
  ASSUME Types, NEW t \in Threads, Exit(t) \/ Destroy(t)
  PROVE  /\ Types'
         /\ pc[t] \in {"idle", "destroy"} /\ pc'[t] \in {"close", "ended"}
         /\ \A u \in Threads \ {t} : pc'[u] = pc[u]
         /\ gate'.enabled = gate.enabled /\ gate'.closing = gate.closing
         /\ UNCHANGED <<told, final, svcMtx, handling, overviews, lost, query, used>>
<1> USE DEF Types, Go, At, bounds, service, analyzer, recording
<1>1. CASE Exit(t)
  BY <1>1 DEF Exit, Places, Gates, WindowTypeOK
<1>2. CASE Destroy(t)
  <2>1. [id |-> ws.id, stats |-> Stats, tables |-> 0, regular |-> FALSE] \in Reports
    BY StatsIsNat DEF Reports
  <2>2. [ws EXCEPT !.open = FALSE] \in [open : BOOLEAN, id : Nat, stats : Nat]
    OBVIOUS
  <2>3. reports' \in Seq(Reports) /\ ws' \in [open : BOOLEAN, id : Nat, stats : Nat]
    BY <1>2, <2>1, <2>2, WrittenIsSeq DEF Destroy, Fallback
  <2>4. QED
    BY <1>2, <2>3 DEF Destroy, Places, WindowTypeOK
<1>3. QED
  BY <1>1, <1>2

LEMMA EndingInTurn ==
  ASSUME Types, InTurn, NEW t \in Threads, Exit(t) \/ Destroy(t)
  PROVE  InTurn'
<1>1. /\ pc[t] \notin Busy /\ pc'[t] \notin Busy /\ \A u \in Threads \ {t} : pc'[u] = pc[u]
      /\ gate'.enabled = gate.enabled /\ gate'.closing = gate.closing
      /\ UNCHANGED <<told, final, svcMtx, handling>>
  BY EndingTypes DEF Busy, Opening, Closing
<1>2. \A u \in Threads : InPlace(u)'
  BY <1>1 DEF InTurn, InPlace, Busy, Opening, Closing
<1>3. QED
  BY <1>1, <1>2 DEF InTurn, Busy

-----------------------------------------------------------------------------
(* What the analyzer knows *)

\* The steps that tell the analyzer nothing.
Quiet(t) ==
  Passing(t) \/ Exit(t) \/ Open(t) \/ OpenGate(t) \/ Close(t) \/ CloseAggregate(t) \/ CloseDone(t)

LEMMA QuietStep ==
  ASSUME Types, NEW t \in Threads, Quiet(t)
  PROVE  /\ UNCHANGED <<told, handling, ws, reports, lost, used>>
         /\ pc'[t] # "tables" /\ \A u \in Threads \ {t} : pc'[u] = pc[u]
<1> USE DEF Types, Go, At, bounds, service, analyzer, recording
<1>1. CASE Passing(t)
  BY <1>1, PassingTypes
<1>2. CASE Exit(t)
  BY <1>2, EndingTypes DEF Exit
<1>3. CASE Open(t) \/ OpenGate(t) \/ Close(t) \/ CloseAggregate(t) \/ CloseDone(t)
  BY <1>3 DEF Open, OpenGate, Close, CloseAggregate, CloseDone, ClearFinal, Aggregate
<1>4. QED
  BY <1>1, <1>2, <1>3 DEF Quiet

\* A boundary that was lost stays lost.
LEMMA LostGrows ==
  ASSUME NEW t \in Threads, Others(t)
  PROVE  lost \subseteq lost' /\ \A n : Bounded(n)' => Bounded(n)
<1>1. lost \subseteq lost'
  BY DEF Others, Passing, Ask, NoOpen, NoClose, Find, Snapshot, Render, Await, Turn, Open, Announce, OpenGate,
         Close, CloseAggregate, ReportEnd, PullStats, WriteReport, CloseDone, Dropped, Exit, Destroy, analyzer
<1>2. QED
  BY <1>1 DEF Bounded

\* The report of a window that is over is the last of the reports.
LEMMA OneMore ==
  ASSUME Types, NEW r \in Reports, reports' = Append(reports, r)
  PROVE  /\ Len(reports) \in Nat /\ Len(reports') = Len(reports) + 1
         /\ DOMAIN reports' = 1..(Len(reports) + 1)
         /\ reports'[Len(reports) + 1] = r
         /\ \A j \in 1..Len(reports) : reports'[j] = reports[j]
BY DEF Types

\* What the pull of the closing snapshot yields.
LEMMA WriteFacts ==
  ASSUME Types, InTurn, Followed, NEW t \in Threads, WriteReport(t)
  PROVE  /\ told.kind = "END" /\ told.id \in Nat \ {0} /\ handling = t /\ handling' = None /\ ~ws.open
         /\ UNCHANGED <<told, ws, lost, used>> /\ \A u \in Threads : pc'[u] # "tables"
         /\ \E r \in Reports :
              /\ r.id = ws.id /\ r.stats = told.id /\ r.tables = told.id
              /\ reports' = IF told.id \in used THEN Append(reports, r) ELSE reports
<1> USE DEF Go, At, bounds, service, analyzer, recording
<1>1. /\ pc[t] = "tables" /\ handling = t /\ t # None /\ told.kind = "END" /\ final = told.id
      /\ handling' = None /\ UNCHANGED <<told, ws, lost, used>>
      /\ reports' = Written([id |-> ws.id, stats |-> ws.stats, tables |-> final, regular |-> TRUE])
  BY LeakAssumption DEF WriteReport, InTurn, InPlace
<1>2. told.id \in Nat \ {0} /\ ~ws.open /\ ws.stats = told.id
  BY <1>1, WindowAssumption DEF Followed, Types, WindowTypeOK, Boundaries
<1>3. [id |-> ws.id, stats |-> told.id, tables |-> told.id, regular |-> TRUE] \in Reports
  BY <1>2 DEF Reports, Types
<1>4. \A u \in Threads : pc'[u] # "tables"
  BY <1>1 DEF WriteReport, InTurn, InPlace, Types
<1>5. QED
  BY <1>1, <1>2, <1>3, <1>4 DEF Written

\* The window of the analyzer, as long as the process runs.
LEMMA FollowedStep ==
  ASSUME Types, InTurn, Followed, NEW t \in Threads, Others(t), ~Destroy(t)
  PROVE  Followed'
<1> USE DEF Go, At, bounds, service, analyzer, recording
<1>1. told.id \in Nat /\ ws.id \in Nat
  BY WindowAssumption DEF Types, WindowTypeOK, Boundaries
<1>2. CASE Quiet(t)
  BY <1>2, QuietStep DEF Followed, Bounded
<1>3. CASE Announce(t)
  <2>1. told.kind = "END" /\ told' = [kind |-> "START", id |-> told.id + 1]
    BY <1>3 DEF Announce, SendStart
  <2>2. handling = None /\ handling' = None /\ \A u \in Threads : pc'[u] # "tables"
    BY <1>3, LeakAssumption DEF Announce, InTurn, InPlace, Busy, Opening, Closing, Types
  <2>3. CASE HandleStageStart(told'.id) /\ UNCHANGED lost
    <3>1. ws'.open /\ ws'.id <= told.id + 1
      BY <1>1, <2>1, <2>3 DEF HandleStageStart, Followed
    <3>2. lost = {} => ~ws.open
      BY <2>1 DEF Followed, Bounded
    <3>3. lost = {} => ws'.id = told.id + 1
      BY <2>1, <2>3, <3>2 DEF HandleStageStart
    <3>4. QED
      BY <2>1, <2>2, <2>3, <3>1, <3>3 DEF Followed
  <2>4. CASE Dropped("START") /\ UNCHANGED ws
    <3>1. ~Bounded(told.id)' /\ lost' # {}
      BY <2>1, <2>4 DEF Dropped, Bounded
    <3>2. ws'.id <= told.id + 1
      BY <1>1, <2>4 DEF Followed
    <3>3. QED
      BY <2>1, <2>2, <3>1, <3>2 DEF Followed, Bounded
  <2>5. QED
    BY <1>3, <2>3, <2>4 DEF Announce
<1>4. CASE ReportEnd(t)
  <2>1. told.kind = "START" /\ told.id # 0 /\ told'.kind = "END" /\ told'.id = told.id
    BY <1>4 DEF ReportEnd, SendEnd, InTurn, Types, WindowTypeOK, Boundaries
  <2>2. handling = None /\ t # None /\ \A u \in Threads : pc'[u] # "tables"
    BY <1>4, LeakAssumption DEF ReportEnd, InTurn, InPlace, Busy, Opening, Closing, Types
  <2>3. CASE lost' = lost /\ ws' = [ws EXCEPT !.open = FALSE]
    <3>1. ~ws'.open /\ ws'.id = ws.id
      BY <2>3 DEF Types
    <3>2. QED
      BY <1>1, <2>1, <2>2, <2>3, <3>1 DEF Followed
  <2>4. CASE ~ws.open /\ handling' = None /\ UNCHANGED <<ws, lost>>
    BY <2>1, <2>2, <2>4 DEF Followed
  <2>5. CASE Dropped("END") /\ UNCHANGED <<handling, ws>>
    <3>1. [kind |-> "END", id |-> told.id] \in lost'
      BY <2>1, <2>5 DEF Dropped
    <3>2. ~Bounded(told.id)' /\ lost' # {}
      BY <2>1, <3>1 DEF Bounded
    <3>3. QED
      BY <2>1, <2>2, <2>5, <3>2 DEF Followed
  <2>6. QED
    BY <1>4, <2>2, <2>3, <2>4, <2>5 DEF ReportEnd, Deliverable
<1>5. CASE PullStats(t)
  <2>1. told.kind = "END" /\ final = told.id /\ UNCHANGED <<told, handling, lost>> /\ ws' = [ws EXCEPT !.stats = Stats]
    BY <1>5 DEF PullStats, InTurn, InPlace
  <2>2. ws'.stats = told.id /\ ws'.id = ws.id /\ ws'.open = ws.open
    BY <2>1 DEF Stats, Types
  <2>3. QED
    BY <2>1, <2>2 DEF Followed, Bounded
<1>6. CASE WriteReport(t)
  BY <1>6, WriteFacts DEF Followed, Bounded
<1>7. QED
  BY <1>2, <1>3, <1>4, <1>5, <1>6 DEF Others, Turn, Quiet

\* The reports, as long as the process runs.
LEMMA KeptStep ==
  ASSUME Types, InTurn, Kept, Running, NEW t \in Threads, Others(t)
  PROVE  Kept'
<1> SUFFICES ASSUME Running' PROVE Followed' /\ Once' /\ Complete' /\ (\A n \in used : n <= told.id)'
  BY DEF Kept
<1> USE DEF Go, At, bounds, service, analyzer, recording
<1>1. Followed /\ Once /\ Complete /\ \A n \in used : n <= told.id
  BY DEF Kept
<1>2. ~Destroy(t)
  BY DEF Destroy, Running, Types
<1>3. Followed'
  BY <1>1, <1>2, FollowedStep
<1>4. told.id \in Nat /\ used \subseteq Nat \ {0} /\ \A n : Bounded(n)' => Bounded(n)
  BY LostGrows, WindowAssumption DEF Types, WindowTypeOK, Boundaries
<1>5. CASE Quiet(t)
  <2>1. Finished' = Finished
    BY <1>5, QuietStep DEF Finished
  <2>2. QED
    BY <1>1, <1>3, <1>5, <2>1, QuietStep DEF Once, Complete, Bounded
<1>6. CASE UNCHANGED <<reports, used>> /\ told'.id \in Nat /\ told'.id >= told.id
           /\ Finished' \in {Finished, Finished + 1} /\ (Finished' = Finished \/ \E b \in lost' : b.id = Finished + 1)
  <2>1. Finished \in Int /\ \A i \in 1..Len(reports) : reports[i].stats \in used \cap 1..Finished'
    BY <1>1, <1>4, <1>6 DEF Finished, Once
  <2>2. Once'
    BY <1>1, <1>6, <2>1 DEF Once
  <2>3. Complete'
    <3>1. SUFFICES ASSUME NEW n \in used, n <= Finished', Bounded(n)'
                   PROVE  \E i \in 1..Len(reports) : reports[i].stats = n
      BY <1>6 DEF Complete
    <3>2. n # Finished + 1 \/ Finished' = Finished
      BY <1>6, <3>1 DEF Bounded
    <3>3. QED
      BY <1>1, <1>4, <1>6, <2>1, <3>1, <3>2 DEF Complete
  <2>4. \A n \in used' : n <= told'.id
    BY <1>1, <1>4, <1>6
  <2>5. QED
    BY <1>3, <2>2, <2>3, <2>4
<1>7. CASE Announce(t)
  <2>1. told.kind = "END" /\ told' = [kind |-> "START", id |-> told.id + 1] /\ UNCHANGED <<handling, reports, used>>
    BY <1>7 DEF Announce, SendStart
  <2>2. handling = None
    BY <1>7, LeakAssumption DEF Announce, InTurn, InPlace, Busy, Opening, Closing, Types
  <2>3. Finished' = told.id /\ Finished = IF ws.open THEN told.id - 1 ELSE told.id
    BY <1>4, <2>1, <2>2 DEF Finished
  <2>4. ws.open => \E b \in lost' : b.id = told.id
    BY <1>1, <2>1, LostGrows DEF Followed, Bounded
  <2>5. QED
    BY <1>4, <1>6, <2>1, <2>3, <2>4
<1>8. CASE ReportEnd(t)
  <2>1. told.kind = "START" /\ told'.kind = "END" /\ told'.id = told.id /\ UNCHANGED <<reports, used>>
    BY <1>8 DEF ReportEnd, SendEnd, Types, WindowTypeOK, Boundaries
  <2>2. Finished = told.id - 1 /\ Finished' \in {told.id - 1, told.id}
    BY <2>1 DEF Finished
  <2>3. Finished' = told.id => \E b \in lost' : b.id = told.id
    <3>1. CASE Deliverable /\ ws.open /\ handling' = t
      BY <2>1, <3>1, LeakAssumption, <1>4 DEF Finished
    <3>2. CASE ~ws.open
      BY <1>1, <2>1, <3>2, LostGrows DEF Followed, Bounded
    <3>3. CASE Dropped("END")
      <4>1. [kind |-> "END", id |-> told.id] \in lost'
        BY <2>1, <3>3 DEF Dropped
      <4>2. QED
        BY <4>1
    <3>4. QED
      BY <1>8, <3>1, <3>2, <3>3 DEF ReportEnd
  <2>4. QED
    BY <1>4, <1>6, <2>1, <2>2, <2>3
<1>9. CASE PullStats(t)
  <2>1. UNCHANGED <<told, handling, reports, used>> /\ ws' = [ws EXCEPT !.stats = Stats]
    BY <1>9 DEF PullStats
  <2>2. Finished' = Finished
    BY <2>1 DEF Finished, Types
  <2>3. QED
    BY <1>4, <1>6, <2>1, <2>2
<1>10. CASE WriteReport(t)
  <2>1. PICK r \in Reports :
          /\ r.id = ws.id /\ r.stats = told.id /\ r.tables = told.id
          /\ reports' = IF told.id \in used THEN Append(reports, r) ELSE reports
    BY <1>1, <1>10, WriteFacts
  <2>2. Finished = told.id - 1 /\ Finished' = told.id /\ UNCHANGED <<told, used, lost>>
    BY <1>1, <1>10, WriteFacts, LeakAssumption DEF Finished
  <2>3. \A i \in 1..Len(reports) : reports[i].stats \in used \cap 1..told.id /\ reports[i].stats < told.id
    BY <1>1, <1>4, <2>2 DEF Once
  <2>4. CASE told.id \in used
    <3>1. reports' = Append(reports, r)
      BY <2>1, <2>4
    <3>2. Once'
      BY <1>1, <1>4, <2>1, <2>2, <2>3, <2>4, <3>1, OneMore DEF Once
    <3>3. Complete'
      <4>1. SUFFICES ASSUME NEW n \in used, n <= told.id, Bounded(n)
                     PROVE  \E i \in 1..Len(reports') : reports'[i].stats = n
        BY <1>4, <2>2 DEF Complete
      <4>2. CASE n = told.id
        BY <2>1, <3>1, <4>2, OneMore
      <4>3. CASE n # told.id
        <5>1. PICK i \in 1..Len(reports) : reports[i].stats = n
          BY <1>1, <1>4, <2>2, <4>1, <4>3 DEF Complete
        <5>2. QED
          BY <3>1, <5>1, OneMore
      <4>4. QED
        BY <4>2, <4>3
    <3>4. QED
      BY <1>1, <1>3, <2>2, <3>2, <3>3
  <2>5. CASE told.id \notin used
    <3>1. UNCHANGED reports
      BY <2>1, <2>5
    <3>2. Once'
      BY <1>1, <2>2, <2>3, <3>1 DEF Once
    <3>3. \A n \in used : n <= told.id => n <= told.id - 1
      BY <1>4, <2>5
    <3>4. Complete'
      BY <1>1, <1>4, <2>2, <3>1, <3>3 DEF Complete
    <3>5. QED
      BY <1>1, <1>3, <2>2, <3>2, <3>4
  <2>6. QED
    BY <2>4, <2>5
<1>11. QED
  BY <1>2, <1>5, <1>7, <1>8, <1>9, <1>10 DEF Others, Turn, Quiet

\* The snapshot of an overview is not older than its look at the window.
LEMMA QueriedStep ==
  ASSUME Types, InTurn, Kept, Queried, Running, NEW t \in Threads, Others(t)
  PROVE  Queried'
<1> SUFFICES ASSUME NEW u \in Threads
             PROVE  /\ pc'[u] \in {"snapshot", "recheck"} => query'[u].id <= told'.id
                    /\ pc'[u] = "snapshot" => query'[u].got = 0
                    /\ pc'[u] = "recheck" => query'[u].got = 0 \/ query'[u].got \in query'[u].id..told'.id
  BY DEF Queried
<1> USE DEF Go, At, bounds, service, analyzer, recording
<1>1. ws.id <= told.id /\ ws.id \in Nat
  BY DEF Kept, Followed, Types
<1>2. /\ pc[u] \in {"snapshot", "recheck"} => query[u].id <= told.id
      /\ pc[u] = "snapshot" => query[u].got = 0
      /\ pc[u] = "recheck" => query[u].got = 0 \/ query[u].got \in query[u].id..told.id
  BY DEF Queried
<1>3. told.id \in Nat /\ query[u] \in [id : Nat, got : Nat]
  BY WindowAssumption DEF Types, WindowTypeOK, Boundaries
<1>4. CASE Passing(t) /\ u # t
  BY <1>2, <1>4, PassingTypes
<1>5. CASE u = t /\ Find(t)
  <2>1. query'[t] = [id |-> ws.id, got |-> 0] /\ pc'[t] \in {"idle", "snapshot"} /\ UNCHANGED told
    BY <1>5 DEF Find, Types
  <2>2. QED
    BY <1>1, <1>3, <1>5, <2>1
<1>6. CASE u = t /\ Snapshot(t)
  <2>1. /\ pc[t] = "snapshot" /\ pc'[t] = "recheck" /\ UNCHANGED told
        /\ query' = query \/ query' = [query EXCEPT ![t].got = told.id]
    BY <1>6 DEF Snapshot, Types
  <2>2. query'[t].id = query[t].id /\ query'[t].got \in {query[t].got, told.id}
    BY <2>1 DEF Types
  <2>3. QED
    BY <1>2, <1>3, <1>6, <2>1, <2>2
<1>7. CASE u = t /\ (Ask(t) \/ NoOpen(t) \/ NoClose(t) \/ Render(t) \/ Await(t))
  BY <1>7 DEF Ask, NoOpen, NoClose, Render, Await, Types
<1>8. CASE Turn(t) \/ Exit(t) \/ Destroy(t)
  <2>1. UNCHANGED query
    BY <1>8 DEF Turn, Open, Announce, OpenGate, Close, CloseAggregate, ReportEnd, PullStats, WriteReport,
                CloseDone, Exit, Destroy
  <2>2. pc'[u] \notin {"snapshot", "recheck"} \/ pc'[u] = pc[u]
    BY <1>8 DEF Turn, Open, Announce, OpenGate, Close, CloseAggregate, ReportEnd, PullStats, WriteReport,
                CloseDone, Exit, Destroy, Types
  <2>3. told'.id \in Nat /\ told'.id >= told.id
    <3>1. CASE SendStart \/ SendEnd
      BY <1>3, <3>1 DEF SendStart, SendEnd, Types, WindowTypeOK, Boundaries
    <3>2. CASE UNCHANGED told
      BY <1>3, <3>2
    <3>3. QED
      BY <1>8, <3>1, <3>2 DEF Turn, Open, Announce, OpenGate, Close, CloseAggregate, ReportEnd, PullStats,
                  WriteReport, CloseDone, Exit, Destroy, ClearFinal, Aggregate
  <2>4. QED
    BY <1>2, <1>3, <2>1, <2>2, <2>3
<1>9. QED
  BY <1>4, <1>5, <1>6, <1>7, <1>8 DEF Others, Passing

\* Only the destructor at the end writes a report of a window that is still open.
LEMMA DestroyFacts ==
  ASSUME Types, InTurn, Followed, NEW t \in Threads, Destroy(t)
  PROVE  \/ UNCHANGED reports /\ (~ws.open \/ Stats # told.id \/ told.id \notin used)
         \/ /\ ws.open /\ told.id \in used
            /\ \E r \in Reports : r.id = ws.id /\ r.stats = told.id /\ ~r.regular /\ reports' = Append(reports, r)
<1> DEFINE r == [id |-> ws.id, stats |-> Stats, tables |-> 0, regular |-> FALSE]
<1>1. r \in Reports /\ r.id = ws.id /\ r.stats = Stats /\ r.tables = 0 /\ ~r.regular
  BY StatsIsNat DEF Reports, Types
<1>2. 0 \notin used
  BY DEF Types
<1>3. Stats \in used => Stats = told.id
  BY <1>2 DEF InTurn, Stats
<1>4. CASE ~ws.open
  BY <1>4 DEF Destroy, Fallback
<1>5. CASE ws.open
  <2>1. reports' = IF Stats \in used THEN Append(reports, r) ELSE reports
    BY <1>1, <1>2, <1>5 DEF Destroy, Fallback, Written
  <2>2. QED
    BY <1>1, <1>3, <1>5, <2>1
<1>6. QED
  BY <1>4, <1>5

LEMMA ReportsStep ==
  ASSUME Types, InTurn, Kept, ReportIsOfWindow, Running, NEW t \in Threads, Others(t)
  PROVE  ReportIsOfWindow'
<1> SUFFICES ASSUME NEW i \in DOMAIN reports'
             PROVE  /\ reports'[i].regular => reports'[i].tables = reports'[i].stats
                    /\ reports'[i].id <= reports'[i].stats
                    /\ lost' = {} => reports'[i].id = reports'[i].stats
  BY DEF ReportIsOfWindow
<1> USE DEF Go, At, bounds, service, analyzer, recording
<1>1. Followed /\ (lost' = {} => lost = {})
  BY LostGrows DEF Kept
<1>2. \A j \in 1..Len(reports) :
        /\ reports[j].regular => reports[j].tables = reports[j].stats
        /\ reports[j].id <= reports[j].stats
        /\ lost' = {} => reports[j].id = reports[j].stats
  BY <1>1 DEF ReportIsOfWindow, Types
<1>3. CASE UNCHANGED reports
  BY <1>2, <1>3 DEF Types
<1>4. CASE \E r \in Reports : /\ reports' = Append(reports, r) /\ (r.regular => r.tables = r.stats)
                            /\ r.id <= r.stats /\ (lost' = {} => r.id = r.stats)
  <2>1. PICK r \in Reports : /\ reports' = Append(reports, r) /\ (r.regular => r.tables = r.stats)
                            /\ r.id <= r.stats /\ (lost' = {} => r.id = r.stats)
    BY <1>4
  <2>2. QED
    BY <1>2, <2>1, OneMore
<1>5. CASE WriteReport(t)
  <2>1. PICK r \in Reports :
          /\ r.id = ws.id /\ r.stats = told.id /\ r.tables = told.id
          /\ reports' = IF told.id \in used THEN Append(reports, r) ELSE reports
    BY <1>1, <1>5, WriteFacts
  <2>2. QED
    BY <1>1, <1>3, <1>4, <2>1 DEF Followed
<1>6. CASE Destroy(t)
  <2>1. reports' = reports \/ \E r \in Reports :
          r.id = ws.id /\ r.stats = told.id /\ ~r.regular /\ reports' = Append(reports, r)
    BY <1>6, DestroyFacts DEF Kept
  <2>2. QED
    BY <1>1, <1>3, <1>4, <2>1 DEF Followed
<1>7. CASE ~WriteReport(t) /\ ~Destroy(t)
  <2>1. UNCHANGED reports
    BY <1>7, PassingTypes DEF Others, Turn, Open, Announce, OpenGate, Close, CloseAggregate, ReportEnd, PullStats,
                CloseDone, Exit
  <2>2. QED
    BY <1>3, <2>1
<1>8. QED
  BY <1>5, <1>6, <1>7

LEMMA OverviewsStep ==
  ASSUME Types, Kept, Queried, OverviewIsOfWindow, Running, NEW t \in Threads, Others(t)
  PROVE  OverviewIsOfWindow'
<1> USE DEF Go, At, bounds, service, analyzer, recording
<1>1. CASE Render(t)
  <2>1. SUFFICES ASSUME Same(t), query[t].got # 0
                 PROVE  query[t].id <= query[t].got /\ (lost = {} => query[t].id = query[t].got)
    BY <1>1 DEF Render, OverviewIsOfWindow
  <2>2. query[t].id <= told.id /\ (lost = {} => query[t].id = told.id)
    BY <2>1 DEF Same, Kept, Followed
  <2>3. query[t].got \in query[t].id..told.id
    BY <1>1, <2>1 DEF Render, Queried
  <2>4. told.id \in Nat /\ query[t].id \in Nat
    BY WindowAssumption DEF Types, WindowTypeOK, Boundaries
  <2>5. QED
    BY <2>2, <2>3, <2>4
<1>2. CASE ~Render(t)
  <2>1. UNCHANGED overviews
    BY <1>2 DEF Others, Passing, Ask, NoOpen, NoClose, Find, Snapshot, Await, Turn, Open, Announce, OpenGate,
                Close, CloseAggregate, ReportEnd, PullStats, WriteReport, CloseDone, Exit, Destroy
  <2>2. QED
    BY <2>1, LostGrows DEF OverviewIsOfWindow
<1>3. QED
  BY <1>1, <1>2

LEMMA ProcessEnds ==
  ASSUME Types, Running, NEW t \in Threads, Others(t), ~Destroy(t)
  PROVE  Running'
BY DEF Others, Passing, Ask, NoOpen, NoClose, Find, Snapshot, Render, Await, Turn, Open, Announce, OpenGate,
       Close, CloseAggregate, ReportEnd, PullStats, WriteReport, CloseDone, Exit, Types, Running, Go, At

\* The last thread leaves one report for each window with data.
LEMMA ReportedStep ==
  ASSUME Types, InTurn, Kept, Kept', Running, NEW t \in Threads, Others(t)
  PROVE  EveryWindowReported'
<1> USE DEF Go, At, bounds, service, analyzer, recording
<1>1. Once /\ Complete /\ Followed /\ told.id \in Nat /\ used \subseteq Nat \ {0}
      /\ \A n \in used : n <= told.id
  BY WindowAssumption DEF Kept, Types, WindowTypeOK, Boundaries
<1>2. CASE Running'
  <2>1. Once' /\ DOMAIN reports' = 1..Len(reports')
    BY <1>2, PassingTypes, TurnTypes, EndingTypes DEF Kept, Types, Others
  <2>2. QED
    BY <1>2, <2>1 DEF EveryWindowReported, Once, Running
<1>3. CASE Destroy(t)
  <2>1. UNCHANGED <<told, lost, used>> /\ handling = None
    BY <1>3 DEF Destroy
  <2>2. Finished = (IF told.kind = "START" \/ ws.open THEN told.id - 1 ELSE told.id)
    BY <2>1 DEF Finished
  <2>3. CASE UNCHANGED reports /\ (~ws.open \/ Stats # told.id \/ told.id \notin used)
    <3>1. told.kind = "START" /\ told.id \in used /\ Bounded(told.id) => FALSE
      BY <1>1, <2>3 DEF Followed, Stats
    <3>2. told.kind = "END" /\ ws.open => ~Bounded(told.id)
      BY <1>1 DEF Followed
    <3>3. \A n \in used : Bounded(n) => n <= Finished
      BY <1>1, <2>2, <3>1, <3>2 DEF Types, WindowTypeOK, Boundaries
    <3>4. DOMAIN reports = 1..Len(reports) /\ \A n : Bounded(n)' => Bounded(n)
      BY <2>1 DEF Bounded, Types
    <3>5. \A n \in used : Bounded(n) => \E i \in DOMAIN reports : reports[i].stats = n
      BY <1>1, <3>3, <3>4 DEF Complete
    <3>6. QED
      BY <1>1, <2>1, <2>3, <3>4, <3>5 DEF EveryWindowReported, Once
  <2>4. CASE ws.open /\ told.id \in used
             /\ \E r \in Reports : r.stats = told.id /\ reports' = Append(reports, r)
    <3>1. PICK r \in Reports : r.stats = told.id /\ reports' = Append(reports, r)
      BY <2>4
    <3>2. \A i \in 1..Len(reports) : reports[i].stats \in used /\ reports[i].stats < told.id
      BY <1>1, <2>2, <2>4 DEF Once
    <3>3. \A i \in DOMAIN reports' : reports'[i].stats \in used
      BY <2>4, <3>1, <3>2, OneMore
    <3>4. \A i, j \in DOMAIN reports' : i < j => reports'[i].stats < reports'[j].stats
      BY <1>1, <3>1, <3>2, OneMore DEF Once
    <3>5. ASSUME NEW n \in used, Bounded(n) PROVE \E i \in DOMAIN reports' : reports'[i].stats = n
      <4>1. CASE n = told.id
        BY <3>1, <4>1, OneMore
      <4>2. CASE n # told.id
        <5>1. PICK i \in 1..Len(reports) : reports[i].stats = n
          BY <1>1, <2>2, <2>4, <3>5, <4>2 DEF Complete
        <5>2. QED
          BY <3>1, <5>1, OneMore
      <4>3. QED
        BY <4>1, <4>2
    <3>6. QED
      BY <2>1, <3>3, <3>4, <3>5 DEF EveryWindowReported, Bounded
  <2>5. QED
    BY <1>1, <1>3, <2>3, <2>4, DestroyFacts
<1>4. QED
  BY <1>2, <1>3, ProcessEnds

-----------------------------------------------------------------------------
(* Theorems *)

\* A heap call of the application, in the window that is open.
LEMMA RecordStep ==
  ASSUME LeakInv, Record
  PROVE  LeakInv'
<1> USE DEF service, analyzer, bounds
<1>1. /\ UNCHANGED <<pc, service, analyzer, query>> /\ used' = used \cup {told.id} /\ Running
  BY DEF Record
<1>2. told.kind = "START" /\ told.id \in Nat \ {0}
  BY WindowAssumption DEF Record, At, LeakInv, Types, WindowTypeOK, Boundaries, InTurn, InPlace
<1>3. Types' /\ InTurn'
  BY <1>1, <1>2 DEF LeakInv, Types, WindowTypeOK, InTurn, InPlace
<1>4. Kept'
  <2>1. Followed' /\ Finished' = Finished /\ Finished = told.id - 1
    BY <1>1, <1>2 DEF LeakInv, Kept, Followed, Bounded, Finished
  <2>2. Once' /\ Complete' /\ (\A n \in used : n <= told.id)'
    BY <1>1, <1>2, <2>1 DEF LeakInv, Kept, Once, Complete, Bounded
  <2>3. QED
    BY <2>1, <2>2 DEF Kept
<1>5. Queried' /\ ReportIsOfWindow' /\ OverviewIsOfWindow'
  BY <1>1 DEF LeakInv, Queried, ReportIsOfWindow, OverviewIsOfWindow
<1>6. EveryWindowReported'
  BY <1>1 DEF LeakInv, EveryWindowReported, Running, At
<1>7. QED
  BY <1>3, <1>4, <1>5, <1>6 DEF LeakInv

LEMMA LeakStep ==
  ASSUME LeakInv, [Next]_vars
  PROVE  LeakInv'
<1>1. ASSUME NEW t \in Threads, Step(t) PROVE LeakInv'
  <2>1. Running /\ Others(t)
    BY <1>1, StepsAreOthers
  <2>2. Types' /\ InTurn'
    BY <2>1, PassingTypes, PassingInTurn, TurnTypes, TurnInTurn, EndingTypes, EndingInTurn DEF LeakInv, Others
  <2>3. Kept' /\ Queried' /\ ReportIsOfWindow' /\ OverviewIsOfWindow'
    BY <2>1, KeptStep, QueriedStep, ReportsStep, OverviewsStep DEF LeakInv
  <2>4. EveryWindowReported'
    BY <2>1, <2>2, <2>3, ReportedStep DEF LeakInv
  <2>5. QED
    BY <2>2, <2>3, <2>4 DEF LeakInv
<1>2. CASE UNCHANGED <<pc, service, analyzer, query, bounds, used>>
  <2>1. Types' /\ InTurn'
    BY <1>2 DEF LeakInv, Types, WindowTypeOK, InTurn, InPlace, service, analyzer
  <2>2. Kept' /\ Queried'
    BY <1>2 DEF LeakInv, Kept, Followed, Once, Complete, Bounded, Running, Finished, Queried, service, analyzer
  <2>3. ReportIsOfWindow' /\ OverviewIsOfWindow' /\ EveryWindowReported'
    BY <1>2 DEF LeakInv, ReportIsOfWindow, OverviewIsOfWindow, EveryWindowReported, Bounded, At, service, analyzer
  <2>4. QED
    BY <2>1, <2>2, <2>3 DEF LeakInv
<1>3. QED
  BY <1>1, <1>2, RecordStep DEF Next, Sample, vars, recording

LEMMA LeakInit == Init => LeakInv
<1> SUFFICES ASSUME Init PROVE LeakInv
  OBVIOUS
<1>1. Types /\ InTurn
  BY InitTypes, InitInTurn
<1>2. Kept
  BY DEF Init, WindowInit, Kept, Followed, Once, Complete, Bounded, Closed
<1>3. Queried /\ ReportIsOfWindow /\ OverviewIsOfWindow /\ EveryWindowReported
  BY DEF Init, WindowInit, Queried, ReportIsOfWindow, OverviewIsOfWindow, EveryWindowReported, At
<1>4. QED
  BY <1>1, <1>2, <1>3 DEF LeakInv

LEMMA LeakInvariant == Spec => []LeakInv
BY LeakInit, LeakStep, PTL DEF Spec

\* Whatever is shown of a window is of one window, and of the one it names unless a
\* boundary was lost: the statistics and the tables of its report, pulled one after
\* the other, and the data of an overview whose snapshot was taken without the lock.
\* No data are reported twice, and when the process has ended every window in which
\* something was recorded is reported whose own boundaries were not lost
\* (HandleStageEnd, WriteWindowReport, QueryInterimOverview and the destructor of
\* HostLeakAnalyzer).
THEOREM ReportsStayTrue == Spec => []ReportsAreTrue
<1>1. LeakInv => ReportsAreTrue
  BY DEF LeakInv, ReportsAreTrue
<1>2. QED
  BY LeakInvariant, <1>1, PTL
=============================================================================
