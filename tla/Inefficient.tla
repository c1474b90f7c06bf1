----------------------------- MODULE Inefficient -----------------------------
(***************************************************************************)
(* InefficientAnalyzer numbers the operators and the memory events outside *)
(* operators of a pool ("API ids") and labels a block while its events     *)
(* come in: allocated too early, if memory was freed between its           *)
(* allocation and its first use; freed too late, if memory was allocated   *)
(* between its last use and its release; idle, if two uses are far apart.  *)
(* Of all the frees and allocations it keeps the number of the last one.   *)
(* While nothing is traced it sees neither operators nor accesses, and the *)
(* MemoryState of a block gets its shadow events without it: such a block, *)
(* and one whose allocation was never seen, is not judged.                 *)
(*                                                                         *)
(* One pool of one process; the MemoryState of a block has been updated    *)
(* with the event before the analyzer sees it.                             *)
(***************************************************************************)
EXTENDS Integers, Sequences, SequencesExt

CONSTANTS
  Blocks,    \* blocks of the pool
  Threads,   \* threads that run operators
  Threshold, \* API ids between two uses that are not idle
  MaxApi,    \* bound on the API ids of a run
  MaxEvents, \* bound on the events of a block
  MaxSwitches \* bound on the starts and stops of tracing

VARIABLES
  apiId,         \* the number of the last API
  switches,      \* starts and stops of tracing, odd while it is on
  isOpStart,     \* an operator was started and none ended since
  apiTmp,        \* allocations and frees that are not classified: type and API id
  mallocApi,     \* mallocApiTmpId, Never if there was none
  freeApi,       \* freeApiTmpId
  events,        \* block -> events of its state: type and API id, Never without one
  labels,        \* inefficientType of the block
  running,       \* threads inside an operator
  done,          \* history: those that were
  overlapped     \* history: an operator was started before the end of another was seen

vars == <<apiId, switches, isOpStart, apiTmp, mallocApi, freeApi, events, labels, running, done, overlapped>>

Never == -1

\* The other events are shadow events, or none.
traced == switches % 2 = 1

\* ClassifyEventsTmp: the events since the last time belong to the API id.
Classified(type, batch, at, before) == IF \E e \in batch : e.type = type THEN at ELSE before

Classify(batch, id) ==
  /\ apiTmp' = {} /\ done' = done \cup batch
  /\ mallocApi' = Classified("malloc", batch, id, mallocApi)
  /\ freeApi' = Classified("free", batch, id, freeApi)

\* Operators run all the time; the analyzer sees those of traced times.
OpStart(t) ==
  /\ t \notin running /\ running' = running \cup {t}
  /\ IF ~traced THEN UNCHANGED <<apiId, isOpStart, overlapped>>
     ELSE /\ apiId < MaxApi /\ apiId' = apiId + 1
          /\ isOpStart' = TRUE /\ overlapped' = (overlapped \/ isOpStart)
  /\ UNCHANGED <<switches, apiTmp, mallocApi, freeApi, events, labels, done>>

OpEnd(t) ==
  /\ t \in running /\ running' = running \ {t}
  /\ IF ~traced THEN UNCHANGED <<isOpStart, apiTmp, mallocApi, freeApi, done>>
     ELSE isOpStart' = FALSE /\ Classify(apiTmp, apiId)
  /\ UNCHANGED <<switches, apiId, events, labels, overlapped>>

Switch ==
  /\ switches < MaxSwitches /\ switches' = switches + 1
  /\ UNCHANGED <<apiId, isOpStart, apiTmp, mallocApi, freeApi, events, labels, running, done, overlapped>>

-----------------------------------------------------------------------------
(* Labels, from the events of a block with the one that came last. *)

Far(early, late) == late - early > Threshold

TemporaryIdleness(es) ==
  LET n == Len(es) IN n >= 2 /\ es[n - 1].type = "access" /\ Far(es[n - 1].api, es[n].api)

FirstAccess(es) == {i \in 1..Len(es) : es[i].type = "access" /\ es[i].api # es[1].api}

EarlyAllocation(es, lastFree) ==
  \E i \in FirstAccess(es) :
    /\ \A j \in FirstAccess(es) : i <= j
    /\ es[1].api < lastFree /\ lastFree < es[i].api

LateDeallocation(es, lastMalloc) ==
  LET n == Len(es) IN
  /\ n >= 2 /\ es[n - 1].type = "access" /\ es[n - 1].api # es[n].api
  /\ es[n - 1].api < lastMalloc /\ lastMalloc < es[n].api

\* Mutant: the events that have no API id are not looked for.
Whole_Unchecked(es) == es[1].type = "malloc"

\* Every event since the allocation has an API id.
Whole(es) == es[1].type = "malloc" /\ \A i \in 1..Len(es) : es[i].api # Never

Judged(before, type, es) ==
  before \cup
  {l \in {"idle", "early", "late"} :
     /\ Whole(es)
     /\ \/ l = "idle" /\ type = "access" /\ TemporaryIdleness(es)
        \/ l = "early" /\ type = "access" /\ freeApi' # Never /\ EarlyAllocation(es, freeApi')
        \/ l = "late" /\ type = "free" /\ mallocApi' # Never /\ LateDeallocation(es, mallocApi')}

Live(b) == events[b] # <<>> /\ Last(events[b]).type # "free"
Held(b) == Live(b) /\ events[b][1].type = "malloc"

\* AddEvent: an event of a block that has no state, or an allocation over what
\* was left behind, begins a new one.
Recorded(b, type, id) ==
  Append(IF type = "malloc" \/ ~Live(b) THEN <<>> ELSE events[b], [type |-> type, api |-> id])

\* HandleMemoryEvent: an event outside of operators is an API of its own.
MemoryEvent(b, type) ==
  LET id == IF isOpStart THEN apiId ELSE apiId + 1
      es == Recorded(b, type, id)
      batch == apiTmp \cup {e \in {[type |-> type, api |-> id]} : type # "access"}
  IN /\ traced /\ apiId' = id /\ id <= MaxApi
     /\ IF isOpStart THEN apiTmp' = batch /\ UNCHANGED <<mallocApi, freeApi, done>>
        ELSE Classify(batch, id)
     /\ events' = [events EXCEPT ![b] = es]
     /\ labels' = [labels EXCEPT ![b] = Judged(IF Len(es) = 1 THEN {} ELSE @, type, es)]
     /\ UNCHANGED <<switches, isOpStart, running, overlapped>>

\* Only the state of the block sees a shadow event.
ShadowEvent(b, type) ==
  /\ ~traced
  /\ events' = [events EXCEPT ![b] = Recorded(b, type, Never)]
  /\ labels' = [labels EXCEPT ![b] = IF type = "malloc" \/ ~Live(b) THEN {} ELSE @]
  /\ UNCHANGED <<apiId, switches, isOpStart, apiTmp, mallocApi, freeApi, running, done, overlapped>>

Malloc(b) == ~Held(b) /\ (MemoryEvent(b, "malloc") \/ ShadowEvent(b, "malloc"))
Access(b) == Len(events[b]) < MaxEvents /\ MemoryEvent(b, "access")
Free(b) == Live(b) /\ (MemoryEvent(b, "free") \/ ShadowEvent(b, "free"))

-----------------------------------------------------------------------------
Init ==
  /\ apiId = 0 /\ switches \in {0, 1} /\ isOpStart = FALSE /\ apiTmp = {} /\ mallocApi = Never /\ freeApi = Never
  /\ events = [b \in Blocks |-> <<>>] /\ labels = [b \in Blocks |-> {}]
  /\ running = {} /\ done = {} /\ overlapped = FALSE

\* Bound: labels say nothing once the numbers do not follow the operators.
Next ==
  /\ ~overlapped
  /\ \/ Switch
     \/ \E t \in Threads : OpStart(t) \/ OpEnd(t)
     \/ \E b \in Blocks : Malloc(b) \/ Access(b) \/ Free(b)

-----------------------------------------------------------------------------
(* Properties *)

Between(type, low, high) == \E e \in done : e.type = type /\ low < e.api /\ e.api < high

\* A free that ended between the allocation and the first use outside its API.
IsEarly(es) ==
  \E i \in 2..Len(es) :
    /\ es[i].type = "access" /\ es[i].api # es[1].api
    /\ \A j \in 2..(i - 1) : es[j].api = es[1].api
    /\ Between("free", es[1].api, es[i].api)

IsLate(es) ==
  LET n == Len(es) IN
  /\ n >= 2 /\ es[n].type = "free" /\ es[n - 1].type = "access"
  /\ Between("malloc", es[n - 1].api, es[n].api)

IsIdle(es) == \E i \in 2..Len(es) : es[i - 1].type = "access" /\ es[i].type = "access" /\ Far(es[i - 1].api, es[i].api)

\* What the labels of a block are, by the uses that the analyzer could see: those
\* before a shadow release. A block whose allocation it did not see has none.
Seen(es) == IF es # <<>> /\ Last(es).api = Never THEN Front(es) ELSE es

Due(es) ==
  {l \in {"early", "late", "idle"} :
     /\ es # <<>> /\ es[1].type = "malloc" /\ es[1].api # Never
     /\ l = "early" => IsEarly(Seen(es))
     /\ l = "late" => IsLate(Seen(es))
     /\ l = "idle" => IsIdle(Seen(es))}

\* As long as each operator is seen to end before the next is started, a block
\* whose allocation was traced bears a label exactly if one of all the frees and
\* allocations of the run, and not only the last, lies where the label says; a
\* block that was allocated or met in any other way bears none
\* (InefficientAnalysis, inefficient_analyzer.cpp:188-212).
LabelsRight == overlapped \/ \A b \in Blocks : labels[b] = Due(events[b])
=============================================================================
