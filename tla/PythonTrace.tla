---------------------------- MODULE PythonTrace ----------------------------
(***************************************************************************)
(* The trace of Python calls (python_trace.cpp).  The interpreter tells    *)
(* the profile function of a thread about every call and return; the       *)
(* thread keeps a stack of open calls, and a return writes the event of    *)
(* the call it finds on the top.  Inside an ignored function nothing is    *)
(* recorded.  Calls and returns are passed over while the collection is    *)
(* off.                                                                    *)
(*                                                                         *)
(* One thread: the stacks of threads are independent, and everything runs  *)
(* under the interpreter lock.  A call of a C function is a call of a      *)
(* function of its own, and has two entries in the stack, which come and   *)
(* go together: one stands for both.  A call gets no entry while the       *)
(* device of its thread cannot be told, and a C function called by the     *)
(* __exit__ of contextlib gets none at all.                                *)
(***************************************************************************)
EXTENDS Naturals, Sequences, SequencesExt

CONSTANTS
  Functions,  \* hashes of functions: file and name
  Ignored,    \* those the trace ignores, with all they call
  InC,        \* those written in C
  MaxDepth,   \* bound on the calls that are open
  MaxCalls    \* bound on the calls of a run

VARIABLES
  frames,      \* the calls that are open in the program: function, number, due to be traced, seen
  frameStack,  \* frameStack_: entries with the hash and the number of the call, Before for older ones
  throw,       \* throw_: inside an ignored function
  active,      \* active_: the profile function is registered
  tracing,     \* IsTracingEnabled
  written,     \* events written: the calls whose begin and end they bear, None for no time
  returned,    \* history: traced calls that have returned
  astray,      \* history: something the trace cannot follow has happened
  calls        \* calls so far

vars == <<frames, frameStack, throw, active, tracing, written, returned, astray, calls>>

None == 0
Before == MaxCalls + 1

Traced == active /\ tracing

Event(f, begin, end) == [hash |-> f, begin |-> begin, end |-> end]

-----------------------------------------------------------------------------
(* RecordPyCall, RecordCCall and RecordReturn *)

\* Mutant: the silence stays.
Resumed_Never == throw

\* The end of an ignored function ends the silence.
Resumed == FALSE

RecordCall(f, id) ==
  /\ frameStack' = IF throw THEN frameStack ELSE Append(frameStack, [hash |-> f, call |-> id])
  /\ throw' = (throw \/ f \in Ignored)

\* The return of another call than the one on the top is written without a begin,
\* if the device is known.
RecordReturn(f, id, known) ==
  IF frameStack = <<>> THEN UNCHANGED <<frameStack, throw, written>>
  ELSE IF Last(frameStack).hash = f
  THEN /\ throw' = Resumed
       /\ written' = written \cup {Event(f, Last(frameStack).call, id)}
       /\ frameStack' = Front(frameStack)
  ELSE /\ written' = written \cup {e \in {Event(f, None, id)} : known /\ ~throw}
       /\ UNCHANGED <<frameStack, throw>>

-----------------------------------------------------------------------------
(* The program *)

\* The call is inside an ignored function that the trace has seen begin.
InIgnored == \E i \in 1..Len(frames) : frames[i].function \in Ignored /\ frames[i].seen

\* A call without an entry whose function has the entry on the top: its return
\* takes that.
Repeated(f) == frameStack # <<>> /\ Last(frameStack).hash = f

\* seen: there is a device, and the call is not hidden by contextlib.
Call(f) ==
  /\ Len(frames) < MaxDepth /\ calls < MaxCalls
  /\ calls' = calls + 1
  /\ \E seen \in IF Traced THEN BOOLEAN ELSE {FALSE} :
       /\ frames' = Append(frames, [function |-> f, call |-> calls + 1, traced |-> seen /\ ~InIgnored, seen |-> seen])
       /\ astray' = (astray \/ (Traced /\ (throw \/ ~seen) /\ Repeated(f)))
       /\ IF seen THEN RecordCall(f, calls + 1) ELSE UNCHANGED <<frameStack, throw>>
  /\ UNCHANGED <<active, tracing, written, returned>>

Return ==
  /\ frames # <<>>
  /\ frames' = Front(frames)
  /\ LET top == Last(frames) IN
     /\ \/ Traced /\ \E known \in BOOLEAN : RecordReturn(top.function, top.call, known)
        \/ ~Traced /\ UNCHANGED <<frameStack, throw, written>>
     /\ returned' = IF Traced /\ top.traced THEN returned \cup {top.call} ELSE returned
  /\ UNCHANGED <<active, tracing, astray, calls>>

\* A function written in C that fails is not reported as a return.
RaiseInC ==
  /\ frames # <<>> /\ Last(frames).function \in InC
  /\ frames' = Front(frames)
  /\ astray' = (astray \/ (Traced /\ Last(frames).traced))
  /\ UNCHANGED <<frameStack, throw, active, tracing, written, returned, calls>>

-----------------------------------------------------------------------------
(* Start and Stop *)

\* GetTraceCallStack reports the open calls of a thread from the innermost on,
\* up to the first ignored function.
Reported ==
  LET inward == Reverse(frames)
      stops == {i \in 1..Len(inward) : inward[i].function \in Ignored}
      n == IF stops = {} THEN Len(inward) ELSE CHOOSE i \in stops : \A j \in stops : i <= j
  IN [entries |-> [i \in 1..n |-> [hash |-> inward[i].function, call |-> Before]], thrown |-> stops # {}]

\* callback passes the calls over while the collection is off, RecordPyCall inside
\* an ignored function and without a device.
CallStack(known) == IF tracing /\ known /\ ~throw THEN Reported ELSE [entries |-> <<>>, thrown |-> throw]

Start ==
  /\ ~active /\ active' = TRUE
  /\ \E known \in BOOLEAN :
       /\ frameStack' = frameStack \o CallStack(known).entries /\ throw' = CallStack(known).thrown
       /\ frames' = [i \in 1..Len(frames) |-> [frames[i] EXCEPT !.seen = tracing /\ known]]
  /\ UNCHANGED <<tracing, written, returned, astray, calls>>

\* What is left in the stack is written without an end.  throw_ stays, and a
\* thread that is inside an ignored function now is not traced again.
Stop ==
  /\ active /\ active' = FALSE
  /\ \E known \in BOOLEAN :
       /\ LET left == frameStack \o CallStack(known).entries
          IN written' = written \cup {Event(left[i].hash, left[i].call, None) : i \in 1..Len(left)}
       /\ throw' = CallStack(known).thrown
  /\ frameStack' = <<>>
  /\ frames' = [i \in 1..Len(frames) |-> [frames[i] EXCEPT !.traced = FALSE]]
  /\ astray' = (astray \/ throw')
  /\ UNCHANGED <<tracing, returned, calls>>

\* start() and stop() of the collection.
SetTraceStatus ==
  /\ tracing' = ~tracing
  /\ astray' = (astray \/ (active /\ frames # <<>>))
  /\ UNCHANGED <<frames, frameStack, throw, active, written, returned, calls>>

-----------------------------------------------------------------------------
Init ==
  /\ frames = <<>> /\ frameStack = <<>> /\ throw = FALSE
  /\ active = FALSE /\ tracing \in BOOLEAN
  /\ written = {} /\ returned = {} /\ astray = FALSE /\ calls = 0

Next ==
  \/ \E f \in Functions : Call(f)
  \/ Return \/ RaiseInC \/ Start \/ Stop \/ SetTraceStatus

-----------------------------------------------------------------------------
(* Properties *)

Own(e) == e.begin \in 1..MaxCalls => e.end \in {None, e.begin}

\* An event with a begin and an end is of one call, and every call that was seen
\* to begin and returned has one, whichever calls were open at the start, were
\* ignored or could not be seen, unless the trace met one of the things it cannot
\* follow: a call without an entry, in an ignored function, without a device or
\* hidden, right inside a call of the same function; a C function that fails; a
\* stop inside an ignored function; and a collection switched on or off during a
\* call (RecordReturn, python_trace.cpp:135).
PairsAreCalls ==
  astray \/ /\ \A e \in written : Own(e)
            /\ \A id \in returned : \E e \in written : e.begin = id /\ e.end = id
=============================================================================
