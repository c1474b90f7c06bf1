------------------------ MODULE ControlSessionProofs ------------------------
(***************************************************************************)
(* Theorems of ControlSession, for all sets of controllers, sequence       *)
(* spaces and frame counts.                                                *)
(*                                                                         *)
(* Agreed ties the target's end of a session to the controller's: the      *)
(* connection goes into the backlog of the controller the target is then   *)
(* connected to, and is given up only by an exit or once that controller   *)
(* has gone.  InStep says what of one exchange is under way, in each place *)
(* of a controller that never gave up an answer.                           *)
(***************************************************************************)
EXTENDS ControlSession, FiniteSetTheorems, TLAPS

Before   == {"out", "lookup", "probe", "stale", "bind", "listen", "signal"}
Attached == {"register", "unlink", "prompt", "await"}
Places   == Before \cup Attached \cup {"wait", "close", "remove", "done", "killed"}
Unbound  == {"idle", "check", "connect", "exited"}
Bound    == {"greet", "activate", "poll", "respond"}

Commands == [seq : 0..(SeqSpace - 1), cmd : 0..MaxCommands]
Frames   == [seq : 0..(SeqSpace - 1), cmd : 0..MaxCommands, last : BOOLEAN]

AnswerPairs == Nat \X Nat

EndTypes ==
  /\ pc \in [Controllers -> Places]
  /\ backlog \in [Controllers -> Seq({"probe", "target"})]
  /\ seq \in [Controllers -> 0..(SeqSpace - 1)] /\ sent \in [Controllers -> 0..MaxCommands]

WireTypes ==
  /\ requests \in [Controllers -> Seq(Commands)] /\ inbox \in [Controllers -> Seq(Frames)]
  /\ hung \in [Controllers -> BOOLEAN]

TargetTypes ==
  /\ file \in Controllers \cup {None} /\ line \in Controllers \cup {None}
  /\ listener \in Unbound \cup Bound /\ request \in Commands
  /\ pending \subseteq Controllers /\ wakes \in Nat /\ chActive \in BOOLEAN

HistoryTypes ==
  /\ heard \subseteq Controllers /\ givenUp \subseteq Controllers
  /\ accepted \in [Controllers -> SUBSET AnswerPairs]

Types == EndTypes /\ WireTypes /\ TargetTypes /\ HistoryTypes

\* The target is connected to somebody exactly while it is in a session.
LineInv ==
  /\ line = None <=> listener \in Unbound
  /\ listener \in {"poll", "respond"} => chActive

\* No frame bears a command that was not sent.
SentFirst(c) ==
  /\ \A i \in 1..Len(requests[c]) : requests[c][i].cmd <= sent[c]
  /\ \A i \in 1..Len(inbox[c]) : inbox[c][i].cmd <= sent[c]
  /\ line = c /\ listener = "respond" => request.cmd <= sent[c]

Tied(c) == Contains(backlog[c], "target") \/ pc[c] \in Attached

\* The connection of a controller that is still there is the target's, or the
\* target has exited.
Agreed(c) ==
  /\ Tied(c) /\ ~Gone(c) => line = c \/ (hung[c] /\ ~Alive)
  /\ hung[c] => Gone(c) \/ ~Alive
  /\ pc[c] \in Before \ {"signal"} => line # c /\ ~Tied(c)

\* A signal under way or heard is that of a controller that has sent it.
Signalled(c) == c \in pending \cup heard => pc[c] \notin Before

Current(c) == [seq |-> seq[c], cmd |-> sent[c]]

\* A whole response to the command of c, or what is left of it.
AnswerTo(c) ==
  \A i \in 1..Len(inbox[c]) :
    inbox[c][i] = [seq |-> seq[c], cmd |-> sent[c], last |-> i = Len(inbox[c])]

\* Between two commands nothing is under way; of a command, either the request,
\* its execution or its response.
InStep(c) ==
  /\ pc[c] \in Before \cup {"wait", "register"} =>
       /\ requests[c] = <<>>
       /\ Len(inbox[c]) <= 1
       /\ inbox[c] # <<>> => ~Alive \/ (line = c /\ listener # "greet")
       /\ line = c => listener # "respond"
  /\ pc[c] \in {"unlink", "prompt"} =>
       /\ hung[c] \/ (requests[c] = <<>> /\ inbox[c] = <<>>)
       /\ line = c => listener \in {"activate", "poll"}
  /\ pc[c] = "await" =>
       \/ /\ requests[c] = <<Current(c)>> /\ inbox[c] = <<>>
          /\ line = c => listener \in {"activate", "poll"}
       \/ /\ requests[c] = <<>> /\ inbox[c] = <<>>
          /\ line = c => listener = "respond" /\ request = Current(c)
       \/ /\ requests[c] = <<>> /\ inbox[c] # <<>> /\ AnswerTo(c)
          /\ line = c => listener = "poll"

Ends == \A c \in Controllers : Agreed(c) /\ Signalled(c)

Owed == {c \in Controllers : pc[c] \in Before \/ c \in pending}

\* A byte in the pipe is for a controller that signalled, each of which does so once.
WakeBound == wakes + Cardinality(Owed) <= Cardinality(Controllers)

SessionInv ==
  /\ Types /\ LineInv /\ Ends
  /\ \A c \in Controllers : SentFirst(c)
  /\ WakeHeard /\ NoResidue /\ WakeBound

ExchangeInv == \A c \in Controllers \ givenUp : InStep(c) /\ OwnAnswers(c)

-----------------------------------------------------------------------------
(* Types *)

LEMMA TakingFirst ==
  ASSUME NEW S, NEW s \in Seq(S), s # <<>>
  PROVE  Head(s) \in S /\ Tail(s) \in Seq(S)
OBVIOUS

LEMMA NextSeqInSpace == ASSUME Types, NEW c \in Controllers PROVE NextSeq(c) \in 0..(SeqSpace - 1)
<1>1. seq[c] + 1 \in Nat /\ SeqSpace \in Nat \ {0}
  BY SessionAssumption DEF Types, EndTypes
<1>2. \A a \in Nat, n \in Nat \ {0} : a % n \in 0..(n - 1)
  OBVIOUS
<1>3. QED
  BY <1>1, <1>2 DEF NextSeq

LEMMA InitTypes == Init => Types
<1> SUFFICES ASSUME Init PROVE Types
  OBVIOUS
<1> USE SessionAssumption DEF Init
<1>1. EndTypes
  BY DEF EndTypes, Places, Before
<1>2. WireTypes
  BY DEF WireTypes
<1>3. TargetTypes
  <2>1. [seq |-> 0, cmd |-> 0] \in Commands
    BY DEF Commands
  <2>2. QED
    BY <2>1 DEF TargetTypes, Unbound
<1>4. HistoryTypes
  BY DEF HistoryTypes
<1>5. QED
  BY <1>1, <1>2, <1>3, <1>4 DEF Types

\* What each group of variables needs to keep its types.
LEMMA EndTypesStable == ASSUME EndTypes, UNCHANGED ends PROVE EndTypes'
BY DEF EndTypes, ends

LEMMA WireTypesStable == ASSUME WireTypes, UNCHANGED wires PROVE WireTypes'
BY DEF WireTypes, wires

LEMMA TargetTypesStable == ASSUME TargetTypes, UNCHANGED <<file, target>> PROVE TargetTypes'
BY DEF TargetTypes, target

LEMMA HistoryTypesStable == ASSUME HistoryTypes, UNCHANGED history PROVE HistoryTypes'
BY DEF HistoryTypes, history

\* A controller by itself only moves on, and takes from what it was sent.
LEMMA ControllerTypes ==
  ASSUME Types, NEW c \in Controllers,
         CheckTarget(c) \/ SendCommand(c) \/ Interrupt(c) \/ Leave(c) \/ Kill(c) \/ ControllerStep(c)
  PROVE  Types'
<1> USE DEF Types, Goto
<1> DEFINE Moves == \E p \in Places : pc' = [pc EXCEPT ![c] = p]
<1>1. CASE CheckTarget(c) \/ LookUp(c) \/ Listen(c) \/ Close(c) \/ Leave(c) \/ Kill(c) \/ TargetLost(c) \/ AcceptTimeout(c)
  <2>1. Moves /\ UNCHANGED <<file, backlog, seq, sent, wires, target, history>>
    BY <1>1 DEF CheckTarget, LookUp, Listen, Close, Leave, Kill, TargetLost, AcceptTimeout, Failed,
                Places, Before, Attached
  <2>2. EndTypes'
    BY <2>1 DEF EndTypes
  <2>3. QED
    BY <2>1, <2>2, WireTypesStable, TargetTypesStable, HistoryTypesStable
<1>2. CASE UnlinkStale(c) \/ Bind(c) \/ UnlinkOwn(c) \/ RemoveFile(c) \/ Signal(c) \/ Interrupt(c)
  <2>1. Moves /\ UNCHANGED <<backlog, seq, sent, wires>>
    BY <1>2 DEF UnlinkStale, Bind, UnlinkOwn, RemoveFile, Signal, Interrupt, Places, Before, Attached
  <2>2. EndTypes'
    BY <2>1 DEF EndTypes
  <2>3. TargetTypes'
    BY <1>2 DEF UnlinkStale, Bind, UnlinkOwn, RemoveFile, Signal, Interrupt, TargetTypes, target
  <2>4. HistoryTypes'
    BY <1>2 DEF UnlinkStale, Bind, UnlinkOwn, RemoveFile, Signal, Interrupt, HistoryTypes, history
  <2>5. QED
    BY <2>1, <2>2, <2>3, <2>4, WireTypesStable
<1>3. CASE Probe(c) \/ Accept(c)
  <2>1. Moves /\ UNCHANGED <<file, seq, sent, wires, target, history>>
    BY <1>3 DEF Probe, Accept, Places, Before, Attached
  <2>2. backlog' \in [Controllers -> Seq({"probe", "target"})]
    <3>1. \A d \in Controllers : Append(backlog[d], "probe") \in Seq({"probe", "target"})
      BY DEF EndTypes
    <3>2. CASE Probe(c)
      BY <3>1, <3>2 DEF Probe, EndTypes, TargetTypes
    <3>3. CASE Accept(c)
      BY <3>3, TakingFirst DEF Accept, EndTypes
    <3>4. QED
      BY <1>3, <3>2, <3>3
  <2>3. EndTypes'
    BY <2>1, <2>2 DEF EndTypes
  <2>4. QED
    BY <2>1, <2>3, WireTypesStable, TargetTypesStable, HistoryTypesStable
<1>4. CASE ReadRegister(c)
  <2>1. Moves /\ UNCHANGED <<file, backlog, seq, sent, requests, hung, target, history>>
    BY <1>4 DEF ReadRegister, Places, Before, Attached
  <2>2. EndTypes'
    BY <2>1 DEF EndTypes
  <2>3. WireTypes'
    <3>1. CASE inbox[c] # <<>> /\ inbox' = [inbox EXCEPT ![c] = Tail(@)]
      BY <2>1, <3>1, TakingFirst DEF WireTypes
    <3>2. CASE UNCHANGED inbox
      BY <2>1, <3>2 DEF WireTypes
    <3>3. QED
      BY <1>4, <3>1, <3>2 DEF ReadRegister
  <2>4. QED
    BY <2>1, <2>2, <2>3, TargetTypesStable, HistoryTypesStable
<1>5. CASE SendCommand(c)
  <2>1. [seq |-> seq[c], cmd |-> sent[c] + 1] \in Commands /\ sent[c] + 1 \in 0..MaxCommands
    BY <1>5, SessionAssumption DEF SendCommand, Commands, EndTypes
  <2>2. EndTypes'
    BY <1>5, <2>1 DEF SendCommand, EndTypes, Places, Attached
  <2>3. WireTypes'
    BY <1>5, <2>1 DEF SendCommand, WireTypes
  <2>4. UNCHANGED <<file, target, history>>
    BY <1>5 DEF SendCommand
  <2>5. QED
    BY <2>2, <2>3, <2>4, TargetTypesStable, HistoryTypesStable
<1>6. CASE ReadResponse(c)
  <2>1. Head(inbox[c]) \in Frames /\ Tail(inbox[c]) \in Seq(Frames)
    BY <1>6 DEF ReadResponse, WireTypes
  <2>2. <<sent[c], Head(inbox[c]).cmd>> \in AnswerPairs
    BY <2>1, SessionAssumption DEF Frames, AnswerPairs, EndTypes
  <2>3. HistoryTypes'
    BY <1>6, <2>2 DEF ReadResponse, HistoryTypes
  <2>4. EndTypes'
    <3>1. seq' \in [Controllers -> 0..(SeqSpace - 1)]
      BY <1>6, NextSeqInSpace DEF ReadResponse, EndTypes
    <3>2. pc' = pc \/ Moves
      BY <1>6 DEF ReadResponse, Failed, Places, Attached
    <3>3. QED
      BY <1>6, <3>1, <3>2 DEF ReadResponse, EndTypes
  <2>5. WireTypes'
    BY <1>6, <2>1 DEF ReadResponse, WireTypes
  <2>6. QED
    BY <1>6, <2>3, <2>4, <2>5, TargetTypesStable DEF ReadResponse
<1>7. QED
  BY <1>1, <1>2, <1>3, <1>4, <1>5, <1>6 DEF ControllerStep

LEMMA TargetStepTypes ==
  ASSUME Types, LineInv, OnSigUsr1 \/ ListenerStep \/ TargetExit
  PROVE  Types'
<1> USE DEF Types, Unbound, Bound
<1>1. CASE OnSigUsr1
  <2>1. HistoryTypes'
    BY <1>1 DEF OnSigUsr1, TargetTypes, HistoryTypes
  <2>2. TargetTypes'
    BY <1>1 DEF OnSigUsr1, TargetTypes
  <2>3. QED
    BY <1>1, <2>1, <2>2, EndTypesStable, WireTypesStable DEF OnSigUsr1
<1>2. CASE Wake \/ CheckFile \/ Activate
  <2>1. wakes' \in Nat
    BY <1>2 DEF Wake, CheckFile, Activate, TargetTypes
  <2> listener' \in Unbound \cup Bound
    BY <1>2 DEF Wake, CheckFile, Activate
  <2>3. TargetTypes'
    BY <1>2, <2>1 DEF Wake, CheckFile, Activate, TargetTypes
  <2>2. QED
    BY <1>2, <2>3, EndTypesStable, WireTypesStable, HistoryTypesStable DEF Wake, CheckFile, Activate
<1>3. CASE Connect
  <2>1. EndTypes'
    <3>1. \A d \in Controllers : Append(backlog[d], "target") \in Seq({"probe", "target"})
      BY DEF EndTypes
    <3>2. QED
      BY <1>3, <3>1 DEF Connect, EndTypes, TargetTypes
  <2>2. TargetTypes'
    BY <1>3 DEF Connect, TargetTypes
  <2>3. QED
    BY <1>3, <2>1, <2>2, WireTypesStable, HistoryTypesStable DEF Connect
<1>4. CASE Greet
  <2>1. [seq |-> 0, cmd |-> 0, last |-> TRUE] \in Frames
    BY SessionAssumption DEF Frames
  <2> \A d \in Controllers : Append(inbox[d], [seq |-> 0, cmd |-> 0, last |-> TRUE]) \in Seq(Frames)
    BY <2>1 DEF WireTypes
  <2>2. WireTypes'
    BY <1>4 DEF Greet, WireTypes
  <2>3. TargetTypes'
    BY <1>4 DEF Greet, TargetTypes
  <2>4. QED
    BY <1>4, <2>2, <2>3, EndTypesStable, HistoryTypesStable DEF Greet
<1>5. CASE PollSession
  <2>1. line \in Controllers
    BY <1>5 DEF PollSession, LineInv, TargetTypes
  <2>2. requests[line] # <<>> => Head(requests[line]) \in Commands /\ Tail(requests[line]) \in Seq(Commands)
    BY <2>1, TakingFirst DEF WireTypes
  <2>3. WireTypes'
    BY <1>5, <2>1, <2>2 DEF PollSession, HangUp, WireTypes
  <2>4. TargetTypes'
    BY <1>5, <2>1, <2>2 DEF PollSession, HangUp, TargetTypes, WireTypes
  <2>5. QED
    BY <1>5, <2>3, <2>4, EndTypesStable, HistoryTypesStable DEF PollSession
<1>6. CASE Respond
  <2>1. line \in Controllers
    BY <1>6 DEF Respond, LineInv, TargetTypes
  <2>2. WireTypes'
    <3>1. CASE Gone(line)
      BY <1>6, <3>1 DEF Respond, HangUp, WireTypes
    <3>2. CASE ~Gone(line)
      <4>1. PICK n \in 1..MaxFrames :
              inbox' = [inbox EXCEPT ![line] = @ \o
                [i \in 1..n |-> [seq |-> request.seq, cmd |-> request.cmd, last |-> i = n]]]
        BY <1>6, <3>2 DEF Respond
      <4> DEFINE response == [i \in 1..n |-> [seq |-> request.seq, cmd |-> request.cmd, last |-> i = n]]
      <4>2. \A i \in 1..n : response[i] \in Frames
        BY SessionAssumption DEF Frames, Commands, TargetTypes
      <4>3. response \in Seq(Frames)
        BY <4>2, SessionAssumption
      <4> HIDE DEF response
      <4>4. inbox[line] \o response \in Seq(Frames)
        BY <2>1, <4>3 DEF WireTypes
      <4>5. inbox' = [inbox EXCEPT ![line] = inbox[line] \o response]
        BY <4>1 DEF response
      <4>6. QED
        BY <1>6, <2>1, <3>2, <4>4, <4>5 DEF Respond, WireTypes
    <3>3. QED
      BY <3>1, <3>2
  <2>3. TargetTypes'
    BY <1>6 DEF Respond, HangUp, TargetTypes
  <2>4. QED
    BY <1>6, <2>2, <2>3, EndTypesStable, HistoryTypesStable DEF Respond
<1>7. CASE TargetExit
  <2>1. WireTypes'
    BY <1>7 DEF TargetExit, WireTypes, TargetTypes
  <2>2. TargetTypes'
    BY <1>7 DEF TargetExit, TargetTypes
  <2>3. QED
    BY <1>7, <2>1, <2>2, EndTypesStable, HistoryTypesStable DEF TargetExit
<1>8. QED
  BY <1>1, <1>2, <1>3, <1>4, <1>5, <1>6, <1>7 DEF ListenerStep

-----------------------------------------------------------------------------
(* The two ends of a session *)

LEMMA ContainsTail ==
  ASSUME NEW S, NEW s \in Seq(S), s # <<>>, NEW e, Contains(Tail(s), e)
  PROVE  Contains(s, e)
<1>1. PICK i \in 1..Len(Tail(s)) : Tail(s)[i] = e
  BY DEF Contains
<1>2. i + 1 \in 1..Len(s) /\ s[i + 1] = e
  BY <1>1
<1>3. QED
  BY <1>2 DEF Contains

LEMMA ContainsHead ==
  ASSUME NEW S, NEW s \in Seq(S), s # <<>>
  PROVE  Contains(s, Head(s))
<1>1. 1 \in 1..Len(s) /\ s[1] = Head(s)
  OBVIOUS
<1>2. QED
  BY <1>1 DEF Contains

LEMMA ContainsAppend ==
  ASSUME NEW S, NEW s \in Seq(S), NEW x \in S, NEW e
  PROVE  Contains(Append(s, x), e) <=> Contains(s, e) \/ x = e
<1>1. Len(Append(s, x)) = Len(s) + 1 /\ Len(s) \in Nat
  OBVIOUS
<1>2. \A i \in 1..Len(s) : Append(s, x)[i] = s[i]
  OBVIOUS
<1>3. Append(s, x)[Len(s) + 1] = x
  OBVIOUS
<1>4. ASSUME Contains(Append(s, x), e) PROVE Contains(s, e) \/ x = e
  <2>1. PICK i \in 1..(Len(s) + 1) : Append(s, x)[i] = e
    BY <1>1, <1>4 DEF Contains
  <2>2. CASE i = Len(s) + 1
    BY <1>3, <2>1, <2>2
  <2>3. CASE i # Len(s) + 1
    <3>1. i \in 1..Len(s) /\ s[i] = e
      BY <1>1, <1>2, <2>1, <2>3
    <3>2. QED
      BY <3>1 DEF Contains
  <2>4. QED
    BY <2>2, <2>3
<1>5. ASSUME Contains(s, e) PROVE Contains(Append(s, x), e)
  <2>1. PICK i \in 1..Len(s) : s[i] = e
    BY <1>5 DEF Contains
  <2>2. i \in 1..Len(Append(s, x)) /\ Append(s, x)[i] = e
    BY <1>1, <1>2, <2>1
  <2>3. QED
    BY <2>2 DEF Contains
<1>6. ASSUME x = e PROVE Contains(Append(s, x), e)
  <2>1. Len(s) + 1 \in 1..Len(Append(s, x)) /\ Append(s, x)[Len(s) + 1] = e
    BY <1>1, <1>3, <1>6
  <2>2. QED
    BY <2>1 DEF Contains
<1>7. QED
  BY <1>4, <1>5, <1>6

LEMMA ContainsLast ==
  ASSUME NEW S, NEW s \in Seq(S), NEW x \in S
  PROVE  Contains(Append(s, x), x)
BY ContainsAppend

ControllerAct(c) ==
  \/ CheckTarget(c) \/ SendCommand(c) \/ Interrupt(c) \/ Leave(c) \/ Kill(c)
  \/ ControllerStep(c)

\* How far a step of c takes it, and what it leaves to the others.
Moved(c) ==
  /\ \A d \in Controllers \ {c} :
       /\ pc'[d] = pc[d]
       /\ Contains(backlog'[d], "target") <=> Contains(backlog[d], "target")
  /\ Contains(backlog'[c], "target") => Contains(backlog[c], "target")
  /\ pc'[c] \in Attached => Tied(c)
  /\ Gone(c) => pc'[c] \in {"remove", "done", "killed"}
  /\ pc'[c] \in Before => pc[c] \in Before \ {"signal"}
  /\ pc'[c] = "wait" => pc[c] = "signal"
  /\ pc'[c] = "done" => file' = None
  /\ file' \in {file, None, c}
  /\ pending' \in {pending, pending \cup {c}}
  /\ pending' # pending => pc[c] = "signal"
  /\ UNCHANGED <<hung, listener, wakes, chActive, line, request, heard>>

LEMMA ControllerMoves ==
  ASSUME Types, NEW c \in Controllers, ControllerAct(c)
  PROVE  Moved(c)
<1> USE DEF Types, EndTypes, Goto, wires, target, history
<1>1. CASE CheckTarget(c) \/ LookUp(c) \/ Listen(c) \/ Close(c) \/ Leave(c) \/ Kill(c) \/ TargetLost(c) \/ AcceptTimeout(c)
  BY <1>1 DEF CheckTarget, LookUp, Listen, Close, Leave, Kill, TargetLost, AcceptTimeout, Failed, Moved,
              Before, Attached, Tied, Gone
<1>2. CASE UnlinkStale(c) \/ Bind(c) \/ UnlinkOwn(c) \/ RemoveFile(c)
  BY <1>2 DEF UnlinkStale, Bind, UnlinkOwn, RemoveFile, Moved, Before, Attached, Tied, Gone
<1>3. CASE Signal(c) \/ Interrupt(c)
  BY <1>3 DEF Signal, Interrupt, Moved, Before, Attached, Tied, Gone
<1>4. CASE Probe(c)
  <2>1. \A d \in Controllers : Contains(backlog'[d], "target") <=> Contains(backlog[d], "target")
    <3>1. \A d \in Controllers : Contains(Append(backlog[d], "probe"), "target") <=> Contains(backlog[d], "target")
      <4>1. TAKE d \in Controllers
      <4>2. backlog[d] \in Seq({"probe", "target"})
        BY DEF EndTypes
      <4>3. Contains(Append(backlog[d], "probe"), "target") <=> Contains(backlog[d], "target") \/ "probe" = "target"
        <5>1. "probe" \in {"probe", "target"}
          OBVIOUS
        <5>2. QED
          BY <4>2, <5>1, ContainsAppend, Zenon
      <4>4. QED
        BY <4>3
    <3>2. QED
      BY <1>4, <3>1 DEF Probe
  <2>2. QED
    BY <1>4, <2>1 DEF Probe, Moved, Before, Attached, Tied, Gone
<1>5. CASE Accept(c)
  <2>1. Contains(Tail(backlog[c]), "target") => Contains(backlog[c], "target")
    BY <1>5, ContainsTail DEF Accept
  <2>2. Head(backlog[c]) = "target" => Contains(backlog[c], "target")
    BY <1>5, ContainsHead DEF Accept
  <2>3. QED
    BY <1>5, <2>1, <2>2 DEF Accept, Moved, Before, Attached, Tied, Gone
<1>6. CASE ReadRegister(c) \/ SendCommand(c) \/ ReadResponse(c)
  BY <1>6 DEF ReadRegister, SendCommand, ReadResponse, Failed, Moved, Before, Attached, Tied, Gone
<1>7. QED
  BY <1>1, <1>2, <1>3, <1>4, <1>5, <1>6 DEF ControllerAct, ControllerStep

LEMMA ControllerEnds ==
  ASSUME Types, LineInv, Ends, NEW c \in Controllers, Moved(c)
  PROVE  LineInv' /\ Ends'
<1>1. LineInv'
  BY DEF Moved, LineInv
<1>2. ASSUME NEW d \in Controllers \ {c}
      PROVE  Agreed(d)' /\ Signalled(d)'
  BY <1>2 DEF Ends, Moved, Agreed, Signalled, Tied, Gone, Alive
<1>3. Agreed(c)'
  BY DEF Ends, Moved, Agreed, Tied, Gone, Alive, Before, Attached
<1>4. Signalled(c)'
  BY DEF Ends, Moved, Signalled, Before
<1>5. QED
  BY <1>1, <1>2, <1>3, <1>4 DEF Ends

TargetAct == OnSigUsr1 \/ ListenerStep \/ TargetExit

LEMMA TargetEnds ==
  ASSUME Types, LineInv, Ends, TargetAct
  PROVE  LineInv' /\ Ends'
<1> USE DEF Types, EndTypes, WireTypes, TargetTypes, LineInv, Unbound, Bound, ends, wires, target, history
<1>1. CASE OnSigUsr1
  BY <1>1 DEF OnSigUsr1, Ends, Agreed, Signalled, Tied, Gone, Alive
<1>2. CASE Wake \/ CheckFile \/ Activate
  BY <1>2 DEF Wake, CheckFile, Activate, Ends, Agreed, Signalled, Tied, Gone, Alive
<1>3. CASE Connect
  <2>1. line = None /\ Alive
    BY <1>3 DEF Connect, Alive
  <2>2. CASE file # None /\ Listening(file)
    <3>1. file \in Controllers /\ backlog' = [backlog EXCEPT ![file] = Append(@, "target")]
          /\ line' = file /\ listener' = "greet" /\ UNCHANGED <<pc, hung, pending, heard, chActive>>
      BY <1>3, <2>2 DEF Connect
    <3>2. pc[file] \notin Before \ {"signal"}
      BY <2>2 DEF Listening, Before
    <3>3. ASSUME NEW c \in Controllers PROVE Agreed(c)'
      <4>1. CASE c = file
        BY <2>1, <3>1, <3>2, <4>1 DEF Ends, Agreed, Alive, Gone
      <4>2. CASE c # file
        <5>1. UNCHANGED <<pc[c], hung[c], backlog[c]>> /\ Alive' /\ line # c /\ line' # c
          BY <2>1, <3>1, <4>2, SessionAssumption DEF Alive
        <5>2. Tied(c)' = Tied(c) /\ Gone(c)' = Gone(c)
          BY <5>1 DEF Tied, Gone
        <5>3. QED
          BY <2>1, <5>1, <5>2, <3>1 DEF Ends, Agreed
      <4>3. QED
        BY <4>1, <4>2
    <3>4. LineInv'
      BY <3>1, SessionAssumption
    <3>5. QED
      BY <3>1, <3>3, <3>4 DEF Ends, Signalled
  <2>3. CASE ~(file # None /\ Listening(file))
    BY <1>3, <2>3 DEF Connect, Ends, Agreed, Signalled, Tied, Gone, Alive
  <2>4. QED
    BY <2>2, <2>3
<1>4. CASE Greet
  <2>1. CASE Gone(line)
    <3>1. listener' = "idle" /\ line' = None /\ UNCHANGED <<pc, backlog, hung, pending, heard, chActive>>
      BY <1>4, <2>1 DEF Greet
    <3>2. ASSUME NEW c \in Controllers PROVE Agreed(c)'
      BY <1>4, <2>1, <3>1, <3>2, SessionAssumption DEF Greet, Ends, Agreed, Tied, Gone, Alive
    <3>3. QED
      BY <3>1, <3>2 DEF Ends, Signalled
  <2>2. CASE ~Gone(line)
    BY <1>4, <2>2 DEF Greet, Ends, Agreed, Signalled, Tied, Gone, Alive
  <2>3. QED
    BY <2>1, <2>2
<1>5. CASE PollSession \/ Respond
  <2>1. line \in Controllers
    BY <1>5 DEF PollSession, Respond
  <2>2. \/ /\ Gone(line) /\ HangUp
        \/ /\ line' = line /\ hung' = hung /\ chActive' = chActive /\ listener' \in {"poll", "respond"}
    BY <1>5 DEF PollSession, Respond
  <2>3. UNCHANGED <<pc, backlog, pending, heard>> /\ listener \in {"poll", "respond"}
    BY <1>5 DEF PollSession, Respond
  <2>4. CASE Gone(line) /\ HangUp
    <3>1. /\ listener' = "idle" /\ line' = None
          /\ \A c \in Controllers : hung'[c] = (hung[c] \/ c = line)
      BY <2>1, <2>4 DEF HangUp
    <3>2. ASSUME NEW c \in Controllers PROVE Agreed(c)'
      BY <2>1, <2>3, <2>4, <3>1, <3>2, SessionAssumption DEF Ends, Agreed, Tied, Gone, Alive
    <3>3. QED
      BY <2>3, <3>1, <3>2 DEF Ends, Signalled
  <2>5. CASE line' = line /\ hung' = hung /\ chActive' = chActive /\ listener' \in {"poll", "respond"}
    BY <2>1, <2>3, <2>5 DEF Ends, Agreed, Signalled, Tied, Gone, Alive
  <2>6. QED
    BY <2>2, <2>4, <2>5
<1>6. CASE TargetExit
  <2>1. /\ listener' = "exited" /\ line' = None /\ UNCHANGED <<pc, backlog, pending, heard, chActive>>
        /\ \A c \in Controllers : hung'[c] = (hung[c] \/ c = line)
    BY <1>6, SessionAssumption DEF TargetExit
  <2>2. ASSUME NEW c \in Controllers PROVE Agreed(c)'
    BY <1>6, <2>1, <2>2, SessionAssumption DEF TargetExit, Ends, Agreed, Tied, Gone, Alive
  <2>3. QED
    BY <2>1, <2>2 DEF Ends, Signalled
<1>7. QED
  BY <1>1, <1>2, <1>3, <1>4, <1>5, <1>6 DEF TargetAct, ListenerStep

-----------------------------------------------------------------------------
(* No wake-up is lost, nothing is left behind *)

LEMMA ControllerWakes ==
  ASSUME Types, Ends, WakeHeard, NoResidue, NEW c \in Controllers, Moved(c)
  PROVE  WakeHeard' /\ NoResidue'
<1>1. ASSUME NEW d \in heard', pc'[d] = "wait", file' = d, Alive', ~Contains(backlog'[d], "target")
      PROVE  wakes' > 0 \/ listener' \in {"check", "connect"}
  <2>1. d \in heard /\ d \in Controllers
    BY <1>1 DEF Moved, Types, HistoryTypes
  <2>2. d # c
    BY <1>1, <2>1 DEF Moved, Ends, Signalled, Before
  <2>3. file = d
    BY <1>1, <2>1, <2>2, SessionAssumption DEF Moved
  <2>4. QED
    BY <1>1, <2>1, <2>2, <2>3 DEF WakeHeard, Moved, Alive
<1>2. NoResidue'
  BY SessionAssumption DEF NoResidue, Moved
<1>3. QED
  BY <1>1, <1>2 DEF WakeHeard

LEMMA TargetWakes ==
  ASSUME Types, LineInv, WakeHeard, NoResidue, TargetAct
  PROVE  WakeHeard' /\ NoResidue'
<1> USE DEF Types, TargetTypes, ends, wires, target, history
<1>1. UNCHANGED <<file, pc>>
  BY DEF TargetAct, ListenerStep, OnSigUsr1, Wake, CheckFile, Connect, Greet, Activate, PollSession, Respond,
         TargetExit
<1>2. NoResidue'
  BY <1>1 DEF NoResidue
<1>3. CASE OnSigUsr1
  BY <1>1, <1>2, <1>3 DEF OnSigUsr1, Woken, WakeHeard, Alive
<1>4. CASE Wake \/ CheckFile
  BY <1>1, <1>2, <1>4, SessionAssumption DEF Wake, CheckFile, WakeHeard, Alive, HistoryTypes
<1>5. CASE Connect
  <2>1. ASSUME NEW c \in heard, pc[c] = "wait", file = c, ~Contains(backlog'[c], "target")
        PROVE  FALSE
    <3>1. c \in Controllers /\ c # None /\ Listening(c)
      BY <2>1, SessionAssumption DEF HistoryTypes, Listening
    <3>2. backlog' = [backlog EXCEPT ![c] = Append(@, "target")]
      BY <1>5, <2>1, <3>1 DEF Connect
    <3>3. backlog'[c] = Append(backlog[c], "target") /\ backlog[c] \in Seq({"probe", "target"})
      BY <3>1, <3>2 DEF EndTypes
    <3>4. "target" \in {"probe", "target"}
      OBVIOUS
    <3>5. Contains(Append(backlog[c], "target"), "target")
      BY <3>3, <3>4, ContainsLast
    <3>6. QED
      BY <2>1, <3>3, <3>5
  <2>2. UNCHANGED heard
    BY <1>5 DEF Connect
  <2>3. WakeHeard'
    BY <1>1, <2>1, <2>2 DEF WakeHeard
  <2>4. QED
    BY <1>2, <2>3
<1>6. CASE Greet \/ Activate \/ PollSession \/ Respond \/ TargetExit
  <2>1. \/ UNCHANGED <<backlog, wakes, heard>> /\ (Alive' => Alive) /\ listener \notin {"check", "connect"}
        \/ ~Alive'
    BY <1>6 DEF Greet, Activate, PollSession, Respond, TargetExit, Alive
  <2>2. WakeHeard'
    BY <1>1, <2>1 DEF WakeHeard
  <2>3. QED
    BY <1>2, <2>2
<1>7. QED
  BY <1>3, <1>4, <1>5, <1>6 DEF TargetAct, ListenerStep

\* Nobody comes to owe a signal again.
LEMMA OwedShrinks ==
  ASSUME Types, NEW c \in Controllers, Moved(c)
  PROVE  Owed' \subseteq Owed
BY DEF Owed, Moved, Before

LEMMA OwedFinite == IsFiniteSet(Owed) /\ Cardinality(Owed) \in Nat /\ Cardinality(Controllers) \in Nat
<1>1. Owed \subseteq Controllers
  BY DEF Owed
<1>2. QED
  BY <1>1, SessionAssumption, FS_Subset, FS_CardinalityType

LEMMA WakesBounded ==
  ASSUME Types, Ends, WakeBound, [Next]_vars
  PROVE  WakeBound'
<1> USE OwedFinite DEF Types, TargetTypes
<1>1. ASSUME Owed' \subseteq Owed, wakes' <= wakes, wakes' \in Nat PROVE WakeBound'
  <2>1. Cardinality(Owed') <= Cardinality(Owed) /\ Cardinality(Owed') \in Nat
    BY <1>1, FS_Subset, FS_CardinalityType
  <2>2. QED
    BY <1>1, <2>1 DEF WakeBound
<1>2. ASSUME NEW c \in Controllers, Moved(c) PROVE WakeBound'
  BY <1>1, <1>2, OwedShrinks DEF Moved
<1>3. CASE OnSigUsr1
  <2>1. PICK p \in pending : TRUE
    BY <1>3 DEF OnSigUsr1
  <2>2. p \in Owed /\ Owed' \subseteq Owed \ {p}
    BY <1>3, <2>1 DEF OnSigUsr1, Owed, Ends, Signalled, ends
  <2>3. IsFiniteSet(Owed \ {p}) /\ Cardinality(Owed \ {p}) = Cardinality(Owed) - 1
    BY <2>2, FS_RemoveElement
  <2>4. Cardinality(Owed') <= Cardinality(Owed) - 1 /\ Cardinality(Owed') \in Nat
    BY <2>2, <2>3, FS_Subset, FS_CardinalityType
  <2>5. wakes' <= wakes + 1 /\ wakes' \in Nat
    BY <1>3 DEF OnSigUsr1
  <2>6. QED
    BY <2>4, <2>5 DEF WakeBound
<1>4. CASE ListenerStep \/ TargetExit
  <2>1. UNCHANGED <<pc, pending>> /\ wakes' <= wakes /\ wakes' \in Nat
    BY <1>4 DEF ListenerStep, Wake, CheckFile, Connect, Greet, Activate, PollSession, Respond, TargetExit, ends
  <2>2. QED
    BY <1>1, <2>1 DEF Owed
<1>5. CASE UNCHANGED vars
  BY <1>5 DEF vars, ends, target, WakeBound, Owed
<1>6. QED
  BY <1>2, <1>3, <1>4, <1>5, ControllerMoves DEF Next, ControllerAct

-----------------------------------------------------------------------------
(* What is under way of an exchange *)

LEMMA Entries == ASSUME NEW S, NEW s \in Seq(S), NEW i \in 1..Len(s) PROVE s[i] \in S
OBVIOUS

LEMMA TailEntries ==
  ASSUME NEW S, NEW s \in Seq(S), s # <<>>
  PROVE  /\ Len(Tail(s)) = Len(s) - 1 /\ Len(s) \in Nat \ {0} /\ Head(s) = s[1]
         /\ \A i \in 1..Len(Tail(s)) : i + 1 \in 1..Len(s) /\ Tail(s)[i] = s[i + 1]
OBVIOUS

LEMMA EmptyIffZero == ASSUME NEW S, NEW s \in Seq(S) PROVE s = <<>> <=> Len(s) = 0
OBVIOUS

LEMMA InboxTail ==
  ASSUME Types, NEW c \in Controllers, inbox[c] # <<>>
  PROVE  /\ Len(Tail(inbox[c])) = Len(inbox[c]) - 1 /\ Len(inbox[c]) \in Nat \ {0} /\ 1 \in 1..Len(inbox[c])
         /\ Head(inbox[c]) = inbox[c][1]
         /\ Len(inbox[c]) = 1 => Tail(inbox[c]) = <<>>
         /\ Len(inbox[c]) # 1 => Tail(inbox[c]) # <<>>
         /\ \A i \in 1..Len(Tail(inbox[c])) : i + 1 \in 1..Len(inbox[c]) /\ Tail(inbox[c])[i] = inbox[c][i + 1]
<1>1. inbox[c] \in Seq(Frames)
  BY DEF Types, WireTypes
<1>2. /\ Len(Tail(inbox[c])) = Len(inbox[c]) - 1 /\ Len(inbox[c]) \in Nat \ {0} /\ Head(inbox[c]) = inbox[c][1]
      /\ \A i \in 1..Len(Tail(inbox[c])) : i + 1 \in 1..Len(inbox[c]) /\ Tail(inbox[c])[i] = inbox[c][i + 1]
  BY <1>1, TailEntries, Zenon
<1>3. Tail(inbox[c]) \in Seq(Frames)
  BY <1>1
<1>4. Len(inbox[c]) = 1 <=> Len(Tail(inbox[c])) = 0
  BY <1>2
<1>5. Tail(inbox[c]) = <<>> <=> Len(Tail(inbox[c])) = 0
  BY <1>3, EmptyIffZero, Zenon
<1>6. 1 \in 1..Len(inbox[c])
  BY <1>2
<1>7. QED
  BY <1>2, <1>4, <1>5, <1>6

LEMMA AppendEntries ==
  ASSUME NEW S, NEW s \in Seq(S), NEW x \in S
  PROVE  /\ Len(Append(s, x)) = Len(s) + 1 /\ Len(s) \in Nat
         /\ \A i \in 1..Len(s) : Append(s, x)[i] = s[i]
         /\ Append(s, x)[Len(s) + 1] = x
OBVIOUS

\* The response that Respond sends.
Response(n) == [i \in 1..n |-> [seq |-> request.seq, cmd |-> request.cmd, last |-> i = n]]

LEMMA Responding ==
  ASSUME Types, LineInv, Respond, ~Gone(line)
  PROVE  /\ line \in Controllers /\ listener' = "poll" /\ UNCHANGED <<hung, chActive, line>>
         /\ \E n \in 1..MaxFrames :
              /\ inbox' = [inbox EXCEPT ![line] = inbox[line] \o Response(n)]
              /\ Response(n) \in Seq(Frames) /\ Len(Response(n)) = n
              /\ inbox[line] \o Response(n) \in Seq(Frames)
<1>1. line \in Controllers
  BY DEF Respond, LineInv, Types, TargetTypes, Unbound
<1>2. PICK n \in 1..MaxFrames : inbox' = [inbox EXCEPT ![line] = inbox[line] \o Response(n)]
  BY DEF Respond, Response
<1>3. \A i \in 1..n : Response(n)[i] \in Frames
  BY SessionAssumption DEF Frames, Commands, Types, TargetTypes, Response
<1>4. Response(n) \in Seq(Frames) /\ Len(Response(n)) = n
  BY <1>3, SessionAssumption DEF Response
<1>5. inbox[line] \o Response(n) \in Seq(Frames)
  BY <1>1, <1>4 DEF Types, WireTypes
<1>6. QED
  BY <1>1, <1>2, <1>4, <1>5 DEF Respond

LEMMA ControllerSends ==
  ASSUME Types, LineInv, \A d \in Controllers : SentFirst(d), NEW c \in Controllers, ControllerAct(c)
  PROVE  \A d \in Controllers : SentFirst(d)'
<1> USE DEF Types, EndTypes, WireTypes, wires, target, history
<1>1. CASE SendCommand(c)
  <2>1. [seq |-> seq[c], cmd |-> sent[c] + 1] \in Commands
    BY <1>1, SessionAssumption DEF SendCommand, Commands
  <2>2. /\ sent' = [sent EXCEPT ![c] = @ + 1] /\ UNCHANGED <<inbox, line, listener, request>>
        /\ requests' = [requests EXCEPT ![c] = Append(@, [seq |-> seq[c], cmd |-> sent[c] + 1])]
    BY <1>1 DEF SendCommand
  <2>3. \A i \in 1..Len(inbox[c]) : inbox[c][i].cmd \in Nat
    <3>1. \A i \in 1..Len(inbox[c]) : inbox[c][i] \in Frames
      <4>1. inbox[c] \in Seq(Frames)
        OBVIOUS
      <4>2. QED
        BY <4>1, Entries, Zenon
    <3>2. QED
      BY <3>1, SessionAssumption DEF Frames
  <2>4. \A i \in 1..Len(requests[c]) : requests[c][i].cmd \in Nat
    <3>1. \A i \in 1..Len(requests[c]) : requests[c][i] \in Commands
      <4>1. requests[c] \in Seq(Commands)
        OBVIOUS
      <4>2. QED
        BY <4>1, Entries, Zenon
    <3>2. QED
      BY <3>1, SessionAssumption DEF Commands
  <2>5. /\ Len(requests'[c]) = Len(requests[c]) + 1 /\ Len(requests[c]) \in Nat
        /\ \A i \in 1..Len(requests[c]) : requests'[c][i] = requests[c][i]
        /\ requests'[c][Len(requests[c]) + 1] = [seq |-> seq[c], cmd |-> sent[c] + 1]
    BY <2>1, <2>2, AppendEntries
  <2>6. request.cmd \in Nat
    BY DEF TargetTypes, Commands
  <2>7. SentFirst(c)'
    BY <2>2, <2>3, <2>4, <2>5, <2>6, SessionAssumption DEF SentFirst
  <2>8. \A d \in Controllers \ {c} : SentFirst(d)'
    BY <2>2 DEF SentFirst
  <2>9. QED
    BY <2>7, <2>8
<1>2. CASE ReadRegister(c) \/ ReadResponse(c)
  <2>1. /\ UNCHANGED <<sent, requests, line, listener, request>>
        /\ UNCHANGED inbox \/ (inbox[c] # <<>> /\ inbox' = [inbox EXCEPT ![c] = Tail(@)])
    BY <1>2 DEF ReadRegister, ReadResponse
  <2>2. CASE UNCHANGED inbox
    BY <2>1, <2>2 DEF SentFirst
  <2>3. CASE inbox[c] # <<>> /\ inbox' = [inbox EXCEPT ![c] = Tail(@)]
    <3>1. \A i \in 1..Len(inbox'[c]) : i + 1 \in 1..Len(inbox[c]) /\ inbox'[c][i] = inbox[c][i + 1]
      BY <2>3, TailEntries
    <3>2. SentFirst(c)'
      BY <2>1, <3>1 DEF SentFirst
    <3>3. \A d \in Controllers \ {c} : SentFirst(d)'
      BY <2>1, <2>3 DEF SentFirst
    <3>4. QED
      BY <3>2, <3>3
  <2>4. QED
    BY <2>1, <2>2, <2>3
<1>3. CASE ~SendCommand(c) /\ ~ReadRegister(c) /\ ~ReadResponse(c)
  <2>1. UNCHANGED <<sent, requests, inbox, line, listener, request>>
    BY <1>3 DEF ControllerAct, ControllerStep, CheckTarget, Interrupt, Leave, Kill, LookUp, Probe, UnlinkStale,
                Bind, Listen, Signal, Accept, AcceptTimeout, UnlinkOwn, TargetLost, Close, RemoveFile
  <2>2. QED
    BY <2>1 DEF SentFirst
<1>4. QED
  BY <1>1, <1>2, <1>3

LEMMA TargetAnswers ==
  ASSUME Types, LineInv, \A c \in Controllers : SentFirst(c), TargetAct
  PROVE  \A c \in Controllers : SentFirst(c)'
<1> USE DEF Types, EndTypes, WireTypes, ends, wires, target, history
<1>1. CASE OnSigUsr1 \/ Wake \/ CheckFile \/ Connect \/ Activate \/ TargetExit
  <2>1. UNCHANGED <<sent, requests, inbox, request>> /\ (listener' = "respond" => line' = line /\ listener = "respond")
    BY <1>1 DEF OnSigUsr1, Wake, CheckFile, Connect, Activate, TargetExit
  <2>2. QED
    BY <2>1 DEF SentFirst
<1>2. CASE Greet
  <2>1. CASE Gone(line)
    BY <1>2, <2>1 DEF Greet, SentFirst
  <2>2. CASE ~Gone(line)
    <3>1. /\ inbox' = [inbox EXCEPT ![line] = Append(@, [seq |-> 0, cmd |-> 0, last |-> TRUE])]
          /\ listener' # "respond" /\ UNCHANGED <<sent, requests, line>> /\ line \in Controllers
      BY <1>2, <2>2 DEF Greet, LineInv, TargetTypes, Unbound
    <3>2. [seq |-> 0, cmd |-> 0, last |-> TRUE] \in Frames
      BY SessionAssumption DEF Frames
    <3>3. /\ Len(inbox'[line]) = Len(inbox[line]) + 1 /\ Len(inbox[line]) \in Nat
          /\ \A i \in 1..Len(inbox[line]) : inbox'[line][i] = inbox[line][i]
          /\ inbox'[line][Len(inbox[line]) + 1].cmd = 0
      BY <3>1, <3>2, AppendEntries
    <3>4. ASSUME NEW c \in Controllers, c = line PROVE SentFirst(c)'
      BY <3>1, <3>3, <3>4 DEF SentFirst
    <3>5. ASSUME NEW c \in Controllers, c # line PROVE SentFirst(c)'
      BY <3>1, <3>5 DEF SentFirst
    <3>6. QED
      BY <3>4, <3>5
  <2>3. QED
    BY <2>1, <2>2
<1>3. CASE PollSession
  <2>1. line \in Controllers
    BY <1>3 DEF PollSession, LineInv, TargetTypes, Unbound
  <2>2. CASE Gone(line) /\ HangUp /\ UNCHANGED <<requests, request>>
    BY <1>3, <2>2 DEF PollSession, HangUp, SentFirst
  <2>3. CASE requests[line] # <<>> /\ request' = Head(requests[line])
             /\ requests' = [requests EXCEPT ![line] = Tail(@)] /\ UNCHANGED line
    <3>1. /\ \A i \in 1..Len(requests'[line]) : i + 1 \in 1..Len(requests[line]) /\ requests'[line][i] = requests[line][i + 1]
          /\ request' = requests[line][1] /\ 1 \in 1..Len(requests[line])
      BY <2>1, <2>3, TailEntries
    <3>2. UNCHANGED <<sent, inbox>>
      BY <1>3 DEF PollSession
    <3>3. ASSUME NEW c \in Controllers, c = line PROVE SentFirst(c)'
      BY <2>1, <2>3, <3>1, <3>2, <3>3 DEF SentFirst
    <3>4. ASSUME NEW c \in Controllers, c # line PROVE SentFirst(c)'
      BY <2>1, <2>3, <3>2, <3>4 DEF SentFirst
    <3>5. QED
      BY <3>3, <3>4
  <2>4. QED
    BY <1>3, <2>2, <2>3 DEF PollSession
<1>4. CASE Respond
  <2>1. CASE Gone(line)
    BY <1>4, <2>1 DEF Respond, HangUp, SentFirst
  <2>2. CASE ~Gone(line)
    <3>1. PICK n \in 1..MaxFrames :
            /\ inbox' = [inbox EXCEPT ![line] = inbox[line] \o Response(n)]
            /\ Response(n) \in Seq(Frames) /\ Len(Response(n)) = n
      BY <1>4, <2>2, Responding
    <3>2. /\ line \in Controllers /\ listener' = "poll" /\ UNCHANGED <<sent, requests, line>>
          /\ request.cmd <= sent[line]
      BY <1>4, <2>2, Responding DEF Respond, SentFirst
    <3>3. ASSUME NEW i \in 1..Len(inbox'[line]) PROVE inbox'[line][i].cmd <= sent[line]
      <4>1. inbox'[line] = inbox[line] \o Response(n) /\ inbox[line] \in Seq(Frames)
        BY <3>1, <3>2
      <4>2. \/ i \in 1..Len(inbox[line]) /\ inbox'[line][i] = inbox[line][i]
            \/ i - Len(inbox[line]) \in 1..n /\ inbox'[line][i] = Response(n)[i - Len(inbox[line])]
        BY <3>1, <3>3, <4>1
      <4>3. \A j \in 1..n : Response(n)[j].cmd = request.cmd
        BY DEF Response
      <4>4. QED
        BY <3>2, <4>2, <4>3 DEF SentFirst
    <3>4. ASSUME NEW c \in Controllers, c = line PROVE SentFirst(c)'
      BY <3>2, <3>3, <3>4 DEF SentFirst
    <3>5. ASSUME NEW c \in Controllers, c # line PROVE SentFirst(c)'
      BY <3>1, <3>2, <3>5 DEF SentFirst
    <3>6. QED
      BY <3>4, <3>5
  <2>3. QED
    BY <2>1, <2>2
<1>5. QED
  BY <1>1, <1>2, <1>3, <1>4 DEF TargetAct, ListenerStep

-----------------------------------------------------------------------------
(* One exchange at a time *)

\* A step that leaves alone what is under way of c's exchange keeps it in step.
LEMMA InStepStable ==
  ASSUME NEW c, InStep(c),
         UNCHANGED <<pc[c], seq[c], sent[c], requests[c], inbox[c]>>,
         hung[c] => hung'[c], Alive' => Alive,
         line' = c => line = c /\ UNCHANGED <<listener, request>>,
         line = c => line' = c \/ ~Alive' \/ inbox[c] = <<>> \/ Gone(c)
  PROVE  InStep(c)'
<1>1. Current(c)' = Current(c) /\ (AnswerTo(c) => AnswerTo(c)')
  BY DEF Current, AnswerTo
<1>2. CASE Gone(c)
  BY <1>2 DEF InStep, Gone, Before
<1>3. CASE ~Gone(c)
  BY <1>1, <1>3 DEF InStep, Alive
<1>4. QED
  BY <1>2, <1>3

LEMMA ControllerInStep ==
  ASSUME Types, LineInv, Ends, NEW c \in Controllers, ControllerAct(c),
         NEW d \in Controllers \ givenUp', InStep(d), OwnAnswers(d)
  PROVE  InStep(d)' /\ OwnAnswers(d)'
<1> USE DEF Types, EndTypes, WireTypes, wires, target, history, Goto
<1>1. CASE d # c
  <2>1. /\ UNCHANGED <<pc[d], seq[d], sent[d], requests[d], inbox[d], accepted[d], hung, line, listener, request>>
    BY <1>1 DEF ControllerAct, ControllerStep, CheckTarget, SendCommand, Interrupt, Leave, Kill, LookUp, Probe,
                UnlinkStale, Bind, Listen, Signal, Accept, AcceptTimeout, ReadRegister, UnlinkOwn, ReadResponse,
                TargetLost, Close, RemoveFile, Failed, HistoryTypes
  <2>2. QED
    BY <2>1, InStepStable DEF OwnAnswers, Alive
<1>2. CASE d = c /\ (CheckTarget(c) \/ LookUp(c) \/ Probe(c) \/ UnlinkStale(c) \/ Bind(c) \/ Listen(c) \/ Signal(c)
                      \/ Accept(c) \/ AcceptTimeout(c))
  <2>1. /\ pc[c] \in Before \cup {"wait"} /\ pc'[c] \in Before \cup {"wait", "register", "close"}
        /\ UNCHANGED <<requests, inbox, line, listener, accepted>>
    BY <1>2 DEF CheckTarget, LookUp, Probe, UnlinkStale, Bind, Listen, Signal, Accept, AcceptTimeout, Before
  <2>2. QED
    BY <1>2, <2>1 DEF InStep, OwnAnswers, Before, Alive
<1>3. CASE d = c /\ ReadRegister(c)
  <2>1. CASE inbox[c] # <<>> /\ inbox' = [inbox EXCEPT ![c] = Tail(@)] /\ Goto(c, "unlink")
    <3>1. requests[c] = <<>> /\ inbox'[c] = <<>> /\ (line = c => listener \in {"activate", "poll"})
      <4>1. Len(inbox[c]) = 1
        <5>1. Len(inbox[c]) \in Nat \ {0}
          BY <2>1, InboxTail
        <5>2. Len(inbox[c]) <= 1
          BY <1>3 DEF ReadRegister, InStep
        <5>3. \A n \in Nat \ {0} : n <= 1 => n = 1
          OBVIOUS
        <5>4. QED
          BY <5>1, <5>2, <5>3, Zenon
      <4>2. inbox'[c] = <<>>
        BY <2>1, <4>1, InboxTail
      <4>3. listener \in {"greet", "activate", "poll", "respond"} \/ line # c
        BY SessionAssumption DEF TargetTypes, LineInv, Unbound, Bound
      <4>4. QED
        BY <1>3, <2>1, <4>2, <4>3 DEF ReadRegister, InStep, LineInv, Unbound, Alive
    <3>2. pc'[c] = "unlink" /\ UNCHANGED <<requests, line, listener, accepted>>
      BY <1>3, <2>1 DEF ReadRegister
    <3>3. QED
      BY <1>3, <3>1, <3>2 DEF InStep, OwnAnswers, Before
  <2>2. CASE Goto(c, "close")
    BY <1>3, <2>2 DEF ReadRegister, InStep, OwnAnswers, Before
  <2>3. QED
    BY <1>3, <2>1, <2>2 DEF ReadRegister
<1>4. CASE d = c /\ UnlinkOwn(c)
  BY <1>4 DEF UnlinkOwn, InStep, OwnAnswers, Before
<1>5. CASE d = c /\ SendCommand(c)
  <2>1. requests[c] = <<>> /\ inbox[c] = <<>> /\ (line = c => listener \in {"activate", "poll"})
    BY <1>5 DEF SendCommand, InStep
  <2>2. requests'[c] = <<[seq |-> seq[c], cmd |-> sent[c] + 1]>> /\ sent'[c] = sent[c] + 1
    BY <1>5, <2>1 DEF SendCommand
  <2>3. pc'[c] = "await" /\ UNCHANGED <<seq, inbox, line, listener, accepted>>
    BY <1>5 DEF SendCommand
  <2>4. OwnAnswers(c)'
    BY <1>5, <2>3 DEF OwnAnswers
  <2>5. QED
    BY <1>5, <2>1, <2>2, <2>3, <2>4 DEF InStep, Current, Before
<1>6. CASE d = c /\ ReadResponse(c)
  <2> DEFINE frame == Head(inbox[c])
  <2>1. requests[c] = <<>> /\ inbox[c] # <<>> /\ AnswerTo(c) /\ (line = c => listener = "poll")
    BY <1>6 DEF ReadResponse, InStep, Before
  <2>2. frame = [seq |-> seq[c], cmd |-> sent[c], last |-> 1 = Len(inbox[c])]
    BY <2>1, InboxTail DEF AnswerTo
  <2>3. accepted' = [accepted EXCEPT ![c] = @ \cup {<<sent[c], sent[c]>>}] /\ UNCHANGED <<requests, sent, line, listener, hung>>
    BY <1>6, <2>2 DEF ReadResponse
  <2>4. OwnAnswers(c)'
    BY <1>6, <2>3 DEF OwnAnswers, HistoryTypes
  <2>5. inbox'[c] = Tail(inbox[c])
    BY <1>6 DEF ReadResponse
  <2> HIDE DEF frame
  <2> frame.last = (1 = Len(inbox[c]))
    BY <2>2, Zenon
  <2>6. CASE frame.last
    <3>1. inbox'[c] = <<>>
      BY <2>1, <2>2, <2>5, <2>6, InboxTail
    <3>2. pc'[c] \in {"prompt", "close"}
      BY <1>6, <2>2, <2>6 DEF ReadResponse, Failed, frame
    <3>3. QED
      BY <1>6, <2>1, <2>3, <2>4, <3>1, <3>2 DEF InStep, Before
  <2>7. CASE ~frame.last
    <3>1. UNCHANGED <<seq, pc>> /\ pc[c] = "await"
      BY <1>6, <2>2, <2>7 DEF ReadResponse, frame
    <3>2. /\ Len(inbox'[c]) = Len(inbox[c]) - 1 /\ Len(inbox[c]) \in Nat \ {0} /\ Len(inbox[c]) # 1
          /\ \A i \in 1..Len(inbox'[c]) : i + 1 \in 1..Len(inbox[c]) /\ inbox'[c][i] = inbox[c][i + 1]
      BY <2>1, <2>2, <2>5, <2>7, InboxTail
    <3>3. inbox'[c] # <<>>
      BY <2>1, <2>2, <2>5, <2>7, InboxTail
    <3>4. ASSUME NEW i \in 1..Len(inbox'[c])
          PROVE  inbox'[c][i] = [seq |-> seq'[c], cmd |-> sent'[c], last |-> i = Len(inbox'[c])]
      <4>1. inbox[c][i + 1] = [seq |-> seq[c], cmd |-> sent[c], last |-> i + 1 = Len(inbox[c])]
        BY <2>1, <3>2, <3>4 DEF AnswerTo
      <4>2. (i + 1 = Len(inbox[c])) = (i = Len(inbox'[c]))
        BY <3>2, <3>4
      <4>3. QED
        BY <2>3, <3>1, <3>2, <3>4, <4>1, <4>2
    <3>5. AnswerTo(c)'
      BY <3>4 DEF AnswerTo
    <3>6. QED
      BY <1>6, <2>1, <2>3, <2>4, <3>1, <3>3, <3>5 DEF InStep, Before
  <2>8. QED
    BY <2>6, <2>7
<1>7. CASE d = c /\ TargetLost(c)
  <2>1. ~Alive /\ line # c
    BY <1>7, SessionAssumption DEF TargetLost, Ends, Agreed, Gone, LineInv, Unbound, Alive
  <2>2. QED
    BY <1>7, <2>1 DEF TargetLost, Failed, InStep, OwnAnswers, Before
<1>8. CASE d = c /\ Interrupt(c)
  BY <1>8 DEF Interrupt
<1>9. CASE d = c /\ (Leave(c) \/ Close(c) \/ RemoveFile(c) \/ Kill(c))
  <2>1. pc'[c] \in {"close", "remove", "done", "killed"} /\ UNCHANGED accepted
    BY <1>9 DEF Leave, Close, RemoveFile, Kill
  <2>2. QED
    BY <1>9, <2>1 DEF InStep, OwnAnswers, Before
<1>10. QED
  BY <1>1, <1>2, <1>3, <1>4, <1>5, <1>6, <1>7, <1>8, <1>9 DEF ControllerAct, ControllerStep

LEMMA TargetInStep ==
  ASSUME Types, LineInv, Ends, TargetAct, NEW c \in Controllers, InStep(c)
  PROVE  InStep(c)'
<1> c # None
  BY SessionAssumption
<1>1. UNCHANGED ends \/ Connect
  BY DEF TargetAct, ListenerStep, OnSigUsr1, Wake, CheckFile, Greet, Activate, PollSession, Respond, TargetExit
<1>2. UNCHANGED <<pc, seq, sent>>
  BY <1>1 DEF ends, Connect
<1>3. CASE OnSigUsr1
  BY <1>2, <1>3, InStepStable DEF OnSigUsr1, wires, Alive
<1>4. CASE Wake \/ CheckFile
  <2>1. line' # c /\ line # c
    BY <1>4 DEF Wake, CheckFile, LineInv, Unbound
  <2>2. QED
    BY <1>2, <1>4, <2>1, InStepStable DEF Wake, CheckFile, wires, Alive
<1>5. CASE Connect
  <2>1. line = None /\ Alive /\ Alive' /\ UNCHANGED <<requests, inbox, hung>>
    BY <1>5 DEF Connect, LineInv, Unbound, Alive, wires
  <2>2. CASE line' = c
    <3>1. Listening(c) /\ listener' = "greet"
      BY <1>5, <2>2, <2>1 DEF Connect
    <3>2. ~Tied(c)
      BY <2>1, <3>1 DEF Ends, Agreed, Gone, Listening
    <3>3. pc[c] \in Before \cup {"wait", "close"}
      BY <3>1, <3>2 DEF Tied, Listening, Before, Attached
    <3>4. pc[c] \in Before \cup {"wait"} => requests[c] = <<>> /\ Len(inbox[c]) <= 1 /\ inbox[c] = <<>>
      BY <2>1 DEF InStep
    <3>5. QED
      BY <1>2, <2>1, <3>1, <3>3, <3>4 DEF InStep, Before, Alive
  <2>3. CASE line' # c
    BY <1>2, <2>1, <2>3, InStepStable
  <2>4. QED
    BY <2>2, <2>3
<1>6. CASE Greet
  <2>1. CASE Gone(line)
    BY <1>2, <1>6, <2>1, InStepStable DEF Greet, Alive, wires
  <2>2. CASE ~Gone(line) /\ line # c
    <3>1. inbox'[c] = inbox[c] /\ UNCHANGED <<requests, hung, line>> /\ Alive /\ Alive'
      BY <1>6, <2>2 DEF Greet, Types, WireTypes, Alive
    <3>2. QED
      BY <1>2, <2>2, <3>1, InStepStable
  <2>3. CASE ~Gone(line) /\ line = c
    <3>1. /\ inbox' = [inbox EXCEPT ![c] = Append(@, [seq |-> 0, cmd |-> 0, last |-> TRUE])]
          /\ listener = "greet" /\ listener' = "activate" /\ UNCHANGED <<requests, hung, line>> /\ Alive
      BY <1>6, <2>3 DEF Greet, Alive
    <3>2. pc[c] \notin {"unlink", "prompt", "await"}
      BY <2>3, <3>1 DEF InStep
    <3>3. pc[c] \in Before \cup {"wait", "register"} => requests[c] = <<>> /\ inbox[c] = <<>>
      BY <3>1 DEF InStep
    <3>4. inbox[c] = <<>> => Len(inbox'[c]) <= 1
      BY <3>1 DEF Types, WireTypes
    <3>5. QED
      BY <1>2, <2>3, <3>1, <3>2, <3>3, <3>4 DEF InStep
  <2>4. QED
    BY <2>1, <2>2, <2>3
<1>7. CASE Activate
  <2>1. listener = "activate" /\ listener' = "poll" /\ UNCHANGED <<line, requests, inbox, hung, request>>
    BY <1>7 DEF Activate, wires
  <2>2. CASE line = c
    <3>1. pc[c] = "await" => requests[c] = <<Current(c)>> /\ inbox[c] = <<>>
      BY <2>1, <2>2 DEF InStep
    <3>2. Current(c)' = Current(c)
      BY <1>2 DEF Current
    <3>3. QED
      BY <1>2, <2>1, <2>2, <3>1, <3>2 DEF InStep, Alive
  <2>3. CASE line # c
    BY <1>2, <2>1, <2>3, InStepStable DEF Alive
  <2>4. QED
    BY <2>2, <2>3
<1>8. CASE PollSession
  <2>1. CASE Gone(line) /\ HangUp
    BY <1>2, <1>8, <2>1, InStepStable DEF PollSession, HangUp, Types, WireTypes, Alive
  <2>2. CASE line # c /\ ~Gone(line)
    <3>1. requests'[c] = requests[c] /\ UNCHANGED <<inbox, hung, line>> /\ Alive /\ Alive'
      BY <1>8, <2>2 DEF PollSession, Types, WireTypes, Alive
    <3>2. QED
      BY <1>2, <2>2, <3>1, InStepStable
  <2>3. CASE line = c /\ ~Gone(line)
    <3>1. /\ requests[c] # <<>> /\ request' = Head(requests[c]) /\ requests' = [requests EXCEPT ![c] = Tail(@)]
          /\ listener = "poll" /\ listener' = "respond" /\ UNCHANGED <<inbox, hung, chActive, line>>
      BY <1>8, <2>3 DEF PollSession
    <3>2. ~hung[c]
      BY <2>3, <3>1 DEF Ends, Agreed, Alive
    <3>3. pc[c] \notin Before \cup {"wait", "register", "unlink", "prompt"}
      BY <3>1, <3>2 DEF InStep
    <3>4. pc[c] = "await" => requests[c] = <<Current(c)>> /\ inbox[c] = <<>>
      BY <2>3, <3>1 DEF InStep
    <3>5. pc[c] = "await" => request' = Current(c) /\ requests'[c] = <<>>
      <4>1. \A x : Head(<<x>>) = x /\ Tail(<<x>>) = <<>>
        OBVIOUS
      <4>2. requests'[c] = Tail(requests[c])
        BY <3>1 DEF Types, WireTypes
      <4>3. QED
        BY <3>1, <3>4, <4>1, <4>2
    <3>6. Current(c)' = Current(c)
      BY <1>2 DEF Current
    <3>7. QED
      BY <1>2, <3>1, <3>3, <3>4, <3>5, <3>6 DEF InStep
  <2>4. QED
    BY <1>8, <2>1, <2>2, <2>3 DEF PollSession
<1>9. CASE Respond
  <2>1. CASE Gone(line)
    BY <1>2, <1>9, <2>1, InStepStable DEF Respond, HangUp, Types, WireTypes, Alive
  <2>2. CASE line # c /\ ~Gone(line)
    <3>1. inbox'[c] = inbox[c] /\ UNCHANGED <<requests, hung, line>> /\ Alive /\ Alive'
      BY <1>9, <2>2, Responding DEF Respond, Types, WireTypes, Alive
    <3>2. QED
      BY <1>2, <2>2, <3>1, InStepStable
  <2>3. CASE line = c /\ ~Gone(line)
    <3>1. PICK n \in 1..MaxFrames :
            /\ inbox' = [inbox EXCEPT ![c] = inbox[c] \o Response(n)]
            /\ Response(n) \in Seq(Frames) /\ Len(Response(n)) = n
      BY <1>9, <2>3, Responding
    <3>2. listener = "respond" /\ listener' = "poll" /\ UNCHANGED <<requests, hung, line>>
      BY <1>9, <2>3, Responding DEF Respond
    <3>3. pc[c] \notin Before \cup {"wait", "register", "unlink", "prompt"}
      BY <2>3, <3>2 DEF InStep
    <3>4. pc[c] = "await" => requests[c] = <<>> /\ inbox[c] = <<>> /\ request = Current(c)
      BY <2>3, <3>2 DEF InStep
    <3>5. inbox[c] = <<>> => inbox'[c] = Response(n)
      BY <3>1 DEF Types, WireTypes
    <3>6. ASSUME pc[c] = "await" PROVE AnswerTo(c)' /\ inbox'[c] # <<>>
      <4>1. inbox'[c] = Response(n) /\ request = [seq |-> seq[c], cmd |-> sent[c]]
        BY <3>4, <3>5, <3>6 DEF Current
      <4>2. \A i \in 1..n : Response(n)[i] = [seq |-> seq[c], cmd |-> sent[c], last |-> i = n]
        BY <4>1 DEF Response
      <4>3. AnswerTo(c)'
        BY <1>2, <3>1, <4>1, <4>2 DEF AnswerTo
      <4>4. inbox'[c] # <<>>
        BY <3>1, <4>1, SessionAssumption
      <4>5. QED
        BY <4>3, <4>4
    <3>7. QED
      BY <1>2, <3>2, <3>3, <3>4, <3>6 DEF InStep
  <2>4. QED
    BY <2>1, <2>2, <2>3
<1>10. CASE TargetExit
  <2>1. ~Alive' /\ line' = None /\ UNCHANGED <<requests, inbox>> /\ \A d \in Controllers : hung[d] => hung'[d]
    BY <1>10 DEF TargetExit, Alive, Types, WireTypes
  <2>2. QED
    BY <1>2, <2>1, InStepStable
<1>11. QED
  BY <1>3, <1>4, <1>5, <1>6, <1>7, <1>8, <1>9, <1>10 DEF TargetAct, ListenerStep

-----------------------------------------------------------------------------
(* Theorems *)

LEMMA SessionInit == Init => SessionInv /\ ExchangeInv
<1> SUFFICES ASSUME Init PROVE SessionInv /\ ExchangeInv
  OBVIOUS
<1>1. Types
  BY InitTypes
<1>2. \A c \in Controllers : pc[c] = "out" /\ backlog[c] = <<>> /\ requests[c] = <<>> /\ inbox[c] = <<>>
                             /\ hung[c] = FALSE /\ accepted[c] = {}
  BY DEF Init
<1>3. LineInv
  BY DEF Init, LineInv, Unbound
<1>4. Ends
  BY <1>2, SessionAssumption DEF Init, Ends, Agreed, Signalled, Tied, Attached, Contains, Before
<1>5. \A c \in Controllers : SentFirst(c)
  BY <1>2 DEF Init, SentFirst
<1>6. WakeHeard /\ NoResidue
  BY <1>2 DEF Init, WakeHeard, NoResidue
<1>7. WakeBound
  <2>1. Owed \subseteq Controllers
    BY DEF Owed
  <2>2. Cardinality(Owed) <= Cardinality(Controllers)
    BY <2>1, SessionAssumption, FS_Subset
  <2>3. QED
    BY <2>2, OwedFinite DEF Init, WakeBound
<1>8. \A c \in Controllers : InStep(c) /\ OwnAnswers(c)
  BY <1>2, SessionAssumption DEF Init, InStep, OwnAnswers, Before
<1>9. QED
  BY <1>1, <1>3, <1>4, <1>5, <1>6, <1>7, <1>8 DEF SessionInv, ExchangeInv

LEMMA SessionStep ==
  ASSUME SessionInv, [Next]_vars
  PROVE  SessionInv'
<1> USE DEF SessionInv
<1>1. WakeBound'
  BY WakesBounded
<1>2. ASSUME NEW c \in Controllers, ControllerAct(c) PROVE SessionInv'
  <2>1. Moved(c)
    BY <1>2, ControllerMoves
  <2>2. Types'
    BY <1>2, ControllerTypes DEF ControllerAct
  <2>3. LineInv' /\ Ends'
    BY <2>1, ControllerEnds
  <2>4. \A d \in Controllers : SentFirst(d)'
    BY <1>2, ControllerSends
  <2>5. WakeHeard' /\ NoResidue'
    BY <2>1, ControllerWakes
  <2>6. QED
    BY <1>1, <2>2, <2>3, <2>4, <2>5
<1>3. CASE TargetAct
  <2>1. Types'
    BY <1>3, TargetStepTypes DEF TargetAct
  <2>2. LineInv' /\ Ends'
    BY <1>3, TargetEnds
  <2>3. \A d \in Controllers : SentFirst(d)'
    BY <1>3, TargetAnswers
  <2>4. WakeHeard' /\ NoResidue'
    BY <1>3, TargetWakes
  <2>5. QED
    BY <1>1, <2>1, <2>2, <2>3, <2>4
<1>4. CASE UNCHANGED vars
  <2>1. Types'
    BY <1>4, EndTypesStable, WireTypesStable, TargetTypesStable, HistoryTypesStable DEF vars, Types
  <2>2. LineInv' /\ Ends' /\ \A d \in Controllers : SentFirst(d)'
    BY <1>4 DEF vars, ends, wires, target, history, LineInv, Ends, Agreed, Signalled, Tied, Gone, Alive, SentFirst
  <2>3. WakeHeard' /\ NoResidue'
    BY <1>4 DEF vars, ends, wires, target, history, WakeHeard, NoResidue, Alive
  <2>4. QED
    BY <1>1, <2>1, <2>2, <2>3
<1>5. QED
  BY <1>2, <1>3, <1>4 DEF Next, ControllerAct, TargetAct

LEMMA ExchangeStep ==
  ASSUME SessionInv, ExchangeInv, [Next]_vars
  PROVE  ExchangeInv'
<1> USE DEF SessionInv
<1>1. ASSUME NEW c \in Controllers, ControllerAct(c), NEW d \in Controllers \ givenUp'
      PROVE  InStep(d)' /\ OwnAnswers(d)'
  <2>1. givenUp \subseteq givenUp'
    BY <1>1 DEF ControllerAct, ControllerStep, CheckTarget, SendCommand, Interrupt, Leave, Kill, LookUp, Probe,
                UnlinkStale, Bind, Listen, Signal, Accept, AcceptTimeout, ReadRegister, UnlinkOwn, ReadResponse,
                TargetLost, Close, RemoveFile, history
  <2>2. InStep(d) /\ OwnAnswers(d)
    BY <1>1, <2>1 DEF ExchangeInv
  <2>3. QED
    BY <1>1, <2>2, ControllerInStep
<1>2. ASSUME TargetAct, NEW d \in Controllers \ givenUp'
      PROVE  InStep(d)' /\ OwnAnswers(d)'
  <2>1. UNCHANGED <<givenUp, accepted>>
    BY <1>2 DEF TargetAct, ListenerStep, OnSigUsr1, Wake, CheckFile, Connect, Greet, Activate, PollSession,
                Respond, TargetExit, history
  <2>2. InStep(d) /\ OwnAnswers(d)
    BY <1>2, <2>1 DEF ExchangeInv
  <2>3. InStep(d)'
    BY <1>2, <2>2, TargetInStep
  <2>4. QED
    BY <2>1, <2>2, <2>3 DEF OwnAnswers
<1>3. ASSUME UNCHANGED vars, NEW d \in Controllers \ givenUp'
      PROVE  InStep(d)' /\ OwnAnswers(d)'
  BY <1>3 DEF vars, ends, wires, target, history, ExchangeInv, InStep, OwnAnswers, Current, AnswerTo, Alive
<1>4. QED
  BY <1>1, <1>2, <1>3 DEF Next, ControllerAct, TargetAct, ExchangeInv

LEMMA SessionInvariant == Spec => [](SessionInv /\ ExchangeInv)
<1>1. SessionInv /\ ExchangeInv /\ [Next]_vars => (SessionInv /\ ExchangeInv)'
  BY SessionStep, ExchangeStep
<1>2. QED
  BY SessionInit, <1>1, PTL DEF Spec

\* The two ends of an attach agree: the state keeps its types, whoever sits at a
\* prompt or waits for an answer is the controller the target is connected to,
\* a signal that met no session is not lost while its controller waits behind
\* its own file, and a controller that ended left no file behind
\* (attach_controller.cpp and ControlChannel::Run).
THEOREM SessionsAreSound == Spec => []SessionIsSound
<1>1. SessionInv => SessionIsSound
  <2> SUFFICES ASSUME SessionInv PROVE SessionIsSound
    OBVIOUS
  <2> USE DEF SessionInv, Types
  <2>1. SessionIsMutual
    BY DEF SessionIsMutual, Ends, Agreed, Tied, Gone, Attached
  <2>2. wakes \in 0..Cardinality(Controllers)
    BY OwedFinite DEF WakeBound, TargetTypes
  <2>3. \A c \in Controllers : \A i \in DOMAIN backlog[c] : backlog[c][i] \in {"probe", "target"}
    BY DEF EndTypes
  <2>4. \A c \in Controllers : \A i \in DOMAIN inbox[c] : inbox[c][i].cmd <= sent[c]
    <3>1. \A c \in Controllers : inbox[c] \in Seq(Frames)
      BY DEF WireTypes
    <3>2. \A c \in Controllers : DOMAIN inbox[c] = 1..Len(inbox[c])
      BY <3>1
    <3>3. QED
      BY <3>2 DEF SentFirst
  <2>5. TypeOK
    BY <2>2, <2>3, <2>4 DEF TypeOK, EndTypes, TargetTypes, Places, Before, Attached, Unbound, Bound, LineInv
  <2>6. QED
    BY <2>1, <2>5 DEF SessionIsSound
<1>2. QED
  BY SessionInvariant, <1>1, PTL

\* What a controller that never gave up a wait takes for the answer of a command
\* is the answer of that command (SendControl and the numbers of its frames).
THEOREM AwaitedAnswersAreOwn == Spec => []AwaitedAnswerIsOwn
<1>1. ExchangeInv => AwaitedAnswerIsOwn
  BY DEF ExchangeInv, AwaitedAnswerIsOwn
<1>2. QED
  BY SessionInvariant, <1>1, PTL
=============================================================================
