--------------------------- MODULE ControlSession ---------------------------
(***************************************************************************)
(* Attaching to a running process: controllers (msmemscope --pid,          *)
(* src/csrc/framework/attach_controller.cpp) bind a socket file, wake the  *)
(* listener thread of the target by SIGUSR1 and exchange commands and      *)
(* responses with it (framework/control_channel/control_channel.cpp).      *)
(* Several controllers may try at once, be interrupted or be killed; the   *)
(* target may exit.                                                        *)
(*                                                                         *)
(* There is one file name; a controller whose socket is bound to it is     *)
(* called its owner.  A closed socket end is derived from where its        *)
(* process is.                                                             *)
(***************************************************************************)
EXTENDS Integers, Sequences, FiniteSets, SequencesExt

CONSTANTS
  Controllers,   \* controller processes; each attaches at most once
  Interrupts,    \* TRUE: Ctrl-C, or 300 s without an answer, end a wait
  Kills,         \* TRUE: a controller may be killed
  SeqSpace,      \* sequence numbers: 2^16 in the code
  MaxCommands,   \* bound on the commands of one controller
  MaxFrames      \* bound on the frames of one response

None == "none"

ASSUME SessionAssumption ==
  /\ IsFiniteSet(Controllers) /\ None \notin Controllers
  /\ Interrupts \in BOOLEAN /\ Kills \in BOOLEAN
  /\ SeqSpace \in Nat \ {0} /\ MaxCommands \in Nat /\ MaxFrames \in Nat \ {0}

VARIABLES
  file,      \* owner of the socket file
  pc,        \* per controller: where it is
  backlog,   \* per controller: connections not yet accepted, "probe" or "target"
  seq,       \* per controller: seq_
  sent,      \* per controller: commands sent
  requests,  \* per controller: CONTROL frames on their way
  inbox,     \* per controller: REGISTER and RESPONSE frames on their way
  hung,      \* per controller: the target closed its end of the session
  listener,  \* where the listener thread of the target is
  pending,   \* controllers whose SIGUSR1 was not handled yet
  wakes,     \* bytes in the wake pipe
  chActive,  \* g_chActive
  line,      \* the controller the target is connected to
  request,   \* the command under execution
  heard,     \* history: controllers whose signal met no active session
  accepted,  \* history: per controller <<command, command it was an answer to>>
  givenUp    \* history: controllers that gave up a wait and kept the session

ends    == <<pc, backlog, seq, sent>>
wires   == <<requests, inbox, hung>>
target  == <<listener, pending, wakes, chActive, line, request>>
history == <<heard, accepted, givenUp>>
vars    == <<file, ends, wires, target, history>>

Listening(c) == pc[c] \in {"signal", "wait", "register", "unlink", "prompt", "await", "close"}
Gone(c) == pc[c] \in {"remove", "done", "killed"}
Alive == listener # "exited"

Goto(c, label) == pc' = [pc EXCEPT ![c] = label]

\* The four checks of RunImpl; a failure still runs Cleanup.
CheckTarget(c) ==
  /\ pc[c] = "out"
  /\ Goto(c, IF Alive THEN "lookup" ELSE "close")
  /\ UNCHANGED <<file, backlog, seq, sent, wires, target, history>>

-----------------------------------------------------------------------------
(* PrepareSocket and WaitAndAccept *)

LookUp(c) ==
  /\ pc[c] = "lookup"
  /\ Goto(c, IF file = None THEN "bind" ELSE "probe")
  /\ UNCHANGED <<file, backlog, seq, sent, wires, target, history>>

\* A file that was there is probed with a connection: taken by a live listener
\* means attached already, refused means stale; any other error ends the attempt.
Probe(c) ==
  /\ pc[c] = "probe"
  /\ \/ file = None /\ Goto(c, "close") /\ UNCHANGED backlog
     \/ /\ file # None /\ Listening(file)
        /\ backlog' = [backlog EXCEPT ![file] = Append(@, "probe")]
        /\ Goto(c, "close")
     \/ file # None /\ ~Listening(file) /\ Goto(c, "stale") /\ UNCHANGED backlog
  /\ UNCHANGED <<file, seq, sent, wires, target, history>>

\* unlink removes whatever has the name by now.
UnlinkStale(c) ==
  /\ pc[c] = "stale"
  /\ file' = None
  /\ Goto(c, IF file = None THEN "close" ELSE "bind")
  /\ UNCHANGED <<backlog, seq, sent, wires, target, history>>

Bind(c) ==
  /\ pc[c] = "bind"
  /\ IF file = None THEN file' = c /\ Goto(c, "listen")
                    ELSE UNCHANGED file /\ Goto(c, "close")
  /\ UNCHANGED <<backlog, seq, sent, wires, target, history>>

Listen(c) ==
  /\ pc[c] = "listen"
  /\ Goto(c, "signal")
  /\ UNCHANGED <<file, backlog, seq, sent, wires, target, history>>

\* kill(SIGUSR1) succeeds if the process is there; the handler may run later.
Signal(c) ==
  /\ pc[c] = "signal"
  /\ Goto(c, IF Alive THEN "wait" ELSE "close")
  /\ pending' = IF Alive THEN pending \cup {c} ELSE pending
  /\ UNCHANGED <<file, backlog, seq, sent, wires, listener, wakes, chActive, line, request, history>>

\* accept, then SO_PEERCRED: another process than the target ends the attempt.
Accept(c) ==
  /\ pc[c] = "wait"
  /\ backlog[c] # <<>>
  /\ backlog' = [backlog EXCEPT ![c] = Tail(@)]
  /\ Goto(c, IF Head(backlog[c]) = "target" THEN "register" ELSE "close")
  /\ UNCHANGED <<file, seq, sent, wires, target, history>>

\* Mutant: only a controller that met no session gives up.
AcceptTimeout_Woken(c) ==
  /\ pc[c] = "wait" /\ backlog[c] = <<>> /\ c \in heard
  /\ Goto(c, "close")
  /\ UNCHANGED <<file, backlog, seq, sent, wires, target, history>>

\* 30 s without a connection, or a signal.
AcceptTimeout(c) ==
  /\ pc[c] = "wait"
  /\ backlog[c] = <<>>
  /\ Goto(c, "close")
  /\ UNCHANGED <<file, backlog, seq, sent, wires, target, history>>

\* ReadRegister.
ReadRegister(c) ==
  /\ pc[c] = "register"
  /\ \/ /\ inbox[c] # <<>>
        /\ inbox' = [inbox EXCEPT ![c] = Tail(@)]
        /\ Goto(c, "unlink")
     \/ inbox[c] = <<>> /\ hung[c] /\ Goto(c, "close") /\ UNCHANGED inbox
  /\ UNCHANGED <<file, backlog, seq, sent, requests, hung, target, history>>

UnlinkOwn(c) ==
  /\ pc[c] = "unlink"
  /\ file' = None
  /\ Goto(c, "prompt")
  /\ UNCHANGED <<backlog, seq, sent, wires, target, history>>

-----------------------------------------------------------------------------
(* RunInteractive and SendControl *)

\* A command is sent only to a target that is still there.
SendCommand(c) ==
  /\ pc[c] = "prompt" /\ ~hung[c]
  /\ sent[c] < MaxCommands
  /\ sent' = [sent EXCEPT ![c] = @ + 1]
  /\ requests' = [requests EXCEPT ![c] = Append(@, [seq |-> seq[c], cmd |-> sent[c] + 1])]
  /\ Goto(c, "await")
  /\ UNCHANGED <<file, backlog, seq, inbox, hung, target, history>>

\* SendControl failed: the session stays at the prompt if the target is gone,
\* else it ends.
Failed(c) == Goto(c, IF hung[c] THEN "prompt" ELSE "close")

NextSeq(c) == (seq[c] + 1) % SeqSpace

\* Mutant: the first frame brings the prompt back.
ReadResponse_FirstFrame(c) ==
  /\ pc[c] = "await" /\ inbox[c] # <<>>
  /\ inbox' = [inbox EXCEPT ![c] = Tail(@)]
  /\ accepted' = [accepted EXCEPT ![c] = @ \cup {<<sent[c], Head(inbox[c]).cmd>>}]
  /\ Goto(c, "prompt")
  /\ UNCHANGED <<file, backlog, seq, sent, requests, hung, target, heard, givenUp>>

\* One frame of a response; the last one ends the exchange and the number.
ReadResponse(c) ==
  LET frame == Head(inbox[c])
  IN /\ pc[c] = "await"
     /\ inbox[c] # <<>>
     /\ inbox' = [inbox EXCEPT ![c] = Tail(@)]
     /\ IF frame.seq = seq[c]
        THEN /\ accepted' = [accepted EXCEPT ![c] = @ \cup {<<sent[c], frame.cmd>>}]
             /\ IF frame.last
                THEN /\ seq' = [seq EXCEPT ![c] = NextSeq(c)]
                     /\ IF NextSeq(c) = 0 THEN Failed(c) ELSE Goto(c, "prompt")
                ELSE UNCHANGED <<seq, pc>>
        ELSE Failed(c) /\ UNCHANGED <<seq, accepted>>
     /\ UNCHANGED <<file, backlog, sent, requests, hung, target, heard, givenUp>>

TargetLost(c) ==
  /\ pc[c] = "await" /\ inbox[c] = <<>> /\ hung[c]
  /\ Failed(c)
  /\ UNCHANGED <<file, backlog, seq, sent, wires, target, history>>

\* Ctrl-C, or 300 s without a frame: "session kept", the number as it was.
Interrupt(c) ==
  /\ Interrupts
  /\ pc[c] = "await" /\ inbox[c] = <<>>
  /\ Goto(c, "prompt")
  /\ givenUp' = givenUp \cup {c}
  /\ UNCHANGED <<file, backlog, seq, sent, wires, target, heard, accepted>>

\* exit, the end of the input, or SIGTERM.
Leave(c) ==
  /\ pc[c] = "prompt" \/ (pc[c] = "await" /\ inbox[c] = <<>>)
  /\ Goto(c, "close")
  /\ UNCHANGED <<file, backlog, seq, sent, wires, target, history>>

-----------------------------------------------------------------------------
(* Cleanup *)

Close(c) ==
  /\ pc[c] = "close"
  /\ Goto(c, "remove")
  /\ UNCHANGED <<file, backlog, seq, sent, wires, target, history>>

\* The file goes whoever owns it.
RemoveFile(c) ==
  /\ pc[c] = "remove"
  /\ file' = None
  /\ Goto(c, "done")
  /\ UNCHANGED <<backlog, seq, sent, wires, target, history>>

Kill(c) ==
  /\ Kills
  /\ pc[c] \notin {"out", "done", "killed"}
  /\ Goto(c, "killed")
  /\ UNCHANGED <<file, backlog, seq, sent, wires, target, history>>

-----------------------------------------------------------------------------
(* The listener thread of the target: ControlChannel::Run *)

\* Mutant: the handler stays silent unless the listener is idle.
Woken_IfIdle == listener = "idle"

\* OnSigUsr1 writes to the pipe unless a session is active.
Woken == ~chActive

\* Signals that were pending together are handled as one.
OnSigUsr1 ==
  /\ Alive /\ pending # {}
  /\ pending' = {}
  /\ wakes' = IF Woken THEN wakes + 1 ELSE wakes
  /\ heard' = IF chActive THEN heard ELSE heard \cup pending
  /\ UNCHANGED <<file, ends, wires, listener, chActive, line, request, accepted, givenUp>>

Wake ==
  /\ listener = "idle" /\ wakes > 0
  /\ wakes' = wakes - 1
  /\ listener' = "check"
  /\ UNCHANGED <<file, ends, wires, chActive, line, request, pending, history>>

CheckFile ==
  /\ listener = "check"
  /\ listener' = IF file = None THEN "idle" ELSE "connect"
  /\ UNCHANGED <<file, ends, wires, wakes, chActive, line, request, pending, history>>

Connect ==
  /\ listener = "connect"
  /\ IF file # None /\ Listening(file)
     THEN /\ backlog' = [backlog EXCEPT ![file] = Append(@, "target")]
          /\ line' = file
          /\ listener' = "greet"
     ELSE listener' = "idle" /\ UNCHANGED <<backlog, line>>
  /\ UNCHANGED <<file, pc, seq, sent, wires, wakes, chActive, request, pending, history>>

\* REGISTER; it fails if the controller has closed meanwhile.
Greet ==
  /\ listener = "greet"
  /\ IF Gone(line)
     THEN listener' = "idle" /\ line' = None /\ UNCHANGED inbox
     ELSE /\ inbox' = [inbox EXCEPT ![line] = Append(@, [seq |-> 0, cmd |-> 0, last |-> TRUE])]
          /\ listener' = "activate" /\ UNCHANGED line
  /\ UNCHANGED <<file, ends, requests, hung, wakes, chActive, request, pending, history>>

Activate ==
  /\ listener = "activate"
  /\ chActive' = TRUE
  /\ listener' = "poll"
  /\ UNCHANGED <<file, ends, wires, wakes, line, request, pending, history>>

HangUp ==
  /\ chActive' = FALSE
  /\ hung' = [hung EXCEPT ![line] = TRUE]
  /\ line' = None
  /\ listener' = "idle"

\* A controller that has closed goes before what it still sent.
PollSession ==
  /\ listener = "poll"
  /\ \/ Gone(line) /\ HangUp /\ UNCHANGED <<requests, request>>
     \/ /\ ~Gone(line) /\ requests[line] # <<>>
        /\ request' = Head(requests[line])
        /\ requests' = [requests EXCEPT ![line] = Tail(@)]
        /\ listener' = "respond"
        /\ UNCHANGED <<hung, chActive, line>>
  /\ UNCHANGED <<file, ends, inbox, wakes, pending, history>>

\* Execute has returned; the response bears the number of its request.
Respond ==
  /\ listener = "respond"
  /\ IF Gone(line)
     THEN HangUp /\ UNCHANGED inbox
     ELSE /\ \E n \in 1..MaxFrames :
               inbox' = [inbox EXCEPT ![line] = @ \o
                 [i \in 1..n |-> [seq |-> request.seq, cmd |-> request.cmd, last |-> i = n]]]
          /\ listener' = "poll"
          /\ UNCHANGED <<hung, chActive, line>>
  /\ UNCHANGED <<file, ends, requests, wakes, request, pending, history>>

TargetExit ==
  /\ Alive
  /\ listener' = "exited"
  /\ hung' = IF line = None THEN hung ELSE [hung EXCEPT ![line] = TRUE]
  /\ line' = None
  /\ UNCHANGED <<file, ends, requests, inbox, wakes, chActive, request, pending, history>>

-----------------------------------------------------------------------------
\* What a controller does of itself; commands, exits and kills come from outside.
ControllerStep(c) ==
  \/ LookUp(c) \/ Probe(c) \/ UnlinkStale(c) \/ Bind(c) \/ Listen(c) \/ Signal(c)
  \/ Accept(c) \/ AcceptTimeout(c) \/ ReadRegister(c) \/ UnlinkOwn(c)
  \/ ReadResponse(c) \/ TargetLost(c)
  \/ Close(c) \/ RemoveFile(c)

ListenerStep ==
  \/ Wake \/ CheckFile \/ Connect \/ Greet \/ Activate \/ PollSession \/ Respond

Init ==
  /\ file = None
  /\ pc = [c \in Controllers |-> "out"]
  /\ backlog = [c \in Controllers |-> <<>>]
  /\ seq = [c \in Controllers |-> 0]
  /\ sent = [c \in Controllers |-> 0]
  /\ requests = [c \in Controllers |-> <<>>]
  /\ inbox = [c \in Controllers |-> <<>>]
  /\ hung = [c \in Controllers |-> FALSE]
  /\ listener = "idle" /\ pending = {} /\ wakes = 0 /\ chActive = FALSE
  /\ line = None /\ request = [seq |-> 0, cmd |-> 0]
  /\ heard = {} /\ accepted = [c \in Controllers |-> {}] /\ givenUp = {}

Next ==
  \/ \E c \in Controllers :
       \/ CheckTarget(c) \/ SendCommand(c) \/ Interrupt(c) \/ Leave(c) \/ Kill(c)
       \/ ControllerStep(c)
  \/ OnSigUsr1 \/ ListenerStep \/ TargetExit

\* Timeouts expire and commands return; the user and the target's life are free.
Spec ==
  /\ Init /\ [][Next]_vars
  /\ \A c \in Controllers : WF_vars(ControllerStep(c))
  /\ WF_vars(ListenerStep)
-----------------------------------------------------------------------------
(* Properties *)

TypeOK ==
  /\ file \in Controllers \cup {None} /\ line \in Controllers \cup {None}
  /\ pc \in [Controllers -> {"out", "lookup", "probe", "stale", "bind", "listen", "signal", "wait",
       "register", "unlink", "prompt", "await", "close", "remove", "done", "killed"}]
  /\ seq \in [Controllers -> 0..(SeqSpace - 1)] /\ sent \in [Controllers -> 0..MaxCommands]
  /\ \A c \in Controllers :
       /\ \A i \in DOMAIN backlog[c] : backlog[c][i] \in {"probe", "target"}
       /\ \A i \in DOMAIN inbox[c] : inbox[c][i].cmd <= sent[c]
  /\ listener \in {"idle", "check", "connect", "greet", "activate", "poll", "respond", "exited"}
  /\ pending \subseteq Controllers /\ wakes \in 0..Cardinality(Controllers)
  /\ listener \in {"poll", "respond"} => chActive /\ line # None

OwnAnswers(c) == \A p \in accepted[c] : p[1] = p[2]

\* What a controller takes for the answer of a command is the answer of that
\* command, whatever was sent or given up before it.
AnswerIsOwn == \A c \in Controllers : OwnAnswers(c)

\* The same for a controller that has waited for every answer so far, also
\* when answers have several frames and numbers wrap around.
AwaitedAnswerIsOwn == \A c \in Controllers \ givenUp : OwnAnswers(c)

\* A signal handled while no session is active is not lost, wherever the
\* listener is: while its controller waits behind its own socket file, there is still a
\* byte to read or the listener is on its way to the file.
WakeHeard ==
  \A c \in heard :
    pc[c] = "wait" /\ file = c /\ Alive /\ ~Contains(backlog[c], "target") =>
      wakes > 0 \/ listener \in {"check", "connect"}

\* An attached controller and the target agree on the session: nobody sits at
\* a prompt of a session that the target has left for another controller.
SessionIsMutual ==
  \A c \in Controllers : pc[c] \in {"prompt", "await"} /\ ~hung[c] => line = c

\* A controller that ended by itself leaves no socket file behind, although
\* others bind and unlink the same name meanwhile.
NoResidue == \A c \in Controllers : pc[c] = "done" => file # c

\* Both ends agree on the session, no wake-up of it is lost and nothing of it is
\* left behind; the state keeps its types.
SessionIsSound == TypeOK /\ WakeHeard /\ SessionIsMutual /\ NoResidue

\* Every attempt and every command comes to an end: a controller gets to the
\* prompt, or gives up, and is never stuck in between.
AttemptsEnd ==
  \A c \in Controllers :
    pc[c] \notin {"out", "prompt", "done", "killed"} ~> pc[c] \in {"prompt", "done", "killed"}
=============================================================================
