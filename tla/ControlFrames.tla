---------------------------- MODULE ControlFrames ----------------------------
(***************************************************************************)
(* How the responses of a session travel: the target cuts a response into  *)
(* frames (SendResponse, control_channel.cpp:62), sends them as the socket *)
(* takes them (SendFrame, control_protocol.cpp:116), and the controller    *)
(* reads them and puts the text together (ReadFrame,                       *)
(* control_protocol.cpp:57, and SendControl, attach_controller.cpp:472).   *)
(*                                                                         *)
(* Sessions, and waits that are given up, are in ControlSession.           *)
(***************************************************************************)
EXTENDS Integers, Sequences, FiniteSets, SequencesExt

CONSTANTS
  Outputs,      \* texts of responses, as sequences of kinds of bytes
  Limit,        \* MAX_PAYLOAD_LEN
  Reserve,      \* kFrameChunkReserve
  Overhead,     \* bytes of a payload that are not its text
  HeaderLen,
  Room,         \* what the socket holds
  MaxCommands   \* bound on the commands

VARIABLES
  commands,     \* commands asked so far, their number is that of the last
  output,       \* the text of the response to the last one
  sender,       \* the target's listener
  channel,      \* bytes under way
  reader        \* the controller

vars == <<commands, output, sender, channel, reader>>

\* A lead and a trail are the two halves of one character.
Bytes == {"plain", "escaped", "lead", "trail"}

\* Even one byte fits, so that the error "too large to serialize" cannot occur.
FramesAssumption ==
  /\ Outputs \subseteq Seq(Bytes)
  /\ {Limit, Reserve, Overhead} \subseteq Nat
  /\ Overhead <= Reserve /\ Reserve < Limit /\ Overhead + 6 <= Limit
  /\ {HeaderLen, Room} \subseteq Nat \ {0}

\* A frame; from says where its text begins in the response (history).
NoFrame == [seq |-> 0, cont |-> FALSE, text |-> <<>>, size |-> 0, from |-> 0]

-----------------------------------------------------------------------------
(* Cutting a response *)

\* An escaped byte is written as six in JSON.
PayloadSize(text) ==
  Overhead + Len(text) + 5 * Cardinality({i \in DOMAIN text : text[i] = "escaped"})

\* frame.dump throws unless the text is valid UTF-8.
Valid(text) ==
  /\ \A i \in DOMAIN text : text[i] = "lead" => i < Len(text) /\ text[i + 1] = "trail"
  /\ text # <<>> => text[1] # "trail"

Chunk(offset, len) == SubSeq(output, offset + 1, offset + len)
Budget == Limit - Reserve
Rest(offset) == Len(output) - offset
FirstTry(offset) == IF Rest(offset) <= Budget THEN Rest(offset) ELSE Budget

\* The lengths that are tried: the first and its halves, down to the one that fits.
Halves(len) == {n \in 1..len : \E k \in 0..Budget : n = len \div 2^k}
ChunkLen(offset) ==
  Max({len \in Halves(FirstTry(offset)) : PayloadSize(Chunk(offset, len)) <= Limit} \cup {0})
Tried(offset) == {len \in Halves(FirstTry(offset)) : len >= ChunkLen(offset)}

\* Mutant: a last chunk that was halved is still the last one.
IsLast_Budget(offset) == Rest(offset) <= Budget

IsLast(offset) == Rest(offset) <= Budget /\ ChunkLen(offset) = Rest(offset)

Serialize ==
  /\ sender.at = "serializing"
  /\ LET offset == sender.offset
         text == Chunk(offset, ChunkLen(offset))
     IN sender' =
          IF \E len \in Tried(offset) : ~Valid(Chunk(offset, len)) THEN [sender EXCEPT !.at = "thrown"]
          ELSE [sender EXCEPT !.at = "sending", !.sent = 0,
                  !.frame = [seq |-> commands, cont |-> ~IsLast(offset), text |-> text,
                             size |-> PayloadSize(text), from |-> offset]]
  /\ UNCHANGED <<commands, output, channel, reader>>

-----------------------------------------------------------------------------
(* Sending and reading frames *)

Total(frame) == HeaderLen + frame.size

\* One send takes the rest of the header or of the payload, or as much as fits.
Portion(sent, total) == IF sent < HeaderLen THEN HeaderLen - sent ELSE total - sent

Send(n) ==
  /\ sender.at = "sending" /\ sender.sent < Total(sender.frame)
  /\ n <= Portion(sender.sent, Total(sender.frame)) /\ Len(channel) + n <= Room
  /\ reader.at # "gone"
  /\ channel' = channel \o [i \in 1..n |-> [frame |-> sender.frame, at |-> sender.sent + i]]
  /\ sender' = [sender EXCEPT !.sent = @ + n]
  /\ UNCHANGED <<commands, output, reader>>

\* The frame is sent: the next chunk, or the end of the response.
Sent ==
  /\ sender.at = "sending" /\ sender.sent = Total(sender.frame)
  /\ sender' = [sender EXCEPT !.at = IF sender.frame.cont THEN "serializing" ELSE "idle",
                              !.offset = @ + Len(sender.frame.text)]
  /\ UNCHANGED <<commands, output, channel, reader>>

\* Nothing could be written for ten seconds, or nobody reads: the session is closed.
SendFails ==
  /\ sender.at = "sending" /\ sender.sent < Total(sender.frame)
  /\ Len(channel) = Room \/ reader.at = "gone"
  /\ sender' = [sender EXCEPT !.at = "closed"]
  /\ UNCHANGED <<commands, output, channel, reader>>

Have(bytes) == IF Len(bytes) < HeaderLen THEN HeaderLen ELSE Total(bytes[1].frame)
Complete(bytes) == Len(bytes) >= HeaderLen /\ Len(bytes) = Have(bytes)

\* recv asks for the rest of the header or of the payload and gets some of it.
Receive(n) ==
  /\ reader.at = "waiting" /\ ~Complete(reader.in)
  /\ n <= Len(channel) /\ n <= Have(reader.in) - Len(reader.in)
  /\ reader' = [reader EXCEPT !.in = @ \o SubSeq(channel, 1, n)]
  /\ channel' = SubSeq(channel, n + 1, Len(channel))
  /\ UNCHANGED <<commands, output, sender>>

\* The bytes are those of one frame, in their order.
IsFrame(bytes) == \A i \in DOMAIN bytes : bytes[i] = [frame |-> bytes[1].frame, at |-> i]

\* A frame is complete; the text is shown or kept, and the last one ends the wait.
Take ==
  /\ reader.at = "waiting" /\ Complete(reader.in)
  /\ LET frame == reader.in[1].frame IN
     reader' =
       IF ~IsFrame(reader.in) \/ frame.seq # commands THEN [reader EXCEPT !.at = "violation"]
       ELSE [reader EXCEPT !.in = <<>>, !.text = @ \o frame.text, !.at = IF frame.cont THEN "waiting" ELSE "done"]
  /\ UNCHANGED <<commands, output, sender, channel>>

\* The target has closed the session, or is gone.
PeerClosed ==
  /\ reader.at = "waiting" /\ ~Complete(reader.in) /\ channel = <<>>
  /\ sender.at \in {"closed", "thrown"}
  /\ reader' = [reader EXCEPT !.at = "failed"]
  /\ UNCHANGED <<commands, output, sender, channel>>

-----------------------------------------------------------------------------
\* A command is asked when the one before it was answered.
MayAsk == reader.at \in {"idle", "done"} /\ sender.at = "idle" /\ commands < MaxCommands

Ask(text) ==
  /\ commands' = commands + 1 /\ output' = text
  /\ sender' = [sender EXCEPT !.at = "serializing", !.offset = 0]
  /\ reader' = [reader EXCEPT !.at = "waiting", !.text = <<>>]
  /\ UNCHANGED channel

\* The controller exits or is killed while it waits.
Exit ==
  /\ reader.at = "waiting"
  /\ reader' = [reader EXCEPT !.at = "gone"]
  /\ UNCHANGED <<commands, output, sender, channel>>

Init ==
  /\ commands = 0 /\ output = <<>> /\ channel = <<>>
  /\ sender = [at |-> "idle", offset |-> 0, frame |-> NoFrame, sent |-> 0]
  /\ reader = [at |-> "idle", in |-> <<>>, text |-> <<>>]

Next ==
  \/ MayAsk /\ \E text \in Outputs : Ask(text)
  \/ Serialize \/ Sent \/ SendFails \/ Take \/ PeerClosed \/ Exit
  \/ \E n \in 1..Room : Send(n) \/ Receive(n)

-----------------------------------------------------------------------------
(* Properties *)

\* However the bytes of frames are split on their way and whatever their texts
\* grow to, the controller never meets a frame it cannot read, what it shows is
\* the beginning of the response, it is done only with all of it, and it never
\* waits for a response that was sent to its end (SendResponse,
\* control_channel.cpp:84; SendControl, attach_controller.cpp:536).
ResponsesWhole ==
  /\ reader.at # "violation"
  /\ reader.at \in {"waiting", "failed"} => IsPrefix(reader.text, output)
  /\ reader.at = "done" => reader.text = output
  /\ reader.at = "waiting" /\ sender.at = "idle" /\ channel = <<>> => Complete(reader.in)

\* A valid text can be sent; false, as a chunk may end within a character and
\* nothing catches what dump throws (control_channel.cpp:78).
ValidIsSent == sender.at = "thrown" => ~Valid(output)
=============================================================================
