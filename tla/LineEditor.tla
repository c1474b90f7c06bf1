----------------------------- MODULE LineEditor -----------------------------
(***************************************************************************)
(* The prompt of the attached controller (line_editor.cpp): one line is    *)
(* edited at a cursor, completed, and exchanged for a line of the history  *)
(* of commands that succeeded.  AttachController::Run adds a command to    *)
(* the history between two lines.                                          *)
(*                                                                         *)
(* A line is a sequence of characters; which words may come next, the work *)
(* of CompletionTable, is given.  What is drawn is left out.               *)
(***************************************************************************)
EXTENDS Naturals, Sequences, FiniteSets, SequencesExt

CONSTANTS
  Chars,      \* the printable characters, Space among them
  Space,
  Words,      \* what CompletionTable may offer: sequences of characters
  MaxLine,    \* kMaxLineLen
  MaxHistory, \* kMaxHistory
  MaxLines    \* bound on the lines of a session

VARIABLES
  text,       \* the line
  cursor,     \* characters before the cursor
  browsing,   \* inHistory, histIndex (from 1) and draft
  history,    \* g_history, newest first
  state,      \* "reading", "read" (a line was entered) or "left"
  succeeded,  \* history: the commands that succeeded, oldest first
  lines       \* lines so far

vars == <<text, cursor, browsing, history, state, succeeded, lines>>

Editing == [on |-> FALSE, index |-> 0, draft |-> <<>>]
Kept == UNCHANGED <<history, state, succeeded, lines>>

-----------------------------------------------------------------------------
(* Keys that edit *)

Insert(c) ==
  /\ state = "reading" /\ Len(text) < MaxLine
  /\ text' = InsertAt(text, cursor + 1, c) /\ cursor' = cursor + 1
  /\ UNCHANGED browsing /\ Kept

Backspace ==
  /\ state = "reading" /\ cursor > 0
  /\ text' = RemoveAt(text, cursor) /\ cursor' = cursor - 1
  /\ UNCHANGED browsing /\ Kept

Right ==
  /\ state = "reading" /\ cursor < Len(text)
  /\ cursor' = cursor + 1
  /\ UNCHANGED <<text, browsing>> /\ Kept

Left ==
  /\ state = "reading" /\ cursor > 0
  /\ cursor' = cursor - 1
  /\ UNCHANGED <<text, browsing>> /\ Kept

\* The last word of the line, wherever the cursor is, and what stands before it.
LastSpace == LET S == {i \in 1..Len(text) : text[i] = Space}
             IN IF S = {} THEN 0 ELSE CHOOSE i \in S : \A j \in S : j <= i

LastWord == SubSeq(text, LastSpace + 1, Len(text))
Before == SubSeq(text, 1, LastSpace)

\* What two and more candidates begin with.
Common(C) ==
  LET shared == {p \in UNION {Prefixes(w) : w \in C} : \A w \in C : IsPrefix(p, w)}
  IN CHOOSE p \in shared : \A q \in shared : Len(q) <= Len(p)

\* TryComplete: the candidates begin with the last word.
TryComplete(C) ==
  /\ state = "reading" /\ C # {} /\ \A w \in C : IsPrefix(LastWord, w)
  /\ Cardinality(C) = 1 \/ Len(Common(C)) > Len(LastWord)
  /\ text' = Before \o Common(C) /\ cursor' = Len(text')
  /\ UNCHANGED browsing /\ Kept

-----------------------------------------------------------------------------
(* The history *)

Show(i) == text' = history[i] /\ cursor' = Len(text')

Up ==
  /\ state = "reading" /\ history # <<>>
  /\ \/ /\ ~browsing.on
        /\ browsing' = [on |-> TRUE, index |-> 1, draft |-> text]
        /\ Show(1)
     \/ /\ browsing.on /\ browsing.index < Len(history)
        /\ browsing' = [browsing EXCEPT !.index = @ + 1]
        /\ Show(browsing.index + 1)
  /\ Kept

Down ==
  /\ state = "reading" /\ browsing.on
  /\ \/ /\ browsing.index > 1
        /\ browsing' = [browsing EXCEPT !.index = @ - 1]
        /\ Show(browsing.index - 1)
     \/ /\ browsing.index = 1
        /\ browsing' = Editing
        /\ text' = browsing.draft /\ cursor' = Len(text')
  /\ Kept

-----------------------------------------------------------------------------
(* Lines *)

Done == cursor' = 0 /\ browsing' = Editing /\ UNCHANGED <<history, succeeded, lines>>

\* Enter, or the end of the input while something stands on the line.
Enter == state = "reading" /\ state' = "read" /\ UNCHANGED text /\ Done

\* Ctrl-C, or the end of the input or Ctrl-D on an empty line.
Leave == state = "reading" /\ state' = "left" /\ text' = <<>> /\ Done

\* Mutant: the command is not looked for.
AddHistory_Twice(cmd) ==
  LET all == <<cmd>> \o history
  IN IF cmd = <<>> THEN history ELSE IF Len(all) > MaxHistory THEN Front(all) ELSE all
AddHistory(cmd) ==
  LET older == IF Contains(history, cmd) THEN RemoveFirst(history, cmd) ELSE history
      all == <<cmd>> \o older
  IN IF cmd = <<>> THEN history ELSE IF Len(all) > MaxHistory THEN Front(all) ELSE all

Trimmed(l) == LET S == {i \in 1..Len(l) : l[i] # Space}
              IN SubSeq(l, 1, IF S = {} THEN 0 ELSE CHOOSE i \in S : \A j \in S : j <= i)

\* RunInteractive sends the command, unless it is empty, adds it if it succeeded
\* and reads again; ReadLine starts over with an empty line.
ReadLine ==
  /\ state = "read" /\ lines < MaxLines
  /\ \/ /\ Trimmed(text) # <<>>
        /\ history' = AddHistory(Trimmed(text)) /\ succeeded' = Append(succeeded, Trimmed(text))
     \/ UNCHANGED <<history, succeeded>>
  /\ state' = "reading" /\ lines' = lines + 1
  /\ text' = <<>> /\ cursor' = 0 /\ browsing' = Editing

-----------------------------------------------------------------------------
Init ==
  /\ text = <<>> /\ cursor = 0 /\ browsing = Editing /\ history = <<>>
  /\ state = "reading" /\ succeeded = <<>> /\ lines = 1

Next ==
  \/ \E c \in Chars : Insert(c)
  \/ Backspace \/ Left \/ Right \/ Up \/ Down \/ Enter \/ Leave \/ ReadLine
  \/ \E C \in SUBSET Words : TryComplete(C)

-----------------------------------------------------------------------------
(* Properties *)

\* The position of the last time a command succeeded.
LastOf(cmd) == CHOOSE i \in 1..Len(succeeded) : succeeded[i] = cmd /\ \A j \in (i + 1)..Len(succeeded) : succeeded[j] # cmd

\* The history holds the last different commands that succeeded, newest first,
\* none of them twice, and no other (AddHistory, line_editor.cpp:363).
HistoryIsRecent ==
  LET commands == {succeeded[i] : i \in 1..Len(succeeded)}
      shown == {history[i] : i \in 1..Len(history)}
  IN /\ Len(history) = IF Cardinality(commands) > MaxHistory THEN MaxHistory ELSE Cardinality(commands)
     /\ shown \subseteq commands
     /\ \A i \in 2..Len(history) : LastOf(history[i - 1]) > LastOf(history[i])
     /\ \A old \in commands \ shown, new \in shown : LastOf(new) > LastOf(old)

\* Whatever is typed, completed and fetched from the history, the cursor stays
\* on the line, and while the history is browsed its index is in it (ReadLine,
\* line_editor.cpp:463).
CursorStays ==
  /\ cursor <= Len(text)
  /\ browsing.on => browsing.index \in 1..Len(history)

EditorSound == HistoryIsRecent /\ CursorStays
=============================================================================
