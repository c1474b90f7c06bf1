---------------------------- MODULE HostWindow ----------------------------
(***************************************************************************)
(* What the host heap hooks promise to the analyzer about a monitoring     *)
(* window (src/csrc/event_trace/host_mem_hooks): the boundaries of the     *)
(* windows are announced in order, and the closing snapshot of a window    *)
(* can be pulled from the moment its end is announced until the next       *)
(* window clears it.  HostHeap implements this; HostLeak relies on it.     *)
(***************************************************************************)
EXTENDS Naturals

CONSTANT MaxWindows   \* bound on the windows of a run

ASSUME WindowAssumption == MaxWindows \in Nat

VARIABLES
  told,    \* the last boundary reported: its kind and the window's id
  final    \* the window whose closing snapshot can be pulled, 0 for none

windowVars == <<told, final>>

Boundaries == [kind : {"START", "END"}, id : 0..MaxWindows]

WindowTypeOK == told \in Boundaries /\ final \in 0..MaxWindows

WindowInit == told = [kind |-> "END", id |-> 0] /\ final = 0

\* SvcSetEnabled(1): the tables of the last window go before the next starts.
ClearFinal == told.kind = "END" /\ final' = 0 /\ UNCHANGED told

SendStart ==
  /\ told.kind = "END" /\ final = 0 /\ told.id < MaxWindows
  /\ told' = [kind |-> "START", id |-> told.id + 1]
  /\ UNCHANGED final

\* SvcSetEnabled(0): the aggregate is complete before the end is announced.
Aggregate == told.kind = "START" /\ final = 0 /\ final' = told.id /\ UNCHANGED told

SendEnd ==
  /\ told.kind = "START" /\ final = told.id
  /\ told' = [told EXCEPT !.kind = "END"]
  /\ UNCHANGED final

WindowNext == ClearFinal \/ SendStart \/ Aggregate \/ SendEnd

WindowSpec == WindowInit /\ [][WindowNext]_windowVars
=============================================================================
