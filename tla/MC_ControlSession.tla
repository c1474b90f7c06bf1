-------------------------- MODULE MC_ControlSession --------------------------
(* Small instances of ControlSession: two controllers of one target. *)
EXTENDS ControlSession, TLC

CONSTANTS c1, c2

TwoControllers == {c1, c2}
ControllerSymmetry == Permutations(TwoControllers)
=============================================================================
