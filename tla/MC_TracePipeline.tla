-------------------------- MODULE MC_TracePipeline --------------------------
(* Two threads of the application, one device and pool, two addresses. *)
EXTENDS TracePipeline, TLC

CONSTANTS h1, h2

TwoHooks == {h1, h2}
TwoAddrs == 0..1
ThreeAddrs == 0..2
SizeOne  == {1}
SizesTwo == {1, 2}

HookSymmetry == Permutations(TwoHooks)
=============================================================================
