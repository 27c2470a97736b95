---------------------------- MODULE MCPhysAlloc ----------------------------
(* PhysAlloc for TLC. *)
EXTENDS PhysAlloc

CONSTANTS c1, c2

SomeMemory == {<<3, 13>>, <<1, 20>>, <<5, 27>>}
=============================================================================
