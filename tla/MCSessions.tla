----------------------------- MODULE MCSessions -----------------------------
(* Instances of Sessions for TLC. *)
EXTENDS Sessions, TLC

CONSTANTS h1, h2

McHandlers == {h1, h2}
McSymmetry == Permutations(McHandlers)
=============================================================================
