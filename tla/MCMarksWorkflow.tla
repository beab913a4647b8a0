-------------------------- MODULE MCMarksWorkflow --------------------------
(* Instances of MarksWorkflow for TLC. *)
EXTENDS MarksWorkflow, TLC

CONSTANTS p1, s1, s2, r1, r2, e1

Present(v) == [result |-> "PRESENT", value |-> v]
Exempted == [result |-> "EXEMPTED", value |-> None]
MCEntries == {Present(0), Present(1), Exempted}
Symmetry == Permutations(Requests)
=============================================================================
