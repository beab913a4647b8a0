-------------------------- MODULE MCCommunication --------------------------
(* Instances of Communication for TLC. *)
EXTENDS Communication, TLC

CONSTANTS parent, teacher, principal, h1, h2

MCRolesOf == [u \in Users |-> CASE u = parent -> {"PARENT"}
                                [] u = teacher -> {"TEACHER"}
                                [] OTHER -> {"PRINCIPAL"}]
Symmetry == Permutations(Handlers)
=============================================================================
