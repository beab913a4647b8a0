--------------------------- MODULE MCReportCards ---------------------------
(* Instances of ReportCards for TLC. *)
EXTENDS ReportCards, TLC

CONSTANTS p1, s1, s2, h1, h2

Present(v) == [result |-> "PRESENT", value |-> v]
Absent == [result |-> "ABSENT", value |-> None]
MCEntries == {Present(1), Absent}
Symmetry == Permutations(Handlers) \cup Permutations(Students)
=============================================================================
