---------------------------- MODULE MCImportJobs ----------------------------
(* Instances of ImportJobs for TLC. *)
EXTENDS ImportJobs

CONSTANTS h1, h2

McRows == 1..3
McMappingOf == <<1, 1, 3>>
McHandlers == {h1, h2}
=============================================================================
