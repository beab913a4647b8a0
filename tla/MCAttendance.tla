--------------------------- MODULE MCAttendance ---------------------------
(* Instances of Attendance for TLC. *)
EXTENDS Attendance

CONSTANTS s1, s2, s3, h1, h2

MCRowsOf == <<{s1}, {s2}, {s3}>>
=============================================================================
