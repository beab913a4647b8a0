----------------------------- MODULE MarksBoard -----------------------------
(***************************************************************************)
(* What report cards and parents may rely on of the marks of an            *)
(* examination, whoever enters, reviews or publishes them: a row, once     *)
(* there, is replaced by a row with the next version (so its updated_at    *)
(* moves), and rows go away only all at once, with their examination, for  *)
(* good.  MarksWorkflow implements it; ReportCards builds on it.           *)
(***************************************************************************)
EXTENDS Integers

CONSTANTS
    Papers, Students,
    StoredEntries,  \* what a row of marks may hold: [result, value]
    None            \* no entry, no value

VARIABLES
    period,     \* is the examination one that report cards include?
    board       \* one row per paper and student

boardVars == <<period, board>>

Slot == Papers \X Students
Row == [entry: StoredEntries \cup {None}, version: Nat]
NoRow == [entry |-> None, version |-> 0]

BoardTypeOK ==
    /\ period \in {"CLOSED", "REPORTABLE", "GONE"}
    /\ board \in [Slot -> Row]

BoardInit ==
    /\ period = "CLOSED"
    /\ board = [m \in Slot |-> NoRow]

(* One commit replaces or adds rows, and may open or close the period. *)
Change(rows, content, next) ==
    /\ period # "GONE"
    /\ board' = [m \in Slot |->
                    IF m \in rows
                    THEN [entry |-> content[m], version |-> board[m].version + 1]
                    ELSE board[m]]
    /\ period' = next

Remove ==
    /\ period' = "GONE"
    /\ board' = [m \in Slot |-> NoRow]

BoardNext ==
    \/ \E rows \in SUBSET Slot, next \in {"CLOSED", "REPORTABLE"} :
        \E content \in [rows -> StoredEntries] : Change(rows, content, next)
    \/ Remove

BoardSpec == BoardInit /\ [][BoardNext]_boardVars
=============================================================================
