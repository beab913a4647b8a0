----------------------------- MODULE ImportJobs -----------------------------
(***************************************************************************)
(* One data import: services/import_job.py.  A job is registered, its      *)
(* file is validated into staging rows, and the valid rows are executed in *)
(* chunks, each row under a savepoint, each chunk in one transaction, with *)
(* an audit row for each staging row.                                      *)
(*                                                                         *)
(* Neither the job nor its rows have a version: two requests that read     *)
(* VALIDATED both execute, two that read DRAFT both validate, and the last *)
(* writer of the status wins.  What keeps the outcomes right are the       *)
(* unique keys of the records and of the audit rows, and the locks of the  *)
(* rows that a transaction has written.                                    *)
(*                                                                         *)
(* Left out: the counters of the job, error codes, what an audit row says  *)
(* (it repeats its staging row), and guardian rows that validation         *)
(* resolved to a guardian who was there before the import.                 *)
(***************************************************************************)
EXTENDS Naturals, FiniteSets

CONSTANTS
    Kinds,          \* kinds of import to consider
    Rows,           \* 1..n: the rows of the file
    MappingOf,      \* the mapping that a row of such a file names
    ChunkSize,      \* rows of a transaction, 100 in the code
    Handlers        \* requests that run at the same time

AllKinds == {"STUDENTS", "ACADEMIC_SETUP", "GUARDIANS", "GUARDIAN_MAPPING"}

ASSUME ImportAssumption ==
    /\ Kinds \subseteq AllKinds
    /\ IsFiniteSet(Rows) /\ Rows = 1..Cardinality(Rows)
    /\ MappingOf \in [Rows -> Rows]
    /\ ChunkSize \in Nat \ {0}

VARIABLES
    kind,       \* import_type, which never changes
    status,     \* status of the job
    rows,       \* the staging rows
    audit,      \* the rows that have an audit row (import_job_rows)
    stored,     \* how many records each key has in the database
    handlers,   \* what each running request holds
    crashed     \* whether an executing request was lost

impVars == <<kind, status, rows, audit, stored, handlers, crashed>>

Terminal == {"COMPLETED", "COMPLETED_WITH_ERRORS", "FAILED", "CANCELLED"}

(* The record of a row has the number of the row; the rows of an academic  *)
(* setup share their academic year and class as well.  Two rows may name   *)
(* one mapping: validation compares how a guardian is written, by mobile   *)
(* or by email, and not the guardian it finds.                             *)
Shared == 0
Keys == {Shared} \cup Rows
Needs(r) ==
    CASE kind = "ACADEMIC_SETUP" -> {Shared, r}
      [] kind = "GUARDIAN_MAPPING" -> {MappingOf[r]}
      [] OTHER -> {r}

(* These two write their audit rows anew, the others update those that     *)
(* validation wrote.                                                       *)
GuardianKinds == {"GUARDIANS", "GUARDIAN_MAPPING"}

(* chunk, out, new, swept, skipped: rows selected; their outcomes, records *)
(* inserted, audit rows deleted and written as skipped, none of them       *)
(* committed.  failed: whether a row failed.  stale: the rows it selected  *)
(* have been deleted.                                                      *)
Pending == [chunk |-> {}, out |-> [r \in Rows |-> "none"], new |-> {},
            swept |-> {}, skipped |-> {}]
Idle == [op |-> "idle", step |-> "none", pending |-> Pending,
         failed |-> FALSE, stale |-> FALSE]

ImpInit ==
    /\ kind \in Kinds
    /\ status = "DRAFT"
    /\ rows = [r \in Rows |-> "none"]
    /\ audit = {}
    /\ stored = [k \in Keys |-> 0]
    /\ handlers = [h \in Handlers |-> Idle]
    /\ crashed = FALSE

At(h, op, step) == handlers[h].op = op /\ handlers[h].step = step
Go(h, step) == handlers' = [handlers EXCEPT ![h].step = step]
Leave(h) == handlers' = [handlers EXCEPT ![h] = Idle]
Start(h, op) ==
    /\ handlers[h].op = "idle"
    /\ handlers' = [handlers EXCEPT ![h] = [Idle EXCEPT !.op = op, !.step = "begin"]]
    /\ UNCHANGED <<kind, status, rows, audit, stored, crashed>>

Touched(h) == {r \in Rows : handlers[h].pending.out[r] # "none"}
Written(h) == handlers[h].pending # [Pending EXCEPT !.chunk = handlers[h].pending.chunk]
Others(h) == Handlers \ {h}

-----------------------------------------------------------------------------
(* Validation.                                                             *)

(* The mapping of guardians is validated again from any state. *)
StartValidate(h) ==
    /\ kind = "GUARDIAN_MAPPING" \/ status = "DRAFT"
    /\ Start(h, "validate")

BeginValidate(h) ==
    /\ At(h, "validate", "begin")
    /\ status' = "VALIDATING"
    /\ Go(h, IF kind = "GUARDIAN_MAPPING" THEN "sweep" ELSE "stage")
    /\ UNCHANGED <<kind, rows, audit, stored, crashed>>

(* Deleting the staging rows of a job waits for the transaction that has   *)
(* written some of them, and takes them from the requests that hold them.  *)
Unlocked(h) == \A g \in Others(h) : ~Written(g)
Restaged(h) ==
    [g \in Handlers |-> IF g = h THEN Idle
                        ELSE [handlers[g] EXCEPT !.stale =
                                @ \/ handlers[g].pending.chunk # {}]]

SweepMapping(h) ==
    /\ At(h, "validate", "sweep")
    /\ Unlocked(h)
    /\ rows' = [r \in Rows |-> "none"]
    /\ audit' = {}
    /\ handlers' = [Restaged(h) EXCEPT ![h] = [handlers[h] EXCEPT !.step = "stage"]]
    /\ UNCHANGED <<kind, status, stored, crashed>>

(* Rows that validation may find valid: those whose record is not there,   *)
(* but an academic setup resolves to what it finds.                        *)
StudentsToCreate == {r \in Rows : stored[r] = 0}
SetupsToResolve == Rows
GuardiansToCreate == {r \in Rows : stored[r] = 0}
MappingsToCreate == {r \in Rows : stored[MappingOf[r]] = 0}
Acceptable ==
    CASE kind = "STUDENTS" -> StudentsToCreate
      [] kind = "ACADEMIC_SETUP" -> SetupsToResolve
      [] kind = "GUARDIANS" -> GuardiansToCreate
      [] kind = "GUARDIAN_MAPPING" -> MappingsToCreate

(* Staging, audit rows and status are one transaction.  Setups and         *)
(* guardians delete what is there first; for the others a second audit row *)
(* of a row violates its key.                                              *)
Stage(h) ==
    /\ At(h, "validate", "stage")
    /\ Unlocked(h)
    /\ kind \in {"STUDENTS", "GUARDIAN_MAPPING"} => audit = {}
    /\ \E valid \in SUBSET Acceptable :
           rows' = [r \in Rows |-> IF r \in valid THEN "valid" ELSE "invalid"]
    /\ audit' = Rows
    /\ status' = "VALIDATED"
    /\ handlers' = IF kind \in {"ACADEMIC_SETUP", "GUARDIANS"} THEN Restaged(h)
                   ELSE [handlers EXCEPT ![h] = Idle]
    /\ UNCHANGED <<kind, stored, crashed>>

(* A file without its columns.  After an error of the database students    *)
(* cannot even report it: the session is not rolled back.                  *)
RefuseStudents(h) ==
    /\ kind = "STUDENTS" /\ At(h, "validate", "stage")
    /\ status' \in {"FAILED", status}
    /\ Leave(h)
    /\ UNCHANGED <<kind, rows, audit, stored, crashed>>
RefuseFile(h) ==
    /\ kind # "STUDENTS" /\ handlers[h].op = "validate" /\ handlers[h].step # "begin"
    /\ status' = "DRAFT"
    /\ Leave(h)
    /\ UNCHANGED <<kind, rows, audit, stored, crashed>>

(* create_row_results: a worker reports the outcome of a row. *)
ReportRow(r) ==
    /\ status \in {"VALIDATING", "RUNNING"}
    /\ r \notin audit
    /\ \A h \in Handlers : r \notin Touched(h) \cup handlers[h].pending.skipped
    /\ audit' = audit \cup {r}
    /\ UNCHANGED <<kind, status, rows, stored, handlers, crashed>>

-----------------------------------------------------------------------------
(* Execution.                                                              *)

StartExecute(h) == status = "VALIDATED" /\ Start(h, "execute")

BeginExecute(h) ==
    /\ At(h, "execute", "begin")
    /\ status' = "RUNNING"
    /\ Go(h, IF kind \in GuardianKinds THEN "sweep" ELSE "select")
    /\ UNCHANGED <<kind, rows, audit, stored, crashed>>

(* Guardians and mappings start their audit anew, with the invalid rows as *)
(* skipped; the commits in between only flush.                             *)
SweepAudit(h) ==
    /\ At(h, "execute", "sweep")
    /\ \A g \in Others(h) : handlers[g].pending.swept = {}
    /\ handlers' = [handlers EXCEPT ![h].step = "select",
                      ![h].pending.swept = audit,
                      ![h].pending.skipped = {r \in Rows : rows[r] = "invalid"}]
    /\ UNCHANGED <<kind, status, rows, audit, stored, crashed>>

(* The first rows that are still valid. *)
ValidRows == {r \in Rows : rows[r] = "valid"}
SelectChunk(h) ==
    /\ At(h, "execute", "select")
    /\ handlers' = [handlers EXCEPT
                      ![h].step = IF ValidRows = {} THEN "finish" ELSE "rows",
                      ![h].stale = FALSE,
                      ![h].pending.chunk = {r \in ValidRows :
                          Cardinality({q \in ValidRows : q < r}) < ChunkSize}]
    /\ UNCHANGED <<kind, status, rows, audit, stored, crashed>>

(* The records a row inserts, or {} if one that it may not find is there.  *)
Missing(h, r) == {k \in Needs(r) : stored[k] = 0} \ handlers[h].pending.new
StudentRow(h, r) == Missing(h, r) = {r}
SetupRow(h, r) == TRUE
GuardianRow(h, r) == Missing(h, r) = {r}
MappingRow(h, r) == Missing(h, r) = {MappingOf[r]}
Storable(h, r) ==
    CASE kind = "STUDENTS" -> StudentRow(h, r)
      [] kind = "ACADEMIC_SETUP" -> SetupRow(h, r)
      [] kind = "GUARDIANS" -> GuardianRow(h, r)
      [] kind = "GUARDIAN_MAPPING" -> MappingRow(h, r)

(* An insert waits for the transaction that has inserted the same key. *)
Waits(h, r) ==
    \E g \in Others(h) : r \in Touched(g) \/ Needs(r) \cap handlers[g].pending.new # {}

(* Slip: a row that failed keeps the status it had. *)
KeptValid(h, r, outcome) ==
    IF outcome = "done"
    THEN [handlers[h].pending EXCEPT !.out[r] = "done", !.new = @ \cup Missing(h, r)]
    ELSE [handlers[h].pending EXCEPT !.chunk = @ \ {r}]

(* Slip: without a savepoint, what a row inserted before it failed stays. *)
NoSavepoint(h, r, outcome) ==
    [handlers[h].pending EXCEPT !.out[r] = outcome, !.new = @ \cup Missing(h, r)]

(* A row that fails leaves nothing but its outcome: the savepoint. *)
Outcome(h, r, outcome) ==
    [handlers[h].pending EXCEPT !.out[r] = outcome,
        !.new = IF outcome = "done" THEN @ \cup Missing(h, r) ELSE @]

NextRow(h, r) ==
    /\ r \in handlers[h].pending.chunk \ Touched(h)
    /\ \A q \in handlers[h].pending.chunk \ Touched(h) : r <= q

(* Creating a record may fail for reasons of its own. *)
ExecuteRow(h, r) ==
    /\ At(h, "execute", "rows") /\ ~handlers[h].stale
    /\ NextRow(h, r)
    /\ ~Waits(h, r)
    /\ \E outcome \in {"done", "failed"} :
           /\ outcome = "done" => Storable(h, r)
           /\ handlers' = [handlers EXCEPT ![h].pending = Outcome(h, r, outcome),
                                           ![h].failed = @ \/ outcome = "failed"]
    /\ UNCHANGED <<kind, status, rows, audit, stored, crashed>>

Audited(h) == Touched(h) \cup handlers[h].pending.skipped

(* An audit row that is inserted finds no other of its row; that of a      *)
(* student or a setup is updated, or stays away.                           *)
Committable(h) ==
    kind \in GuardianKinds =>
        audit \cap Audited(h) \subseteq handlers[h].pending.swept

Commit(h) ==
    LET p == handlers[h].pending
    IN  /\ Committable(h)
        /\ rows' = [r \in Rows |-> IF r \in Touched(h) THEN p.out[r] ELSE rows[r]]
        /\ audit' = IF kind \in GuardianKinds THEN (audit \ p.swept) \cup Audited(h)
                    ELSE audit
        /\ stored' = [k \in Keys |-> stored[k] + (IF k \in p.new THEN 1 ELSE 0)]

ChunkDone(h) == /\ At(h, "execute", "rows")
                /\ handlers[h].pending.chunk \subseteq Touched(h)

CommitChunk(h) ==
    /\ ChunkDone(h)
    /\ Commit(h)
    /\ handlers' = [handlers EXCEPT ![h].step = "select", ![h].pending = Pending]
    /\ UNCHANGED <<kind, status, crashed>>

(* Students count what is in the database, the invalid rows as failures;   *)
(* setups do not count those; guardians count as they go.                  *)
StudentErrors == \E r \in Rows : rows[r] \in {"invalid", "failed"}
SetupErrors == \E r \in Rows : rows[r] = "failed"
GuardianErrors(h) == handlers[h].failed
Errors(h) ==
    CASE kind = "STUDENTS" -> StudentErrors
      [] kind = "ACADEMIC_SETUP" -> SetupErrors
      [] kind \in GuardianKinds -> GuardianErrors(h)

Finish(h) ==
    /\ At(h, "execute", "finish")
    /\ Commit(h)
    /\ Leave(h)
    /\ status' = IF Errors(h) THEN "COMPLETED_WITH_ERRORS" ELSE "COMPLETED"
    /\ UNCHANGED <<kind, crashed>>

(* The update of a staging row that was deleted, or a key that is taken,   *)
(* breaks the transaction.  Guardians and mappings roll back and report    *)
(* it; the others report it in the broken session, which fails, and leave  *)
(* the job as it is.                                                       *)
RolledBack(h) ==
    /\ status' = IF kind \in GuardianKinds THEN "FAILED" ELSE status
    /\ Leave(h)
    /\ UNCHANGED <<kind, rows, audit, stored>>
Abandon(h) ==
    /\ \/ At(h, "execute", "rows") /\ handlers[h].stale
       \/ (ChunkDone(h) \/ At(h, "execute", "finish")) /\ ~Committable(h)
    /\ RolledBack(h)
    /\ UNCHANGED crashed

(* An error of the database outside the rows, or the end of the process: a *)
(* student job that is hit by the one looks as if hit by the other.        *)
FailExecution(h) ==
    /\ kind \in GuardianKinds
    /\ handlers[h].op = "execute" /\ handlers[h].step # "begin"
    /\ RolledBack(h)
    /\ UNCHANGED crashed
Crash(h) ==
    /\ handlers[h].op # "idle"
    /\ crashed' = TRUE
    /\ Leave(h)
    /\ UNCHANGED <<kind, status, rows, audit, stored>>

(* cancel_job: an execution in progress does not notice. *)
StartCancel(h) == status \notin Terminal /\ Start(h, "cancel")
CommitCancel(h) ==
    /\ At(h, "cancel", "begin")
    /\ status' = "CANCELLED"
    /\ Leave(h)
    /\ UNCHANGED <<kind, rows, audit, stored, crashed>>

-----------------------------------------------------------------------------
ExecuteStep(h) ==
    \/ BeginExecute(h) \/ SweepAudit(h) \/ SelectChunk(h)
    \/ \E r \in Rows : ExecuteRow(h, r)
    \/ CommitChunk(h) \/ Finish(h) \/ Abandon(h)

ImpNext ==
    \/ \E h \in Handlers :
          \/ StartValidate(h) \/ BeginValidate(h) \/ SweepMapping(h)
          \/ Stage(h) \/ RefuseStudents(h) \/ RefuseFile(h)
          \/ StartExecute(h) \/ ExecuteStep(h) \/ FailExecution(h) \/ Crash(h)
          \/ StartCancel(h) \/ CommitCancel(h)
    \/ \E r \in Rows : ReportRow(r)

(* The code awaits each step of an execution inside one request: while the *)
(* process lives, it goes on.                                              *)
ImpSpec ==
    /\ ImpInit /\ [][ImpNext]_impVars
    /\ \A h \in Handlers : WF_impVars(ExecuteStep(h))

-----------------------------------------------------------------------------
(* Correctness.                                                            *)

(* execute_..._job: whatever executions, validations, cancellations and    *)
(* crashes overlap, no record is stored twice, a row that is reported done *)
(* has all its records, and what a transaction is about to store belongs   *)
(* to a row that it is about to report done: a row that fails inserts      *)
(* nothing.                                                                *)
(* A row that is reported failed may be stored all the same: the second of *)
(* two rows that name one mapping, or the second of two executions, finds  *)
(* what the first has stored.                                              *)
StoredOnce == \A k \in Keys : stored[k] <= 1
DoneIsStored ==
    \A r \in Rows : rows[r] = "done" => \A k \in Needs(r) : stored[k] = 1
InsertedByDone ==
    \A h \in Handlers : \A k \in handlers[h].pending.new :
        \E r \in Rows : handlers[h].pending.out[r] = "done" /\ k \in Needs(r)
OutcomeIsTrue == StoredOnce /\ DoneIsStored /\ InsertedByDone

(* A job that is running reaches another state, unless an execution was    *)
(* lost: the loop over the valid rows ends.                                *)
JobEnds == (status = "RUNNING") ~> (status # "RUNNING" \/ crashed)
=============================================================================
