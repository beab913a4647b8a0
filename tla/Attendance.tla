----------------------------- MODULE Attendance -----------------------------
(***************************************************************************)
(* Attendance of one class, section and day: services/attendance.py, with  *)
(* the import that the admin portal sends in batches, each again after a   *)
(* failure or a timeout, until the server says that it is in.              *)
(*                                                                         *)
(* Sessions and rows of attendance have version columns, the import job    *)
(* has none: what a batch writes there was computed from what it read, and *)
(* only the columns that this changes are written.                         *)
(* A batch reads the job first and the register later.  A request whose    *)
(* client gave up goes on running.                                         *)
(***************************************************************************)
EXTENDS Integers, FiniteSets

CONSTANTS
    Students,
    StaffRows,      \* bound: the students that the staff mark at once
    Batches,        \* 1..n: the batches of the import
    RowsOf,         \* the students of each batch
    Replace,        \* the conflict strategy: REPLACE_EXISTING, or SKIP_EXISTING
    Handlers,       \* requests that run at the same time
    None,
    MaxVersion,     \* bound: updates of a row, or of the day, by the staff
    MaxFaults       \* bound: timeouts and errors the import meets

ASSUME AttendanceAssumption ==
    /\ IsFiniteSet(Students) /\ StaffRows \subseteq SUBSET Students
    /\ IsFiniteSet(Batches) /\ Batches # {} /\ Batches = 1..Cardinality(Batches)
    /\ RowsOf \in [Batches -> SUBSET Students]
    /\ \A b \in Batches : RowsOf[b] # {}   \* the portal sends no empty batch
    /\ None \notin {"DRAFT", "SUBMITTED", "LOCKED", "DELETED",
                    "marked", "imported", "deleted"} \cup Handlers
    /\ Replace \in BOOLEAN /\ MaxVersion \in Nat /\ MaxFaults \in Nat

VARIABLES
    day,        \* the attendance session of the day
    register,   \* its rows: what each student has is from a batch, "imported",
                \* from anyone else, "marked", or gone with the day, "deleted"
    job,        \* the import job
    handlers,   \* what each running request holds
    client,     \* the import of the portal: its next batch, what it waits for
    faults      \* timeouts and errors so far

attVars == <<day, register, job, handlers, client, faults>>

DayStatus == {"DRAFT", "SUBMITTED", "LOCKED"}
NoJob == [status |-> "NONE", batches |-> {}, processed |-> 0]
Idle == [op |-> "idle", step |-> "none", batch |-> None, job |-> NoJob,
         admin |-> FALSE, dayNew |-> None, daySeen |-> 0,
         rows |-> {}, seen |-> [st \in Students |-> 0], content |-> None]

AttInit ==
    /\ day = [status |-> "NONE", version |-> 0]
    /\ register = [st \in Students |-> [content |-> None, version |-> 0]]
    /\ job = NoJob
    /\ handlers = [h \in Handlers |-> Idle]
    /\ client = [next |-> 1, state |-> "ready", waitsFor |-> None]
    /\ faults = 0

-----------------------------------------------------------------------------
(* Requests.                                                               *)

Marked == {st \in Students : register[st].content # None}
Holding(session, rows, content) ==
    [session EXCEPT !.rows = rows, !.content = content,
                    !.seen = [st \in Students |-> IF st \in rows
                                                  THEN register[st].version ELSE 0]]
WithDay(session, status) ==
    [session EXCEPT !.dayNew = status, !.daySeen = day.version]

(* The handler that starts is idle (AttNext). *)
Begin(h, session) ==
    /\ session.op # "chunk" =>
           /\ \A st \in session.rows : register[st].version < MaxVersion
           /\ session.dayNew # None => day.version < MaxVersion
    /\ handlers' = [handlers EXCEPT ![h] = session]
    /\ UNCHANGED <<day, register, job, client, faults>>

(* A teacher may not write to a locked day; an administrator may. *)
Open(admin) == day.status # "LOCKED" \/ admin

(* mark_daily_attendance creates the day or submits it again, with the rows *)
(* that differ; it may find none.  A deleted day still occupies its key.   *)
StartMark(h, rows, admin) ==
    /\ day.status # "DELETED" /\ Open(admin)
    /\ Begin(h, WithDay(Holding([Idle EXCEPT !.op = "mark", !.admin = admin],
                                rows, "marked"), "SUBMITTED"))

(* bulk_mark_attendance of an existing day, to any status. *)
StartBulkMark(h, rows, admin, status) ==
    /\ day.status \in DayStatus /\ Open(admin)
    /\ Begin(h, WithDay(Holding([Idle EXCEPT !.op = "mark", !.admin = admin],
                                rows, "marked"), status))

(* correct_student_attendance: reads the day and writes only the row. *)
StartCorrect(h, st, admin) ==
    /\ day.status \in DayStatus /\ Open(admin) /\ st \in Marked
    /\ Begin(h, Holding([Idle EXCEPT !.op = "correct", !.admin = admin],
                        {st}, "marked"))

(* A day that an import writes to is submitted, also a locked one. *)
Submitting(session) == IF day.status = "SUBMITTED" THEN session
                       ELSE WithDay(session, "SUBMITTED")

(* execute_bulk_attendance_import: the rows that an earlier validation left *)
(* to import, whatever was marked since; it does not ask for the lock.     *)
StartExecute(h, rows) ==
    /\ rows # {} /\ day.status # "DELETED"
    /\ Begin(h, Submitting(Holding([Idle EXCEPT !.op = "execute", !.admin = TRUE],
                                   rows, "marked")))

(* lock_session and delete_session are for administrators. *)
StartLock(h) ==
    /\ day.status \in DayStatus \ {"LOCKED"}
    /\ Begin(h, WithDay([Idle EXCEPT !.op = "lock", !.admin = TRUE], "LOCKED"))
StartDelete(h) ==
    /\ day.status \in DayStatus
    /\ Begin(h, WithDay(Holding([Idle EXCEPT !.op = "delete", !.admin = TRUE],
                                Marked, "deleted"), "DELETED"))

(* Slip: marking leaves the session of the day as it is. *)
RowsOnly(s) == \A st \in s.rows : register[st].version = s.seen[st]

(* Slip: one student may have two rows in a session. *)
NoUniqueRow(s) ==
    /\ \A st \in s.rows : s.seen[st] > 0 => register[st].version = s.seen[st]
    /\ s.dayNew # None => day.version = s.daySeen

(* Versions of the rows updated; unique keys of the rows inserted. *)
Fresh(s) ==
    /\ \A st \in s.rows : register[st].version = s.seen[st]
    /\ s.dayNew # None => day.version = s.daySeen
    /\ s.op = "chunk" /\ s.job = NoJob => job = NoJob

Write(s) ==
    /\ register' = [st \in Students |->
                      IF st \in s.rows
                      THEN [content |-> s.content, version |-> register[st].version + 1]
                      ELSE register[st]]
    /\ day' = IF s.dayNew = None THEN day
              ELSE [status |-> s.dayNew, version |-> day.version + 1]

CommitStaff(h) ==
    /\ handlers[h].op \in {"mark", "correct", "execute", "lock", "delete"}
    /\ Fresh(handlers[h])
    /\ Write(handlers[h])
    /\ handlers' = [handlers EXCEPT ![h] = Idle]
    /\ UNCHANGED <<job, client, faults>>

-----------------------------------------------------------------------------
(* The import: executeImport in the portal, import_attendance_chunk here.  *)

Send(h) ==
    /\ client.state = "ready"
    /\ handlers[h].op = "idle"
    /\ client' = [client EXCEPT !.state = "waiting", !.waitsFor = h]
    /\ handlers' = [handlers EXCEPT ![h] = [Idle EXCEPT !.op = "chunk",
                                              !.step = "received",
                                              !.batch = client.next]]
    /\ UNCHANGED <<day, register, job, faults>>

(* Every batch that the server has confirmed is followed by the next one. *)
Confirmed(h) ==
    client' = IF client.waitsFor # h THEN client
              ELSE [next |-> client.next + 1, waitsFor |-> None,
                    state |-> IF client.next + 1 \in Batches THEN "ready" ELSE "done"]
Refused(h) ==
    client' = IF client.waitsFor # h THEN client
              ELSE [client EXCEPT !.state = "failed", !.waitsFor = None]

(* "Retry Remaining Records" starts again with the batch that failed. *)
Retry ==
    /\ client.state = "failed"
    /\ client' = [client EXCEPT !.state = "ready"]
    /\ UNCHANGED <<day, register, job, handlers, faults>>

(* The portal waits for 60 seconds; the request runs on. *)
Timeout ==
    /\ client.state = "waiting" /\ faults < MaxFaults
    /\ client' = [client EXCEPT !.state = "failed", !.waitsFor = None]
    /\ faults' = faults + 1
    /\ UNCHANGED <<day, register, job, handlers>>

(* Slip: a batch that was already committed is answered with an error. *)
ConfirmNew(h) ==
    IF handlers[h].batch \in job.batches THEN Refused(h) ELSE Confirmed(h)

(* ALREADY_COMMITTED is a success. *)
ConfirmKnown(h) == Confirmed(h)

(* The job, and the batches it lists as committed. *)
ReadJob(h) ==
    /\ handlers[h].op = "chunk" /\ handlers[h].step = "received"
    /\ IF handlers[h].batch \in job.batches
       THEN /\ handlers' = [handlers EXCEPT ![h] = Idle]
            /\ ConfirmKnown(h)
       ELSE /\ handlers' = [handlers EXCEPT ![h].step = "job", ![h].job = job]
            /\ UNCHANGED client
    /\ UNCHANGED <<day, register, job, faults>>

(* The day and the rows.  Rows that exist are replaced where they differ,  *)
(* or skipped.                                                             *)
ReadRows(h) ==
    LET s == [handlers[h] EXCEPT !.step = "rows"]
        rows == IF Replace
                THEN {st \in RowsOf[s.batch] : register[st].content # "imported"}
                ELSE RowsOf[s.batch] \ Marked
    IN  /\ s.op = "chunk" /\ handlers[h].step = "job"
        /\ day.status # "DELETED"
        /\ Begin(h, Submitting(Holding(s, rows, "imported")))

(* What a batch makes of the status: the column is written if it differs   *)
(* from what the batch has read, and stays as others left it if not.       *)
StatusWith(s, batches) ==
    LET status == IF Cardinality(batches) >= Cardinality(Batches)
                  THEN "COMPLETED" ELSE "PARTIAL"
    IN  IF status = s.job.status THEN job.status ELSE status

(* Slip: the counters are added up in the database, the batches are not. *)
AddedInPlace(s) ==
    LET batches == s.job.batches \cup {s.batch}
    IN  [status |-> StatusWith(s, batches),
         batches |-> batches,
         processed |-> job.processed + Cardinality(RowsOf[s.batch])]

(* The list of batches and the counters change with every batch.           *)
Recorded(s) ==
    LET batches == s.job.batches \cup {s.batch}
    IN  [status |-> StatusWith(s, batches),
         batches |-> batches,
         processed |-> s.job.processed + Cardinality(RowsOf[s.batch])]

CommitChunk(h) ==
    LET s == handlers[h] IN
    /\ s.op = "chunk" /\ s.step = "rows"
    /\ Fresh(s)
    /\ Write(s)
    /\ job' = Recorded(s)
    /\ handlers' = [handlers EXCEPT ![h] = Idle]
    /\ Confirmed(h)
    /\ UNCHANGED faults

(* The commit, or the flush of a new row, finds that others were faster;   *)
(* a batch for a deleted day cannot create it again.                       *)
Reject(h) ==
    LET s == handlers[h] IN
    /\ s.op # "idle"
    /\ CASE s.op = "chunk" /\ s.step = "received" -> FALSE
         [] s.op = "chunk" /\ s.step = "job" -> day.status = "DELETED"
         [] OTHER -> ~Fresh(s)
    /\ handlers' = [handlers EXCEPT ![h] = Idle]
    /\ Refused(h)
    /\ UNCHANGED <<day, register, job, faults>>

(* A database error, or the end of the process that runs the request. *)
Break(h) ==
    /\ handlers[h].op # "idle" /\ faults < MaxFaults
    /\ handlers' = [handlers EXCEPT ![h] = Idle]
    /\ faults' = faults + 1
    /\ Refused(h)
    /\ UNCHANGED <<day, register, job>>

-----------------------------------------------------------------------------
Proceed(h) == ReadJob(h) \/ ReadRows(h) \/ CommitChunk(h) \/ CommitStaff(h) \/ Reject(h)

AttNext ==
    \/ \E h \in {x \in Handlers : handlers[x].op = "idle"} :
        \/ \E rows \in StaffRows, admin \in BOOLEAN :
              \/ StartMark(h, rows, admin)
              \/ \E status \in DayStatus : StartBulkMark(h, rows, admin, status)
        \/ \E rows \in StaffRows : StartExecute(h, rows)
        \/ \E st \in UNION StaffRows, admin \in BOOLEAN : StartCorrect(h, st, admin)
        \/ StartLock(h) \/ StartDelete(h)
    \/ \E h \in Handlers : Send(h) \/ Break(h)
    \/ \E h \in Handlers : ReadJob(h) \/ ReadRows(h) \/ CommitChunk(h)
                             \/ CommitStaff(h) \/ Reject(h)
    \/ Retry \/ Timeout

AttSpec == AttInit /\ [][AttNext]_attVars

(* A request that runs goes on, and the user sends what remains. *)
AttFairness ==
    /\ \A h \in Handlers : WF_attVars(Proceed(h))
    /\ WF_attVars(Retry)
    /\ WF_attVars(\E h \in Handlers : Send(h))

FairAttSpec == AttSpec /\ AttFairness

-----------------------------------------------------------------------------
(* Properties.                                                             *)

(* What the job says has happened, whichever batches overlapped on their   *)
(* way: the rows of every batch that it lists, which is never sent again,  *)
(* are in the register, and those of all batches if it says COMPLETED; its *)
(* count is that of the list.  Only deleting the day, or the row with it,  *)
(* takes them out.  COMPLETED does not say that all are listed: a late     *)
(* batch may write an old list and leave the status as it is.              *)
RowsIn(batches) == {row \in batches \X Students : row[2] \in RowsOf[row[1]]}
JobIsTrue ==
    /\ job.processed = Cardinality(RowsIn(job.batches))
    /\ day.status # "DELETED" =>
          \A b \in Batches : b \in job.batches \/ job.status = "COMPLETED"
                             => RowsOf[b] \subseteq Marked

(* A teacher's marks never reach a day that was locked after the teacher's *)
(* request had looked at it.                                               *)
LockStopsTeachers ==
    [][\A h \in Handlers :
          /\ handlers[h].op = "mark" /\ ~handlers[h].admin
          /\ register' # register /\ handlers'[h] = Idle
          => day.status # "LOCKED"]_attVars

(* An import that is to skip existing attendance replaces no mark, not     *)
(* even one that was made while the batch was being prepared.              *)
SkipKeepsMarks ==
    [][~Replace =>
        \A st \in Marked : register'[st].content = "imported" =>
                               register'[st] = register[st]]_attVars

(* With the retries of its user, every import ends, unless the day goes    *)
(* away, whatever was lost: a response, a request or a race.               *)
ImportEnds == <>(client.state = "done" \/ day.status = "DELETED")

=============================================================================
