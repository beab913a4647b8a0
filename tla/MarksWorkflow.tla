--------------------------- MODULE MarksWorkflow ---------------------------
(***************************************************************************)
(* Entry, review and publication of the marks of one examination:          *)
(* services/marks.py and the status lifecycle of services/examination.py.  *)
(*                                                                         *)
(* A handler reads rows, awaits, and commits.  Every row it updates is     *)
(* compared with the version it was read at (version_id_col of Marks and   *)
(* Examination), every row it inserts meets the unique constraint on       *)
(* schedule and student and the foreign key to the schedule; when one of   *)
(* them fails the whole transaction is rolled back.  The rows a handler    *)
(* reads are read here in one step: a commit that succeeds found the rows  *)
(* it writes unchanged, and one that fails leaves nothing.                 *)
(*                                                                         *)
(* An update always issues its UPDATE: the audit history, or updated_by,   *)
(* differs.  Papers are the schedules of one class and section.            *)
(***************************************************************************)
EXTENDS Integers, FiniteSets

CONSTANTS
    Papers,         \* exam schedules: one subject of the class each
    Students,       \* students of the school
    Requests,       \* handlers that run at the same time
    Editors,        \* teachers with a mark entry form open
    Entries,        \* what a client may enter: [result, value]
    MaxMarks,       \* maximum marks of every paper
    SaveStatuses,   \* statuses a client may send along with an entry
    Overrides,      \* examination statuses an administrator may force
    None,           \* no value, no status
    MaxVersion,     \* bound: updates of one row of marks
    MaxExamVersion  \* bound: updates of the examination

MarksStatus == {"DRAFT", "SUBMITTED", "UNDER_REVIEW", "RETURNED",
                "APPROVED", "PUBLISHED", "LOCKED"}
ExamStatus == {"DRAFT", "SCHEDULED", "ONGOING", "MARKS_ENTRY", "UNDER_REVIEW",
               "APPROVED", "PUBLISHED", "LOCKED", "COMPLETED", "ARCHIVED"}
ExamResult == {"PRESENT", "ABSENT", "EXEMPTED", "MALPRACTICE"}

ASSUME MarksAssumption ==
    /\ MaxMarks \in Nat /\ None \notin Int /\ None \notin MarksStatus
    /\ Entries \subseteq [result: ExamResult, value: Int \cup {None}]
    /\ SaveStatuses \subseteq MarksStatus
    /\ Overrides \subseteq ExamStatus /\ None \notin ExamStatus
    /\ MaxVersion \in Nat /\ MaxExamVersion \in Nat

VARIABLES
    exam,       \* the examination row; DELETED: soft, GONE: with its rows
    marks,      \* marks, one row per paper and student
    enrolled,   \* active students of the class and section
    forms,      \* what each editor's form shows: entries with their versions
    requests    \* what each running handler holds in its session

marksVars == <<exam, marks, enrolled, forms, requests>>

Mark == Papers \X Students
Entry == [result: ExamResult, value: Int \cup {None}]
MarkRow == [status: MarksStatus \cup {"MISSING"}, entry: Entry \cup {None},
            version: Nat]
Shown == [entry: Entry \cup {None}, version: Nat]
ExamRow == [status: ExamStatus \cup {"DELETED", "GONE"}, version: Nat]
ReviewOps == {"submit", "approve", "return", "publish", "lock"}
Ops == ReviewOps \cup {"unlock", "save", "confirm", "upload", "publish_exam",
                       "unpublish_exam", "transition", "delete", "purge"}

(* A session: the operation, the rows it will write, the versions it read   *)
(* them at and what it leaves there, the version of the examination and the *)
(* status it writes, if any, and for the rows it saves with a version the   *)
(* entry that the client's form showed.                                     *)
Session == [op: Ops \cup {"idle"},
            touched: SUBSET Mark,
            seen: [Mark -> Nat], new: [Mark -> MarkRow],
            examSeen: Nat,
            examNew: ExamStatus \cup {None},
            checked: SUBSET Mark,
            shown: [Mark -> Entry \cup {None}]]

Missing == [status |-> "MISSING", entry |-> None, version |-> 0]
Idle == [op |-> "idle", touched |-> {},
         seen |-> [m \in Mark |-> 0], new |-> [m \in Mark |-> Missing],
         examSeen |-> 0, examNew |-> None,
         checked |-> {}, shown |-> [m \in Mark |-> None]]

MarksShape ==
    /\ exam \in ExamRow
    /\ marks \in [Mark -> MarkRow]
    /\ enrolled \in SUBSET Students
    /\ forms \in [Editors -> [Mark -> Shown]]
    /\ requests \in [Requests -> Session]

(* What a save or an upload is about to write is within the paper's maximum; *)
(* a confirmed sheet is written as the client sent it.                      *)
HeldInRange(s) ==
    s.op \in {"save", "upload"} =>
        \A m \in s.touched : s.new[m].entry.value \in 0..MaxMarks \cup {None}

(* The types, and the one bound on values that holds while a handler runs:  *)
(* the paths that check a value hold no other when they come to commit.     *)
MarksTypeOK ==
    /\ MarksShape
    /\ \A r \in Requests : HeldInRange(requests[r])

MarksInit ==
    /\ exam = [status |-> "DRAFT", version |-> 1]
    /\ marks = [m \in Mark |-> Missing]
    /\ enrolled = Students
    /\ forms = [e \in Editors |-> [m \in Mark |-> [entry |-> None, version |-> 0]]]
    /\ requests = [r \in Requests |-> Idle]

-----------------------------------------------------------------------------
(* Rules of the workflow.                                                  *)

(* _validate_marks_transition. *)
Successors(status) ==
    CASE status \in {"DRAFT", "RETURNED"} -> {"SUBMITTED"}
      [] status = "SUBMITTED" -> {"UNDER_REVIEW", "APPROVED", "RETURNED"}
      [] status = "UNDER_REVIEW" -> {"APPROVED", "RETURNED"}
      [] status = "APPROVED" -> {"PUBLISHED"}
      [] status = "PUBLISHED" -> {"LOCKED"}
      [] OTHER -> {}
Allowed(from, to) == from = to \/ to \in Successors(from)

(* ALLOWED_TRANSITIONS of the examination; LOCKED is not in it. *)
ExamSuccessors(status) ==
    CASE status = "DRAFT" -> {"SCHEDULED"}
      [] status = "SCHEDULED" -> {"DRAFT", "ONGOING"}
      [] status = "ONGOING" -> {"MARKS_ENTRY"}
      [] status = "MARKS_ENTRY" -> {"UNDER_REVIEW"}
      [] status = "UNDER_REVIEW" -> {"MARKS_ENTRY", "APPROVED"}
      [] status = "APPROVED" -> {"PUBLISHED"}
      [] status = "PUBLISHED" -> {"COMPLETED"}
      [] status = "COMPLETED" -> {"ARCHIVED"}
      [] OTHER -> {}

Frozen == {"LOCKED", "COMPLETED", "ARCHIVED"}
ExamExists == exam.status \in ExamStatus
Entered == {m \in Mark : marks[m].status # "MISSING"}
Rows(p) == {m \in Entered : m[1] = p}

(* bulk_save_marks: the absent have no value, a value is within the paper. *)
Sanitised(e) == IF e.result \in {"ABSENT", "MALPRACTICE"}
                THEN [e EXCEPT !.value = None] ELSE e

(* Slip: the maximum of the paper is not looked at. *)
NoMaximum(e) == e.value # None => e.value >= 0

InRange(e) == e.value # None => e.value \in 0..MaxMarks
Acceptable(e, autosave) ==
    /\ (e.result = "PRESENT" /\ ~autosave) => e.value # None
    /\ InRange(Sanitised(e))

(* import_class_all_subjects_marks: here the absent have a zero. *)
Uploaded(e) == CASE e.result \in {"ABSENT", "MALPRACTICE"} ->
                        [e EXCEPT !.value = 0]
                 [] e.result = "EXEMPTED" -> [e EXCEPT !.value = None]
                 [] OTHER -> e

-----------------------------------------------------------------------------
(* Sessions: what a handler holds until it commits, and its commit.  The   *)
(* handler that starts is idle (MarksNext).                                *)

Holding(op, rows, new) ==
    [Idle EXCEPT !.op = op, !.touched = rows,
                 !.seen = [m \in Mark |-> IF m \in rows THEN marks[m].version
                                                        ELSE 0],
                 !.new = [m \in Mark |-> IF m \in rows THEN new[m]
                                                       ELSE Missing]]
Restated(rows, status) ==
    [m \in rows |-> [marks[m] EXCEPT !.status = status]]
Bounded(rows) == \A m \in rows : marks[m].version < MaxVersion

Begin(r, session) ==
    /\ Bounded(session.touched)
    /\ session.examNew # None => exam.version < MaxExamVersion
    /\ requests' = [requests EXCEPT ![r] = session]
    /\ UNCHANGED <<exam, marks, enrolled, forms>>

(* Slip: Marks is mapped without a version column. *)
FreshWithoutVersions(s) ==
    /\ \A m \in s.touched :
           s.seen[m] = 0 => marks[m].version = 0 /\ exam.status # "GONE"
    /\ s.examNew # None => exam.version = s.examSeen /\ exam.status # "GONE"

(* Slip: the schedule of a new row is not a foreign key. *)
FreshWithoutKey(s) ==
    /\ \A m \in s.touched : marks[m].version = s.seen[m]
    /\ s.examNew # None => exam.version = s.examSeen /\ exam.status # "GONE"

(* Slip: the examination has no version column. *)
FreshWithoutExam(s) ==
    \A m \in s.touched : /\ marks[m].version = s.seen[m]
                        /\ s.seen[m] = 0 => exam.status # "GONE"

(* The versions that the UPDATEs, and the constraints that the INSERTs, of *)
(* the commit are checked against.                                         *)
Fresh(s) ==
    /\ \A m \in s.touched : /\ marks[m].version = s.seen[m]
                            /\ s.seen[m] = 0 => exam.status # "GONE"
    /\ s.examNew # None => exam.version = s.examSeen /\ exam.status # "GONE"

Commit(r) ==
    LET s == requests[r] IN
    /\ s.op \notin {"idle", "delete", "purge"}
    /\ Fresh(s)
    /\ marks' = [m \in Mark |->
                    IF m \in s.touched
                    THEN [s.new[m] EXCEPT !.version = marks[m].version + 1]
                    ELSE marks[m]]
    /\ exam' = IF s.examNew = None THEN exam
               ELSE [status |-> s.examNew, version |-> exam.version + 1]
    /\ requests' = [requests EXCEPT ![r] = Idle]
    /\ UNCHANGED <<enrolled, forms>>

(* The commit fails, a read after it fails, or the process stops. *)
Rollback(r) ==
    /\ requests[r].op # "idle"
    /\ requests' = [requests EXCEPT ![r] = Idle]
    /\ UNCHANGED <<exam, marks, enrolled, forms>>

-----------------------------------------------------------------------------
(* Entry of marks.                                                         *)

(* get_wizard_entry: the form of one paper, with the version of each row. *)
OpenForm(e, p) ==
    /\ ExamExists
    /\ forms' = [forms EXCEPT ![e] =
                    [m \in Mark |-> IF m[1] = p
                                    THEN [entry |-> marks[m].entry,
                                          version |-> marks[m].version]
                                    ELSE @[m]]]
    /\ UNCHANGED <<exam, marks, enrolled, requests>>

(* Slip: the version the client sends is not compared. *)
AnyVersion(e, checked) == TRUE

(* The form's version, where it has one, is still that of the row. *)
CurrentVersion(e, checked) ==
    \A m \in checked : marks[m].version = forms[e][m].version

(* bulk_save_marks: values es for some students of paper p.  The version of *)
(* a row is sent by the clients that do (withVersions) for the rows their   *)
(* form had; status is None when the client sends none.                     *)
StartSave(r, e, p, es, status, withVersions, autosave, superuser) ==
    LET rows == {p} \X DOMAIN es
        present == rows \cap Entered
        checked == {m \in present : withVersions /\ forms[e][m].version > 0}
        saved(m) == LET old == marks[m].status IN
                    [status |-> CASE status # None -> status
                                  [] m \in present -> old
                                  [] OTHER -> "DRAFT",
                     entry |-> Sanitised(es[m[2]]), version |-> 0]
    IN  /\ ExamExists /\ exam.status \notin Frozen
        /\ DOMAIN es \subseteq enrolled
        /\ \A st \in DOMAIN es : Acceptable(es[st], autosave)
        /\ superuser \/ \A m \in present : marks[m].status # "LOCKED"
        /\ CurrentVersion(e, checked)
        /\ Begin(r, [Holding("save", rows, [m \in rows |-> saved(m)])
                       EXCEPT !.checked = checked,
                              !.shown = [m \in Mark |->
                                           IF m \in checked THEN forms[e][m].entry
                                                            ELSE None]])

(* import_marks_from_file: the rows of a file that it can read are saved as *)
(* if they had been typed, without versions.                               *)
StartFile(r, e, p, es, superuser) ==
    LET read == {st \in DOMAIN es \cap enrolled :
                   es[st].result = "ABSENT" \/ InRange(es[st])}
    IN  /\ read # {}
        /\ StartSave(r, e, p, [st \in read |-> es[st]], None, FALSE, FALSE, superuser)

(* import_class_all_subjects_marks: a sheet of the class.  A wide sheet    *)
(* leaves the blank cells out, a long one stores them without a value.     *)
StartUpload(r, es) ==
    LET rows == {m \in DOMAIN es : InRange(Uploaded(es[m]))}
        stored(m) == [status |-> IF marks[m].status \in {"MISSING", "DRAFT"}
                                 THEN "SUBMITTED" ELSE marks[m].status,
                      entry |-> Uploaded(es[m]), version |-> 0]
    IN  /\ ExamExists /\ exam.status \notin Frozen
        /\ DOMAIN es \subseteq Papers \X enrolled
        /\ Begin(r, Holding("upload", rows, [m \in rows |-> stored(m)]))

(* confirm_exam_wide_marks: the rows that the client calls valid, with the  *)
(* value and the result that it sends; the preview's findings are its own   *)
(* to send back, and nothing is looked at again.  What becomes of a row     *)
(* that has marks is the duplicate_behavior of the request.                 *)
StartConfirm(r, es, duplicates, autoApprove) ==
    LET rows == IF duplicates = "SKIP_EXISTING" THEN DOMAIN es \ Entered
                                               ELSE DOMAIN es
        target == IF autoApprove THEN "PUBLISHED" ELSE "SUBMITTED"
    IN  /\ ExamExists
        /\ duplicates = "FAIL_DUPLICATE" => DOMAIN es \cap Entered = {}
        /\ Begin(r, Holding("confirm", rows,
                            [m \in rows |-> [status |-> target, version |-> 0,
                                             entry |-> es[m]]]))

-----------------------------------------------------------------------------
(* Review of the marks of one paper.                                       *)

(* Every row of the paper must be allowed to take the status. *)
StartReview(r, op, p, status) ==
    /\ Rows(p) # {}
    /\ \A m \in Rows(p) : Allowed(marks[m].status, status)
    /\ Begin(r, Holding(op, Rows(p), Restated(Rows(p), status)))

StartSubmit(r, p, allowPartial) ==
    /\ allowPartial \/ {p} \X enrolled \subseteq Entered
    /\ StartReview(r, "submit", p, "SUBMITTED")
StartApprove(r, p) == StartReview(r, "approve", p, "APPROVED")
StartReturn(r, p) == StartReview(r, "return", p, "RETURNED")
StartPublish(r, p) == StartReview(r, "publish", p, "PUBLISHED")
StartLock(r, p) == StartReview(r, "lock", p, "LOCKED")

(* unlock_marks: an administrator's reason opens every status. *)
StartUnlock(r, p) ==
    /\ Rows(p) # {}
    /\ Begin(r, Holding("unlock", Rows(p), Restated(Rows(p), "DRAFT")))

-----------------------------------------------------------------------------
(* The examination as a whole.                                             *)

(* publish_examination_marks for the schedules in scope: the examination is *)
(* written even when only its settings change.                              *)
StartPublishExam(r, scope) ==
    LET rows == {m \in Entered : m[1] \in scope /\ marks[m].status # "LOCKED"}
        status == IF exam.status \in {"COMPLETED", "ARCHIVED"} THEN exam.status
                                                              ELSE "PUBLISHED"
    IN  /\ ExamExists /\ scope # {}
        /\ Begin(r, [Holding("publish_exam", rows, Restated(rows, "PUBLISHED"))
                       EXCEPT !.examSeen = exam.version, !.examNew = status])

(* unpublish_examination_marks. *)
StartUnpublishExam(r, scope) ==
    LET rows == {m \in Entered : m[1] \in scope /\ marks[m].status = "PUBLISHED"}
    IN  /\ ExamExists
        /\ Begin(r, [Holding("unpublish_exam", rows, Restated(rows, "APPROVED"))
                       EXCEPT !.examSeen = exam.version,
                              !.examNew = IF exam.status = "PUBLISHED"
                                          THEN "APPROVED" ELSE None])

(* transition_exam_status, publish_examination, archive_examination. *)
StartTransition(r, target, override) ==
    /\ ExamExists /\ target # exam.status
    /\ override \/ target \in ExamSuccessors(exam.status)
    /\ Begin(r, [Holding("transition", {}, marks)
                   EXCEPT !.examSeen = exam.version, !.examNew = target])

(* delete_examination: the standard mode hides a draft without marks, the *)
(* permanent mode deletes the examination with its schedules and marks.   *)
StartDelete(r) ==
    /\ exam.status = "DRAFT" /\ Entered = {}
    /\ Begin(r, [Holding("delete", {}, marks) EXCEPT !.examSeen = exam.version])
StartPurge(r) ==
    /\ ExamExists
    /\ Begin(r, Holding("purge", {}, marks))

CommitDelete(r) ==
    /\ requests[r].op = "delete" /\ exam.status # "GONE"
    /\ exam.version = requests[r].examSeen
    /\ exam' = [status |-> "DELETED", version |-> exam.version + 1]
    /\ requests' = [requests EXCEPT ![r] = Idle]
    /\ UNCHANGED <<marks, enrolled, forms>>
CommitPurge(r) ==
    /\ requests[r].op = "purge"
    /\ exam' = [exam EXCEPT !.status = "GONE"]
    /\ marks' = [m \in Mark |-> Missing]
    /\ requests' = [requests EXCEPT ![r] = Idle]
    /\ UNCHANGED <<enrolled, forms>>

(* update_student: a student leaves the section, or comes back. *)
MoveStudent(st) ==
    /\ enrolled' = IF st \in enrolled THEN enrolled \ {st} ELSE enrolled \cup {st}
    /\ UNCHANGED <<exam, marks, forms, requests>>

-----------------------------------------------------------------------------
Sheets(S) == UNION {[T -> Entries] : T \in (SUBSET S) \ {{}}}

MarksNext ==
    \/ \E st \in Students : MoveStudent(st)
    \/ \E e \in Editors, p \in Papers : OpenForm(e, p)
    \/ \E r \in {x \in Requests : requests[x].op = "idle"} :
        \/ \E e \in Editors, p \in Papers, es \in Sheets(Students),
              status \in SaveStatuses \cup {None},
              withVersions, autosave, superuser \in BOOLEAN :
              StartSave(r, e, p, es, status, withVersions, autosave, superuser)
        \/ \E e \in Editors, p \in Papers, es \in Sheets(Students),
              superuser \in BOOLEAN : StartFile(r, e, p, es, superuser)
        \/ \E es \in Sheets(Mark) : StartUpload(r, es)
        \/ \E es \in Sheets(Mark), autoApprove \in BOOLEAN, duplicates \in
              {"UPDATE_EXISTING", "SKIP_EXISTING", "FAIL_DUPLICATE"} :
              StartConfirm(r, es, duplicates, autoApprove)
        \/ \E p \in Papers, allowPartial \in BOOLEAN :
              StartSubmit(r, p, allowPartial)
        \/ \E p \in Papers : \/ StartApprove(r, p) \/ StartReturn(r, p)
                             \/ StartPublish(r, p) \/ StartLock(r, p)
                             \/ StartUnlock(r, p)
        \/ \E scope \in SUBSET Papers : \/ StartPublishExam(r, scope)
                                       \/ StartUnpublishExam(r, scope)
        \/ \E target \in ExamStatus : StartTransition(r, target, FALSE)
        \/ \E target \in Overrides : StartTransition(r, target, TRUE)
        \/ StartDelete(r) \/ StartPurge(r)
    \/ \E r \in Requests :
        Commit(r) \/ CommitDelete(r) \/ CommitPurge(r) \/ Rollback(r)

MarksSpec == MarksInit /\ [][MarksNext]_marksVars

-----------------------------------------------------------------------------
(* Properties.                                                             *)

(* The examination moves along its lifecycle, by an override, by being     *)
(* published (from any status but the last ones) or by taking that back.   *)
LegalMove(from, to) ==
    \/ to \in ExamSuccessors(from)
    \/ from \in ExamStatus /\ to \in Overrides
    \/ from \in ExamStatus \ {"COMPLETED", "ARCHIVED"} /\ to = "PUBLISHED"
    \/ from = "PUBLISHED" /\ to = "APPROVED"
    \/ from = "DRAFT" /\ to = "DELETED"
    \/ to = "GONE"

(* Transitions, publication and deletion decide on the status they read    *)
(* and commit later.  Whatever commits in between, the examination makes   *)
(* no other move: none skips a stage, no publication takes a completed     *)
(* examination back, and none revives a deleted one.                       *)
LifecycleIsLegal ==
    [][exam'.status # exam.status => LegalMove(exam.status, exam'.status)]_marksVars

(* The review endpoints validate the statuses they read and commit later.  *)
(* Whatever commits in between, no row goes through a transition that the  *)
(* workflow forbids, and none of them alters a value under review.         *)
ReviewIsLegal ==
    [][\A r \in Requests :
          requests[r].op \in ReviewOps /\ requests'[r].op = "idle" =>
              \A m \in Entered :
                  /\ marks'[m].status # "MISSING"
                  /\ Allowed(marks[m].status, marks'[m].status)
                  /\ marks'[m].entry = marks[m].entry]_marksVars

(* A save that carries versions never overwrites an entry that the form it *)
(* was typed into did not show, whichever endpoint wrote that entry, before *)
(* the save was read or while it ran.                                      *)
NoUnseenOverwrite ==
    [][\A r \in Requests :
          requests[r].op = "save" /\ requests'[r].op = "idle" =>
              \A m \in requests[r].checked :
                  marks'[m].entry # marks[m].entry =>
                      marks[m].entry = requests[r].shown[m]]_marksVars

(* What report cards and parents rely on, MarksBoard, is what the handlers *)
(* implement together: every commit moves the versions of the rows it      *)
(* writes by one, and what a permanent deletion took is not brought back   *)
(* by a handler that read before it.                                       *)
Reportable == {"COMPLETED", "PUBLISHED", "APPROVED", "LOCKED"}
Public(row) == [entry |-> row.entry, version |-> row.version]
Board == INSTANCE MarksBoard WITH
            StoredEntries <- Entries \cup {Sanitised(e) : e \in Entries}
                                     \cup {Uploaded(e) : e \in Entries},
            period <- CASE exam.status = "GONE" -> "GONE"
                        [] exam.status \in Reportable -> "REPORTABLE"
                        [] OTHER -> "CLOSED",
            board <- [m \in Mark |-> Public(marks[m])]
ImplementsBoard == Board!BoardSpec

-----------------------------------------------------------------------------
(* What the code says and does not do.                                     *)

(* services/marks.py:109: "Locked marks are immutable and cannot           *)
(* transition"; unlocking, with a reason, and a superuser's save are the   *)
(* exceptions made on purpose.                                             *)
LockedIsImmutable ==
    [][\A r \in Requests :
          requests[r].op \in {"confirm", "upload", "publish_exam"}
              /\ requests'[r].op = "idle" =>
              \A m \in Entered : marks[m].status = "LOCKED" =>
                  /\ marks'[m].status = "LOCKED"
                  /\ marks'[m].entry = marks[m].entry]_marksVars
=============================================================================
