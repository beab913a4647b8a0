# EduPulse AI in TLA+

EduPulse AI runs schools: a FastAPI backend over PostgreSQL (`src/backend/app`)
serves four Flutter clients. The clients keep no state of record (the portal's
retries of an attendance import are the one part of them that is modelled), so
what can go wrong in the long run goes wrong in the backend's tables: handlers of several
processes read rows, await, and write them back in one commit; a few objects
(documents in file storage, WhatsApp messages, an advisory lock) live outside
the transaction. This project models that: one module per component, TLC runs
on small instances, and proofs for every size of the instance.

- [Checking it](#checking-it)
- [The system](#the-system)
- [Fee ledger](#fee-ledger-feeledgertla-feeaccountstla)
- [Notifications](#notifications-notificationstla)
- [Marks and examinations](#marks-and-examinations-marksworkflowtla-marksboardtla)
- [Report cards](#report-cards-reportcardstla)
- [Results](#results-resultpolicytla)
- [Attendance](#attendance-attendancetla)
- [Data imports](#data-imports-importjobstla)
- [Sessions](#sessions-sessionstla)
- [Communication requests](#communication-requests-communicationtla-requestthreadtla)
- [What is proved](#what-is-proved)
- [Where code and documents disagree](#where-code-and-documents-disagree)
- [What is not modelled](#what-is-not-modelled)
- [Plan](#plan)

## Checking it

    tlc -workers 2 -config FeeOneFee.cfg MCFeeLedger.tla
    tlc -workers 2 -config Marks.cfg MCMarksWorkflow.tla
    tlapm FeeLedgerProofs.tla

| module | what it is |
| --- | --- |
| `FeeAccounts` | the promise: the books of one clerk, one step per operation |
| `FeeLedger` | the code: handlers, version checks, locks, documents |
| `FeeLedgerProofs` | theorems about `FeeLedger` |
| `Notifications` | dispatcher, endpoints, scheduler, WhatsApp tasks |
| `NotificationsProofs` | theorems about `Notifications` |
| `MarksBoard` | the promise: what report cards may rely on of marks |
| `MarksWorkflow` | the code: entry, review, publication, examination lifecycle |
| `MarksProofs` | theorems about `MarksWorkflow`, among them that it implements `MarksBoard` |
| `ReportCards` | report cards and their files, over `MarksBoard` |
| `ResultPolicy` | percentages, grades, promotion and ranks |
| `ReportCardsProofs` | theorems about `ReportCards` and `ResultPolicy` |
| `Attendance` | one day of a section, and the import of it in batches |
| `AttendanceProofs` | theorems about `Attendance` |
| `ImportJobs` | one data import of any kind |
| `ImportJobsProofs` | theorems about `ImportJobs` |
| `Sessions` | one user: lockout, refresh tokens, password reset |
| `SessionsProofs` | theorems about `Sessions` |
| `RequestThread` | the promise: a communication request that one person at a time works on |
| `Communication` | the code: calls that overlap on one request |
| `CommunicationProofs` | theorems about `Communication`, among them that it implements `RequestThread` |

Each `MC...` module instantiates the module it is named after for the `.cfg`
files of its component (the two `Fee*.cfg`, `NotifyTwo.cfg` and
`NotifyLive.cfg`, `Marks.cfg` and `MarksLocked.cfg`, `Cards.cfg`, `Results.cfg`,
`Attendance.cfg`, `Imports.cfg`, `Sessions.cfg`, `Communication.cfg`).

`PROJECT.json` maps every definition to the lines it models, lists the runs,
one mutant per checked property, the findings, and the hazards of the code with
the properties that cover them. Definitions whose comment begins with `Slip:`
are not part of a specification: they are the plausible bugs the mutants put in
place of the definition that follows them.

## The system

How every handler works (`db/session.py`): one `AsyncSession` per request with
`autoflush=False` and `expire_on_commit=False`, a rollback on any exception,
READ COMMITTED in the database. Most models carry `version_id_col`: an UPDATE
names the version that was read and fails (`StaleDataError`) if the row has
another one now. Nothing else is locked on purpose.

| component | state | operations | what is hard | what makes it correct |
| --- | --- | --- | --- | --- |
| Fee ledger (`services/fee.py`) | assignments, payments, allocations, receipts; receipt documents in storage | assign, propagate, collect, edit, cancel, re-draw a receipt | every operation is read, compute, write; numbers come from a count; documents are stored before the commit | nothing overpaid, amounts equal the standing payments, status follows the balance, cancelled is final, receipts are unique and show their payment |
| Fee catalogue | types, structures, fine rules, scholarships | create, update, delete | a structure changed or deleted under its assignments | assignments keep the amounts they were made with |
| School data reset (`services/school_data_reset.py`) | all tables of a school | preview, confirm with a token, delete in one transaction | runs while handlers of the school do | no half-deleted school, no dangling payment |
| Notifications (`services/notification.py`) | notifications, deliveries, preferences | dispatch an event, broadcast, schedule, publish, cancel, read, delete | a scheduler in every process, leadership by advisory lock, background tasks started before the commit, retries | one delivery per user and channel, cancelled stays silent, due is published, statuses are true |
| Marks (`services/marks.py`) | marks with a status each | save a sheet, confirm an exam-wide sheet, upload a class's sheet, submit, approve, return, publish, lock, unlock | a status machine checked in some operations and written without a check in others; two teachers on one form; deletion underneath | no review skips a stage, no save overwrites what its form did not show, deleted marks do not come back |
| Report cards (`services/report_card.py`) | report cards, publications, PDF files | generate, submit, approve, reject, publish, withdraw, lock, unlock, download | built from marks that move meanwhile; the file is outside the transaction; results are weighted sums with gaps | published cards are complete and stay until withdrawn for a reason; locked ones are frozen; better marks never hurt |
| Authentication (`services/auth.py`) | users, failure counter, refresh tokens | log in, refresh, log out, unlock, change and reset a password | counter by read and add; administrators who set the status; two refreshes with one token | every failure counts and a full counter locks; one successor per token |
| Student attendance (`services/attendance.py`) | days, rows, import jobs | mark, correct, lock, delete, import in batches | repeated batches after a time-out, errors between batches, staff on the same day | what the job lists is in the register; a lock stops teachers; an import ends |
| Data imports (`services/import_job.py`) | job with a status, staging rows, audit rows | validate, execute in chunks, cancel | no versions; two requests on one job; errors in a broken session | nothing is stored twice, what is reported done is stored, a job ends |
| Staff leave and payroll | leave requests, balances, pay runs | request, approve, compute | approval twice, overlapping leaves | a balance is charged once |
| Examinations (`services/examination.py`) | an examination with a status | transition, publish, delete, purge; schedules and papers | deletion while marks are entered | it moves only along its lifecycle |
| Communication requests (`services/communication.py`) | requests with a status and an assignee, participants, messages | create, reply, change the status, assign, escalate | participants and messages have no version and no unique key; a reply moves the status it has read | calls are as good as one after another; nobody takes part twice; the status tells whose turn it is |
| Timetable, school structure | rows with a status or a uniqueness rule | create, change, delete | clash checks before inserts | no clash, no illegal status change |
| Curriculum, predictions, AI | mostly read-only | analyse, recommend | external models | – |
| Storage, e-mail, WhatsApp adapters | external | upload, send | time-outs, lost answers | – |

They meet at few points. Handlers of fees, attendance, marks and homework call
the dispatcher **after** their own commit and in the same session; the reset and
the deletion of a tenant delete the tables of all others; report cards read
marks, and what they rely on is stated once, in `MarksBoard`, which
`MarksWorkflow` is shown to implement and `ReportCards` extends; receipts and
report cards go to file storage, which no transaction covers.

## Fee ledger (`FeeLedger.tla`, `FeeAccounts.tla`)

### State and steps

`assignments`, `payments` and `documents` are the tables and the storage;
`requests` is what each running handler holds in its session: the operation,
the rows it is going to write with the version it read them at, the rows it
added a late fine to, and its payment. A handler is split where another one can
come between:

| code | steps |
| --- | --- |
| `assign_fee`, `propagate_class_fee_structure` | `AssignFee`/`Propagate` (what is missing), `CommitAssign` (unique per student and structure) |
| `collect_payment` | `StartCollect` (validate, add the late fine), `FlushCollect` (duplicate reference, INSERT of the payment, UPDATE of the fined rows), `UploadReceipt` (count, draw, store), `CommitCollect` |
| `update_payment` | `StartUpdate`, `CommitUpdate`, then `FinishRegenerate` after the commit |
| `regenerate_receipt_pdf` | `StartRegenerate`, `FinishRegenerate` |
| `cancel_payment` | `StartCancel`, `CommitCancel` |
| `deletion_steps` of the reset | `ResetSchool` |
| `date.today()` | `NextDay` |
| exception, dead process, lost client, failed constraint | `Abort`, at any step |

Decisions a reader should know:

- Several SELECTs of one handler are read in one step. A commit that succeeds
  compared the version of every row it changes, so it saw them unchanged since
  they were read; one that fails leaves nothing behind except a document.
- A version grows by one per commit, whatever the number of flushes.
- Because `autoflush` is off, the first write of `collect_payment` is its
  explicit flush. It locks the rows it fined (`Locked`, `Unlocked`) and, by the
  foreign key, the student's row, for which `ResetSchool` waits.
- A receipt is created and deleted with its payment, so it is a field of it.
  `amount_paid` is written as the sum of the allocations everywhere and derived.
- Money is in whole units. Percentages are rounded half up as `NUMERIC` does;
  amounts with more than two digits after the point are not entered.
- A reference is trimmed for the comparison and stored as typed when collecting,
  and stored trimmed when editing. `Trim` is a parameter.
- `update_payment` changes the amount only of a payment with one allocation.
- Every student is eligible for propagation, one calendar year is numbered, and
  structures and rules do not change (they are the constant `Fee`).
- A request that names one assignment twice fails on the primary key of its
  allocations at the commit; that is an `Abort` after the upload.
- `import_payments` calls `collect_payment` once per row in one session and rolls
  a failing row back, so it is a sequence of collections. As rows stay loaded
  after a commit, a later row may be validated against a stale copy; its version
  check then fails, which is an `Abort` here.
- The status goes ABSENT, live, DELETED; identifiers (uuid4) are not reused.

### Properties

| property | why it could be false |
| --- | --- |
| `NoOverpayment` | the outstanding amount is checked against a row that others are paying |
| `StatusMatchesBalance` | each handler recomputes the status from its own copy of the row |
| `LedgerBalances` | a lost update, a double cancellation, an edit over a cancellation would separate `paid_amount` from the payments |
| `CancelledIsFinal` | an edit that read the payment before its cancellation writes it back |
| `ReceiptIsStored` | upload and commit are not one transaction |
| `ReceiptsAreNumbered` | the number is a count taken outside any lock, and overlapping collections draw the same one; only the unique key of receipts keeps two from getting it, and only the failure of the whole transaction keeps the numbers without a gap until a reset deletes a receipt |
| `KeepsTheBooks` | any of these, or an erasure of half a payment: handlers that overlap must leave the books as if each had run alone at its commit |

`KeepsTheBooks` is the refinement `FeeLedger` ⇒ `FeeAccounts!Spec`: an
assignment maps to an account with what is due and paid, a payment to an entry,
versions, sessions and documents to nothing. Every commit is one operation of
the clerk, everything else stutters. `FeeAccounts` leaves open which amounts
come in and fixes what they do; it says nothing about receipts.

### Runs

| run | instance | shows |
| --- | --- | --- |
| `fee_one_fee` | 1 student, 1 fee of 2 with a late fine, half scholarship, 2 payments, amounts 1 and 2, 2 handlers, 2 days; 1,056,168 states | all pairs of operations on one assignment overlap: balances, statuses, finality |
| `fee_two_fees` | 1 student, 2 fees with different due dates and fine rules, split payments, 3 days, a reset of the student's school at any moment; 1,860,405 states | types, books, stored and numbered receipts with payments over two assignments and with a reset between any two steps |

Bounds and why they suffice: the code's checks relate at most two handlers (one
that read before the other committed) and one row at a time, so two handlers and
two payments give every race between two operations and every edit of an edit;
`Amounts` and fees of 2 and 3 give under-, exact and over-payment; `MaxDay`
passes the due date in the middle of a handler; `MaxVersion` bounds how often a
payment is edited, at 2 so that an edit can be overtaken. Handlers that have
ended can start again without bound. Payments and handlers are symmetric.
`FeeLedger` is about safety only: no handler is obliged to end, and deadlock is
checked.

## Notifications (`Notifications.tla`)

### State and steps

`rows` are the notifications (`scheduled`, `due`, `published`, with a deletion
mark and a version), `delivered` counts the committed delivery rows of each user
for the channels whose outcome is known at once (in-app, push; SMS and e-mail
always fail), `whatsapp` has the WhatsApp row and its background task,
`messages` what the provider accepted, `preferences` the users with a
preferences row. `sessions` is what handlers and scheduler ticks hold, `lock`
the holder of the advisory lock and `leaders` the processes whose `is_leader` is
true, which is not the same thing.

| code | steps |
| --- | --- |
| `dispatch_event` | `StartDispatch`; per recipient `NextRecipient`, `CreatePreferences` if there are none, `Bypass` or `PassDuplicateCheck`, `Insert`, `Deliver`; then one `Commit` (`EndVoid` if nothing was created) |
| `create_notification` (broadcast) | `StartBroadcast`, `Insert`, `Deliver` per user, `Commit`; `CutShort` for an error the endpoint only logs |
| `_create_user_deliveries` | `FindNewcomer`, `CreatePreferences`, `Deliver` |
| `publish_notification` | `StartPublish`, `Deliver`..., `Commit` |
| `cancel_notification`, `delete_notification`, `mark_read`, `mark_all_read` | `Cancel`, `Delete`, `MarkRead`, then `CommitEdit` |
| `run_scheduled_notification_worker` | `Acquire`, `Poll`, `PublishDue`, `Deliver`..., `Commit`; `LoseConnection`, `Restart` |
| `_send_whatsapp_with_retry` | `Send`, `Record`, at most `MaxAttempts` times; `KillTask` |
| constraint, version, deadlock | `KeyTaken`, `PreferencesTaken`, `Stale`, `Deadlocked`: forced rollbacks |
| anything else that fails | `Fail`, bounded by `MaxFailures` |

Decisions:

- An uncommitted key, preferences row or update makes others wait. The only
  sessions that wait while others wait for them hold inserts, so `WaitsFor` is
  about these, and a cycle is broken by rolling back one of its members.
- `publish_notification` writes its row at the first flush of its deliveries;
  from there on the row is locked.
- A broadcast carries no key; the request schema accepts one and the clients
  send none.
- A task started by a session that rolls back sends its message then or never:
  later would only be a later count.
- The category switched off, a parent who is not the student's guardian and a
  duplicate are all `Bypass`.
- The ghosts `lost` and `repeated` record what a later reader of the database
  cannot know: that a dispatch failed after its publication, that a send was
  rolled back or unanswered.
- `Fail` of a scheduler is a failing tick; a dying process is `Restart`, which
  also gives up the lock. A process that dies with several handlers is several
  failures.

### Properties

| property | why it could be false |
| --- | --- |
| `OneDeliveryPerChannel` | the delivery table has no uniqueness constraint, and there may be two leaders |
| `UnpublishedIsSilent` | publication and deliveries are committed by different statements, and a cancellation may come between |
| `DeletedIsFinal` | a publication that read the row before its cancellation writes it back |
| `OnlyFailuresLose` | the scheduler commits the publication before it delivers and never returns to it |
| `MessagesAreExcused` | tasks outlive the transaction that started them, and retry |
| `StatusIsTrue` | the row is written by two sessions and a task |
| `DueIsPublished` (liveness) | changes of leader, failing ticks, rows edited under the scheduler |
| `QueuedIsAnswered` (liveness) | the task retries, or is gone |

`OnlyFailuresLose` holds, and shows by its exception what the code does lose: a
scheduler tick that fails after `PublishDue`, among others because another
session created the preferences of a new user at the same time
(`PreferencesTaken`), leaves a published notification that nobody gets.
`QueuedIsAnswered` has its exception too: a task that looked for its row before
the commit, or whose process stopped, leaves the row QUEUED.

### Runs and fairness

| run | instance | shows |
| --- | --- | --- |
| `notify_two` | 2 keyed notifications of one event to 2 new users, 2 handlers, 1 scheduler, 1 failure; about 351,000 states | the safety properties under key conflicts, deadlocks and races with the scheduler |
| `notify_live` | 1 broadcast to 2 users (one new, one on WhatsApp with 2 attempts), 1 handler, 2 schedulers, 2 failures, 1 reading; 109,993 states, no symmetry | split leadership, the truth of statuses, and the liveness properties |

Two failures allow a lost connection (two leaders) and one more failure in the
same behaviour; `MaxVersion` bounds how often a row is marked read, which is
what makes the scheduler's version stale.

`FairSpec` assumes weak fairness of every handler's steps once it has begun, of
each scheduler and of each task: the event loop resumes a coroutine whose await
is over, and the worker's loop has no exit but cancellation
(`main.py:216` starts one in each process). Users, time, failures and the
beginning of handlers are not fair. Without the bound on failures a tick could
fail for ever, and `DueIsPublished` is not claimed then.

## Marks and examinations (`MarksWorkflow.tla`, `MarksBoard.tla`)

### State and steps

`exam` is the row of one examination, `marks` the rows of its marks, one per
paper (a schedule of one class) and student, `enrolled` the students that are in
the class now. `forms` is what each teacher's screen shows, with the version of
every row at the time it was opened. `requests` is what each running handler
will write and the versions it has read.

| code | action |
| --- | --- |
| `get_wizard_entry` | `OpenForm` |
| `bulk_save_marks` | `StartSave` |
| `import_marks_from_file` | `StartFile`: what can be read of a file of one paper is saved like a form without versions |
| `confirm_exam_wide_marks` | `StartConfirm` (the rows, values and results that the client sends; the preview's findings are not looked at again) |
| `import_class_all_subjects_marks` | `StartUpload` |
| `submit_for_review`, `approve_marks`, `return_marks_for_correction`, `publish_marks`, `lock_marks`, `unlock_marks` | `StartSubmit` ... `StartUnlock` |
| `publish_examination_marks`, `unpublish_examination_marks` | `StartPublishExam`, `StartUnpublishExam` |
| `transition_exam_status`, `publish_examination`, `archive_examination` | `StartTransition` |
| `delete_examination`, standard and permanent | `StartDelete`/`CommitDelete`, `StartPurge`/`CommitPurge` |
| `update_student` of a student who changes class | `MoveStudent` |
| the commit of all others; any failure | `Commit` if `Fresh`, `Rollback` |

A handler reads everything in one step and writes everything in another, with
all others in between. `Fresh` is what the database and the mapper compare at
the commit: `version_id_col` of every row updated, the unique key of every row
inserted and its foreign key to the schedule, which a permanent deletion takes
away. Handlers that do not write the examination do not compare its version.

Results are entered as PRESENT, ABSENT, EXEMPTED or MALPRACTICE with a value or
none. A save and an upload normalise them (`Sanitised`, `Uploaded`) and compare
them with the paper's maximum. The confirmation of a sheet of the whole
examination does neither: its preview computes `is_valid` and the value of each
row (with the maximum that the sheet states), the client sends them back, and
what it sends is stored, so `StartConfirm` writes any entry.

### Properties

| property | why it could be false |
| --- | --- |
| `MarksTypeOK` | values come in by three paths with their own normalisation; two of them must not hold one beyond the paper's maximum (the third may) |
| `ReviewIsLegal` | every review endpoint validates the statuses it read, and commits after others have changed them |
| `LifecycleIsLegal` | transitions, publication and deletion decide on the status they read |
| `NoUnseenOverwrite` | the version of a form is compared when the save is read, not when it commits, and other endpoints write the same rows |
| `ImplementsBoard` | a handler that read rows before their deletion could write them back |

`MarksBoard` is what everyone else may assume: a row, once there, is only ever
replaced by one with the next version, and rows go away only all at once, for
good, with their examination.

### Runs

| run | instance | shows |
| --- | --- | --- |
| `marks` | 1 paper of maximum 0, 1 student, 2 handlers, 1 form, values 0, 1 and exempted, rows updated up to 3 and the examination up to 2 times; 1,441,924 states | all pairs of the handlers above, and the three of which two overlap while one has a form open |
| `marks_locked` | as above | the finding below |

Both races and legality concern one row and at most two handlers between read
and commit; a second row would only be carried along, as `Fresh` asks for all.
A maximum of 0 with a value of 1 is the smallest paper that a value can exceed.
`APPROVED` stands for the statuses a client may send that the review would not
allow, `COMPLETED` for an override. The proofs are for every size.

## Report cards (`ReportCards.tla`)

`cards` are the publications, one per student, with what generation compiled,
the snapshot of the publication and `publishedAt`; `files` is the PDF in
storage, one path per student. `period` and `board` come from `MarksBoard`,
whose steps (`MarksMove`) run in between everything.

A publication takes `now` first and reads the marks many awaits later, and
`published_at` is that `now`. So it has two steps: `Clock` keeps the versions
the marks have at that moment, `CompilePublication` takes the snapshot, of marks
that may have moved in between and then count as corrected ever after
(`Corrected`). The code compares times: `updated_at` is when the transaction of
the mark began, so a mark that was committed after the clock by a transaction
older than it is not taken for a correction. The model allows the regeneration
that the code then refuses.

| code | action |
| --- | --- |
| `generate_report_card` | `StartGenerate`, `Upload` (not undone by a failure), `Commit` |
| `bulk_generate_class` | the same for one student after the other; `GoOn` when a file could not be written: nothing is rolled back, and the next student's commit takes the changed card along |
| `submit_for_review`, `approve_report_card`, `reject_report_card`, `unpublish_report_card`, `lock_report_card`, `unlock_report_card` | `StartSubmit` ... `StartUnlock` |
| `bulk_approve_report_cards` | `StartBulkApprove`: several cards, one commit |
| `bulk_publish_selected_cards`, `publish_report_cards` | `StartBulkPublish`, `StartPublishClass` (the clock), `CompilePublication`: several cards, one commit |
| `download_report_card` | `StartDownload`, `EndDownload`: compiles and stores a missing file |
| version check, or unique student and year; any failure | `Commit` if `Fresh`, `Rollback` |

| property | why it could be false |
| --- | --- |
| `PublishedIsComplete` | regeneration clears the snapshot that a publication sets; marks are deleted or emptied between the clock and the snapshot, or after it |
| `LockedCardIsFrozen` | regeneration and bulk operations read the card before it was locked |
| `WithdrawnForAReason` | a regeneration started before the publication ends after it; the mark it asks for may move while the publication runs |
| `FileIsStored` | file and row are not one transaction |
| `CardsTypeOK` | statuses are written by ten operations |

`report_cards` checks two students, one paper, two handlers, three updates of
marks and four of cards (1,608,952 states). Two students are needed for
operations on several cards, one of which is stale, and for `GoOn`; of one card,
four updates generate, publish, withdraw and publish it again. What a card shows
may be older than the marks: that is by design. `WithdrawnForAReason` says when
a published card may stop being PUBLISHED, the one status that parents see
(`endpoints/report_cards.py:226`): by a withdrawal or a lock of this card, or
because a mark of the student moved past what the clock had seen.

## Results (`ResultPolicy.tla`)

The arithmetic of `validate_report_card_data`: weights from a chain of policies,
given to the examinations that have a paper of the class (`Active`), with the
share of the plain totals (`PROPORTIONAL_MAX_MARKS`) where none of these has a
weight (`Weighted`); marks scaled to weights, examinations without a paper in a
subject, absences (with a zero or with no value, as the entry path left them),
rounding to two decimals, the grade bands, promotion, which is pending until all
papers have a mark, and the ranks in the section and the class.
Everything is in hundredths of a percent and exact; the code adds floats and
rounds. The state is what a card is compiled from; a step adds a row or betters
one, so `BetterMarksNeverHurt` is an action property: overall percentage, grade
and promotion never fall. `RanksAgree` says that the two ranks of a card do not
contradict each other. Sums and products over the rows are those of functions
on finite sets (`SumFunction`, `Product`), in no order, as the code's loops over
lists of papers do not depend on one.

`results` takes every set of papers of two examinations (maxima 2 and 3) in two
subjects, with every outcome of two policies, for one student (policies that
mention no examination, or only one that has no papers, among them), and every
set of papers of one subject in two sections for three students (56,616 states,
subjects and the students of one section being symmetric). The weights 0, 1 and 3
and the unset one are all that the formulas distinguish: none, equal, unequal,
missing. Behaviours end when every mark is full, so deadlock is
not checked.

## Attendance (`Attendance.tla`)

`day` is the attendance session of a section and date, `register` its rows,
`job` the import job of the batches, `client` the loop of `executeImport` in the
admin portal. A row of the register tells a batch's mark from any other's; the
job of an import in one go only reports on it and is left out.

| code | action |
| --- | --- |
| `mark_daily_attendance`, `bulk_mark_attendance` | `StartMark`, `StartBulkMark`, `CommitStaff` |
| `correct_student_attendance`, `lock_session`, `delete_session` | `StartCorrect`, `StartLock`, `StartDelete`, `CommitStaff` |
| `execute_bulk_attendance_import` | `StartExecute`, `CommitStaff` (any rows: what the validation left is not compared with the register) |
| `executeImport` | `Send`, `Confirmed`, `Refused`, `Timeout` (60 seconds; the request runs on), `Retry` |
| `import_attendance_chunk` | `ReadJob` (is the batch already in?), `ReadRows` (day, rows, conflict strategy), `CommitChunk`, `Reject` |
| database error, dead process | `Break` |

The job has no version, so a batch that read it before another one's commit
writes over what that one wrote. A commit updates the columns that differ from
the copy it read: `job_metadata` and the counters always, the status only if the
batch changes it (`StatusWith`). With three batches a late copy of one can
therefore take another out of the list and leave the job COMPLETED: "completed
means all batches are listed" is false in the code (see the disagreements).
`JobIsTrue` is what holds: the count is that of the list, the rows of every
listed batch, which is never imported again, are in the register, and so are
those of *all* batches once the job is COMPLETED, as a client sends one batch
after the other and the copies of one batch meet at the rows' unique key. A day
that is deleted takes its rows along.

`SkipKeepsMarks` and `LockStopsTeachers` rest on versions: the first of rows,
the second of the day, which marking always writes. (Correcting a row does not
write the day, and is not claimed to stop.)

`ImportEnds` is the liveness property: the import is done or its day deleted.
`AttFairness` has the server finish what it started, and the user of the portal
press "Retry Remaining Records" after a failure: without that a failed import
stays as it is. Faults are bounded (`MaxFaults`), time-outs with them; with
unbounded ones no retry would help. The client may stop, so deadlock is not
checked. `attendance` has 3 students in 3 batches of one, 2 handlers, 2 faults and
2 updates of a row (1,054,904 states): the original and the repetition of a batch
overlap, also after a third batch was stored, or one of them and a member of
staff, who marks nobody, the second student or the last two (`StaffRows`): with
nobody the day alone, with one a part of what is imported.

## Data imports (`ImportJobs.tla`)

One job of any of the four kinds (`kind` is chosen at the start and the
differences of the kinds are in the actions): `status`, the staging `rows`,
which rows have an `audit` row, how many records are `stored` under each key,
and per request the step it is at and what its transaction holds (`pending`).

| code | action |
| --- | --- |
| `validate_*_job` | `StartValidate`, `BeginValidate`, `SweepMapping`, `Stage`, or `RefuseStudents`, `RefuseFile` |
| `start_job`, `execute_*_job` | `StartExecute`, `BeginExecute`, `SweepAudit`, then per chunk `SelectChunk`, `ExecuteRow`, `CommitChunk`, and `Finish` |
| their exception handlers | `Abandon`, `FailExecution` |
| `cancel_job` | `StartCancel`, `CommitCancel` |
| `create_row_results` | `ReportRow` |
| the process stops | `Crash` |

There are no versions here; rows and keys that a transaction has written make
others wait, and unique keys break what comes second. Two rows of a mapping may
name the same mapping (`MappingOf`): validation compares how the guardian is
written. `OutcomeIsTrue` has three parts: nothing is stored twice (`StoredOnce`),
a row reported done is stored (`DoneIsStored`), and what a transaction has
inserted belongs to a row that it reports done (`InsertedByDone`), as a row that
fails is rolled back to its savepoint. It does not say that a row reported failed
is not stored: that is false, with one request and with several (see the
disagreements).

`JobEnds`: a running job leaves RUNNING unless a request was lost, under weak
fairness of each execution's steps, which is one coroutine awaiting one query
after the other. The exception is what the code does: after
a crash, or for students and setups after an error that breaks the session, the
job stays RUNNING and nothing picks it up.

`imports` has three rows in chunks of two (a full and a partial chunk), the first
two of one mapping, and two requests (452,612 states): two executions, an
execution and a validation of the same job, or either with a cancellation. The
safety part is proved for any number of requests. Deadlock is not checked: a job
ends.

## Sessions (`Sessions.tla`)

`user` is the row of one user with its counter, status, lock and reset token,
`tokens` the refresh tokens in the order of issue with the token each replaces.
Two ghosts: `answered`, the failed logins that were answered since the counter
was last cleared, and `imposed`, whether an administrator has set the status
since a login or an unlock decided it.

| code | action |
| --- | --- |
| `authenticate`, `create_tokens` | `StartLogin`, `WrongPassword`, `RightPassword`, `IssueToken`; `LockTimePasses` |
| `refresh_token_rotation`, `logout` | `StartRotate`, `RotateToken`, `IssueToken`; `ReuseDetected`; `StartLogout`, `Logout`; `TokenExpires` |
| `unlock_account`, `unlock_user`, `change_password` | `StartUnlock`, `CommitUnlock`; `StartChange`, `ChangePassword` |
| `reset_password` of `identity_provisioning.py` | `StartTemporary`, `TemporaryPassword` |
| `activate_user`, `deactivate_user`, `provision_principal`, `bootstrap_super_admin`, `update_user`; teachers and guardians who leave or return | `StartStatus`, `SetStatus` |
| `request_password_reset`, `confirm_password_reset` | `StartReset`, `StoreReset`, `MailSent`, `MailFailed`; `StartConfirm`, `ConfirmReset`; `ResetExpires` |
| version check fails | `Stale`, `StaleToken` |

`AttemptsAreCounted`: the stored counter is the number of failures answered, and
the account is locked exactly from the allowed number on, until somebody sets its
status by hand. That writes the status and leaves the counter, so an account may
then be open with a full counter, or closed with an empty one; the next failed
login that is answered brings the two together again. `OneSuccessor`: two
requests that present one token do not both get its successor. Both hold by the
versions of the two rows; `revoke_all_for_user` is a bulk update that may leave
versions alone, which the model chooses either way.

`sessions` has two requests at a time, a lock after two failures, three tokens
and five updates of the user (4,208,369 states): two failures with anything that
clears the counter or sets the status before, between and after them, or two
rotations and a revoke-all. SUSPENDED is treated as INACTIVE is. The model stops
at its bounds, so deadlock is not checked.

## Communication requests (`Communication.tla`, `RequestThread.tla`)

`RequestThread` is the promise: `request` with its status and assignee, `people`
(how many participant rows each user has), `messages` (the replies, by the role
of the sender) and the ghost `asked` (how much of the thread a person had read
who last set the status), worked on by one person at a time. `Communication`
adds the code's concurrency: `version` of the row and, in `handlers`, what each
running call has decided and the version it read.

| code | `RequestThread` | `Communication` |
| --- | --- | --- |
| `create_request` | `Create` | `Open` (one transaction on a new row) |
| `reply_to_request` | `CanReply`, `Moves`, `ReplyBy` | `StartReply` |
| `update_status`, also for the resolve and reopen endpoints | `CanSet`, `SettingBy`, `Successors` | `StartStatus` |
| `assign_request` | `CanAssign`, `AssignmentBy` | `StartAssign` |
| `escalate_request` | `CanEscalate`, `EscalationBy` | `StartEscalate` |
| commit; `StaleDataError`; error or dead process | `Write` | `Commit`; `Reject`; `Break` |

Neither participants nor messages have a version or a unique key, and a reply
writes three tables. What keeps overlapping calls apart is one line: each sets
`request.updated_at`, so each commit compares and moves the version of the
request. `ImplementsThread` says that this is enough: what a call commits is what
its user could decide at that moment. `PeopleAreOnce` and `TurnIsTracked` are
what users notice of it: `get_participant` raises for ever on a user who is
there twice, and a reply of the parent that slips past a status change would
leave the request waiting for an answer that was given. A reply that only
touched the request when it moves the status (`FreshIfMoved`) breaks both.

`communication` has a parent, a teacher and a principal, two calls at a time and
five commits (1,089,626 states): an answer, a question back, the parent's reply
and an escalation with two calls racing at each of them. Handlers are symmetric.
The model stops at its bound, so deadlock is not checked, and nothing is claimed
about fairness.

## What is proved

All theorems assume only the named assumptions of the modules (types of the
constants, finiteness of what is counted, `None` distinct from real values).
Sets of students, papers, handlers and so on are
arbitrary. What changes a database row with a version is proved by one scheme: an
invariant says what a session that still has the current version knows of the
row, a commit compares the version, and moves it, which empties what the
invariant says of everybody else. What a definition by recursion computes (sums of
payments, totals and weighted means of marks) cannot be proved by the library's
induction theorems, which the provers cannot instantiate; it is proved by counting
sets and by least counterexamples.

### Fee ledger

`FeeLedgerProofs.tla`, 2276 obligations, for all numbers of students,
structures, payments (finitely many), handlers, amounts, days and edits, from
`FeeAssumption` and `InputAssumption` only (types of the constants, positive
amounts, `None` distinct from real values):

| theorem | property |
| --- | --- |
| `Invariance` | `Spec => [](TypeOK /\ LedgerInvariant)` |
| `TypeCorrect` | `TypeOK` |
| `NeverOverpaid` | `NoOverpayment` |
| `StatusFollowsBalance` | `StatusMatchesBalance` |
| `CancellationIsFinal` | `CancelledIsFinal` |
| `EveryAmountIsAccountedFor` | `LedgerBalances` |
| `EveryReceiptIsStored` | `ReceiptIsStored` |
| `ReceiptNumbersHold` | `ReceiptsAreNumbered`, with any resets |
| `LedgerKeepsTheBooks` | `KeepsTheBooks`, the refinement of `FeeAccounts` |

`NoOverpayment` is not inductive: a session may hold a row that would overpay,
and only the version check at its commit keeps it from being written. The
inductive invariant therefore says what a session knows. Its parts:

1. *Coherent*: each stored row is not overpaid and its status fits.
2. *PaymentSound*: a payment pays live assignments of its own student.
3. *SessionSound*: a session's copies are coherent on their own, whatever has
   happened to the tables since.
4. *SessionCurrent*: versions only grow, and if a row (for edits and
   cancellations also the payment) still has the version the session read, then
   the session's copy is the stored row changed by exactly what the operation
   adds (`Added`).
5. No two collections work on the same new payment.

The argument has one lemma per action. Starting steps establish 3 and 4 from 1;
steps that write no table keep 4 for the others; a commit raises the version of
every row it writes, which makes 4 vacuous for every session that holds one of
them (`OtherSession`, `Bumped`); and the committing session itself finds its
versions unchanged, so 4 gives the exact effect of the commit (`CommitFinds`,
`CommitInv`). The same fact gives the refinement: the effect of a commit in the
tables is the clerk's operation (`CommitEffect`, `BooksCommit`).

`LedgerBalances` compares a row with a sum over all payments. The laws of such a
sum need induction on the set of payments and are proved by descent: the sum is
the number of cells of a table with a column of that height for each payment, and
a least counterexample (`WFMin`) contradicts itself. What the rest uses of it is
one lemma, `TotalChanges`: a commit that changes one payment changes the sum by
the difference of that payment. `ReceiptIsStored` needs that a collection past its
upload has its document, and that documents stay. `ReceiptsAreNumbered` says
that no two receipts have one number, and that the numbers have no gap as long as
no receipt has been deleted; after a reset the count is less than the highest
number, and the disagreement below is what happens.

### Marks

`MarksProofs.tla`: `MarksInvariant`, and from it

| theorem | property |
| --- | --- |
| `TypesHold` | `MarksTypeOK` |
| `ReviewsAreLegal` | `ReviewIsLegal` |
| `SavesAreSeen` | `NoUnseenOverwrite` |
| `LifecycleHolds` | `LifecycleIsLegal` |
| `WorkflowImplementsBoard` | `ImplementsBoard`, the refinement of `MarksBoard` |

None of the properties is inductive: each speaks of a commit and depends on what
its handler read long before. `MarksInv` says what a session and a form know.
As long as the examination is there, versions of rows only grow and every write
moves them; so for every row a session will write, and every row a form shows,
the version read is at most that of the row, and *if it is equal* then what was
read is still true: a review found a status from which its own may be reached
and copied the entry, a checked save shows the entry of the row. A commit that
passes `Fresh` has equal versions, hence the property; it moves the version of
every row it writes, which empties the claim of every other session about that
row (`OthersStayOK`). After a permanent deletion there are no rows and no session
can commit one, because every row it updates has a version and every row it
inserts has a foreign key.

The lifecycle needs a second invariant, `MovesOK`, of the same kind for the one
row of the examination: a session that will write a status has read a version
not above the current one, and if it is equal, the move is legal from the status
that the row has. A permanent deletion leaves the version alone, so it says
besides that no session moves an examination that is gone.

### Report cards

`ReportCardsProofs.tla`: `CardsInvariant`, and from it `CardsAreTyped`
(`CardsTypeOK`), `PublishedCardsAreComplete` (`PublishedIsComplete`),
`FilesAreStored` (`FileIsStored`), `LockedCardsAreFrozen` (`LockedCardIsFrozen`)
and `CardsAreWithdrawnForAReason` (`WithdrawnForAReason`).

`CardsInv` has the same shape, with one thing more. A handler reads a card and
the marks; the card is protected by its version, the marks are not. So what it
read of the marks is not claimed to be true still, but only what stays true:
rows do not lose versions until the period is gone (`MovedSince`), a snapshot
that was complete is complete for good, a file that was written is not deleted.
`MayLeave` is what a handler may do to a card that still has the version it
read: keep a locked one as it is, and take a published one back only as a
withdrawal or because the marks have moved since.

### Results

Also in `ReportCardsProofs.tla`, for any finite set of examinations, any subjects,
sections, maxima, chains of policies, sets of papers and students:

| theorem | says |
| --- | --- |
| `ResultsInvariant` | `ResultsInv`: a sheet has rows only for its student's papers, with marks that these allow |
| `MarksNeverHurt` | `BetterMarksNeverHurt` |
| `RanksInReach` | `RanksAgree` |
| `PercentagesInReach` | an overall percentage is one of 0.00 to 100.00, lies in exactly one band and gets its grade |

The formulas are folds, so their laws need induction over data, and again they
are had by counting. A sum of natural numbers is the cardinality of a set of
cells, as many for each term as the term says (`SumCounts`); a product is the
cardinality of a set of choices (`ChoosingsOfOne`, `ProductIsNat`). Then a larger
sum is a larger set (`SumIsMonotone`), and the common factor of a sum comes out
of it (`SumOfMultiples`). Neither needs more of the fold than how it takes one
element off.

`MarksNeverHurt` is a chain of monotone steps. The denominators depend only on
which rows there are, the numerators grow with the marks (`ObtainedIsMonotone`;
`ShareIsBounded` for a weighted share, with nothing assumed about remainders), so
the rounded percentage grows (`PercentIsMonotone`) and is at most 100.00
(`PercentIsAtMostAll`). The bound is needed: `get_grade_for_percentage` answers F
above 100, so without it a better mark could lower the grade. No subject or paper
is failed that was not (`FailedIsMonotone`, `ExamIsMonotone`), and grade and
promotion follow percentages and failures.

`RanksInReach` needs the invariant. The ranking of a section asks for more papers
than the ranking of the class does: of an examination in which the section has no
paper it asks for those of other sections. Nobody has a row for these, so if
anybody is ranked in the section there is no such examination, both rankings take
the same papers of the same students, and they differ by the other sections'
students alone (`CountsBetween`).

### Communication requests

`CommunicationProofs.tla`, 471 obligations, for any users, roles and number of
calls:

| theorem | says |
| --- | --- |
| `ThreadIsTyped`, `ThreadIsSafe` | `RequestThread` keeps its types, `PeopleAreOnce` and `TurnIsTracked` |
| `CommunicationImplementsThread` | `ImplementsThread`: overlapping calls implement `RequestThread` |
| `PeopleStayOnce`, `TurnStaysTracked` | so `Communication` keeps both, too |

The properties are proved where they are easy, of calls one at a time: an
operation makes participants only of those who are not, and a reply leaves the
status alone only if the status expects it. The refinement carries them over. It
rests on `CommInv`: a call whose version is current holds a decision that can be
taken in the present state (`Decision`). Nothing that a decision looks at changes
without a new version (`DecisionUnchanged`, `MovedKeeps`), so a commit that passes
`Fresh` is a step of `RequestThread` (`CommitKeeps`).

### Notifications

`NotificationsProofs.tla`, 2470 obligations, for any number of notifications,
users, handlers, schedulers, leaders, failures and attempts:

| theorem | property |
| --- | --- |
| `NotificationsInvariant` | `NotifyInv`, the inductive invariant |
| `NotificationsAreTyped` | `TypeOK` |
| `DeliveredOnce` | `OneDeliveryPerChannel` |
| `NothingBeforePublication` | `UnpublishedIsSilent` |
| `LossesAreFailures` | `OnlyFailuresLose` |
| `MessagesHaveReasons` | `MessagesAreExcused` |
| `StatusesAreTrue` | `StatusIsTrue` |
| `DeletionIsFinal` | `DeletedIsFinal` |

Nothing in the delivery table keeps a second delivery out, and two processes may
both believe to be the leader. What keeps it out is *ownership* (`Owns`): a
session owns a notification while its insert of it is uncommitted, while its
update of it is flushed, or, a scheduler, from the commit of the publication to
the end of its deliveries. At most one session owns a notification (`OneOwner`),
and until it commits nobody has a delivery of it (`OwnersHold`). Two inserts meet
at the unique key, two updates at the row lock, and whoever becomes owner later
has to pass the version check, which after an owner's commit fails: a reader whose
version is still current has seen a row that is not deleted and, except to edit
it, not published (`ReadersSee`). Counting deliveries then is counting what the
one owner adds.

`OnlyFailuresLose` adds that every recipient of a publication is either in the
owner's uncommitted rows or still on its list, unless the loss is recorded
(`NobodyForgotten`). `MessagesAreExcused` and `StatusIsTrue` are invariants of
each WhatsApp copy on its own (`TaskIsTrue`), with the one fact about sessions
that a copy is created by an owner. TLC checked the invariant on the two instances
of the runs before it was proved.

### Attendance

`AttendanceProofs.tla`: `AttendanceInvariant`, and from it `JobIsTrueHolds`
(`JobIsTrue`), `LockStopsTeachersHolds` (`LockStopsTeachers`) and
`SkipKeepsMarksHolds` (`SkipKeepsMarks`), for any students, batches, faults and
handlers. `AttInv` says of a request that what it holds of the day and of each row
is true as long as their versions are current (`Unlocked`, `Prepared`). The job
has no version, so a request's copy of it may be out of date; but every copy,
stored or held, counts exactly the rows of the batches it lists, whose students
are in the register, and as rows of the register are marked as deleted but not
removed, what was true of a copy stays true of it (`JobOK`). A status that a late
batch leaves as it is was true when it was written, and stays true for the same
reason.

### Data imports

`ImportJobsProofs.tla`: `OutcomeIsTrueHolds` (`OutcomeIsTrue`), for any number of
requests and rows, any size of a chunk and any rows that name the same mapping.
It rests on keys (`StoreInv`): what a transaction has inserted nobody else can
insert, and what it reports done it has inserted or found.

### Sessions

`SessionsProofs.tla`: `SessionsInvariant`, and from it `OneSuccessorHolds`
(`OneSuccessor`) and `AttemptsAreCountedHolds` (`AttemptsAreCounted`), for any
number of requests, tokens and attempts. A login whose version of the user is
current holds the stored counter (`Entitled`), and found the account active: if the
counter is full all the same, the status was set by hand. A token that has a successor, or is
about to have one (`Spent`), is revoked, and every request that still holds it has
an old version of it. `revoke_all_for_user` may leave versions alone, but it
never makes a token active.

### Only model-checked

- Liveness: `DueIsPublished`, `QueuedIsAnswered`, `ImportEnds`, `JobEnds`. Fairness
  and ENABLED are beyond the prover.
- `LockedIsImmutable`, which is false (below).

## Where code and documents disagree

`marks_locked` is a run that TLC ends with a counterexample. `services/marks.py:109`
says "Locked marks are immutable and cannot transition", and unlocking demands a
reason. `confirm_exam_wide_marks` with UPDATE_EXISTING and the upload of a
class's sheet look at no status: the one replaces the value of a locked row and
its status, the other its value.

Other disagreements met while modelling, which no run shows:

- Overlapping collections of fees draw the same receipt number, and the loser's
  upload replaces the winner's document before its commit fails
  (`services/fee.py:756`, `:867`). The certification report
  (`qa_reports/fees/production_readiness_certification.md:50`, `:85`) says that
  the document carries the receipt's own data.
- The duplicate check of a transaction reference (`services/fee.py:706-721`) has
  no constraint behind it.
- After a reset the number of receipts is smaller than the highest number, so
  the next one is taken and every later collection fails, in all tenants.
  `ReceiptsAreNumbered` promises a free next number only until then.
- `get_daily_collection` (`repositories/fee.py:502`) joins payments to
  assignments by student and counts a payment once per fee of its student.
- An event dispatched again after its notification was deleted runs into the
  unique key and rolls back the notifications of all its recipients;
  `qa_reports/notification_module_verification.md:62` says "safely bypassed".
- Parents are shown marks with the status PUBLISHED: locking published marks
  hides them.
- A save that found the examination open commits after it was frozen or softly
  deleted: nothing compares the examination's version for handlers that do not
  write it.
- An import of attendance submits a locked day again.
- A cancelled import that is being executed ends COMPLETED.
- A row of an import that is reported failed may be stored. Two rows of a mapping
  that name one guardian, by mobile and by email, are both valid
  (`services/import_job.py:2750`, `:2775`); the second fails with
  MAPPING_ALREADY_EXISTS (`:3090`), though its mapping is there. And of two
  executions that overlap one may report as failed what the other has stored: the
  audit rows keep that from being committed for guardians and mappings, until a
  third execution deletes them (`:2308`).
- A late batch of an attendance import, whose client gave up, writes the list of
  batches it has read over the newer one and leaves the status, so a job may be
  COMPLETED with a batch missing from its `job_metadata` and `processed_rows` too
  low (`services/attendance.py:1276-1294`). The rows are there; the missing batch
  would be run again if it were sent.
- `activate_user`, `deactivate_user` (`services/identity_provisioning.py:593-613`),
  `update_user` and others set the status of a user and leave the counter of failed
  logins. An account that is activated with a full counter is locked again by
  one more failure; unlocking it clears the counter.
- Confirming the sheet of a whole examination (`services/marks.py:2205-2365`) stores
  the value, the result and the maximum that the client sends; what the preview
  checked is not checked again.
- Locking a published report card hides it from parents, who see only PUBLISHED
  (`endpoints/report_cards.py:226`).
- `published_at` is taken before the marks are read (`services/report_card.py:1362`,
  `:1598`). A mark saved in between is in the snapshot and is taken for a
  correction; one whose transaction began before and was committed after is not
  in the snapshot, perhaps, and is refused as a correction (`:1127-1146`).
- A card generated for one examination gets a snapshot of the consolidated result
  when it is published (`services/report_card.py:1608`).
- `bulk_generate_class` goes on after an error without a rollback
  (`services/report_card.py:1232-1276`): a published card whose new file could not be
  written goes back to a draft with the next student's commit, though it is
  reported as failed.
- `execute_bulk_attendance_import` (`services/attendance.py:1338`) with
  SKIP_EXISTING skips the rows that were in conflict when the file was
  validated; a mark that was entered since is overwritten.
- `update_status` says "Only assigned teacher, school admin/principal, or
  superuser can change status" (`services/communication.py:502`); any teacher
  can. A request that is reopened keeps its `resolved_at`. Opening a thread marks
  as read what was committed after it was loaded.
- Between revoking a refresh token and issuing the next, a revoke-all of the
  user's tokens misses the one that is about to be issued.

## What is not modelled

Wording, layout and templates of receipts, report cards and messages; reading of
spreadsheets, except which values an import admits; permissions, tenant scoping
and validation of request bodies; queries and reports; the Flutter clients but
for the portal's attendance import; external services beyond accept, refuse and
not answering. Preference editing and device tokens are single-row updates that
the modelled operations only read as "bypass". Which events share an idempotency
key is left to the constants of `Notifications`.

Most of the remaining source is of that kind: endpoints that validate and
serialise, schemas, migrations, repositories of one query each, predictions and
recommendations that read and score, screens. A state machine of it would say
what the code says, once more. What has a state of its own and is left out for
now (the catalogue of fees, staff leave, timetables and their recovery plans, the
deletion of a tenant) has a note in `PROJECT.json` that says what it would need.
Of communication requests, attachments, read marks, insights and statistics are
left out: they write rows that the modelled operations do not read.

## Plan

In order of what matters to a school. Done: `FeeLedger` with `FeeAccounts`,
`Notifications`, `MarksWorkflow` with `MarksBoard`, `ReportCards`, `Attendance`,
`ImportJobs`, `Sessions`, `Communication` with `RequestThread`, `ResultPolicy`,
all with proofs of their safety properties. Next:

1. **An abstract import**: each request's chunk as one atomic step, which
   `ImportJobs` is to implement for any number of requests.
2. **FeeStructures**: catalogue operations over the ledger; the deletion of a
   tenant with the documents left in storage.
3. **StaffLeave**: approval of overlapping requests against one balance.

Modules meant for proofs declare no recursive operator, take their parameters as
constants with named assumptions, and have one action per step of the code.
