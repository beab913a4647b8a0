--------------------------- MODULE Notifications ---------------------------
(***************************************************************************)
(* Notifications of the backend: the event dispatcher, the endpoints that  *)
(* broadcast, publish, cancel, read and delete, the scheduler that every   *)
(* process runs in the background, and the tasks that send over WhatsApp   *)
(* (services/notification.py over repositories/ and models/notification.py *)
(* and api/v1/endpoints/notifications.py).                                 *)
(*                                                                         *)
(* Notification rows carry a version that every UPDATE compares, delivery  *)
(* rows no uniqueness constraint at all: each user of a role gets one row  *)
(* per channel because of a check before the insert.  An uncommitted insert*)
(* or update makes other sessions that need the same key or row wait; a    *)
(* cycle of waiting sessions costs one of them its transaction.            *)
(*                                                                         *)
(* The channels whose outcome is written with the row are one: `delivered' *)
(* counts their committed rows.  WhatsApp is apart, its rows being QUEUED  *)
(* until a background task has talked to the provider.                     *)
(***************************************************************************)
EXTENDS Integers

CONSTANTS
    Notifications,  \* broadcasts, and one for every idempotency key
    Users,
    Recipients,     \* notification |-> users of its role, or its one target
    Events,         \* what is dispatched: sets of keyed notifications
    Broadcasts,     \* notifications created by an administrator, without a key
    Reachable,      \* users with a mobile number, WhatsApp being enabled
    Newcomers,      \* users without a preferences row at first
    Requests,       \* handlers that run at the same time
    Workers,        \* one scheduler per process
    None,
    MaxAttempts,    \* attempts of a WhatsApp task
    MaxVersion,     \* bound: edits of one notification
    MaxFailures     \* bound: crashes, lost connections, unexpected errors

Sessions == Requests \cup Workers

ASSUME NotificationAssumption ==
    /\ Recipients \in [Notifications -> SUBSET Users]
    /\ Broadcasts \subseteq Notifications
    /\ \A E \in Events : /\ E \subseteq Notifications \ Broadcasts
                         /\ \A n \in E : \E u \in Users : Recipients[n] = {u}
    /\ Reachable \subseteq Users /\ Newcomers \subseteq Users
    /\ Requests \cap Workers = {}
    /\ None \notin Notifications \cup Users \cup Sessions
    /\ MaxAttempts \in Nat \ {0} /\ MaxVersion \in Nat /\ MaxFailures \in Nat

VARIABLES
    rows,           \* notifications
    delivered,      \* committed delivery rows of each notification and user
    whatsapp,       \* the WhatsApp row and task of each notification and user
    messages,       \* messages the provider has accepted
    preferences,    \* users with a notification_preferences row
    sessions,       \* what each handler and scheduler tick holds
    lock,           \* the process whose connection holds the advisory lock
    leaders,        \* schedulers whose is_leader is true
    failures,       \* how many failures there have been
    lost,           \* notifications whose dispatch failed once published
    repeated        \* sends that may be repeated: rolled back or unanswered

vars == <<rows, delivered, whatsapp, messages, preferences, sessions,
          lock, leaders, failures, lost, repeated>>
tables == <<rows, delivered, preferences>>
sending == <<whatsapp, messages, repeated>>
election == <<lock, leaders>>

Copies == Notifications \X Users

(* published_at is set in "published"; scheduled_at is past in "due". *)
Row == [state: {"none", "scheduled", "due", "published"}, deleted: BOOLEAN,
        version: Nat]
Answers == {"sent", "refused", "rejected", "unanswered"}
Task == [row: {"none", "QUEUED", "SENT", "FAILED"},
         task: {"none", "sending", "done", "gaveUp"} \cup Answers,
         attempt: 0..MaxAttempts]

Session == [op: {"idle", "dispatch", "broadcast", "publish", "edit", "work"},
            step: {"none", "next", "preferences", "check", "insert", "deliver"},
            todo: SUBSET Notifications,         \* not yet dispatched
            now: Notifications \cup {None},     \* being dispatched
            users: SUBSET Users,                \* its remaining recipients
            user: Users \cup {None},            \* found without preferences
            seen: [Notifications -> Nat],       \* versions of the rows read
            delete: BOOLEAN,                    \* the edit is a soft delete
            locked: BOOLEAN,                    \* the update of now is flushed
            inserted: [Notifications -> {"none", "scheduled", "published"}],
            created: SUBSET Copies,             \* delivery rows, uncommitted
            welcomed: SUBSET Users]             \* preferences rows, uncommitted

NewTask == [row |-> "none", task |-> "none", attempt |-> 0]
Idle == [op |-> "idle", step |-> "none", todo |-> {}, now |-> None,
         users |-> {}, user |-> None, seen |-> [n \in Notifications |-> 0],
         delete |-> FALSE, locked |-> FALSE,
         inserted |-> [n \in Notifications |-> "none"],
         created |-> {}, welcomed |-> {}]

TypeOK ==
    /\ rows \in [Notifications -> Row]
    /\ delivered \in [Copies -> Nat]
    /\ whatsapp \in [Copies -> Task]
    /\ messages \in [Copies -> Nat]
    /\ preferences \subseteq Users
    /\ sessions \in [Sessions -> Session]
    /\ lock \in Workers \cup {None} /\ leaders \subseteq Workers
    /\ failures \in 0..MaxFailures
    /\ lost \subseteq Notifications /\ repeated \subseteq Copies

Init ==
    /\ rows = [n \in Notifications |->
                 [state |-> "none", deleted |-> FALSE, version |-> 0]]
    /\ delivered = [c \in Copies |-> 0]
    /\ whatsapp = [c \in Copies |-> NewTask]
    /\ messages = [c \in Copies |-> 0]
    /\ preferences = Users \ Newcomers
    /\ sessions = [r \in Sessions |-> Idle]
    /\ lock = None /\ leaders = {}
    /\ failures = 0 /\ lost = {} /\ repeated = {}

-----------------------------------------------------------------------------
(* Sessions, rows and what one session holds against another.              *)

Begin(r, s) == sessions' = [sessions EXCEPT ![r] = s]

Visible(n) == rows[n].state # "none" /\ ~rows[n].deleted
Versions == [n \in Notifications |-> rows[n].version]

LockedBy(r, n) == sessions[r].locked /\ sessions[r].now = n
InsertedBy(r, n) == sessions[r].inserted[n] # "none"
Unlocked(r, n) == \A q \in Sessions \ {r} : ~LockedBy(q, n)

(* Slip: no version_id_col on the model. *)
AnyVersion(s, n) == TRUE

(* The version check of an UPDATE. *)
Fresh(s, n) == rows[n].version = s.seen[n]

(* Publishing at once changes the row in the session: the first flush, be  *)
(* it for a delivery or for preferences, writes and locks it.              *)
UpdatesRow(s) == s.op = "publish" /\ ~s.locked
MayFlush(r) ==
    UpdatesRow(sessions[r]) =>
        Unlocked(r, sessions[r].now) /\ Fresh(sessions[r], sessions[r].now)
Flushed(s) == [s EXCEPT !.locked = (s.op = "publish")]

(* The transaction is rolled back.  A WhatsApp task started for one of its *)
(* rows sends its message, or not, and then finds no row.  A scheduler that *)
(* fails after publishing does not come back to the notification.           *)
RollbackSession(r) ==
    LET s == sessions[r] IN
    /\ Begin(r, Idle)
    /\ whatsapp' = [c \in Copies |-> IF c \in s.created THEN NewTask ELSE whatsapp[c]]
    /\ \E M \in SUBSET {c \in s.created : whatsapp[c].task = "sending"} :
          messages' = [c \in Copies |-> IF c \in M THEN messages[c] + 1 ELSE messages[c]]
    /\ repeated' = repeated \cup {c \in s.created : c[2] \in Reachable}
    /\ lost' = IF s.op = "work" /\ s.step # "next" THEN lost \cup {s.now} ELSE lost
    /\ UNCHANGED tables

(* After an exception a scheduler stays leader unless it notices that the   *)
(* connection with its lock is closed.                                      *)
Rollback(r) ==
    /\ RollbackSession(r)
    /\ \/ leaders' = leaders
       \/ lock # r /\ leaders' = leaders \ {r}
    /\ UNCHANGED lock

-----------------------------------------------------------------------------
(* _create_user_deliveries for one recipient.                               *)

(* The user has no preferences row that this session can see. *)
Newcomer(r, u) == u \notin preferences \cup sessions[r].welcomed

FindNewcomer(r, u) ==
    LET s == sessions[r] IN
    /\ s.step = "deliver" /\ u \in s.users
    /\ Newcomer(r, u)
    /\ Begin(r, [s EXCEPT !.step = "preferences", !.user = u])
    /\ UNCHANGED <<tables, sending, election, failures, lost>>

(* create_default_preferences and the flush after it. *)
CreatePreferences(r) ==
    LET s == sessions[r] IN
    /\ s.step = "preferences"
    /\ s.user \notin preferences
    /\ \A q \in Sessions \ {r} : s.user \notin sessions[q].welcomed
    /\ MayFlush(r)
    /\ Begin(r, [Flushed(s) EXCEPT
            !.welcomed = @ \cup {s.user}, !.user = None,
            !.step = IF s.op = "dispatch" THEN "check" ELSE "deliver"])
    /\ UNCHANGED <<tables, sending, election, failures, lost>>

(* One row per channel unless there is one already; the WhatsApp task       *)
(* starts before the row is committed.                                      *)
Deliver(r, u) ==
    LET s == sessions[r]
        c == <<s.now, u>>
        new == {c} \ {d \in Copies : delivered[d] > 0}
    IN
    /\ s.step = "deliver" /\ u \in s.users
    /\ ~Newcomer(r, u)
    /\ MayFlush(r)
    /\ Begin(r, [Flushed(s) EXCEPT
            !.users = @ \ {u},
            !.created = @ \cup new,
            !.step = IF s.op = "dispatch" THEN "next" ELSE @])
    /\ whatsapp' = [d \in Copies |->
            IF d \in new /\ u \in Reachable
            THEN [NewTask EXCEPT !.task = "sending", !.attempt = 1]
            ELSE whatsapp[d]]
    /\ UNCHANGED <<tables, messages, repeated, election, failures, lost>>

-----------------------------------------------------------------------------
(* dispatch_event: one notification for every recipient, one commit.        *)

StartDispatch(r, E) ==
    /\ sessions[r] = Idle
    /\ Begin(r, [Idle EXCEPT !.op = "dispatch", !.step = "next", !.todo = E])
    /\ UNCHANGED <<tables, sending, election, failures, lost>>

NextRecipient(r, n) ==
    LET s == sessions[r]
        u == CHOOSE v \in Recipients[n] : TRUE
    IN
    /\ s.op = "dispatch" /\ s.step = "next" /\ n \in s.todo
    /\ Begin(r, [s EXCEPT
            !.todo = @ \ {n}, !.now = n,
            !.user = IF Newcomer(r, u) THEN u ELSE None,
            !.step = IF Newcomer(r, u) THEN "preferences" ELSE "check"])
    /\ UNCHANGED <<tables, sending, election, failures, lost>>

(* The recipient has switched the category off, is not the student's        *)
(* guardian, or has the notification already.                               *)
Bypass(r) ==
    LET s == sessions[r] IN
    /\ s.step = "check"
    /\ Begin(r, [s EXCEPT !.step = "next", !.now = None])
    /\ UNCHANGED <<tables, sending, election, failures, lost>>

(* The duplicate check looks only at notifications that are not deleted. *)
PassDuplicateCheck(r) ==
    LET s == sessions[r] IN
    /\ s.step = "check" /\ ~Visible(s.now)
    /\ Begin(r, [s EXCEPT !.step = "insert"])
    /\ UNCHANGED <<tables, sending, election, failures, lost>>

(* The insert of a notification: the key must be free.  Without a time in   *)
(* the future it is published, and delivered next.                          *)
Insert(r) ==
    LET s == sessions[r] IN
    /\ s.step = "insert"
    /\ rows[s.now].state = "none"
    /\ \A q \in Sessions \ {r} : ~InsertedBy(q, s.now)
    /\ \/ Begin(r, [s EXCEPT !.inserted[s.now] = "published", !.step = "deliver",
                             !.users = Recipients[s.now]])
       \/ Begin(r, [s EXCEPT !.inserted[s.now] = "scheduled",
                             !.step = IF s.op = "dispatch" THEN "next" ELSE "deliver"])
    /\ UNCHANGED <<tables, sending, election, failures, lost>>

(* create_notification without a target user: a broadcast to a role. *)
StartBroadcast(r, n) ==
    /\ sessions[r] = Idle
    /\ rows[n].state = "none"
    /\ \A q \in Sessions : sessions[q].now # n
    /\ Begin(r, [Idle EXCEPT !.op = "broadcast", !.step = "insert", !.now = n])
    /\ UNCHANGED <<tables, sending, election, failures, lost>>

(* Any error of its deliveries but a database error is only logged, and the *)
(* broadcast committed with the deliveries made so far.                     *)
CutShort(r) ==
    LET s == sessions[r] IN
    /\ s.op = "broadcast" /\ s.step = "deliver" /\ s.users # {}
    /\ failures < MaxFailures /\ failures' = failures + 1
    /\ Begin(r, [s EXCEPT !.users = {}])
    /\ lost' = lost \cup {s.now}
    /\ UNCHANGED <<tables, sending, election>>

-----------------------------------------------------------------------------
(* publish_notification, cancel_notification and delete_notification,       *)
(* mark_read and mark_all_read.                                             *)

StartPublish(r, n) ==
    /\ sessions[r] = Idle
    /\ Visible(n) /\ rows[n].state # "published"
    /\ Begin(r, [Idle EXCEPT !.op = "publish", !.step = "deliver", !.now = n,
                             !.users = Recipients[n], !.seen = Versions])
    /\ UNCHANGED <<tables, sending, election, failures, lost>>

StartEdit(r, N, delete) ==
    /\ sessions[r] = Idle
    /\ \A n \in N : Visible(n)
    /\ Begin(r, [Idle EXCEPT !.op = "edit", !.todo = N, !.seen = Versions,
                             !.delete = delete])
    /\ UNCHANGED <<tables, sending, election, failures, lost>>

Cancel(r, n) == rows[n].state # "published" /\ StartEdit(r, {n}, TRUE)
Delete(r, n) == StartEdit(r, {n}, TRUE)

MarkRead(r, u) ==
    \E N \in SUBSET {n \in Notifications : /\ u \in Recipients[n]
                                           /\ rows[n].version < MaxVersion} :
        N # {} /\ StartEdit(r, N, FALSE)

CommitEdit(r) ==
    LET s == sessions[r] IN
    /\ s.op = "edit"
    /\ \A n \in s.todo : Unlocked(r, n) /\ Fresh(s, n)
    /\ rows' = [n \in Notifications |->
                  IF n \in s.todo
                  THEN [rows[n] EXCEPT !.deleted = @ \/ s.delete, !.version = @ + 1]
                  ELSE rows[n]]
    /\ Begin(r, Idle)
    /\ UNCHANGED <<delivered, preferences, sending, election, failures, lost>>

-----------------------------------------------------------------------------
(* The commit of a dispatch, a broadcast, a publication or the deliveries   *)
(* of one scheduled notification.                                           *)

Finished(s) ==
    \/ s.op = "dispatch" /\ s.step = "next" /\ s.todo = {}
    \/ s.op # "dispatch" /\ s.step = "deliver" /\ s.users = {}

(* A dispatch that created nothing is not committed. *)
Void(s) == s.op = "dispatch" /\ \A n \in Notifications : s.inserted[n] = "none"

(* Slip: the insert forgets the time of publication. *)
RowWithoutTime(s, n) ==
    IF s.inserted[n] # "none" THEN [rows[n] EXCEPT !.state = "scheduled"] ELSE rows[n]

CommittedRow(s, n) ==
    CASE s.inserted[n] # "none" -> [rows[n] EXCEPT !.state = s.inserted[n]]
      [] s.op = "publish" /\ s.now = n ->
            [rows[n] EXCEPT !.state = "published", !.version = @ + 1]
      [] OTHER -> rows[n]

(* What a scheduler tick goes on with. *)
Remaining(s) ==
    IF s.op = "work" /\ s.todo # {}
    THEN [Idle EXCEPT !.op = "work", !.step = "next", !.todo = s.todo, !.seen = s.seen]
    ELSE Idle

Commit(r) ==
    LET s == sessions[r] IN
    /\ Finished(s) /\ ~Void(s)
    /\ MayFlush(r)
    /\ rows' = [n \in Notifications |-> CommittedRow(s, n)]
    /\ delivered' = [c \in Copies |->
                       IF c \in s.created THEN delivered[c] + 1 ELSE delivered[c]]
    /\ whatsapp' = [c \in Copies |->
                      IF c \in s.created /\ c[2] \in Reachable
                      THEN [whatsapp[c] EXCEPT !.row = "QUEUED"] ELSE whatsapp[c]]
    /\ preferences' = preferences \cup s.welcomed
    /\ Begin(r, Remaining(s))
    /\ UNCHANGED <<messages, repeated, election, failures, lost>>

(* An empty dispatch ends; its session is closed without a commit. *)
EndVoid(r) ==
    /\ Finished(sessions[r]) /\ Void(sessions[r])
    /\ Begin(r, Idle)
    /\ UNCHANGED <<tables, sending, election, failures, lost>>

-----------------------------------------------------------------------------
(* What ends a transaction without anybody's fault: a key or a preferences  *)
(* row taken since it was looked for, a version that changed, a deadlock.   *)

KeyTaken(r) ==
    /\ sessions[r].step = "insert"
    /\ rows[sessions[r].now].state # "none"
    /\ Rollback(r) /\ UNCHANGED failures

PreferencesTaken(r) ==
    /\ sessions[r].step = "preferences"
    /\ sessions[r].user \in preferences
    /\ Rollback(r) /\ UNCHANGED failures

(* The rows whose UPDATE is due. *)
Updates(s) ==
    CASE s.op = "edit" -> s.todo
      [] s.op = "publish" -> IF s.locked THEN {} ELSE {s.now}
      [] s.op = "work" -> IF s.step = "next" THEN s.todo ELSE {}
      [] OTHER -> {}

Stale(r) ==
    /\ \E n \in Updates(sessions[r]) : Unlocked(r, n) /\ ~Fresh(sessions[r], n)
    /\ Rollback(r) /\ UNCHANGED failures

(* Only inserts are waited for by sessions that others may wait for. *)
WaitsFor(q, r) ==
    LET s == sessions[q] IN
    /\ q # r
    /\ \/ s.step = "preferences" /\ s.user \in sessions[r].welcomed
       \/ s.step = "insert" /\ InsertedBy(r, s.now)

Deadlocked(r) ==
    /\ \E Q \in SUBSET Sessions :
        /\ r \in Q
        /\ \A q \in Q : /\ \E p \in Q : WaitsFor(q, p)
                        /\ \E p \in Q : WaitsFor(p, q)
    /\ Rollback(r) /\ UNCHANGED failures

(* The handler or the tick raises, its process dies or its client leaves.   *)
Fail(r) ==
    /\ sessions[r] # Idle
    /\ failures < MaxFailures /\ failures' = failures + 1
    /\ Rollback(r)

-----------------------------------------------------------------------------
(* run_scheduled_notification_worker, one in every process.                 *)

(* pg_try_advisory_lock *)
Acquire(w) ==
    /\ w \notin leaders /\ lock = None
    /\ lock' = w /\ leaders' = leaders \cup {w}
    /\ UNCHANGED <<tables, sending, sessions, failures, lost>>

(* The connection that holds the lock is closed by the server; the worker   *)
(* does not look at it before something else fails.                         *)
LoseConnection(w) ==
    /\ lock = w
    /\ failures < MaxFailures /\ failures' = failures + 1
    /\ lock' = None
    /\ UNCHANGED <<tables, sending, sessions, leaders, lost>>

(* Slip: the connection goes back to the pool with the lock. *)
RestartWithLock(w) ==
    /\ w \in leaders
    /\ failures < MaxFailures /\ failures' = failures + 1
    /\ RollbackSession(w)
    /\ leaders' = leaders \ {w} /\ lock' = lock

(* The process stops and starts again: its connections are closed. *)
Restart(w) ==
    /\ w \in leaders
    /\ failures < MaxFailures /\ failures' = failures + 1
    /\ RollbackSession(w)
    /\ leaders' = leaders \ {w}
    /\ lock' = IF lock = w THEN None ELSE lock

Due == {n \in Notifications : rows[n].state = "due" /\ ~rows[n].deleted}

Poll(w) ==
    /\ w \in leaders
    /\ sessions[w] = Idle /\ Due # {}
    /\ Begin(w, [Idle EXCEPT !.op = "work", !.step = "next",
                             !.todo = Due, !.seen = Versions])
    /\ UNCHANGED <<tables, sending, election, failures, lost>>

(* Slip: one commit publishes all that is due. *)
PublishAllDue(w, n) ==
    LET s == sessions[w] IN
    /\ s.op = "work" /\ s.step = "next" /\ n \in s.todo
    /\ \A m \in s.todo : Unlocked(w, m) /\ Fresh(s, m)
    /\ rows' = [m \in Notifications |->
                  IF m \in s.todo
                  THEN [rows[m] EXCEPT !.state = "published", !.version = @ + 1]
                  ELSE rows[m]]
    /\ Begin(w, [s EXCEPT !.step = "deliver", !.now = n, !.todo = @ \ {n},
                          !.users = Recipients[n]])
    /\ UNCHANGED <<delivered, preferences, sending, election, failures, lost>>

(* published_at is set and committed before anything is delivered. *)
PublishDue(w, n) ==
    LET s == sessions[w] IN
    /\ s.op = "work" /\ s.step = "next" /\ n \in s.todo
    /\ Unlocked(w, n) /\ Fresh(s, n)
    /\ rows' = [rows EXCEPT ![n].state = "published", ![n].version = @ + 1]
    /\ Begin(w, [s EXCEPT !.step = "deliver", !.now = n, !.todo = @ \ {n},
                          !.users = Recipients[n]])
    /\ UNCHANGED <<delivered, preferences, sending, election, failures, lost>>

(* scheduled_at passes. *)
Elapse(n) ==
    /\ rows[n].state = "scheduled" /\ ~rows[n].deleted
    /\ rows' = [rows EXCEPT ![n].state = "due"]
    /\ UNCHANGED <<delivered, preferences, sending, sessions, election,
                   failures, lost>>

-----------------------------------------------------------------------------
(* _send_whatsapp_with_retry: one attempt, then its outcome is recorded.    *)

(* Accepted; refused for now; rejected for good; accepted without an answer *)
(* in time, which the task takes for a refusal.                             *)
Send(c) ==
    /\ whatsapp[c].task = "sending"
    /\ \E answer \in Answers :
        /\ whatsapp' = [whatsapp EXCEPT ![c].task = answer]
        /\ messages' = [messages EXCEPT
                          ![c] = IF answer \in {"sent", "unanswered"} THEN @ + 1 ELSE @]
        /\ repeated' = IF answer = "unanswered" THEN repeated \cup {c} ELSE repeated
    /\ UNCHANGED <<tables, sessions, election, failures, lost>>

(* Slip: a success does not end the loop. *)
RecordAndRetry(t) ==
    CASE t.row = "none" -> [t EXCEPT !.task = "gaveUp"]
      [] t.row # "none" /\ t.attempt < MaxAttempts ->
            [t EXCEPT !.row = "QUEUED", !.task = "sending", !.attempt = @ + 1]
      [] OTHER -> [t EXCEPT !.row = "FAILED", !.task = "done"]

(* Slip: a temporary failure of the last attempt leaves the row queued. *)
LeaveQueued(t) ==
    IF t.row = "none" THEN [t EXCEPT !.task = "gaveUp"]
    ELSE IF t.task = "sent" THEN [t EXCEPT !.row = "SENT", !.task = "done"]
    ELSE IF t.task = "rejected" THEN [t EXCEPT !.row = "FAILED", !.task = "done"]
    ELSE IF t.attempt < MaxAttempts
         THEN [t EXCEPT !.row = "QUEUED", !.task = "sending", !.attempt = @ + 1]
         ELSE [t EXCEPT !.row = "QUEUED", !.task = "done"]

(* Slip: one attempt too many. *)
OnceMore(t) ==
    CASE t.row = "none" -> [t EXCEPT !.task = "gaveUp"]
      [] t.row # "none" /\ t.task = "sent" -> [t EXCEPT !.row = "SENT", !.task = "done"]
      [] t.row # "none" /\ t.task \in {"refused", "unanswered"}
            /\ t.attempt <= MaxAttempts ->
            [t EXCEPT !.row = "QUEUED", !.task = "sending", !.attempt = @ + 1]
      [] OTHER -> [t EXCEPT !.row = "FAILED", !.task = "done"]

Recorded(t) ==
    CASE t.row = "none" -> [t EXCEPT !.task = "gaveUp"]
      [] t.row # "none" /\ t.task = "sent" -> [t EXCEPT !.row = "SENT", !.task = "done"]
      [] t.row # "none" /\ t.task \in {"refused", "unanswered"}
            /\ t.attempt < MaxAttempts ->
            [t EXCEPT !.row = "QUEUED", !.task = "sending", !.attempt = @ + 1]
      [] OTHER -> [t EXCEPT !.row = "FAILED", !.task = "done"]

Record(c) ==
    /\ whatsapp[c].task \in Answers
    /\ whatsapp' = [whatsapp EXCEPT ![c] = Recorded(@)]
    /\ UNCHANGED <<tables, messages, repeated, sessions, election, failures, lost>>

(* The process stops; nothing takes the task up again. *)
KillTask(c) ==
    /\ whatsapp[c].task \in Answers \cup {"sending"}
    /\ failures < MaxFailures /\ failures' = failures + 1
    /\ whatsapp' = [whatsapp EXCEPT ![c].task = "gaveUp"]
    /\ UNCHANGED <<tables, messages, repeated, sessions, election, lost>>

-----------------------------------------------------------------------------
Ask(r) ==
    \/ \E E \in Events : StartDispatch(r, E)
    \/ \E n \in Broadcasts : StartBroadcast(r, n)
    \/ \E n \in Notifications : StartPublish(r, n) \/ Cancel(r, n) \/ Delete(r, n)
    \/ \E u \in Users : MarkRead(r, u)

(* What a session that has begun does next. *)
Advance(r) ==
    \/ \E u \in Users : FindNewcomer(r, u) \/ Deliver(r, u)
    \/ \E n \in Notifications : NextRecipient(r, n) \/ PublishDue(r, n)
    \/ CreatePreferences(r) \/ Bypass(r) \/ PassDuplicateCheck(r) \/ Insert(r)
    \/ CommitEdit(r) \/ Commit(r) \/ EndVoid(r)
    \/ KeyTaken(r) \/ PreferencesTaken(r) \/ Stale(r) \/ Deadlocked(r)

Tick(w) == Acquire(w) \/ Poll(w) \/ Advance(w)
Attempt(c) == Send(c) \/ Record(c)

Next ==
    \/ \E r \in Requests : Ask(r) \/ CutShort(r) \/ Advance(r)
    \/ \E r \in Sessions : Fail(r)
    \/ \E w \in Workers : Tick(w) \/ LoseConnection(w) \/ Restart(w)
    \/ \E n \in Notifications : Elapse(n)
    \/ \E c \in Copies : Attempt(c) \/ KillTask(c)

Spec == Init /\ [][Next]_vars

(* The event loop resumes every coroutine that can go on: handlers that     *)
(* have begun, the scheduler and the WhatsApp tasks.  Nobody has to call.   *)
Fairness ==
    /\ \A r \in Requests : WF_vars(Advance(r))
    /\ \A w \in Workers : WF_vars(Tick(w))
    /\ \A c \in Copies : WF_vars(Attempt(c))

FairSpec == Spec /\ Fairness

-----------------------------------------------------------------------------
(* Properties.                                                              *)

(* No user gets two delivery rows of one notification on a channel, with    *)
(* two schedulers that both believe to be leader, or a publication that     *)
(* races the scheduler: nothing in the delivery table prevents it, only the *)
(* version of the notification's row.                                       *)
OneDeliveryPerChannel == \A c \in Copies : delivered[c] <= 1

(* Until its publication is committed a notification has no delivery, so    *)
(* one that was cancelled in time never gets any.                           *)
UnpublishedIsSilent ==
    \A n \in Notifications : rows[n].state # "published" =>
        \A u \in Users : delivered[<<n, u>>] = 0

(* A deleted row is never written again: a cancellation that races the      *)
(* scheduler or a publication either fails or stops it.                     *)
DeletedIsFinal ==
    [][\A n \in Notifications : rows[n].deleted => rows'[n] = rows[n]]_vars

(* A published notification has reached all its recipients, or a scheduler  *)
(* is delivering it, or its dispatch failed after the publication was       *)
(* committed; the clients list published notifications, and nobody polls    *)
(* them again.                                                              *)
OnlyFailuresLose ==
    \A n \in Notifications : rows[n].state = "published" /\ n \notin lost =>
        \/ \A u \in Recipients[n] : delivered[<<n, u>>] > 0
        \/ \E w \in Workers : sessions[w].op = "work" /\ sessions[w].now = n

(* A message is accepted twice only after a rollback or a lost answer, and  *)
(* one whose notification is not committed has its session still running,   *)
(* or rolled back.                                                          *)
MessagesAreExcused ==
    \A n \in Notifications, u \in Users :
        LET c == <<n, u>> IN
        c \notin repeated =>
            /\ messages[c] <= 1
            /\ messages[c] = 1 => \/ delivered[c] = 1
                                  \/ \E r \in Sessions : c \in sessions[r].created

(* The status of a WhatsApp row is true: SENT only what the provider        *)
(* accepted, FAILED only when the task is over, and QUEUED only while it is *)
(* running or if it found no row to report to.                              *)
StatusIsTrue ==
    \A c \in Copies :
        LET t == whatsapp[c] IN
        /\ t.row = "SENT" => messages[c] > 0 /\ t.task = "done"
        /\ t.row = "FAILED" => t.task = "done"
        /\ t.row = "QUEUED" => t.task \notin {"none", "done"}

(* A notification that is due is published, unless somebody deletes it:     *)
(* through changes of leader, failing ticks and rows edited under the       *)
(* scheduler's hands.                                                       *)
DueIsPublished ==
    \A n \in Notifications :
        rows[n].state = "due" ~> rows[n].state = "published" \/ rows[n].deleted

(* A queued WhatsApp row gets its final status unless its task gave up.     *)
QueuedIsAnswered ==
    \A c \in Copies :
        whatsapp[c].row = "QUEUED" ~>
            whatsapp[c].row \in {"SENT", "FAILED"} \/ whatsapp[c].task = "gaveUp"

=============================================================================
