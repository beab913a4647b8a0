------------------------ MODULE NotificationsProofs ------------------------
(***************************************************************************)
(* Proofs about Notifications, for any number of notifications, users,     *)
(* handlers, schedulers, failures and attempts.                            *)
(*                                                                         *)
(* At every time at most one session is about to make a notification's     *)
(* delivery rows: the one whose insert of it is not committed, the one     *)
(* whose update of it is flushed, or the scheduler that has committed its  *)
(* publication.  It owns the notification, and until it commits nobody has *)
(* a delivery row of it.                                                   *)
(***************************************************************************)
EXTENDS Notifications, TLAPS

Inserts(s, n) == s.inserted[n] # "none"
Locks(s, n) == s.op = "publish" /\ s.locked /\ s.now = n
Works(s, n) == s.op = "work" /\ s.step # "next" /\ s.now = n
Owns(s, n) == Inserts(s, n) \/ Locks(s, n) \/ Works(s, n)

(* The rows a session has read and may update, or has updated. *)
Reads(s, n) ==
    \/ s.op \in {"edit", "work"} /\ n \in s.todo
    \/ s.op = "publish" /\ s.now = n

(* A publication that the session has made or will make. *)
Publishes(s, n) ==
    \/ s.inserted[n] = "published" \/ Works(s, n)
    \/ s.op = "publish" /\ s.now = n

Single(n) == \E u \in Users : Recipients[n] = {u}

-----------------------------------------------------------------------------
(* What holds of a session by itself.                                      *)

Placed(s) ==
    /\ s.op = "idle" => s = Idle
    /\ s.op = "edit" => s.step = "none"
    /\ s.op = "work" => s.step \in {"next", "preferences", "deliver"}
    /\ s.op = "dispatch" => s.step # "none"
    /\ s.op = "broadcast" => s.step \in {"insert", "preferences", "deliver"}
    /\ s.op = "publish" => s.step \in {"preferences", "deliver"}
    /\ s.step \in {"preferences", "check", "insert", "deliver"} => s.now \in Notifications
    /\ s.step = "preferences" => s.user \in Users
    /\ s.op = "dispatch" /\ s.step = "preferences" => s.user \in Recipients[s.now]
    /\ s.op = "work" /\ s.step = "next" => s.now = None
    /\ s.op # "publish" => s.locked = FALSE

Insertions(s) ==
    /\ s.op \notin {"dispatch", "broadcast"} => \A n \in Notifications : ~Inserts(s, n)
    /\ s.op = "broadcast" => \A n \in Notifications : Inserts(s, n) => n = s.now
    /\ s.op = "dispatch" => \A n \in s.todo : ~Inserts(s, n) /\ Single(n)
    /\ s.op = "dispatch" /\ s.step # "next" => s.now \notin s.todo /\ Single(s.now)
    /\ s.op = "dispatch" /\ s.step \in {"preferences", "check"} => ~Inserts(s, s.now)
    /\ s.step = "insert" => ~Inserts(s, s.now)

ToDeliver(s) ==
    /\ s.op = "dispatch" => s.users = IF s.step = "deliver" THEN Recipients[s.now] ELSE {}
    /\ s.op = "dispatch" /\ s.step = "deliver" => s.inserted[s.now] = "published"
    /\ s.op = "broadcast" /\ s.users # {} => s.inserted[s.now] = "published"
    /\ s.step = "insert" => s.users = {}

Created(s) ==
    /\ \A c \in s.created : Owns(s, c[1])
    /\ \A c \in s.created : Inserts(s, c[1]) => s.inserted[c[1]] = "published"
    /\ \A u \in s.users : <<s.now, u>> \notin s.created

Shaped(s) == Placed(s) /\ Insertions(s) /\ ToDeliver(s) /\ Created(s)

-----------------------------------------------------------------------------
(* What holds between the sessions and the tables.                         *)

Silent(D, n) == \A u \in Users : D[<<n, u>>] = 0

(* The owner's view of its row, in the table R. *)
Held(R, s, n) ==
    /\ Inserts(s, n) => R[n].state = "none"
    /\ Locks(s, n) => R[n].version = s.seen[n]
    /\ Works(s, n) => R[n].state = "published"

(* Nobody changes a row without changing its version. *)
Seen(R, s, n) ==
    /\ R[n].state # "none" /\ s.seen[n] <= R[n].version
    /\ R[n].version = s.seen[n] =>
          ~R[n].deleted /\ (s.op # "edit" => R[n].state # "published")

(* A dispatch has looked at the preferences before it delivers; P has them. *)
Known(P, s) ==
    s.op = "dispatch" /\ s.step \in {"check", "insert", "deliver"} =>
        Recipients[s.now] \subseteq P \cup s.welcomed

SessionsShaped == \A r \in Sessions : Shaped(sessions[r])
SchedulersWork == \A r \in Sessions : sessions[r].op = "work" => r \in Workers
OneOwner ==
    \A q, r \in Sessions : \A n \in Notifications :
        Owns(sessions[q], n) /\ Owns(sessions[r], n) => q = r
OwnersHold == \A r \in Sessions : \A n \in Notifications :
                 Owns(sessions[r], n) => Held(rows, sessions[r], n) /\ Silent(delivered, n)
ReadersSee == \A r \in Sessions : \A n \in Notifications :
                 Reads(sessions[r], n) => Seen(rows, sessions[r], n)
RecipientsKnown == \A r \in Sessions : Known(preferences, sessions[r])
NewIsNotDeleted == \A n \in Notifications : rows[n].state = "none" => ~rows[n].deleted

Ownership ==
    /\ TypeOK /\ SessionsShaped /\ SchedulersWork
    /\ OneOwner /\ OwnersHold /\ ReadersSee /\ RecipientsKnown /\ NewIsNotDeleted
    /\ OneDeliveryPerChannel /\ UnpublishedIsSilent

(* Every recipient is delivered to already, or is still to come. *)
Covered(s, n) == \A u \in Recipients[n] : \/ <<n, u>> \in s.created
                                          \/ s.now = n /\ u \in s.users

NobodyForgotten ==
    \A r \in Sessions : \A n \in Notifications :
        Publishes(sessions[r], n) => Covered(sessions[r], n) \/ n \in lost

NoLoss == NobodyForgotten /\ OnlyFailuresLose

(* Nobody but r is about to deliver the notification, nor has. *)
Free(r, n) == /\ Silent(delivered, n)
              /\ \A q \in Sessions \ {r} : ~Owns(sessions[q], n)

-----------------------------------------------------------------------------
(* WhatsApp: the task of a copy starts with its delivery row.              *)

Holders(c) == {r \in Sessions : c \in sessions[r].created}

TaskIsTrue(c) ==
    LET t == whatsapp[c] IN
    /\ c[2] \notin Reachable => t = NewTask
    /\ t.row # "none" => delivered[c] = 1
    /\ t.task = "done" => t.row # "none"
    /\ t.task = "sent" => messages[c] > 0
    /\ c \notin repeated =>
          /\ messages[c] <= 1 /\ t.task # "unanswered"
          /\ t.task \in {"none", "sending", "refused", "rejected"} => messages[c] = 0
          /\ t.task # "none" => delivered[c] = 1 \/ Holders(c) # {}
    /\ Holders(c) # {} /\ c[2] \in Reachable => t.task # "none"

TasksAreTrue == \A c \in Copies : TaskIsTrue(c)

Core == Ownership /\ NoLoss
Sending == TasksAreTrue /\ StatusIsTrue

NotifyInv == Core /\ Sending

-----------------------------------------------------------------------------
(* Steps of one session.                                                   *)

(* What a step of r may do to a row. *)
RowChange(r, n) ==
    \/ rows'[n] = rows[n]
    \/ /\ rows[n].state = "scheduled" /\ ~rows[n].deleted
       /\ rows'[n] = [rows[n] EXCEPT !.state = "due"]
    \/ /\ Inserts(sessions[r], n)
       /\ rows'[n] = [rows[n] EXCEPT !.state = sessions[r].inserted[n]]
    \/ /\ Reads(sessions[r], n) /\ Fresh(sessions[r], n) /\ Unlocked(r, n)
       /\ rows'[n].version = rows[n].version + 1
       /\ rows'[n].state \in {rows[n].state, "published"}

Delivery(r, n, u) ==
    \/ delivered'[<<n, u>>] = delivered[<<n, u>>]
    \/ /\ delivered'[<<n, u>>] = 1
       /\ Owns(sessions[r], n) /\ rows'[n].state = "published"

DeletedStays == \A n \in Notifications : rows[n].deleted => rows'[n] = rows[n]

LEMMA RowSteps ==
    ASSUME Ownership, TypeOK', NEW r \in Sessions, NEW n \in Notifications, RowChange(r, n)
    PROVE  /\ rows[n].deleted => rows'[n] = rows[n]
           /\ rows[n].state = "published" => rows'[n].state = "published"
           /\ rows[n].state = "none" => rows'[n] = rows[n] \/ Inserts(sessions[r], n)
           /\ rows'[n].state = "none" => rows'[n] = rows[n]
           /\ \/ rows'[n] = rows[n]
              \/ rows[n].state = "none" /\ Inserts(sessions[r], n)
              \/ /\ rows'[n].version = rows[n].version /\ rows'[n].deleted = rows[n].deleted
                 /\ rows[n].state = "scheduled" /\ rows'[n].state = "due"
              \/ /\ rows'[n].version = rows[n].version + 1
                 /\ rows'[n].state \in {rows[n].state, "published"}
                 /\ rows[n].state # "none" /\ Unlocked(r, n)
<1>1. /\ rows[n] \in Row /\ rows'[n] \in Row /\ rows[n].version \in Nat
      /\ rows[n].state \in {"none", "scheduled", "due", "published"}
  BY DEF Ownership, TypeOK, Row
<1>2. CASE rows'[n] = rows[n]
  BY <1>2
<1>3. CASE /\ rows[n].state = "scheduled" /\ ~rows[n].deleted
           /\ rows'[n] = [rows[n] EXCEPT !.state = "due"]
  <2>1. LET x == [rows[n] EXCEPT !.state = "due"]
        IN  x.state = "due" /\ x.deleted = rows[n].deleted /\ x.version = rows[n].version
    BY <1>1 DEF Row
  <2>2. /\ rows'[n].state = "due" /\ rows'[n].deleted = rows[n].deleted
        /\ rows'[n].version = rows[n].version
    BY <1>3, <2>1
  <2>3. QED
    BY <1>3, <2>2
<1>4. CASE /\ Inserts(sessions[r], n)
           /\ rows'[n] = [rows[n] EXCEPT !.state = sessions[r].inserted[n]]
  <2>1. rows[n].state = "none" /\ ~rows[n].deleted
    BY <1>4 DEF Ownership, OwnersHold, Held, Owns, NewIsNotDeleted
  <2>2. rows'[n].state = sessions[r].inserted[n]
    BY <1>1, <1>4 DEF Row
  <2>3. rows'[n].state # "none"
    BY <1>4, <2>2 DEF Inserts
  <2>4. QED
    BY <1>4, <2>1, <2>3
<1>5. CASE /\ Reads(sessions[r], n) /\ Fresh(sessions[r], n) /\ Unlocked(r, n)
           /\ rows'[n].version = rows[n].version + 1
           /\ rows'[n].state \in {rows[n].state, "published"}
  <2>1. Seen(rows, sessions[r], n)
    BY <1>5 DEF Ownership, ReadersSee
  <2>2. rows[n].state # "none" /\ ~rows[n].deleted
    BY <1>5, <2>1 DEF Seen, Fresh
  <2>3. QED
    BY <1>5, <2>2
<1>6. QED
  BY <1>2, <1>3, <1>4, <1>5 DEF RowChange

LEMMA Move ==
    ASSUME Ownership, NEW r \in Sessions, NEW t \in Session, Shaped(t),
           sessions' = [sessions EXCEPT ![r] = t], TypeOK',
           t.op = "work" => r \in Workers,
           preferences \subseteq preferences', Known(preferences', t),
           \A n \in Notifications : RowChange(r, n),
           \A n \in Notifications, u \in Users : Delivery(r, n, u),
           \A n \in Notifications : Owns(t, n) =>
              /\ Held(rows', t, n) /\ Silent(delivered', n)
              /\ \A q \in Sessions \ {r} : ~Owns(sessions[q], n),
           \A n \in Notifications : Reads(t, n) => Seen(rows', t, n)
    PROVE  Ownership' /\ DeletedStays
<1>1. \A q \in Sessions : sessions'[q] = IF q = r THEN t ELSE sessions[q]
  BY DEF Ownership, TypeOK
<1>2. SessionsShaped' /\ SchedulersWork'
  BY <1>1 DEF Ownership, SessionsShaped, SchedulersWork
<1>3. DeletedStays
  BY RowSteps DEF DeletedStays
<1>4. ASSUME NEW q \in Sessions, q # r, NEW n \in Notifications, Owns(sessions[q], n)
      PROVE  Held(rows', sessions[q], n) /\ Silent(delivered', n)
  <2>1. ~Owns(sessions[r], n) /\ Held(rows, sessions[q], n) /\ Silent(delivered, n)
    BY <1>4 DEF Ownership, OneOwner, OwnersHold
  <2>2. ~Inserts(sessions[r], n)
    BY <2>1 DEF Owns
  <2>3. Silent(delivered', n)
    BY <2>1 DEF Silent, Delivery
  <2>4. ASSUME Inserts(sessions[q], n) PROVE rows'[n].state = "none"
    BY <2>1, <2>2, <2>4, RowSteps DEF Held
  <2>5. ASSUME Locks(sessions[q], n) PROVE rows'[n].version = sessions[q].seen[n]
    <3>1. ~Unlocked(r, n)
      BY <1>4, <2>5 DEF Unlocked, LockedBy, Locks
    <3>2. rows'[n].version = rows[n].version
      BY <2>2, <3>1, RowSteps
    <3>3. QED
      BY <2>1, <2>5, <3>2 DEF Held
  <2>6. ASSUME Works(sessions[q], n) PROVE rows'[n].state = "published"
    BY <2>1, <2>6, RowSteps DEF Held
  <2>7. QED
    BY <2>3, <2>4, <2>5, <2>6 DEF Held
<1>5. ASSUME NEW q \in Sessions, q # r, NEW n \in Notifications, Reads(sessions[q], n)
      PROVE  Seen(rows', sessions[q], n)
  <2>1. Seen(rows, sessions[q], n)
    BY <1>5 DEF Ownership, ReadersSee
  <2>2. sessions[q].seen[n] \in Nat /\ rows[n].version \in Nat
    BY DEF Ownership, TypeOK, Row, Session
  <2>3. CASE rows'[n] = rows[n]
    BY <2>1, <2>3 DEF Seen
  <2>4. CASE /\ rows'[n].version = rows[n].version /\ rows'[n].deleted = rows[n].deleted
             /\ rows'[n].state = "due"
    BY <2>1, <2>4 DEF Seen
  <2>5. CASE /\ rows'[n].version = rows[n].version + 1
             /\ rows'[n].state \in {rows[n].state, "published"}
    BY <2>1, <2>2, <2>5 DEF Seen
  <2>6. QED
    BY <2>1, <2>3, <2>4, <2>5, RowSteps DEF Seen
<1>6. OneOwner'
  BY <1>1 DEF Ownership, OneOwner
<1>7. OwnersHold'
  BY <1>1, <1>4 DEF OwnersHold
<1>8. ReadersSee'
  BY <1>1, <1>5 DEF ReadersSee
<1>9. NewIsNotDeleted'
  <2>1. SUFFICES ASSUME NEW n \in Notifications, rows'[n].state = "none"
                 PROVE  ~rows'[n].deleted
    BY DEF NewIsNotDeleted
  <2>2. rows'[n] = rows[n]
    BY <2>1, RowSteps
  <2>3. QED
    BY <2>1, <2>2 DEF Ownership, NewIsNotDeleted
<1>10. OneDeliveryPerChannel'
  <2>1. SUFFICES ASSUME NEW n \in Notifications, NEW u \in Users
                 PROVE  delivered'[<<n, u>>] <= 1
    BY DEF OneDeliveryPerChannel, Copies
  <2>2. delivered[<<n, u>>] <= 1
    BY DEF Ownership, OneDeliveryPerChannel, Copies
  <2>3. QED
    BY <2>2 DEF Delivery
<1>11. UnpublishedIsSilent'
  <2>1. SUFFICES ASSUME NEW n \in Notifications, NEW u \in Users, rows'[n].state # "published"
                 PROVE  delivered'[<<n, u>>] = 0
    BY DEF UnpublishedIsSilent
  <2>2. rows[n].state # "published"
    BY <2>1, RowSteps
  <2>3. QED
    BY <2>1, <2>2 DEF Ownership, UnpublishedIsSilent, Delivery
<1>12. RecipientsKnown'
  BY <1>1 DEF Ownership, RecipientsKnown, Known
<1>13. QED
  BY <1>2, <1>3, <1>6, <1>7, <1>8, <1>9, <1>10, <1>11, <1>12 DEF Ownership

(* A step that leaves the tables alone: a session starts, goes on or ends. *)
LEMMA Quiet ==
    ASSUME Ownership, NoLoss, NEW r \in Sessions, NEW t \in Session, Shaped(t),
           sessions' = [sessions EXCEPT ![r] = t], UNCHANGED tables, TypeOK',
           t.op = "work" => r \in Workers,
           lost \subseteq lost', Known(preferences, t),
           \A n \in Notifications : Owns(t, n) =>
              Held(rows, t, n) /\ (Owns(sessions[r], n) \/ Free(r, n)),
           \A n \in Notifications : Reads(t, n) => Seen(rows, t, n),
           \A n \in Notifications : Publishes(t, n) => Covered(t, n) \/ n \in lost',
           \A n \in Notifications : Works(sessions[r], n) => Works(t, n) \/ n \in lost'
    PROVE  Ownership' /\ NoLoss' /\ DeletedStays
<1>1. rows' = rows /\ delivered' = delivered /\ preferences' = preferences
  BY DEF tables
<1>2. \A q \in Sessions : sessions'[q] = IF q = r THEN t ELSE sessions[q]
  BY DEF Ownership, TypeOK
<1>3. Ownership' /\ DeletedStays
  <2>1. \A n \in Notifications : RowChange(r, n)
    BY <1>1 DEF RowChange
  <2>2. \A n \in Notifications, u \in Users : Delivery(r, n, u)
    BY <1>1 DEF Delivery
  <2>3. \A n \in Notifications : Owns(t, n) =>
              /\ Held(rows', t, n) /\ Silent(delivered', n)
              /\ \A q \in Sessions \ {r} : ~Owns(sessions[q], n)
    BY <1>1 DEF Ownership, OneOwner, OwnersHold, Free
  <2>4. \A n \in Notifications : Reads(t, n) => Seen(rows', t, n)
    BY <1>1
  <2>5. QED
    BY <1>1, <2>1, <2>2, <2>3, <2>4, Move
<1>4. NobodyForgotten'
  BY <1>2 DEF NoLoss, NobodyForgotten
<1>5. OnlyFailuresLose'
  <2>1. SUFFICES ASSUME NEW n \in Notifications, rows[n].state = "published", n \notin lost',
                        NEW v \in Recipients[n], ~(delivered[<<n, v>>] > 0)
                 PROVE  \E w \in Workers : sessions'[w].op = "work" /\ sessions'[w].now = n
    BY <1>1 DEF OnlyFailuresLose
  <2>2. PICK w \in Workers : sessions[w].op = "work" /\ sessions[w].now = n
    BY <2>1 DEF NoLoss, OnlyFailuresLose
  <2>3. w \in Sessions /\ Placed(sessions[w])
    BY DEF Sessions, Ownership, SessionsShaped, Shaped
  <2>4. Works(sessions[w], n)
    BY <2>2, <2>3, NotificationAssumption DEF Placed, Works
  <2>5. QED
    BY <1>2, <2>1, <2>2, <2>3, <2>4 DEF Works
<1>6. QED
  BY <1>3, <1>4, <1>5 DEF NoLoss

LEMMA IdleFacts ==
    /\ Idle \in Session /\ Shaped(Idle) /\ Idle.op = "idle" /\ Idle.step = "none"
    /\ Idle.todo = {} /\ Idle.now = None /\ Idle.users = {} /\ Idle.user = None
    /\ Idle.seen \in [Notifications -> Nat] /\ Idle.delete = FALSE /\ Idle.locked = FALSE
    /\ \A n \in Notifications : Idle.inserted[n] = "none"
    /\ Idle.created = {} /\ Idle.welcomed = {}
    /\ \A n \in Notifications : ~Owns(Idle, n) /\ ~Reads(Idle, n) /\ ~Publishes(Idle, n)
<1>1. Idle \in Session
  BY DEF Idle, Session
<1>2. /\ Idle.op = "idle" /\ Idle.step = "none"
      /\ Idle.todo = {} /\ Idle.now = None /\ Idle.users = {} /\ Idle.user = None
      /\ Idle.seen \in [Notifications -> Nat] /\ Idle.delete = FALSE /\ Idle.locked = FALSE
      /\ \A n \in Notifications : Idle.inserted[n] = "none"
      /\ Idle.created = {} /\ Idle.welcomed = {}
  BY DEF Idle
<1>3. \A n \in Notifications : ~Owns(Idle, n) /\ ~Reads(Idle, n) /\ ~Publishes(Idle, n)
  BY <1>2 DEF Owns, Inserts, Locks, Works, Reads, Publishes
<1>4. Shaped(Idle)
  BY <1>2, <1>3 DEF Shaped, Placed, Insertions, ToDeliver, Created, Inserts
<1>5. QED
  BY <1>1, <1>2, <1>3, <1>4

LEMMA SessionFacts ==
    ASSUME Ownership, NEW r \in Sessions
    PROVE  /\ sessions[r] \in Session /\ Shaped(sessions[r]) /\ Known(preferences, sessions[r])
           /\ sessions[r].op = "work" => r \in Workers
           /\ \A n \in Notifications :
                /\ Owns(sessions[r], n) => Held(rows, sessions[r], n)
                /\ Reads(sessions[r], n) => Seen(rows, sessions[r], n)
BY DEF Ownership, TypeOK, SessionsShaped, RecipientsKnown, OwnersHold, ReadersSee, SchedulersWork

LEMMA TypedMove ==
    ASSUME TypeOK, NEW r \in Sessions, NEW t \in Session,
           sessions' = [sessions EXCEPT ![r] = t],
           UNCHANGED <<tables, sending, election>>,
           failures' \in 0..MaxFailures, lost' \subseteq Notifications
    PROVE  TypeOK'
BY DEF TypeOK, tables, sending, election

(* What the first flush of a publication finds. *)
LEMMA FlushOwns ==
    ASSUME Ownership, NEW r \in Sessions, sessions[r].op = "publish", MayFlush(r)
    PROVE  LET n == sessions[r].now IN
           /\ n \in Notifications
           /\ rows[n].version = sessions[r].seen[n] /\ ~rows[n].deleted
           /\ rows[n].state \in {"scheduled", "due"} /\ Free(r, n)
<1> DEFINE s == sessions[r]
           n == s.now
<1>1. Placed(s) /\ s \in Session /\ r \in Sessions
  BY DEF Ownership, SessionsShaped, Shaped, TypeOK
<1>2. n \in Notifications
  BY <1>1 DEF Placed
<1>3. Seen(rows, s, n)
  BY <1>2 DEF Ownership, ReadersSee, Reads
<1>4. rows[n].version = s.seen[n] /\ \A q \in Sessions \ {r} : ~Locks(sessions[q], n)
  <2>1. CASE s.locked
    BY <1>2, <2>1 DEF Ownership, OwnersHold, OneOwner, Held, Owns, Locks
  <2>2. CASE ~s.locked
    BY <2>2 DEF MayFlush, UpdatesRow, Fresh, Unlocked, LockedBy, Locks
  <2>3. QED
    BY <2>1, <2>2
<1>5. rows[n].state \in {"scheduled", "due"} /\ ~rows[n].deleted
  BY <1>2, <1>3, <1>4 DEF Seen, Ownership, TypeOK, Row
<1>6. Silent(delivered, n)
  BY <1>2, <1>5 DEF Ownership, UnpublishedIsSilent, Silent
<1>7. \A q \in Sessions \ {r} : ~Owns(sessions[q], n)
  <2>1. SUFFICES ASSUME NEW q \in Sessions \ {r}, Owns(sessions[q], n) PROVE FALSE
    OBVIOUS
  <2>2. Held(rows, sessions[q], n)
    BY <1>2, <2>1 DEF Ownership, OwnersHold
  <2>3. QED
    BY <1>4, <1>5, <2>1, <2>2 DEF Owns, Held
<1>8. QED
  BY <1>2, <1>4, <1>5, <1>6, <1>7 DEF Free


-----------------------------------------------------------------------------
(* The actions of one session that leave the tables alone.                 *)

(* Between steps of one transaction; what it holds stays what it is. *)
Same(s, t) ==
    /\ t.op = s.op /\ t.todo = s.todo /\ t.seen = s.seen /\ t.now = s.now
    /\ t.users = s.users /\ t.locked = s.locked /\ t.inserted = s.inserted
    /\ t.created = s.created /\ s.welcomed \subseteq t.welcomed

LEMMA SameHolds ==
    ASSUME NEW s, NEW t, Same(s, t), s.step # "next", t.step # "next"
    PROVE  /\ \A n \in Notifications :
                 /\ Owns(t, n) <=> Owns(s, n)
                 /\ Inserts(t, n) <=> Inserts(s, n)
                 /\ Held(rows, t, n) <=> Held(rows, s, n)
                 /\ Reads(t, n) <=> Reads(s, n)
                 /\ Seen(rows, t, n) <=> Seen(rows, s, n)
                 /\ Publishes(t, n) <=> Publishes(s, n)
                 /\ Works(t, n) <=> Works(s, n)
                 /\ Covered(t, n) <=> Covered(s, n)
           /\ Created(t) <=> Created(s)
BY DEF Same, Owns, Inserts, Locks, Works, Held, Reads, Seen, Publishes, Covered, Created

LEMMA SameMove ==
    ASSUME Core, NEW r \in Sessions, NEW t \in Session,
           Same(sessions[r], t), sessions[r].step # "next", t.step # "next", Shaped(t),
           Known(preferences, t), sessions' = [sessions EXCEPT ![r] = t],
           UNCHANGED <<tables, sending, election, failures, lost>>
    PROVE  Core' /\ DeletedStays
<1>1. TypeOK'
  BY TypedMove DEF Core, Ownership, TypeOK
<1>2. \A n \in Notifications :
         Publishes(sessions[r], n) => Covered(sessions[r], n) \/ n \in lost
  BY DEF Core, NoLoss, NobodyForgotten
<1>3. Ownership' /\ NoLoss' /\ DeletedStays
  BY <1>1, <1>2, Quiet, SameHolds, SessionFacts DEF Core, Same
<1>4. QED
  BY <1>3 DEF Core

LEMMA FindNewcomerCore ==
    ASSUME Core, NEW r \in Sessions, NEW u \in Users, FindNewcomer(r, u)
    PROVE  Core' /\ DeletedStays
<1> DEFINE s == sessions[r]
           t == [s EXCEPT !.step = "preferences", !.user = u]
<1>1. /\ s \in Session /\ Shaped(s) /\ Known(preferences, s)
      /\ s.step = "deliver" /\ u \in s.users /\ Newcomer(r, u)
  BY SessionFacts DEF Core, FindNewcomer
<1>2. t \in Session /\ Same(s, t) /\ t.step = "preferences" /\ t.user = u
  BY <1>1 DEF Session, Same
<1>3. sessions' = [sessions EXCEPT ![r] = t]
  BY DEF FindNewcomer, Begin
<1> HIDE DEF t
<1>4. s.op # "dispatch"
  BY <1>1 DEF Newcomer, Known, Shaped, ToDeliver
<1>5. Shaped(t)
  <2>1. Placed(t)
    BY <1>1, <1>2, <1>4 DEF Shaped, Placed, Same, Idle
  <2>2. Insertions(t) /\ ToDeliver(t)
    BY <1>1, <1>2, <1>4 DEF Shaped, Insertions, ToDeliver, Same, Inserts
  <2>3. Created(t)
    BY <1>1, <1>2, SameHolds DEF Shaped
  <2>4. QED
    BY <2>1, <2>2, <2>3 DEF Shaped
<1>6. Known(preferences, t)
  BY <1>2, <1>4 DEF Known, Same
<1>7. QED
  BY <1>1, <1>2, <1>3, <1>5, <1>6, SameMove DEF FindNewcomer

LEMMA PassCore ==
    ASSUME Core, NEW r \in Sessions, PassDuplicateCheck(r)
    PROVE  Core' /\ DeletedStays
<1> DEFINE s == sessions[r]
           t == [s EXCEPT !.step = "insert"]
<1>1. s \in Session /\ Shaped(s) /\ Known(preferences, s) /\ s.step = "check"
  BY SessionFacts DEF Core, PassDuplicateCheck
<1>2. t \in Session /\ Same(s, t) /\ t.step = "insert" /\ t.user = s.user
  BY <1>1 DEF Session, Same
<1>3. sessions' = [sessions EXCEPT ![r] = t]
  BY DEF PassDuplicateCheck, Begin
<1> HIDE DEF t
<1>4. s.op = "dispatch" /\ s.now \in Notifications
  BY <1>1 DEF Shaped, Placed, Session, Idle
<1>5. Shaped(t)
  <2>1. Placed(t)
    BY <1>1, <1>2, <1>4 DEF Shaped, Placed, Same
  <2>2. Insertions(t) /\ ToDeliver(t)
    BY <1>1, <1>2, <1>4 DEF Shaped, Insertions, ToDeliver, Same, Inserts
  <2>3. Created(t)
    BY <1>1, <1>2, SameHolds DEF Shaped
  <2>4. QED
    BY <2>1, <2>2, <2>3 DEF Shaped
<1>6. Known(preferences, t)
  BY <1>1, <1>2, <1>4 DEF Known, Same
<1>7. QED
  BY <1>1, <1>2, <1>3, <1>5, <1>6, SameMove DEF PassDuplicateCheck


(* A session ends: by a rollback, or because there is nothing to commit. *)
LEMMA EndCore ==
    ASSUME Core, NEW r \in Sessions, sessions' = [sessions EXCEPT ![r] = Idle],
           UNCHANGED tables, TypeOK', lost \subseteq lost',
           \A n \in Notifications : Works(sessions[r], n) => n \in lost'
    PROVE  Core' /\ DeletedStays
<1>1. Known(preferences, Idle)
  BY IdleFacts DEF Known
<1>2. Ownership' /\ NoLoss' /\ DeletedStays
  BY <1>1, IdleFacts, Quiet DEF Core
<1>3. QED
  BY <1>2 DEF Core

LEMMA EndVoidCore ==
    ASSUME Core, NEW r \in Sessions, EndVoid(r)
    PROVE  Core' /\ DeletedStays
<1>1. sessions' = [sessions EXCEPT ![r] = Idle] /\ UNCHANGED <<tables, sending, election, failures, lost>>
  BY DEF EndVoid, Begin
<1>2. TypeOK'
  BY <1>1, IdleFacts, TypedMove DEF Core, Ownership, TypeOK
<1>3. \A n \in Notifications : ~Works(sessions[r], n)
  BY DEF EndVoid, Void, Works
<1>4. QED
  BY <1>1, <1>2, <1>3, EndCore

LEMMA RollbackTyped ==
    ASSUME Core, NEW r \in Sessions, RollbackSession(r),
           lock' \in Workers \cup {None}, leaders' \subseteq Workers,
           failures' \in 0..MaxFailures
    PROVE  TypeOK'
<1> DEFINE s == sessions[r]
<1>1. s \in Session /\ Placed(s) /\ TypeOK
  BY SessionFacts DEF Core, Shaped, Ownership
<1>2. sessions' \in [Sessions -> Session]
  BY <1>1, IdleFacts DEF RollbackSession, Begin, TypeOK
<1>3. whatsapp' \in [Copies -> Task]
  <2>1. NewTask \in Task
    BY NotificationAssumption DEF NewTask, Task
  <2>2. QED
    BY <1>1, <2>1 DEF RollbackSession, TypeOK
<1>4. messages' \in [Copies -> Nat]
  BY <1>1 DEF RollbackSession, TypeOK
<1>5. repeated' \subseteq Copies
  BY <1>1 DEF RollbackSession, TypeOK, Session
<1>6. lost' \subseteq Notifications
  BY <1>1 DEF RollbackSession, TypeOK, Placed
<1>7. UNCHANGED tables
  BY DEF RollbackSession
<1>8. QED
  BY <1>1, <1>2, <1>3, <1>4, <1>5, <1>6, <1>7 DEF TypeOK, tables

LEMMA RollbackCore ==
    ASSUME Core, NEW r \in Sessions, RollbackSession(r),
           lock' \in Workers \cup {None}, leaders' \subseteq Workers,
           failures' \in 0..MaxFailures
    PROVE  Core' /\ DeletedStays
<1>1. TypeOK'
  BY RollbackTyped
<1>2. sessions' = [sessions EXCEPT ![r] = Idle] /\ UNCHANGED tables
  BY DEF RollbackSession, Begin
<1>3. lost \subseteq lost' /\ \A n \in Notifications : Works(sessions[r], n) => n \in lost'
  BY DEF RollbackSession, Works
<1>4. QED
  BY <1>1, <1>2, <1>3, EndCore

LEMMA BypassCore ==
    ASSUME Core, NEW r \in Sessions, Bypass(r)
    PROVE  Core' /\ DeletedStays
<1> DEFINE s == sessions[r]
           t == [s EXCEPT !.step = "next", !.now = None]
<1>1. s \in Session /\ Shaped(s) /\ s.step = "check"
  BY SessionFacts DEF Core, Bypass
<1>2. s.op = "dispatch" /\ s.users = {}
  BY <1>1 DEF Shaped, Placed, ToDeliver, Session, Idle
<1>3. /\ t \in Session /\ t.op = "dispatch" /\ t.step = "next" /\ t.todo = s.todo
      /\ t.now = None /\ t.users = {} /\ t.seen = s.seen /\ t.locked = s.locked
      /\ t.inserted = s.inserted /\ t.created = s.created
  BY <1>1, <1>2 DEF Session
<1>4. sessions' = [sessions EXCEPT ![r] = t] /\ UNCHANGED <<tables, sending, election, failures, lost>>
  BY DEF Bypass, Begin
<1> HIDE DEF t
<1>5. \A n \in Notifications :
         /\ Owns(t, n) => Inserts(t, n) /\ Inserts(s, n) /\ Owns(s, n)
         /\ Owns(s, n) => Owns(t, n)
         /\ Publishes(t, n) => Publishes(s, n)
         /\ Covered(s, n) => Covered(t, n)
         /\ ~Reads(t, n) /\ ~Works(s, n)
  BY <1>2, <1>3 DEF Owns, Inserts, Locks, Works, Publishes, Covered, Reads
<1>6. Shaped(t)
  <2>1. Placed(t)
    BY <1>1, <1>2, <1>3 DEF Shaped, Placed
  <2>2. Insertions(t) /\ ToDeliver(t)
    BY <1>1, <1>2, <1>3 DEF Shaped, Insertions, ToDeliver, Inserts
  <2>3. Created(t)
    BY <1>1, <1>3, <1>5 DEF Shaped, Created, Inserts, Session, Copies
  <2>4. QED
    BY <2>1, <2>2, <2>3 DEF Shaped
<1>7. \A n \in Notifications : Owns(t, n) => Held(rows, t, n)
  BY <1>3, <1>5, SessionFacts DEF Core, Held, Locks, Works
<1>8. Known(preferences, t)
  BY <1>3 DEF Known
<1>9. \A n \in Notifications : Publishes(t, n) => Covered(t, n) \/ n \in lost
  BY <1>5 DEF Core, NoLoss, NobodyForgotten
<1>10. TypeOK'
  BY <1>3, <1>4, TypedMove DEF Core, Ownership, TypeOK
<1>11. Ownership' /\ NoLoss' /\ DeletedStays
  BY <1>3, <1>4, <1>5, <1>6, <1>7, <1>8, <1>9, <1>10, Quiet DEF Core
<1>12. QED
  BY <1>11 DEF Core

LEMMA NextRecipientCore ==
    ASSUME Core, NEW r \in Sessions, NEW n \in Notifications, NextRecipient(r, n)
    PROVE  Core' /\ DeletedStays
<1> DEFINE s == sessions[r]
           u == CHOOSE v \in Recipients[n] : TRUE
           step == IF Newcomer(r, u) THEN "preferences" ELSE "check"
           user == IF Newcomer(r, u) THEN u ELSE None
           t == [s EXCEPT !.todo = @ \ {n}, !.now = n, !.user = user, !.step = step]
<1>1. s \in Session /\ Shaped(s) /\ s.op = "dispatch" /\ s.step = "next" /\ n \in s.todo
  BY SessionFacts DEF Core, NextRecipient
<1>2. s.users = {} /\ ~Inserts(s, n) /\ Single(n)
  BY <1>1 DEF Shaped, Insertions, ToDeliver
<1>3. u \in Users /\ Recipients[n] = {u}
  <2>1. PICK v \in Users : Recipients[n] = {v}
    BY <1>2 DEF Single
  <2>2. u \in Recipients[n]
    BY <2>1
  <2>3. QED
    BY <2>1, <2>2
<1>4. sessions' = [sessions EXCEPT ![r] = t] /\ UNCHANGED <<tables, sending, election, failures, lost>>
  BY DEF NextRecipient, Begin
<1>5. /\ step \in {"preferences", "check"} /\ user \in Users \cup {None}
      /\ step = "preferences" => user = u
      /\ step = "check" => u \in preferences \cup s.welcomed
  BY <1>3 DEF Newcomer
<1> HIDE DEF u, step, user
<1>6. /\ t \in Session /\ t.op = "dispatch" /\ t.step = step /\ t.todo = s.todo \ {n}
      /\ t.now = n /\ t.users = {} /\ t.user = user /\ t.seen = s.seen /\ t.locked = s.locked
      /\ t.inserted = s.inserted /\ t.created = s.created /\ t.welcomed = s.welcomed
  BY <1>1, <1>2, <1>5 DEF Session
<1> HIDE DEF t
<1>7. \A m \in Notifications :
         /\ Owns(t, m) => Inserts(t, m) /\ Inserts(s, m) /\ Owns(s, m)
         /\ Owns(s, m) => Owns(t, m)
         /\ Publishes(t, m) => Publishes(s, m)
         /\ Covered(s, m) => Covered(t, m)
         /\ ~Reads(t, m) /\ ~Works(s, m)
  BY <1>1, <1>2, <1>6 DEF Owns, Inserts, Locks, Works, Publishes, Covered, Reads
<1>8. Shaped(t)
  <2>1. Placed(t)
    BY <1>1, <1>3, <1>5, <1>6 DEF Shaped, Placed
  <2>2. Insertions(t) /\ ToDeliver(t)
    BY <1>1, <1>2, <1>5, <1>6 DEF Shaped, Insertions, ToDeliver, Inserts
  <2>3. Created(t)
    BY <1>1, <1>6, <1>7 DEF Shaped, Created, Inserts, Session, Copies
  <2>4. QED
    BY <2>1, <2>2, <2>3 DEF Shaped
<1>9. \A m \in Notifications : Owns(t, m) => Held(rows, t, m)
  BY <1>6, <1>7, SessionFacts DEF Core, Held, Locks, Works
<1>10. Known(preferences, t)
  BY <1>3, <1>5, <1>6 DEF Known
<1>11. \A m \in Notifications : Publishes(t, m) => Covered(t, m) \/ m \in lost
  BY <1>7 DEF Core, NoLoss, NobodyForgotten
<1>12. TypeOK'
  BY <1>4, <1>6, TypedMove DEF Core, Ownership, TypeOK
<1>13. Ownership' /\ NoLoss' /\ DeletedStays
  BY <1>4, <1>6, <1>7, <1>8, <1>9, <1>10, <1>11, <1>12, Quiet DEF Core
<1>14. QED
  BY <1>13 DEF Core


LEMMA InsertCore ==
    ASSUME Core, NEW r \in Sessions, Insert(r)
    PROVE  Core' /\ DeletedStays
<1> DEFINE s == sessions[r]
           n == s.now
<1>1. /\ s \in Session /\ Shaped(s) /\ s.step = "insert" /\ rows[n].state = "none"
      /\ Known(preferences, s)
  BY SessionFacts DEF Core, Insert
<1>2. /\ n \in Notifications /\ s.op \in {"dispatch", "broadcast"} /\ s.users = {}
      /\ ~Inserts(s, n) /\ s.locked = FALSE
  BY <1>1 DEF Shaped, Placed, Insertions, ToDeliver, Session, Idle
<1>3. PICK state \in {"published", "scheduled"}, step \in {"next", "deliver"},
           users \in SUBSET Users :
        /\ sessions' = [sessions EXCEPT ![r] =
                [s EXCEPT !.inserted[n] = state, !.step = step, !.users = users]]
        /\ state = "published" => step = "deliver" /\ users = Recipients[n]
        /\ state = "scheduled" =>
              users = {} /\ (step = IF s.op = "dispatch" THEN "next" ELSE "deliver")
  <2>1. Recipients[n] \subseteq Users
    BY <1>2, NotificationAssumption
  <2>2. CASE Begin(r, [s EXCEPT !.inserted[n] = "published", !.step = "deliver",
                                !.users = Recipients[n]])
    BY <2>1, <2>2 DEF Begin
  <2>3. CASE Begin(r, [s EXCEPT !.inserted[n] = "scheduled",
                                !.step = IF s.op = "dispatch" THEN "next" ELSE "deliver"])
    <3> DEFINE step == IF s.op = "dispatch" THEN "next" ELSE "deliver"
    <3>1. [s EXCEPT !.inserted[n] = "scheduled", !.step = step]
          = [s EXCEPT !.inserted[n] = "scheduled", !.step = step, !.users = {}]
      BY <1>1, <1>2 DEF Session
    <3>2. sessions' = [sessions EXCEPT ![r] =
               [s EXCEPT !.inserted[n] = "scheduled", !.step = step, !.users = {}]]
      BY <2>3, <3>1 DEF Begin
    <3>3. step \in {"next", "deliver"} /\ {} \in SUBSET Users
      OBVIOUS
    <3>4. QED
      BY <3>2, <3>3
  <2>4. QED
    BY <2>2, <2>3 DEF Insert
<1> DEFINE t == [s EXCEPT !.inserted[n] = state, !.step = step, !.users = users]
<1>4. /\ t \in Session /\ t.op = s.op /\ t.step = step /\ t.todo = s.todo
      /\ t.now = n /\ t.users = users /\ t.user = s.user /\ t.seen = s.seen /\ t.locked = FALSE
      /\ t.inserted = [s.inserted EXCEPT ![n] = state]
      /\ t.created = s.created /\ t.welcomed = s.welcomed
  BY <1>1, <1>2 DEF Session
<1>5. sessions' = [sessions EXCEPT ![r] = t] /\ UNCHANGED <<tables, sending, election, failures, lost>>
  BY <1>3 DEF Insert
<1> HIDE DEF t
<1>6. \A m \in Notifications : t.inserted[m] = IF m = n THEN state ELSE s.inserted[m]
  BY <1>1, <1>4 DEF Session
<1>7. \A m \in Notifications :
         /\ Inserts(t, m) <=> Inserts(s, m) \/ m = n
         /\ Owns(t, m) <=> Owns(s, m) \/ m = n
         /\ ~Reads(t, m) /\ ~Works(s, m) /\ ~Works(t, m) /\ ~Locks(t, m)
  BY <1>2, <1>4, <1>6 DEF Owns, Inserts, Locks, Works, Reads
<1>8. Free(r, n)
  <2>1. Silent(delivered, n)
    BY <1>1, <1>2 DEF Core, Ownership, UnpublishedIsSilent, Silent
  <2>2. SUFFICES ASSUME NEW q \in Sessions \ {r}, Owns(sessions[q], n) PROVE FALSE
    BY <2>1 DEF Free
  <2>3. ~Inserts(sessions[q], n)
    BY <2>2 DEF Insert, InsertedBy, Inserts
  <2>4. ~Locks(sessions[q], n)
    BY <1>1, <1>2, SessionFacts DEF Core, Reads, Locks, Seen
  <2>5. ~Works(sessions[q], n)
    BY <1>1, <1>2, <2>2, SessionFacts DEF Core, Held
  <2>6. QED
    BY <2>2, <2>3, <2>4, <2>5 DEF Owns
<1>9. \A m \in Notifications : Owns(t, m) =>
         Held(rows, t, m) /\ (Owns(s, m) \/ Free(r, m))
  BY <1>1, <1>7, <1>8, SessionFacts DEF Core, Held, Owns, Works
<1>10. Shaped(t)
  <2>1. Placed(t)
    BY <1>1, <1>2, <1>3, <1>4 DEF Shaped, Placed
  <2>2. Insertions(t)
    BY <1>1, <1>2, <1>3, <1>4, <1>7 DEF Shaped, Insertions, Session
  <2>3. ToDeliver(t)
    BY <1>1, <1>2, <1>3, <1>4, <1>6 DEF Shaped, ToDeliver
  <2>4. \A c \in s.created : c \in Copies /\ c[1] \in Notifications /\ Owns(s, c[1])
    BY <1>1 DEF Shaped, Created, Session, Copies
  <2>5. \A c \in s.created : Inserts(s, c[1]) /\ c[1] # n
    BY <1>2, <2>4 DEF Owns, Locks, Works
  <2>6. \A v \in users : <<n, v>> \notin s.created
    BY <2>5
  <2>7. Created(t)
    BY <1>1, <1>4, <1>6, <1>7, <2>4, <2>5, <2>6 DEF Shaped, Created
  <2>8. QED
    BY <2>1, <2>2, <2>3, <2>7 DEF Shaped
<1>11. Known(preferences, t)
  BY <1>1, <1>4 DEF Known
<1>12. ASSUME NEW m \in Notifications, Publishes(t, m) PROVE Covered(t, m) \/ m \in lost
  <2>1. t.inserted[m] = "published"
    BY <1>2, <1>4, <1>12 DEF Publishes, Works
  <2>2. CASE m = n
    BY <1>3, <1>4, <1>6, <2>1, <2>2 DEF Covered
  <2>3. CASE m # n
    <3>1. Publishes(s, m)
      BY <1>6, <2>1, <2>3 DEF Publishes
    <3>2. Covered(s, m) \/ m \in lost
      BY <3>1 DEF Core, NoLoss, NobodyForgotten
    <3>3. QED
      BY <1>2, <1>4, <3>2 DEF Covered
  <2>4. QED
    BY <2>2, <2>3
<1>13. TypeOK'
  BY <1>4, <1>5, TypedMove DEF Core, Ownership, TypeOK
<1>14. t.op = "work" => r \in Workers
  BY <1>2, <1>4
<1>15. Ownership' /\ NoLoss' /\ DeletedStays
  BY <1>4, <1>5, <1>7, <1>9, <1>10, <1>11, <1>12, <1>13, <1>14, Quiet DEF Core
<1>16. QED
  BY <1>15 DEF Core

(* The row of a publication is locked by the first flush. *)
LEMMA FlushedFacts ==
    ASSUME Ownership, NEW r \in Sessions, MayFlush(r), NEW t \in Session,
           t.op = sessions[r].op, t.now = sessions[r].now, t.inserted = sessions[r].inserted,
           t.seen = sessions[r].seen, t.locked = (t.op = "publish"),
           sessions[r].step \in {"preferences", "deliver"}
    PROVE  \A n \in Notifications :
              /\ Owns(sessions[r], n) => Owns(t, n) \/ Works(sessions[r], n)
              /\ Works(t, n) => Works(sessions[r], n)
              /\ Owns(t, n) =>
                    Held(rows, t, n) /\ (Owns(sessions[r], n) \/ Free(r, n))
<1> DEFINE s == sessions[r]
<1>1. s \in Session /\ Shaped(s)
  BY SessionFacts
<1> SUFFICES ASSUME NEW n \in Notifications
             PROVE  /\ Owns(s, n) => Owns(t, n) \/ Works(s, n)
                    /\ Works(t, n) => Works(s, n)
                    /\ Owns(t, n) => Held(rows, t, n) /\ (Owns(s, n) \/ Free(r, n))
  OBVIOUS
<1>2. CASE s.op = "publish"
  <2>1. /\ n = s.now => rows[n].version = s.seen[n] /\ Free(r, n)
    BY <1>2, FlushOwns
  <2>2. ~Inserts(t, n) /\ ~Inserts(s, n) /\ ~Works(t, n) /\ ~Works(s, n)
    BY <1>1, <1>2 DEF Shaped, Insertions, Inserts, Works
  <2>3. (Locks(t, n) <=> n = s.now) /\ (Locks(s, n) => n = s.now)
    BY <1>2 DEF Locks
  <2>4. QED
    BY <2>1, <2>2, <2>3 DEF Owns, Held
<1>3. CASE s.op # "publish"
  <2>1. ~Locks(t, n) /\ ~Locks(s, n) /\ (Inserts(t, n) <=> Inserts(s, n))
        /\ (Works(t, n) => Works(s, n))
    BY <1>3 DEF Locks, Inserts, Works
  <2>2. QED
    BY <2>1, SessionFacts DEF Owns, Held
<1>4. QED
  BY <1>2, <1>3

LEMMA CreatePreferencesCore ==
    ASSUME Core, NEW r \in Sessions, CreatePreferences(r)
    PROVE  Core' /\ DeletedStays
<1> DEFINE s == sessions[r]
           step == IF s.op = "dispatch" THEN "check" ELSE "deliver"
           t == [Flushed(s) EXCEPT !.welcomed = @ \cup {s.user}, !.user = None, !.step = step]
<1>1. s \in Session /\ Shaped(s) /\ s.step = "preferences" /\ MayFlush(r)
  BY SessionFacts DEF Core, CreatePreferences
<1>2. s.user \in Users /\ s.now \in Notifications /\ s.op \notin {"idle", "edit"}
  BY <1>1 DEF Shaped, Placed, Idle
<1>3. sessions' = [sessions EXCEPT ![r] = t] /\ UNCHANGED <<tables, sending, election, failures, lost>>
  BY DEF CreatePreferences, Begin
<1>4. /\ t \in Session /\ t.op = s.op /\ t.step = step /\ t.todo = s.todo
      /\ t.now = s.now /\ t.users = s.users /\ t.user = None /\ t.seen = s.seen
      /\ t.locked = (s.op = "publish") /\ t.inserted = s.inserted
      /\ t.created = s.created /\ t.welcomed = s.welcomed \cup {s.user}
  BY <1>1, <1>2 DEF Session, Flushed
<1> HIDE DEF t
<1>5. \A n \in Notifications :
         /\ Owns(s, n) => Owns(t, n)
         /\ Owns(t, n) => Held(rows, t, n) /\ (Owns(s, n) \/ Free(r, n))
         /\ Inserts(t, n) <=> Inserts(s, n)
         /\ Works(t, n) <=> Works(s, n)
         /\ Publishes(t, n) <=> Publishes(s, n)
         /\ Covered(t, n) <=> Covered(s, n)
         /\ Reads(t, n) <=> Reads(s, n)
         /\ Seen(rows, t, n) <=> Seen(rows, s, n)
  <2>1. \A n \in Notifications :
         /\ Inserts(t, n) <=> Inserts(s, n)
         /\ Works(t, n) <=> Works(s, n)
         /\ Publishes(t, n) <=> Publishes(s, n)
         /\ Covered(t, n) <=> Covered(s, n)
         /\ Reads(t, n) <=> Reads(s, n)
         /\ Seen(rows, t, n) <=> Seen(rows, s, n)
    BY <1>1, <1>4 DEF Inserts, Works, Publishes, Covered, Reads, Seen
  <2>2. \A n \in Notifications :
         /\ Owns(s, n) => Owns(t, n) \/ Works(s, n)
         /\ Owns(t, n) => Held(rows, t, n) /\ (Owns(s, n) \/ Free(r, n))
    BY <1>1, <1>4, FlushedFacts DEF Core
  <2>3. QED
    BY <2>1, <2>2 DEF Owns
<1>6. Shaped(t)
  <2>1. Placed(t)
    BY <1>1, <1>2, <1>4 DEF Shaped, Placed
  <2>2. Insertions(t)
    BY <1>1, <1>4 DEF Shaped, Insertions, Inserts
  <2>3. ToDeliver(t)
    BY <1>1, <1>4 DEF Shaped, ToDeliver
  <2>4. \A c \in s.created : c[1] \in Notifications
    BY <1>1 DEF Session, Copies
  <2>5. Created(t)
    BY <1>1, <1>4, <1>5, <2>4 DEF Shaped, Created, Inserts
  <2>6. QED
    BY <2>1, <2>2, <2>3, <2>5 DEF Shaped
<1>7. Known(preferences, t)
  <2>1. s.op = "dispatch" => Recipients[s.now] = {s.user}
    BY <1>1 DEF Shaped, Placed, Insertions, Single
  <2>2. QED
    BY <1>4, <2>1 DEF Known
<1>8. \A n \in Notifications : Publishes(t, n) => Covered(t, n) \/ n \in lost
  BY <1>5 DEF Core, NoLoss, NobodyForgotten
<1>9. TypeOK'
  BY <1>3, <1>4, TypedMove DEF Core, Ownership, TypeOK
<1>10. Ownership' /\ NoLoss' /\ DeletedStays
  BY <1>3, <1>4, <1>5, <1>6, <1>7, <1>8, <1>9, SessionFacts, Quiet DEF Core
<1>11. QED
  BY <1>10 DEF Core


(* Who delivers a notification owns it, and nobody has it yet. *)
LEMMA DelivererOwns ==
    ASSUME Core, NEW r \in Sessions, NEW u \in Users, Deliver(r, u)
    PROVE  LET n == sessions[r].now IN
           /\ n \in Notifications /\ Silent(delivered, n)
           /\ \A q \in Sessions \ {r} : ~Owns(sessions[q], n)
           /\ Publishes(sessions[r], n)
           /\ Inserts(sessions[r], n) => sessions[r].inserted[n] = "published"
           /\ sessions[r].op \notin {"idle", "edit"}
<1> DEFINE s == sessions[r]
           n == s.now
<1>1. s \in Session /\ Shaped(s) /\ s.step = "deliver" /\ u \in s.users /\ MayFlush(r)
  BY SessionFacts DEF Core, Deliver
<1>2. n \in Notifications /\ s.op \notin {"idle", "edit"}
  BY <1>1 DEF Shaped, Placed, Idle
<1>3. CASE s.op = "publish"
  <2>1. Free(r, n)
    BY <1>1, <1>3, FlushOwns DEF Core
  <2>2. ~Inserts(s, n)
    BY <1>1, <1>2, <1>3 DEF Shaped, Insertions
  <2>3. QED
    BY <1>2, <1>3, <2>1, <2>2 DEF Free, Publishes
<1>4. CASE s.op \in {"dispatch", "broadcast"}
  <2>1. s.inserted[n] = "published"
    BY <1>1, <1>4 DEF Shaped, ToDeliver
  <2>2. Owns(s, n)
    BY <2>1 DEF Owns, Inserts
  <2>3. QED
    BY <1>2, <2>1, <2>2 DEF Core, Ownership, OneOwner, OwnersHold, Publishes
<1>5. CASE s.op = "work"
  <2>1. Works(s, n)
    BY <1>1, <1>5 DEF Works
  <2>2. ~Inserts(s, n)
    BY <1>1, <1>2, <1>5 DEF Shaped, Insertions
  <2>3. QED
    BY <1>2, <2>1, <2>2 DEF Owns, Core, Ownership, OneOwner, OwnersHold, Publishes
<1>6. QED
  BY <1>1, <1>2, <1>3, <1>4, <1>5 DEF Session

(* The session after a delivery. *)
Delivered(s, u) ==
    [Flushed(s) EXCEPT !.users = @ \ {u}, !.created = @ \cup {<<s.now, u>>},
                       !.step = IF s.op = "dispatch" THEN "next" ELSE @]

LEMMA DeliverStep ==
    ASSUME Core, NEW r \in Sessions, NEW u \in Users, Deliver(r, u)
    PROVE  LET s == sessions[r]
               c == <<s.now, u>>
           IN
           /\ s \in Session /\ s.step = "deliver" /\ u \in s.users
           /\ c \in Copies /\ delivered[c] = 0 /\ c \notin s.created
           /\ Delivered(s, u) \in Session
           /\ sessions' = [sessions EXCEPT ![r] = Delivered(s, u)]
           /\ whatsapp' = [d \in Copies |->
                 IF d = c /\ u \in Reachable
                 THEN [NewTask EXCEPT !.task = "sending", !.attempt = 1]
                 ELSE whatsapp[d]]
           /\ UNCHANGED <<tables, messages, repeated, election, failures, lost>>
<1> DEFINE s == sessions[r]
           c == <<s.now, u>>
           new == {c} \ {d \in Copies : delivered[d] > 0}
<1>1. s \in Session /\ Shaped(s) /\ s.step = "deliver" /\ u \in s.users
  BY SessionFacts DEF Core, Deliver
<1>2. c \in Copies /\ delivered[c] = 0
  BY DelivererOwns DEF Silent, Copies
<1>3. new = {c}
  BY <1>2
<1>4. c \notin s.created
  BY <1>1 DEF Shaped, Created
<1>5. Delivered(s, u) \in Session
  BY <1>1, <1>2 DEF Delivered, Flushed, Session
<1>6. [Flushed(s) EXCEPT !.users = @ \ {u}, !.created = @ \cup new,
                         !.step = IF s.op = "dispatch" THEN "next" ELSE @]
      = Delivered(s, u)
  BY <1>3 DEF Delivered
<1>7. sessions' = [sessions EXCEPT ![r] = Delivered(s, u)]
  BY <1>6 DEF Deliver, Begin
<1>8. whatsapp' = [d \in Copies |->
                 IF d = c /\ u \in Reachable
                 THEN [NewTask EXCEPT !.task = "sending", !.attempt = 1]
                 ELSE whatsapp[d]]
  <2>1. whatsapp' = [d \in Copies |->
                 IF d \in new /\ u \in Reachable
                 THEN [NewTask EXCEPT !.task = "sending", !.attempt = 1]
                 ELSE whatsapp[d]]
    BY DEF Deliver
  <2> HIDE DEF new
  <2>2. QED
    BY <1>3, <2>1
<1>9. QED
  BY <1>1, <1>2, <1>4, <1>5, <1>7, <1>8 DEF Deliver

LEMMA DeliverTyped ==
    ASSUME Core, NEW r \in Sessions, NEW u \in Users, Deliver(r, u)
    PROVE  TypeOK'
<1>1. TypeOK
  BY DEF Core, Ownership
<1>2. sessions' \in [Sessions -> Session]
  BY <1>1, DeliverStep DEF TypeOK
<1>3. [NewTask EXCEPT !.task = "sending", !.attempt = 1] \in Task
  <2>1. 1 \in 0..MaxAttempts
    BY NotificationAssumption
  <2>2. NewTask \in Task
    BY NotificationAssumption DEF NewTask, Task
  <2>3. QED
    BY <2>1, <2>2 DEF Task
<1>4. whatsapp' \in [Copies -> Task]
  BY <1>1, <1>3, DeliverStep DEF TypeOK
<1>5. UNCHANGED <<tables, messages, repeated, election, failures, lost>>
  BY DEF Deliver
<1>6. QED
  BY <1>1, <1>2, <1>4, <1>5 DEF TypeOK, tables, election

LEMMA DeliverCore ==
    ASSUME Core, NEW r \in Sessions, NEW u \in Users, Deliver(r, u)
    PROVE  Core' /\ DeletedStays
<1> DEFINE s == sessions[r]
           k == s.now
           t == Delivered(s, u)
           step == IF s.op = "dispatch" THEN "next" ELSE "deliver"
<1>1. s \in Session /\ Shaped(s) /\ s.step = "deliver" /\ u \in s.users /\ MayFlush(r)
  BY SessionFacts DEF Core, Deliver
<1>2. /\ k \in Notifications /\ s.op \notin {"idle", "edit"} /\ Publishes(s, k)
      /\ Inserts(s, k) => s.inserted[k] = "published"
  BY DelivererOwns
<1>3. t \in Session /\ sessions' = [sessions EXCEPT ![r] = t] /\ UNCHANGED <<tables, lost>>
  BY DeliverStep
<1>4. /\ t.op = s.op /\ t.step = step /\ t.todo = s.todo
      /\ t.now = k /\ t.users = s.users \ {u} /\ t.user = s.user /\ t.seen = s.seen
      /\ t.locked = (s.op = "publish") /\ t.inserted = s.inserted
      /\ t.created = s.created \cup {<<k, u>>} /\ t.welcomed = s.welcomed
  BY <1>1 DEF Session, Delivered, Flushed
<1> HIDE DEF t
<1>5. \A n \in Notifications :
         /\ Inserts(t, n) <=> Inserts(s, n)
         /\ Works(t, n) <=> Works(s, n)
         /\ Publishes(t, n) <=> Publishes(s, n)
         /\ Covered(s, n) => Covered(t, n)
         /\ Reads(t, n) <=> Reads(s, n)
         /\ Seen(rows, t, n) <=> Seen(rows, s, n)
  BY <1>1, <1>4 DEF Inserts, Works, Publishes, Covered, Reads, Seen
<1>6. \A n \in Notifications :
         /\ Owns(s, n) => Owns(t, n) \/ Works(s, n)
         /\ Owns(t, n) => Held(rows, t, n) /\ (Owns(s, n) \/ Free(r, n))
  BY <1>1, <1>3, <1>4, FlushedFacts DEF Core
<1>7. \A n \in Notifications : Owns(s, n) => Owns(t, n)
  BY <1>5, <1>6 DEF Owns
<1>8. Owns(t, k)
  BY <1>2, <1>4, <1>5 DEF Publishes, Owns, Locks, Inserts
<1>9. Shaped(t)
  <2>1. Placed(t)
    BY <1>1, <1>2, <1>4 DEF Shaped, Placed
  <2>2. Insertions(t)
    BY <1>1, <1>4 DEF Shaped, Insertions, Inserts
  <2>3. s.op = "dispatch" => s.users = {u}
    BY <1>1 DEF Shaped, ToDeliver, Insertions, Single
  <2>4. ToDeliver(t)
    BY <1>1, <1>2, <1>4, <2>3 DEF Shaped, ToDeliver, Publishes
  <2>5. \A c \in s.created : c[1] \in Notifications
    BY <1>1 DEF Session, Copies
  <2>6. \A c \in t.created : Owns(t, c[1])
    BY <1>1, <1>4, <1>7, <1>8, <2>5 DEF Shaped, Created
  <2>7. \A c \in t.created : Inserts(t, c[1]) => t.inserted[c[1]] = "published"
    BY <1>1, <1>2, <1>4 DEF Shaped, Created, Inserts
  <2>8. \A v \in t.users : <<t.now, v>> \notin t.created
    BY <1>1, <1>4 DEF Shaped, Created
  <2>9. QED
    BY <2>1, <2>2, <2>4, <2>6, <2>7, <2>8 DEF Shaped, Created
<1>10. Known(preferences, t)
  BY <1>4 DEF Known
<1>11. \A n \in Notifications : Publishes(t, n) => Covered(t, n) \/ n \in lost
  BY <1>5 DEF Core, NoLoss, NobodyForgotten
<1>12. TypeOK'
  BY DeliverTyped
<1>13. Ownership' /\ NoLoss' /\ DeletedStays
  BY <1>3, <1>4, <1>5, <1>6, <1>9, <1>10, <1>11, <1>12, SessionFacts, Quiet DEF Core
<1>14. QED
  BY <1>13 DEF Core

LEMMA CutShortCore ==
    ASSUME Core, NEW r \in Sessions, CutShort(r)
    PROVE  Core' /\ DeletedStays
<1> DEFINE s == sessions[r]
           t == [s EXCEPT !.users = {}]
<1>1. s \in Session /\ Shaped(s) /\ s.op = "broadcast" /\ s.step = "deliver"
  BY SessionFacts DEF Core, CutShort
<1>2. /\ t \in Session /\ t.op = "broadcast" /\ t.step = "deliver" /\ t.todo = s.todo
      /\ t.now = s.now /\ t.users = {} /\ t.user = s.user /\ t.seen = s.seen
      /\ t.locked = s.locked /\ t.inserted = s.inserted /\ t.created = s.created
  BY <1>1 DEF Session
<1>3. /\ sessions' = [sessions EXCEPT ![r] = t] /\ lost' = lost \cup {s.now}
      /\ failures < MaxFailures /\ failures' = failures + 1
      /\ UNCHANGED <<tables, sending, election>>
  BY DEF CutShort, Begin
<1> HIDE DEF t
<1>4. s.now \in Notifications
  BY <1>1 DEF Shaped, Placed
<1>5. \A n \in Notifications :
         /\ Owns(t, n) <=> Owns(s, n)
         /\ Inserts(t, n) <=> Inserts(s, n)
         /\ Held(rows, s, n) => Held(rows, t, n)
         /\ Publishes(t, n) => n = s.now
         /\ ~Works(s, n) /\ ~Reads(t, n)
  BY <1>1, <1>2 DEF Owns, Inserts, Held, Locks, Works, Publishes, Reads, Shaped, Insertions
<1>6. Shaped(t)
  <2>1. Placed(t)
    BY <1>1, <1>2 DEF Shaped, Placed
  <2>2. Insertions(t) /\ ToDeliver(t)
    BY <1>1, <1>2 DEF Shaped, Insertions, ToDeliver, Inserts
  <2>3. Created(t)
    BY <1>1, <1>2, <1>5 DEF Shaped, Created, Session, Copies, Inserts
  <2>4. QED
    BY <2>1, <2>2, <2>3 DEF Shaped
<1>7. TypeOK'
  <2>1. failures' \in 0..MaxFailures /\ lost' \subseteq Notifications
    BY <1>3, <1>4, NotificationAssumption DEF Core, Ownership, TypeOK
  <2>2. QED
    BY <1>2, <1>3, <2>1, TypedMove DEF Core, Ownership
<1>8. Known(preferences, t)
  BY <1>2 DEF Known
<1>9. Ownership' /\ NoLoss' /\ DeletedStays
  BY <1>2, <1>3, <1>5, <1>6, <1>7, <1>8, SessionFacts, Quiet DEF Core
<1>10. QED
  BY <1>9 DEF Core


-----------------------------------------------------------------------------
(* Sessions that start.                                                    *)

LEMMA StartMove ==
    ASSUME Core, NEW r \in Sessions, sessions[r] = Idle, NEW t \in Session,
           Shaped(t), sessions' = [sessions EXCEPT ![r] = t],
           UNCHANGED <<tables, sending, election, failures, lost>>,
           t.op = "work" => r \in Workers, Known(preferences, t),
           \A n \in Notifications : ~Owns(t, n),
           \A n \in Notifications : Reads(t, n) => Seen(rows, t, n),
           \A n \in Notifications : Publishes(t, n) => Covered(t, n)
    PROVE  Core' /\ DeletedStays
<1>1. TypeOK'
  BY TypedMove DEF Core, Ownership, TypeOK
<1>2. \A n \in Notifications : ~Works(sessions[r], n)
  BY IdleFacts DEF Owns
<1>3. Ownership' /\ NoLoss' /\ DeletedStays
  BY <1>1, <1>2, Quiet DEF Core
<1>4. QED
  BY <1>3 DEF Core

LEMMA VersionsSeen ==
    ASSUME Ownership
    PROVE  /\ Versions \in [Notifications -> Nat]
           /\ \A n \in Notifications : Versions[n] = rows[n].version
           /\ \A n \in Notifications : rows[n].version \in Nat
BY DEF Versions, Ownership, TypeOK, Row

LEMMA StartDispatchCore ==
    ASSUME Core, NEW r \in Sessions, NEW E \in Events, StartDispatch(r, E)
    PROVE  Core' /\ DeletedStays
<1> DEFINE t == [Idle EXCEPT !.op = "dispatch", !.step = "next", !.todo = E]
<1>1. E \subseteq Notifications /\ \A n \in E : Single(n)
  BY NotificationAssumption DEF Single
<1>2. /\ t \in Session /\ t.op = "dispatch" /\ t.step = "next" /\ t.todo = E
      /\ t.now = None /\ t.users = {} /\ t.locked = FALSE
      /\ t.inserted = Idle.inserted /\ t.created = {}
  BY <1>1, IdleFacts DEF Session
<1>3. sessions[r] = Idle /\ sessions' = [sessions EXCEPT ![r] = t]
      /\ UNCHANGED <<tables, sending, election, failures, lost>>
  BY DEF StartDispatch, Begin
<1> HIDE DEF t
<1>4. \A n \in Notifications : ~Owns(t, n) /\ ~Reads(t, n) /\ ~Publishes(t, n) /\ ~Inserts(t, n)
  BY <1>2, IdleFacts DEF Owns, Inserts, Locks, Works, Reads, Publishes
<1>5. Shaped(t)
  BY <1>1, <1>2, <1>4 DEF Shaped, Placed, Insertions, ToDeliver, Created
<1>6. Known(preferences, t)
  BY <1>2 DEF Known
<1>7. QED
  BY <1>2, <1>3, <1>4, <1>5, <1>6, StartMove

LEMMA StartBroadcastCore ==
    ASSUME Core, NEW r \in Sessions, NEW n \in Broadcasts, StartBroadcast(r, n)
    PROVE  Core' /\ DeletedStays
<1> DEFINE t == [Idle EXCEPT !.op = "broadcast", !.step = "insert", !.now = n]
<1>1. n \in Notifications
  BY NotificationAssumption
<1>2. /\ t \in Session /\ t.op = "broadcast" /\ t.step = "insert" /\ t.todo = {}
      /\ t.now = n /\ t.users = {} /\ t.locked = FALSE
      /\ t.inserted = Idle.inserted /\ t.created = {}
  BY <1>1, IdleFacts DEF Session
<1>3. sessions[r] = Idle /\ sessions' = [sessions EXCEPT ![r] = t]
      /\ UNCHANGED <<tables, sending, election, failures, lost>>
  BY DEF StartBroadcast, Begin
<1> HIDE DEF t
<1>4. \A m \in Notifications : ~Owns(t, m) /\ ~Reads(t, m) /\ ~Publishes(t, m) /\ ~Inserts(t, m)
  BY <1>2, IdleFacts DEF Owns, Inserts, Locks, Works, Reads, Publishes
<1>5. Shaped(t)
  BY <1>1, <1>2, <1>4 DEF Shaped, Placed, Insertions, ToDeliver, Created
<1>6. Known(preferences, t)
  BY <1>2 DEF Known
<1>7. QED
  BY <1>2, <1>3, <1>4, <1>5, <1>6, StartMove

LEMMA StartPublishCore ==
    ASSUME Core, NEW r \in Sessions, NEW n \in Notifications, StartPublish(r, n)
    PROVE  Core' /\ DeletedStays
<1> DEFINE t == [Idle EXCEPT !.op = "publish", !.step = "deliver", !.now = n,
                             !.users = Recipients[n], !.seen = Versions]
<1>1. Recipients[n] \subseteq Users /\ Versions \in [Notifications -> Nat]
  BY NotificationAssumption, VersionsSeen DEF Core
<1>2. /\ t \in Session /\ t.op = "publish" /\ t.step = "deliver" /\ t.todo = {}
      /\ t.now = n /\ t.users = Recipients[n] /\ t.seen = Versions /\ t.locked = FALSE
      /\ t.inserted = Idle.inserted /\ t.created = {}
  BY <1>1, IdleFacts DEF Session
<1>3. sessions[r] = Idle /\ sessions' = [sessions EXCEPT ![r] = t]
      /\ UNCHANGED <<tables, sending, election, failures, lost>>
      /\ Visible(n) /\ rows[n].state # "published"
  BY DEF StartPublish, Begin
<1> HIDE DEF t
<1>4. \A m \in Notifications :
         /\ ~Owns(t, m) /\ ~Inserts(t, m)
         /\ Reads(t, m) => m = n
         /\ Publishes(t, m) => m = n
  BY <1>2, IdleFacts DEF Owns, Inserts, Locks, Works, Reads, Publishes
<1>5. Shaped(t)
  BY <1>1, <1>2, <1>4 DEF Shaped, Placed, Insertions, ToDeliver, Created
<1>6. Known(preferences, t)
  BY <1>2 DEF Known
<1>7. Seen(rows, t, n)
  BY <1>2, <1>3, VersionsSeen DEF Core, Seen, Visible
<1>8. Covered(t, n)
  BY <1>2 DEF Covered
<1>9. QED
  BY <1>2, <1>3, <1>4, <1>5, <1>6, <1>7, <1>8, StartMove

LEMMA StartEditCore ==
    ASSUME Core, NEW r \in Sessions, NEW N \in SUBSET Notifications, NEW delete \in BOOLEAN,
           StartEdit(r, N, delete)
    PROVE  Core' /\ DeletedStays
<1> DEFINE t == [Idle EXCEPT !.op = "edit", !.todo = N, !.seen = Versions,
                             !.delete = delete]
<1>1. Versions \in [Notifications -> Nat]
  BY VersionsSeen DEF Core
<1>2. /\ t \in Session /\ t.op = "edit" /\ t.step = "none" /\ t.todo = N
      /\ t.now = None /\ t.users = {} /\ t.seen = Versions /\ t.locked = FALSE
      /\ t.inserted = Idle.inserted /\ t.created = {}
  BY <1>1, IdleFacts DEF Session
<1>3. sessions[r] = Idle /\ sessions' = [sessions EXCEPT ![r] = t]
      /\ UNCHANGED <<tables, sending, election, failures, lost>>
      /\ \A n \in N : Visible(n)
  BY DEF StartEdit, Begin
<1> HIDE DEF t
<1>4. \A m \in Notifications :
         /\ ~Owns(t, m) /\ ~Inserts(t, m) /\ ~Publishes(t, m)
         /\ Reads(t, m) => m \in N
  BY <1>2, IdleFacts DEF Owns, Inserts, Locks, Works, Reads, Publishes
<1>5. Shaped(t)
  BY <1>1, <1>2, <1>4 DEF Shaped, Placed, Insertions, ToDeliver, Created
<1>6. Known(preferences, t)
  BY <1>2 DEF Known
<1>7. \A m \in N : Seen(rows, t, m)
  BY <1>2, <1>3, VersionsSeen DEF Core, Seen, Visible
<1>8. QED
  BY <1>2, <1>3, <1>4, <1>5, <1>6, <1>7, StartMove

LEMMA PollCore ==
    ASSUME Core, NEW r \in Workers, Poll(r)
    PROVE  Core' /\ DeletedStays
<1> DEFINE t == [Idle EXCEPT !.op = "work", !.step = "next",
                             !.todo = Due, !.seen = Versions]
<1>1. Due \subseteq Notifications /\ Versions \in [Notifications -> Nat] /\ r \in Sessions
  BY VersionsSeen DEF Core, Due, Sessions
<1>2. /\ t \in Session /\ t.op = "work" /\ t.step = "next" /\ t.todo = Due
      /\ t.now = None /\ t.users = {} /\ t.seen = Versions /\ t.locked = FALSE
      /\ t.inserted = Idle.inserted /\ t.created = {}
  BY <1>1, IdleFacts DEF Session
<1>3. sessions[r] = Idle /\ sessions' = [sessions EXCEPT ![r] = t]
      /\ UNCHANGED <<tables, sending, election, failures, lost>>
  BY DEF Poll, Begin
<1> HIDE DEF t
<1>4. \A m \in Notifications :
         /\ ~Owns(t, m) /\ ~Inserts(t, m) /\ ~Publishes(t, m)
         /\ Reads(t, m) => m \in Due
  BY <1>2, IdleFacts DEF Owns, Inserts, Locks, Works, Reads, Publishes
<1>5. Shaped(t)
  BY <1>1, <1>2, <1>4 DEF Shaped, Placed, Insertions, ToDeliver, Created
<1>6. Known(preferences, t)
  BY <1>2 DEF Known
<1>7. \A m \in Due : Seen(rows, t, m)
  BY <1>2, <1>3, VersionsSeen DEF Core, Seen, Due
<1>8. QED
  BY <1>1, <1>2, <1>3, <1>4, <1>5, <1>6, <1>7, StartMove

-----------------------------------------------------------------------------
(* Steps that write rows.                                                  *)

LEMMA Updated ==
    ASSUME NEW x \in Row, NEW a \in {"none", "scheduled", "due", "published"},
           NEW d \in BOOLEAN
    PROVE  /\ [x EXCEPT !.state = a] \in Row
           /\ [x EXCEPT !.state = a].state = a
           /\ [x EXCEPT !.state = a, !.version = @ + 1] \in Row
           /\ [x EXCEPT !.state = a, !.version = @ + 1].version = x.version + 1
           /\ [x EXCEPT !.state = a, !.version = @ + 1].state = a
           /\ [x EXCEPT !.deleted = d, !.version = @ + 1] \in Row
           /\ [x EXCEPT !.deleted = d, !.version = @ + 1].version = x.version + 1
           /\ [x EXCEPT !.deleted = d, !.version = @ + 1].state = x.state
<1>1. x.version + 1 \in Nat
  BY DEF Row
<1>2. [x EXCEPT !.state = a] \in Row /\ [x EXCEPT !.state = a].state = a
  BY DEF Row
<1>3. ASSUME NEW k \in Nat
      PROVE  /\ [x EXCEPT !.state = a, !.version = k] \in Row
             /\ [x EXCEPT !.state = a, !.version = k].version = k
             /\ [x EXCEPT !.state = a, !.version = k].state = a
  BY DEF Row
<1>4. ASSUME NEW k \in Nat
      PROVE  /\ [x EXCEPT !.deleted = d, !.version = k] \in Row
             /\ [x EXCEPT !.deleted = d, !.version = k].version = k
             /\ [x EXCEPT !.deleted = d, !.version = k].state = x.state
  BY DEF Row
<1>5. QED
  BY <1>1, <1>2, <1>3, <1>4

LEMMA CommitEditCore ==
    ASSUME Core, NEW r \in Sessions, CommitEdit(r)
    PROVE  Core' /\ DeletedStays
<1> DEFINE s == sessions[r]
           new(n) == [rows[n] EXCEPT !.deleted = @ \/ s.delete, !.version = @ + 1]
<1>1. /\ s \in Session /\ Shaped(s) /\ s.op = "edit" /\ TypeOK
      /\ \A n \in s.todo : Unlocked(r, n) /\ Fresh(s, n)
  BY SessionFacts DEF Core, Ownership, CommitEdit
<1>2. /\ rows' = [n \in Notifications |-> IF n \in s.todo THEN new(n) ELSE rows[n]]
      /\ sessions' = [sessions EXCEPT ![r] = Idle]
      /\ UNCHANGED <<delivered, preferences, sending, election, failures, lost>>
  BY DEF CommitEdit, Begin
<1>3. \A n \in Notifications :
         new(n) \in Row /\ new(n).version = rows[n].version + 1 /\ new(n).state = rows[n].state
  <2>1. TAKE n \in Notifications
  <2>2. rows[n] \in Row /\ (rows[n].deleted \/ s.delete) \in BOOLEAN
    BY <1>1 DEF TypeOK, Session
  <2>3. QED
    BY <2>2, Updated DEF Row
<1> HIDE DEF new
<1>4. TypeOK'
  <2>1. rows' \in [Notifications -> Row]
    BY <1>1, <1>2, <1>3 DEF TypeOK
  <2>2. sessions' \in [Sessions -> Session]
    BY <1>1, <1>2, IdleFacts DEF TypeOK
  <2>3. QED
    BY <1>1, <1>2, <2>1, <2>2 DEF TypeOK, sending, election
<1>5. \A n \in Notifications : RowChange(r, n)
  BY <1>1, <1>2, <1>3 DEF RowChange, Reads
<1>6. \A n \in Notifications, u \in Users : Delivery(r, n, u)
  BY <1>2 DEF Delivery
<1>7. Known(preferences', Idle)
  BY IdleFacts DEF Known
<1>8. Ownership' /\ DeletedStays
  BY <1>2, <1>4, <1>5, <1>6, <1>7, IdleFacts, Move DEF Core
<1>9. \A q \in Sessions : sessions'[q] = IF q = r THEN Idle ELSE sessions[q]
  BY <1>1, <1>2 DEF TypeOK
<1>10. NobodyForgotten'
  BY <1>2, <1>9, IdleFacts DEF Core, NoLoss, NobodyForgotten
<1>11. OnlyFailuresLose'
  <2>1. SUFFICES ASSUME NEW n \in Notifications, rows'[n].state = "published", n \notin lost,
                        NEW v \in Recipients[n], ~(delivered[<<n, v>>] > 0)
                 PROVE  \E w \in Workers : sessions'[w].op = "work" /\ sessions'[w].now = n
    BY <1>2 DEF OnlyFailuresLose
  <2>2. rows[n].state = "published"
    BY <1>2, <1>3, <2>1
  <2>3. PICK w \in Workers : sessions[w].op = "work" /\ sessions[w].now = n
    BY <2>1, <2>2 DEF Core, NoLoss, OnlyFailuresLose
  <2>4. QED
    BY <1>1, <1>9, <2>3 DEF Sessions
<1>12. QED
  BY <1>8, <1>10, <1>11 DEF Core, NoLoss


LEMMA PublishDueCore ==
    ASSUME Core, NEW r \in Workers, NEW n \in Notifications, PublishDue(r, n)
    PROVE  Core' /\ DeletedStays
<1> DEFINE s == sessions[r]
           t == [s EXCEPT !.step = "deliver", !.now = n, !.todo = @ \ {n},
                          !.users = Recipients[n]]
           new == [rows[n] EXCEPT !.state = "published", !.version = @ + 1]
<1>1. /\ r \in Sessions /\ s \in Session /\ Shaped(s) /\ TypeOK
      /\ s.op = "work" /\ s.step = "next" /\ n \in s.todo
      /\ Unlocked(r, n) /\ Fresh(s, n)
  BY SessionFacts DEF Core, Ownership, PublishDue, Sessions
<1>2. s.now = None /\ s.locked = FALSE /\ s.created = {} /\ \A m \in Notifications : ~Inserts(s, m)
  <2>1. s.now = None /\ s.locked = FALSE /\ \A m \in Notifications : ~Inserts(s, m)
    BY <1>1 DEF Shaped, Placed, Insertions
  <2>2. \A c \in s.created : c[1] \in Notifications /\ Owns(s, c[1])
    BY <1>1 DEF Shaped, Created, Session, Copies
  <2>3. \A c \in s.created : FALSE
    BY <1>1, <2>1, <2>2 DEF Owns, Locks, Works
  <2>4. QED
    BY <2>1, <2>3
<1>3. Recipients[n] \subseteq Users /\ None \notin Notifications
  BY NotificationAssumption
<1>4. /\ t \in Session /\ t.op = "work" /\ t.step = "deliver" /\ t.todo = s.todo \ {n}
      /\ t.now = n /\ t.users = Recipients[n] /\ t.seen = s.seen /\ t.locked = FALSE
      /\ t.inserted = s.inserted /\ t.created = {}
  BY <1>1, <1>2, <1>3 DEF Session
<1>5. /\ sessions' = [sessions EXCEPT ![r] = t]
      /\ UNCHANGED <<delivered, preferences, sending, election, failures, lost>>
  BY DEF PublishDue, Begin
<1>6. /\ rows' = [rows EXCEPT ![n] = new] /\ new \in Row
      /\ new.version = rows[n].version + 1 /\ new.state = "published"
  <2>1. rows[n] \in Row
    BY <1>1 DEF TypeOK
  <2>2. rows' = [rows EXCEPT ![n] = new]
    BY <1>1 DEF PublishDue, TypeOK, Row
  <2>3. QED
    BY <2>1, <2>2, Updated
<1> HIDE DEF t, new
<1>7. \A m \in Notifications : rows'[m] = IF m = n THEN new ELSE rows[m]
  BY <1>1, <1>6 DEF TypeOK
<1>8. \A m \in Notifications :
         /\ Owns(t, m) <=> m = n
         /\ Publishes(t, m) <=> m = n
         /\ ~Inserts(t, m) /\ ~Locks(t, m)
         /\ Reads(t, m) => m # n /\ Reads(s, m)
  BY <1>1, <1>2, <1>4 DEF Owns, Inserts, Locks, Works, Publishes, Reads
<1>9. Seen(rows, s, n) /\ rows[n].state \notin {"none", "published"}
  BY <1>1, SessionFacts DEF Core, Reads, Seen, Fresh
<1>10. Silent(delivered, n) /\ \A q \in Sessions \ {r} : ~Owns(sessions[q], n)
  <2>1. Silent(delivered, n)
    BY <1>9 DEF Core, Ownership, UnpublishedIsSilent, Silent
  <2>2. SUFFICES ASSUME NEW q \in Sessions \ {r}, Owns(sessions[q], n) PROVE FALSE
    BY <2>1
  <2>3. ~Locks(sessions[q], n)
    BY <1>1 DEF Unlocked, LockedBy, Locks
  <2>4. Held(rows, sessions[q], n)
    BY <2>2, SessionFacts DEF Core
  <2>5. QED
    BY <1>9, <2>2, <2>3, <2>4 DEF Held, Owns
<1>11. Shaped(t)
  <2>1. Placed(t)
    BY <1>4 DEF Placed
  <2>2. Insertions(t) /\ ToDeliver(t) /\ Created(t)
    BY <1>4, <1>8 DEF Insertions, ToDeliver, Created
  <2>3. QED
    BY <2>1, <2>2 DEF Shaped
<1>12. TypeOK'
  <2>1. rows' \in [Notifications -> Row] /\ sessions' \in [Sessions -> Session]
    BY <1>1, <1>4, <1>5, <1>6 DEF TypeOK
  <2>2. QED
    BY <1>1, <1>5, <2>1 DEF TypeOK, sending, election
<1>13. \A m \in Notifications : RowChange(r, m)
  BY <1>1, <1>6, <1>7 DEF RowChange, Reads
<1>14. \A m \in Notifications, u \in Users : Delivery(r, m, u)
  BY <1>5 DEF Delivery
<1>15. \A m \in Notifications : Owns(t, m) =>
         /\ Held(rows', t, m) /\ Silent(delivered', m)
         /\ \A q \in Sessions \ {r} : ~Owns(sessions[q], m)
  BY <1>5, <1>6, <1>7, <1>8, <1>10 DEF Held
<1>16. ASSUME NEW m \in Notifications, Reads(t, m) PROVE Seen(rows', t, m)
  <2>1. Seen(rows, s, m) /\ rows'[m] = rows[m]
    BY <1>1, <1>7, <1>8, <1>16, SessionFacts DEF Core
  <2>2. QED
    BY <1>1, <1>4, <2>1 DEF Seen
<1>17. Known(preferences', t)
  BY <1>4 DEF Known
<1>18. Ownership' /\ DeletedStays
  BY <1>1, <1>4, <1>5, <1>11, <1>12, <1>13, <1>14, <1>15, <1>16, <1>17, Move DEF Core
<1>19. \A q \in Sessions : sessions'[q] = IF q = r THEN t ELSE sessions[q]
  BY <1>1, <1>5 DEF TypeOK
<1>20. NobodyForgotten'
  <2>1. Covered(t, n)
    BY <1>4 DEF Covered
  <2>2. QED
    BY <1>5, <1>8, <1>19, <2>1 DEF Core, NoLoss, NobodyForgotten
<1>21. OnlyFailuresLose'
  <2>1. SUFFICES ASSUME NEW m \in Notifications, rows'[m].state = "published", m \notin lost,
                        NEW v \in Recipients[m], ~(delivered[<<m, v>>] > 0)
                 PROVE  \E w \in Workers : sessions'[w].op = "work" /\ sessions'[w].now = m
    BY <1>5 DEF OnlyFailuresLose
  <2>2. CASE m = n
    BY <1>1, <1>4, <1>19, <2>2
  <2>3. CASE m # n
    <3>1. rows[m].state = "published"
      BY <1>7, <2>1, <2>3
    <3>2. PICK w \in Workers : sessions[w].op = "work" /\ sessions[w].now = m
      BY <2>1, <3>1 DEF Core, NoLoss, OnlyFailuresLose
    <3>3. QED
      BY <1>2, <1>3, <1>19, <3>2 DEF Sessions
  <2>4. QED
    BY <2>2, <2>3
<1>22. QED
  BY <1>18, <1>20, <1>21 DEF Core, NoLoss

LEMMA ElapseCore ==
    ASSUME Core, NEW n \in Notifications, Elapse(n)
    PROVE  Core' /\ DeletedStays
<1> DEFINE new == [rows[n] EXCEPT !.state = "due"]
<1>1. TypeOK /\ rows[n] \in Row /\ rows[n].state = "scheduled" /\ ~rows[n].deleted
  BY DEF Core, Ownership, TypeOK, Elapse
<1>2. /\ rows' = [rows EXCEPT ![n] = new]
      /\ UNCHANGED <<delivered, preferences, sending, sessions, election, failures, lost>>
  BY <1>1 DEF Elapse, TypeOK, Row
<1>3. /\ new \in Row /\ new.state = "due"
      /\ new.version = rows[n].version /\ new.deleted = rows[n].deleted
  BY <1>1 DEF Row
<1> HIDE DEF new
<1>4. \A m \in Notifications : rows'[m] = IF m = n THEN new ELSE rows[m]
  BY <1>1, <1>2 DEF TypeOK
<1>5. DeletedStays
  BY <1>1, <1>4 DEF DeletedStays
<1>6. TypeOK'
  <2>1. rows' \in [Notifications -> Row]
    BY <1>1, <1>2, <1>3 DEF TypeOK
  <2>2. QED
    BY <1>1, <1>2, <2>1 DEF TypeOK, sending, election
<1>7. SessionsShaped' /\ SchedulersWork' /\ OneOwner' /\ RecipientsKnown'
      /\ OneDeliveryPerChannel'
  BY <1>2 DEF Core, Ownership, SessionsShaped, SchedulersWork, OneOwner, RecipientsKnown,
     OneDeliveryPerChannel
<1>8. OwnersHold'
  <2>1. SUFFICES ASSUME NEW r \in Sessions, NEW m \in Notifications, Owns(sessions[r], m)
                 PROVE  Held(rows', sessions[r], m) /\ Silent(delivered, m)
    BY <1>2 DEF OwnersHold
  <2>2. Held(rows, sessions[r], m) /\ Silent(delivered, m)
    BY <2>1 DEF Core, Ownership, OwnersHold
  <2>3. QED
    BY <1>1, <1>3, <1>4, <2>2 DEF Held
<1>9. ReadersSee'
  <2>1. SUFFICES ASSUME NEW r \in Sessions, NEW m \in Notifications, Reads(sessions[r], m)
                 PROVE  Seen(rows', sessions[r], m)
    BY <1>2 DEF ReadersSee
  <2>2. Seen(rows, sessions[r], m)
    BY <2>1 DEF Core, Ownership, ReadersSee
  <2>3. QED
    BY <1>1, <1>3, <1>4, <2>2 DEF Seen
<1>10. NewIsNotDeleted'
  BY <1>3, <1>4 DEF Core, Ownership, NewIsNotDeleted
<1>11. UnpublishedIsSilent'
  BY <1>1, <1>2, <1>4 DEF Core, Ownership, UnpublishedIsSilent
<1>12. NobodyForgotten'
  BY <1>2 DEF Core, NoLoss, NobodyForgotten
<1>13. OnlyFailuresLose'
  BY <1>2, <1>3, <1>4 DEF Core, NoLoss, OnlyFailuresLose
<1>14. QED
  BY <1>5, <1>6, <1>7, <1>8, <1>9, <1>10, <1>11, <1>12, <1>13 DEF Core, NoLoss, Ownership

LEMMA RemainingFacts ==
    ASSUME NEW s \in Session, Shaped(s)
    PROVE  LET t == Remaining(s) IN
           /\ t \in Session /\ Shaped(t) /\ t.created = {} /\ t.op \in {"idle", "work"}
           /\ t.op = "work" => s.op = "work"
           /\ \A P : Known(P, t)
           /\ \A n \in Notifications : ~Owns(t, n) /\ ~Publishes(t, n)
           /\ \A n \in Notifications :
                 Reads(t, n) => Reads(s, n) /\ s.op = "work" /\ t.seen = s.seen /\ t.op = s.op
<1> DEFINE t == [Idle EXCEPT !.op = "work", !.step = "next", !.todo = s.todo, !.seen = s.seen]
<1>1. CASE s.op = "work" /\ s.todo # {}
  <2>1. /\ t \in Session /\ t.op = "work" /\ t.step = "next" /\ t.todo = s.todo
        /\ t.now = None /\ t.users = {} /\ t.seen = s.seen /\ t.locked = FALSE
        /\ t.inserted = Idle.inserted /\ t.created = {}
    BY IdleFacts DEF Session
  <2>2. Remaining(s) = t
    BY <1>1 DEF Remaining
  <2> HIDE DEF t
  <2>3. \A n \in Notifications :
           /\ ~Owns(t, n) /\ ~Publishes(t, n) /\ ~Inserts(t, n)
           /\ Reads(t, n) => Reads(s, n)
    BY <1>1, <2>1, IdleFacts DEF Owns, Inserts, Locks, Works, Reads, Publishes
  <2>4. Shaped(t)
    BY <2>1, <2>3 DEF Shaped, Placed, Insertions, ToDeliver, Created
  <2>5. \A P : Known(P, t)
    BY <2>1 DEF Known
  <2>6. QED
    BY <1>1, <2>1, <2>2, <2>3, <2>4, <2>5
<1>2. CASE ~(s.op = "work" /\ s.todo # {})
  <2>1. Remaining(s) = Idle
    BY <1>2 DEF Remaining
  <2>2. \A P : Known(P, Idle)
    BY IdleFacts DEF Known
  <2>3. QED
    BY <2>1, <2>2, IdleFacts
<1>3. QED
  BY <1>1, <1>2

(* What the commit of a session writes. *)
LEMMA CommitStep ==
    ASSUME Core, NEW r \in Sessions, Commit(r)
    PROVE  LET s == sessions[r] IN
           /\ s \in Session /\ Shaped(s) /\ TypeOK /\ s.users = {}
           /\ \A n \in Notifications : s.op = "work" /\ s.now = n => Works(s, n)
           /\ \A n \in Notifications :
                /\ rows'[n] = CommittedRow(s, n) /\ rows'[n] \in Row
                /\ RowChange(r, n)
                /\ Publishes(s, n) => rows'[n].state = "published"
                /\ ~Publishes(s, n) => rows'[n] = rows[n] \/ rows'[n].state = "scheduled"
           /\ \A c \in s.created : Publishes(s, c[1]) /\ Owns(s, c[1]) /\ delivered[c] = 0
           /\ sessions' = [sessions EXCEPT ![r] = Remaining(s)]
<1> DEFINE s == sessions[r]
<1>1. /\ s \in Session /\ Shaped(s) /\ TypeOK /\ Finished(s) /\ MayFlush(r)
      /\ \A n \in Notifications :
                /\ Owns(s, n) => Held(rows, s, n)
                /\ Reads(s, n) => Seen(rows, s, n)
  BY SessionFacts DEF Core, Ownership, Commit
<1>2. s.users = {} /\ (s.op # "dispatch" => s.step = "deliver")
  BY <1>1 DEF Finished, Shaped, ToDeliver
<1>3. \A n \in Notifications : s.op = "work" /\ s.now = n => Works(s, n)
  BY <1>2 DEF Works
<1>4. \A n \in Notifications : rows'[n] = CommittedRow(s, n)
  BY DEF Commit
<1>5. ASSUME NEW n \in Notifications
      PROVE  /\ rows'[n] \in Row /\ RowChange(r, n)
             /\ Publishes(s, n) => rows'[n].state = "published"
             /\ ~Publishes(s, n) => rows'[n] = rows[n] \/ rows'[n].state = "scheduled"
  <2>1. rows[n] \in Row /\ s.inserted[n] \in {"none", "scheduled", "published"}
    BY <1>1 DEF TypeOK, Session
  <2>2. CASE s.inserted[n] # "none"
    <3> DEFINE new == [rows[n] EXCEPT !.state = s.inserted[n]]
    <3>0. s.op \in {"dispatch", "broadcast"}
      BY <1>1, <2>2 DEF Shaped, Insertions, Inserts
    <3>1. rows'[n] = new
      BY <1>4, <2>2, <3>0 DEF CommittedRow
    <3>2. new \in Row /\ new.state = s.inserted[n]
      <4>1. ASSUME NEW a \in {"scheduled", "published"}
            PROVE  [rows[n] EXCEPT !.state = a] \in Row /\ [rows[n] EXCEPT !.state = a].state = a
        BY <2>1 DEF Row
      <4>2. QED
        BY <2>1, <2>2, <4>1
    <3>4. RowChange(r, n)
      BY <2>2, <3>1 DEF RowChange, Inserts
    <3> HIDE DEF new
    <3>5. QED
      BY <2>1, <2>2, <3>0, <3>1, <3>2, <3>4 DEF Publishes, Works
  <2>3. CASE s.inserted[n] = "none" /\ s.op = "publish" /\ s.now = n
    <3> DEFINE new == [rows[n] EXCEPT !.state = "published", !.version = @ + 1]
    <3>1. rows'[n] = new
      BY <1>4, <2>3 DEF CommittedRow
    <3>2. new \in Row /\ new.state = "published" /\ new.version = rows[n].version + 1
      BY <2>1, Updated
    <3> HIDE DEF new
    <3>3. rows[n].version = s.seen[n] /\ Free(r, n)
      BY <1>1, <2>3, FlushOwns DEF Core
    <3>4. \A q \in Sessions \ {r} : ~Locks(sessions[q], n) \/ sessions[q].op # "publish"
      BY <3>3 DEF Free, Owns
    <3>5. \A q \in Sessions : sessions[q].op # "publish" => sessions[q].locked = FALSE
      BY SessionFacts DEF Core, Shaped, Placed
    <3>6. Unlocked(r, n)
      BY <3>4, <3>5 DEF Unlocked, LockedBy, Locks
    <3>7. Fresh(s, n) /\ Reads(s, n)
      BY <2>3, <3>3 DEF Fresh, Reads
    <3>8. RowChange(r, n)
      BY <3>1, <3>2, <3>6, <3>7 DEF RowChange
    <3>9. QED
      BY <2>3, <3>1, <3>2, <3>8 DEF Publishes
  <2>4. CASE s.inserted[n] = "none" /\ ~(s.op = "publish" /\ s.now = n)
    <3>1. rows'[n] = rows[n]
      BY <1>4, <2>4 DEF CommittedRow
    <3>2. Publishes(s, n) => Works(s, n)
      BY <2>4 DEF Publishes
    <3>3. Works(s, n) => rows[n].state = "published"
      BY <1>1 DEF Owns, Held
    <3>4. QED
      BY <2>1, <3>1, <3>2, <3>3 DEF RowChange
  <2>5. QED
    BY <2>2, <2>3, <2>4
<1>6. ASSUME NEW c \in s.created
      PROVE  Publishes(s, c[1]) /\ Owns(s, c[1]) /\ delivered[c] = 0
  <2>1. PICK n \in Notifications, u \in Users : c = <<n, u>>
    BY <1>1 DEF Session, Copies
  <2>2. Owns(s, n) /\ (Inserts(s, n) => s.inserted[n] = "published")
    BY <1>1, <2>1 DEF Shaped, Created
  <2>3. Publishes(s, n)
    BY <2>2 DEF Owns, Publishes, Locks
  <2>4. Silent(delivered, n)
    BY <2>2 DEF Core, Ownership, OwnersHold
  <2>5. QED
    BY <2>1, <2>2, <2>3, <2>4 DEF Silent
<1>7. QED
  BY <1>1, <1>2, <1>3, <1>4, <1>5, <1>6 DEF Commit, Begin

LEMMA CommitTyped ==
    ASSUME Core, NEW r \in Sessions, Commit(r)
    PROVE  TypeOK'
<1> DEFINE s == sessions[r]
<1>1. /\ s \in Session /\ TypeOK /\ \A n \in Notifications : rows'[n] \in Row
      /\ sessions' = [sessions EXCEPT ![r] = Remaining(s)] /\ Remaining(s) \in Session
  BY CommitStep, RemainingFacts
<1>2. rows' \in [Notifications -> Row]
  BY <1>1 DEF Commit
<1>3. sessions' \in [Sessions -> Session]
  BY <1>1 DEF TypeOK
<1>4. delivered' \in [Copies -> Nat]
  BY <1>1 DEF Commit, TypeOK
<1>5. whatsapp' \in [Copies -> Task]
  <2>1. \A x \in Task : [x EXCEPT !.row = "QUEUED"] \in Task
    BY DEF Task
  <2>2. QED
    BY <1>1, <2>1 DEF Commit, TypeOK
<1>6. preferences' \subseteq Users
  BY <1>1 DEF Commit, TypeOK, Session
<1>7. UNCHANGED <<messages, repeated, election, failures, lost>>
  BY DEF Commit
<1>8. QED
  BY <1>1, <1>2, <1>3, <1>4, <1>5, <1>6, <1>7 DEF TypeOK, election

LEMMA CommitCore ==
    ASSUME Core, NEW r \in Sessions, Commit(r)
    PROVE  Core' /\ DeletedStays
<1> DEFINE s == sessions[r]
           t == Remaining(s)
<1>1. /\ s \in Session /\ Shaped(s) /\ TypeOK /\ s.users = {}
      /\ \A n \in Notifications : s.op = "work" /\ s.now = n => Works(s, n)
      /\ \A n \in Notifications :
                /\ rows'[n] = CommittedRow(s, n)
                /\ RowChange(r, n)
                /\ Publishes(s, n) => rows'[n].state = "published"
                /\ ~Publishes(s, n) => rows'[n] = rows[n] \/ rows'[n].state = "scheduled"
      /\ \A c \in s.created : Publishes(s, c[1]) /\ Owns(s, c[1]) /\ delivered[c] = 0
      /\ sessions' = [sessions EXCEPT ![r] = t]
  BY CommitStep
<1>2. /\ t \in Session /\ Shaped(t) /\ t.created = {}
      /\ t.op = "work" => s.op = "work"
      /\ \A P : Known(P, t)
      /\ \A n \in Notifications : ~Owns(t, n) /\ ~Publishes(t, n)
      /\ \A n \in Notifications :
            Reads(t, n) => Reads(s, n) /\ s.op = "work" /\ t.seen = s.seen /\ t.op = s.op
  BY <1>1, RemainingFacts
<1> HIDE DEF t
<1>3. /\ delivered' = [c \in Copies |->
                         IF c \in s.created THEN delivered[c] + 1 ELSE delivered[c]]
      /\ preferences \subseteq preferences' /\ lost' = lost
  BY DEF Commit
<1>4. ASSUME NEW n \in Notifications, NEW u \in Users PROVE Delivery(r, n, u)
  <2>1. <<n, u>> \in Copies
    BY DEF Copies
  <2>2. <<n, u>> \in s.created =>
           Owns(s, n) /\ rows'[n].state = "published" /\ delivered[<<n, u>>] = 0
    BY <1>1
  <2>3. QED
    BY <1>3, <2>1, <2>2 DEF Delivery
<1>5. ASSUME NEW n \in Notifications, Reads(t, n) PROVE Seen(rows', t, n)
  <2>1. Seen(rows, s, n) /\ s.op = "work" /\ t.seen = s.seen /\ t.op = s.op
    BY <1>2, <1>5, SessionFacts DEF Core
  <2>2. ~Inserts(s, n)
    BY <1>1, <2>1 DEF Shaped, Insertions
  <2>3. rows'[n] = rows[n]
    BY <1>1, <2>1, <2>2 DEF CommittedRow, Inserts
  <2>4. QED
    BY <2>1, <2>3 DEF Seen
<1>6. Ownership' /\ DeletedStays
  <2>1. TypeOK'
    BY CommitTyped
  <2>2. t.op = "work" => r \in Workers
    BY <1>2, SessionFacts DEF Core
  <2>3. QED
    BY <1>1, <1>2, <1>3, <1>4, <1>5, <2>1, <2>2, Move DEF Core
<1>7. \A q \in Sessions : sessions'[q] = IF q = r THEN t ELSE sessions[q]
  BY <1>1 DEF TypeOK
<1>8. NobodyForgotten'
  BY <1>2, <1>3, <1>7 DEF Core, NoLoss, NobodyForgotten
<1>9. OnlyFailuresLose'
  <2>1. SUFFICES ASSUME NEW n \in Notifications, rows'[n].state = "published", n \notin lost,
                        NEW v \in Recipients[n], ~(delivered'[<<n, v>>] > 0)
                 PROVE  \E w \in Workers : sessions'[w].op = "work" /\ sessions'[w].now = n
    BY <1>3 DEF OnlyFailuresLose
  <2>2. v \in Users /\ <<n, v>> \in Copies /\ delivered[<<n, v>>] \in Nat
    BY <1>1, NotificationAssumption DEF Copies, TypeOK
  <2>3. <<n, v>> \notin s.created /\ ~(delivered[<<n, v>>] > 0)
    BY <1>3, <2>1, <2>2
  <2>4. ~Publishes(s, n)
    BY <1>1, <2>1, <2>3 DEF Core, NoLoss, NobodyForgotten, Covered
  <2>5. rows[n].state = "published"
    BY <1>1, <2>1, <2>4
  <2>6. PICK w \in Workers : sessions[w].op = "work" /\ sessions[w].now = n
    BY <2>1, <2>3, <2>5 DEF Core, NoLoss, OnlyFailuresLose
  <2>7. w # r
    BY <1>1, <2>4, <2>6 DEF Publishes
  <2>8. QED
    BY <1>7, <2>6, <2>7 DEF Sessions
<1>10. QED
  BY <1>6, <1>8, <1>9 DEF Core, NoLoss


-----------------------------------------------------------------------------
(* Every step.                                                             *)

LEMMA RecordedTask ==
    ASSUME NEW t \in Task
    PROVE  Recorded(t) \in Task
<1>1. CASE t.row = "none"
  <2>1. Recorded(t) = [t EXCEPT !.task = "gaveUp"]
    BY <1>1 DEF Recorded
  <2>2. QED
    BY <2>1 DEF Task
<1>2. CASE t.row # "none" /\ t.task = "sent"
  <2>1. Recorded(t) = [t EXCEPT !.row = "SENT", !.task = "done"]
    BY <1>2 DEF Recorded
  <2>2. QED
    BY <2>1 DEF Task
<1>3. CASE t.row # "none" /\ t.task \in {"refused", "unanswered"} /\ t.attempt < MaxAttempts
  <2> DEFINE k == t.attempt + 1
  <2>1. k \in 0..MaxAttempts
    BY <1>3, NotificationAssumption DEF Task
  <2>2. Recorded(t) = [t EXCEPT !.row = "QUEUED", !.task = "sending", !.attempt = k]
    BY <1>3 DEF Recorded
  <2> HIDE DEF k
  <2>3. QED
    BY <2>1, <2>2 DEF Task
<1>4. CASE ~(t.row = "none") /\ ~(t.row # "none" /\ t.task = "sent")
           /\ ~(t.row # "none" /\ t.task \in {"refused", "unanswered"} /\ t.attempt < MaxAttempts)
  <2>1. Recorded(t) = [t EXCEPT !.row = "FAILED", !.task = "done"]
    BY <1>4 DEF Recorded
  <2>2. QED
    BY <2>1 DEF Task
<1>5. QED
  BY <1>1, <1>2, <1>3, <1>4

LEMMA CoreStays ==
    ASSUME Core, TypeOK', UNCHANGED <<tables, sessions, lost>>
    PROVE  Core' /\ DeletedStays
<1>1. UNCHANGED <<rows, delivered, preferences, sessions, lost>>
  BY DEF tables
<1>2. Ownership'
  BY <1>1 DEF Core, Ownership, SessionsShaped, SchedulersWork, OneOwner, OwnersHold, ReadersSee,
     RecipientsKnown, NewIsNotDeleted, OneDeliveryPerChannel, UnpublishedIsSilent
<1>3. NoLoss'
  BY <1>1 DEF Core, NoLoss, NobodyForgotten, OnlyFailuresLose
<1>4. QED
  BY <1>1, <1>2, <1>3 DEF Core, DeletedStays

LEMMA SendingCore ==
    ASSUME Core, NEW c \in Copies, Send(c) \/ Record(c) \/ KillTask(c)
    PROVE  Core' /\ DeletedStays
<1>1. TypeOK
  BY DEF Core, Ownership
<1>2. CASE Send(c)
  <2>1. PICK answer \in Answers :
        /\ whatsapp' = [whatsapp EXCEPT ![c].task = answer]
        /\ messages' = [messages EXCEPT
                          ![c] = IF answer \in {"sent", "unanswered"} THEN @ + 1 ELSE @]
        /\ repeated' = IF answer = "unanswered" THEN repeated \cup {c} ELSE repeated
    BY <1>2 DEF Send
  <2>2. UNCHANGED <<tables, sessions, election, failures, lost>>
    BY <1>2 DEF Send
  <2>3. [whatsapp[c] EXCEPT !.task = answer] \in Task
    BY <1>1 DEF TypeOK, Task
  <2>4. whatsapp' \in [Copies -> Task]
    BY <1>1, <2>1, <2>3 DEF TypeOK
  <2>5. messages' \in [Copies -> Nat] /\ repeated' \subseteq Copies
    BY <1>1, <2>1 DEF TypeOK
  <2>6. TypeOK'
    BY <1>1, <2>2, <2>4, <2>5 DEF TypeOK, tables, election
  <2>7. QED
    BY <2>2, <2>6, CoreStays
<1>3. CASE Record(c)
  <2>1. /\ whatsapp' = [whatsapp EXCEPT ![c] = Recorded(whatsapp[c])]
        /\ UNCHANGED <<tables, messages, repeated, sessions, election, failures, lost>>
    BY <1>3 DEF Record
  <2>2. whatsapp' \in [Copies -> Task]
    BY <1>1, <2>1, RecordedTask DEF TypeOK
  <2>3. TypeOK'
    BY <1>1, <2>1, <2>2 DEF TypeOK, tables, election
  <2>4. QED
    BY <2>1, <2>3, CoreStays
<1>4. CASE KillTask(c)
  <2>1. /\ whatsapp' = [whatsapp EXCEPT ![c].task = "gaveUp"]
        /\ failures < MaxFailures /\ failures' = failures + 1
        /\ UNCHANGED <<tables, messages, repeated, sessions, election, lost>>
    BY <1>4 DEF KillTask
  <2>2. [whatsapp[c] EXCEPT !.task = "gaveUp"] \in Task
    BY <1>1 DEF TypeOK, Task
  <2>3. whatsapp' \in [Copies -> Task]
    BY <1>1, <2>1, <2>2 DEF TypeOK
  <2>4. failures' \in 0..MaxFailures
    BY <1>1, <2>1, NotificationAssumption DEF TypeOK
  <2>5. TypeOK'
    BY <1>1, <2>1, <2>3, <2>4 DEF TypeOK, tables, election
  <2>6. QED
    BY <2>1, <2>5, CoreStays
<1>5. QED
  BY <1>2, <1>3, <1>4

LEMMA ElectionCore ==
    ASSUME Core, NEW w \in Workers, Acquire(w) \/ LoseConnection(w)
    PROVE  Core' /\ DeletedStays
<1>1. TypeOK
  BY DEF Core, Ownership
<1>2. /\ UNCHANGED <<tables, sending, sessions, lost>>
      /\ lock' \in Workers \cup {None} /\ leaders' \subseteq Workers
      /\ failures' = failures \/ (failures < MaxFailures /\ failures' = failures + 1)
  BY <1>1 DEF Acquire, LoseConnection, TypeOK
<1>3. failures' \in 0..MaxFailures
  BY <1>1, <1>2, NotificationAssumption DEF TypeOK
<1>4. TypeOK'
  BY <1>1, <1>2, <1>3 DEF TypeOK, tables, sending
<1>5. QED
  BY <1>2, <1>4, CoreStays

(* A step that rolls the transaction of a session back. *)
RollsBack(r) ==
    /\ RollbackSession(r)
    /\ lock' \in Workers \cup {None} /\ leaders' \subseteq Workers
    /\ failures' \in 0..MaxFailures

LEMMA RollbackSteps ==
    ASSUME Core, NEW r \in Sessions,
           \/ KeyTaken(r) \/ PreferencesTaken(r) \/ Stale(r) \/ Deadlocked(r)
           \/ Fail(r) \/ Restart(r)
    PROVE  RollsBack(r)
<1>1. TypeOK
  BY DEF Core, Ownership
<1>2. /\ RollbackSession(r)
      /\ lock' = lock \/ lock' = None
      /\ leaders' = leaders \/ leaders' = leaders \ {r}
      /\ failures' = failures \/ (failures < MaxFailures /\ failures' = failures + 1)
  BY DEF KeyTaken, PreferencesTaken, Stale, Deadlocked, Fail, Restart, Rollback
<1>3. failures' \in 0..MaxFailures
  BY <1>1, <1>2, NotificationAssumption DEF TypeOK
<1>4. QED
  BY <1>1, <1>2, <1>3 DEF RollsBack, TypeOK

(* The steps of a session that make no delivery row and commit none. *)
Silently(r) ==
    \/ \E E \in Events : StartDispatch(r, E)
    \/ \E n \in Broadcasts : StartBroadcast(r, n)
    \/ \E n \in Notifications : StartPublish(r, n)
    \/ \E N \in SUBSET Notifications, d \in BOOLEAN : StartEdit(r, N, d)
    \/ r \in Workers /\ Poll(r)
    \/ \E u \in Users : FindNewcomer(r, u)
    \/ \E n \in Notifications : NextRecipient(r, n)
    \/ \E n \in Notifications : r \in Workers /\ PublishDue(r, n)
    \/ CreatePreferences(r) \/ Bypass(r) \/ PassDuplicateCheck(r) \/ Insert(r)
    \/ CommitEdit(r) \/ EndVoid(r) \/ CutShort(r)

LEMMA SilentlyCore ==
    ASSUME Core, NEW r \in Sessions, Silently(r)
    PROVE  Core' /\ DeletedStays
BY StartDispatchCore, StartBroadcastCore, StartPublishCore, StartEditCore, PollCore,
   FindNewcomerCore, NextRecipientCore, PublishDueCore, CreatePreferencesCore, BypassCore,
   PassCore, InsertCore, CommitEditCore, EndVoidCore, CutShortCore DEF Silently

LEMMA NextCases ==
    ASSUME Core, Next
    PROVE  \/ \E r \in Sessions : Silently(r) \/ RollsBack(r) \/ Commit(r)
           \/ \E r \in Sessions, u \in Users : Deliver(r, u)
           \/ \E w \in Workers : Acquire(w) \/ LoseConnection(w)
           \/ \E n \in Notifications : Elapse(n)
           \/ \E c \in Copies : Send(c) \/ Record(c) \/ KillTask(c)
<1> DEFINE Goal == \/ \E r \in Sessions : Silently(r) \/ RollsBack(r) \/ Commit(r)
                   \/ \E r \in Sessions, u \in Users : Deliver(r, u)
                   \/ \E w \in Workers : Acquire(w) \/ LoseConnection(w)
                   \/ \E n \in Notifications : Elapse(n)
                   \/ \E c \in Copies : Send(c) \/ Record(c) \/ KillTask(c)
<1>1. Requests \subseteq Sessions /\ Workers \subseteq Sessions
  BY DEF Sessions
<1>2. ASSUME NEW r \in Requests, Ask(r) PROVE Silently(r)
  <2>1. ASSUME NEW u \in Users, MarkRead(r, u)
        PROVE  \E N \in SUBSET Notifications, d \in BOOLEAN : StartEdit(r, N, d)
    BY <2>1 DEF MarkRead
  <2>2. ASSUME NEW n \in Notifications, Cancel(r, n) \/ Delete(r, n)
        PROVE  \E N \in SUBSET Notifications, d \in BOOLEAN : StartEdit(r, N, d)
    <3>1. StartEdit(r, {n}, TRUE) /\ {n} \in SUBSET Notifications
      BY <2>2 DEF Cancel, Delete
    <3>2. QED
      BY <3>1
  <2>3. QED
    BY <1>2, <2>1, <2>2 DEF Ask, Silently
<1>3. ASSUME NEW r \in Sessions, \A n \in Notifications : PublishDue(r, n) => r \in Workers,
             Advance(r)
      PROVE  Goal
  BY <1>3, RollbackSteps DEF Advance, Silently
<1>4. ASSUME NEW r \in Sessions, NEW n \in Notifications, PublishDue(r, n) PROVE r \in Workers
  BY <1>4, SessionFacts DEF Core, PublishDue
<1>5. ASSUME NEW r \in Sessions, Advance(r) PROVE Goal
  BY <1>3, <1>4, <1>5
<1>6. ASSUME NEW w \in Workers, Tick(w) PROVE Goal
  BY <1>1, <1>5, <1>6 DEF Tick, Silently
<1> HIDE DEF Goal
<1>7. ASSUME NEW r \in Sessions, Silently(r) \/ Fail(r) \/ Restart(r) PROVE Goal
  BY <1>7, RollbackSteps DEF Goal
<1>8. ASSUME NEW r \in Requests, CutShort(r) PROVE Silently(r)
  BY <1>8 DEF Silently
<1>9. ASSUME NEW w \in Workers, LoseConnection(w) PROVE Goal
  BY <1>9 DEF Goal
<1>10. ASSUME NEW n \in Notifications, Elapse(n) PROVE Goal
  BY <1>10 DEF Goal
<1>11. ASSUME NEW c \in Copies, Attempt(c) \/ KillTask(c) PROVE Goal
  BY <1>11 DEF Goal, Attempt
<1>12. Goal
  BY <1>1, <1>2, <1>5, <1>6, <1>7, <1>8, <1>9, <1>10, <1>11 DEF Next
<1>13. QED
  BY <1>12 DEF Goal

LEMMA NextCore ==
    ASSUME Core, [Next]_vars
    PROVE  Core' /\ DeletedStays
<1>1. CASE Next
  <2>1. ASSUME NEW r \in Sessions, Silently(r) \/ RollsBack(r) \/ Commit(r)
        PROVE  Core' /\ DeletedStays
    BY <2>1, SilentlyCore, RollbackCore, CommitCore DEF RollsBack
  <2>2. QED
    BY <1>1, <2>1, NextCases, DeliverCore, ElectionCore, ElapseCore, SendingCore
<1>2. CASE UNCHANGED vars
  <2>1. TypeOK' /\ UNCHANGED <<tables, sessions, lost>>
    BY <1>2 DEF vars, tables, Core, Ownership, TypeOK
  <2>2. QED
    BY <2>1, CoreStays
<1>3. QED
  BY <1>1, <1>2


-----------------------------------------------------------------------------
(* WhatsApp.                                                               *)

LEMMA OneHolder ==
    ASSUME Ownership, NEW q \in Sessions, NEW r \in Sessions, NEW c,
           c \in sessions[q].created, c \in sessions[r].created
    PROVE  q = r
<1>1. c[1] \in Notifications /\ Owns(sessions[q], c[1]) /\ Owns(sessions[r], c[1])
  BY SessionFacts DEF Shaped, Created, Session, Copies
<1>2. QED
  BY <1>1 DEF Ownership, OneOwner

LEMMA HeldIsNew ==
    ASSUME Ownership, NEW r \in Sessions, NEW c \in sessions[r].created
    PROVE  c \in Copies /\ delivered[c] = 0
<1>1. PICK n \in Notifications, u \in Users : c = <<n, u>>
  BY SessionFacts DEF Session, Copies
<1>2. Owns(sessions[r], n)
  BY <1>1, SessionFacts DEF Shaped, Created
<1>3. QED
  BY <1>1, <1>2 DEF Ownership, OwnersHold, Silent, Copies

LEMMA SilentlyKeeps ==
    ASSUME Core, NEW r \in Sessions, Silently(r)
    PROVE  /\ \A q \in Sessions : sessions'[q].created = sessions[q].created
           /\ UNCHANGED <<delivered, sending>>
<1> DEFINE s == sessions[r]
           Goal == /\ \A q \in Sessions : sessions'[q].created = sessions[q].created
                   /\ UNCHANGED <<delivered, sending>>
<1>1. s \in Session /\ Shaped(s) /\ TypeOK
  BY SessionFacts DEF Core, Ownership
<1>2. ASSUME NEW t, sessions' = [sessions EXCEPT ![r] = t], t.created = s.created,
             UNCHANGED <<delivered, sending>>
      PROVE  Goal
  BY <1>1, <1>2 DEF TypeOK
<1>3. ASSUME s.op \in {"edit", "work"}, s.op = "work" => s.step = "next" PROVE s.created = {}
  <2>1. \A c \in s.created : c[1] \in Notifications /\ Owns(s, c[1])
    BY <1>1 DEF Shaped, Created, Session, Copies
  <2>2. \A n \in Notifications : ~Owns(s, n)
    BY <1>1, <1>3 DEF Owns, Locks, Works, Shaped, Insertions
  <2>3. QED
    BY <2>1, <2>2
<1>4. ASSUME NEW E \in Events, StartDispatch(r, E) PROVE Goal
  <2> DEFINE t == [Idle EXCEPT !.op = "dispatch", !.step = "next", !.todo = E]
  <2>1. sessions' = [sessions EXCEPT ![r] = t] /\ UNCHANGED <<delivered, sending>> /\ s = Idle
    BY <1>4 DEF StartDispatch, Begin, tables
  <2>2. t.created = Idle.created
    BY IdleFacts DEF Session
  <2> HIDE DEF t
  <2>3. QED
    BY <1>2, <2>1, <2>2
<1>5. ASSUME NEW n \in Broadcasts, StartBroadcast(r, n) PROVE Goal
  <2> DEFINE t == [Idle EXCEPT !.op = "broadcast", !.step = "insert", !.now = n]
  <2>1. sessions' = [sessions EXCEPT ![r] = t] /\ UNCHANGED <<delivered, sending>> /\ s = Idle
    BY <1>5 DEF StartBroadcast, Begin, tables
  <2>2. t.created = Idle.created
    BY IdleFacts DEF Session
  <2> HIDE DEF t
  <2>3. QED
    BY <1>2, <2>1, <2>2
<1>6. ASSUME NEW n \in Notifications, StartPublish(r, n) PROVE Goal
  <2> DEFINE t == [Idle EXCEPT !.op = "publish", !.step = "deliver", !.now = n,
                             !.users = Recipients[n], !.seen = Versions]
  <2>1. sessions' = [sessions EXCEPT ![r] = t] /\ UNCHANGED <<delivered, sending>> /\ s = Idle
    BY <1>6 DEF StartPublish, Begin, tables
  <2>2. t.created = Idle.created
    BY IdleFacts DEF Session
  <2> HIDE DEF t
  <2>3. QED
    BY <1>2, <2>1, <2>2
<1>7. ASSUME NEW N \in SUBSET Notifications, NEW d \in BOOLEAN, StartEdit(r, N, d) PROVE Goal
  <2> DEFINE t == [Idle EXCEPT !.op = "edit", !.todo = N, !.seen = Versions,
                             !.delete = d]
  <2>1. sessions' = [sessions EXCEPT ![r] = t] /\ UNCHANGED <<delivered, sending>> /\ s = Idle
    BY <1>7 DEF StartEdit, Begin, tables
  <2>2. t.created = Idle.created
    BY IdleFacts DEF Session
  <2> HIDE DEF t
  <2>3. QED
    BY <1>2, <2>1, <2>2
<1>8. ASSUME Poll(r) PROVE Goal
  <2> DEFINE t == [Idle EXCEPT !.op = "work", !.step = "next",
                             !.todo = Due, !.seen = Versions]
  <2>1. sessions' = [sessions EXCEPT ![r] = t] /\ UNCHANGED <<delivered, sending>> /\ s = Idle
    BY <1>8 DEF Poll, Begin, tables
  <2>2. t.created = Idle.created
    BY IdleFacts DEF Session
  <2> HIDE DEF t
  <2>3. QED
    BY <1>2, <2>1, <2>2
<1>9. ASSUME NEW u \in Users, FindNewcomer(r, u) PROVE Goal
  <2> DEFINE t == [s EXCEPT !.step = "preferences", !.user = u]
  <2>1. sessions' = [sessions EXCEPT ![r] = t] /\ UNCHANGED <<delivered, sending>>
    BY <1>9 DEF FindNewcomer, Begin, tables
  <2>2. t.created = s.created
    BY <1>1 DEF Session
  <2> HIDE DEF t
  <2>3. QED
    BY <1>2, <2>1, <2>2
<1>10. ASSUME NEW n \in Notifications, NextRecipient(r, n) PROVE Goal
  <2> DEFINE u == CHOOSE v \in Recipients[n] : TRUE
             user == IF Newcomer(r, u) THEN u ELSE None
             step == IF Newcomer(r, u) THEN "preferences" ELSE "check"
             t == [s EXCEPT !.todo = @ \ {n}, !.now = n, !.user = user, !.step = step]
  <2>1. sessions' = [sessions EXCEPT ![r] = t] /\ UNCHANGED <<delivered, sending>>
    BY <1>10 DEF NextRecipient, Begin, tables
  <2> HIDE DEF user, step
  <2>2. t.created = s.created
    BY <1>1 DEF Session
  <2> HIDE DEF t
  <2>3. QED
    BY <1>2, <2>1, <2>2
<1>11. ASSUME Bypass(r) PROVE Goal
  <2> DEFINE t == [s EXCEPT !.step = "next", !.now = None]
  <2>1. sessions' = [sessions EXCEPT ![r] = t] /\ UNCHANGED <<delivered, sending>>
    BY <1>11 DEF Bypass, Begin, tables
  <2>2. t.created = s.created
    BY <1>1 DEF Session
  <2> HIDE DEF t
  <2>3. QED
    BY <1>2, <2>1, <2>2
<1>12. ASSUME PassDuplicateCheck(r) PROVE Goal
  <2> DEFINE t == [s EXCEPT !.step = "insert"]
  <2>1. sessions' = [sessions EXCEPT ![r] = t] /\ UNCHANGED <<delivered, sending>>
    BY <1>12 DEF PassDuplicateCheck, Begin, tables
  <2>2. t.created = s.created
    BY <1>1 DEF Session
  <2> HIDE DEF t
  <2>3. QED
    BY <1>2, <2>1, <2>2
<1>13. ASSUME CutShort(r) PROVE Goal
  <2> DEFINE t == [s EXCEPT !.users = {}]
  <2>1. sessions' = [sessions EXCEPT ![r] = t] /\ UNCHANGED <<delivered, sending>>
    BY <1>13 DEF CutShort, Begin, tables
  <2>2. t.created = s.created
    BY <1>1 DEF Session
  <2> HIDE DEF t
  <2>3. QED
    BY <1>2, <2>1, <2>2
<1>14. ASSUME CreatePreferences(r) PROVE Goal
  <2> DEFINE step == IF s.op = "dispatch" THEN "check" ELSE "deliver"
             t == [Flushed(s) EXCEPT !.welcomed = @ \cup {s.user}, !.user = None,
                                     !.step = step]
  <2>1. sessions' = [sessions EXCEPT ![r] = t] /\ UNCHANGED <<delivered, sending>>
    BY <1>14 DEF CreatePreferences, Begin, tables
  <2> HIDE DEF step
  <2>2. t.created = s.created
    BY <1>1 DEF Session, Flushed
  <2> HIDE DEF t
  <2>3. QED
    BY <1>2, <2>1, <2>2
<1>15. ASSUME Insert(r) PROVE Goal
  <2>1. UNCHANGED <<delivered, sending>>
    BY <1>15 DEF Insert, tables
  <2> DEFINE n == s.now
             step == IF s.op = "dispatch" THEN "next" ELSE "deliver"
             t1 == [s EXCEPT !.inserted[n] = "published", !.step = "deliver",
                             !.users = Recipients[n]]
             t2 == [s EXCEPT !.inserted[n] = "scheduled", !.step = step]
  <2>2. \/ sessions' = [sessions EXCEPT ![r] = t1]
        \/ sessions' = [sessions EXCEPT ![r] = t2]
    BY <1>15 DEF Insert, Begin
  <2> HIDE DEF step
  <2>3. t1.created = s.created /\ t2.created = s.created
    BY <1>1 DEF Session
  <2> HIDE DEF t1, t2
  <2>4. QED
    BY <1>2, <2>1, <2>2, <2>3
<1>16. ASSUME NEW n \in Notifications, PublishDue(r, n) PROVE Goal
  <2>1. s.op = "work" /\ s.step = "next" /\ UNCHANGED <<delivered, sending>>
    BY <1>16 DEF PublishDue
  <2> DEFINE t == [s EXCEPT !.step = "deliver", !.now = n, !.todo = @ \ {n},
                            !.users = Recipients[n]]
  <2>2. sessions' = [sessions EXCEPT ![r] = t]
    BY <1>16 DEF PublishDue, Begin
  <2>3. t.created = s.created
    BY <1>1 DEF Session
  <2> HIDE DEF t
  <2>4. QED
    BY <1>2, <2>1, <2>2, <2>3
<1>17. ASSUME CommitEdit(r) PROVE Goal
  <2>1. s.op = "edit" /\ UNCHANGED <<delivered, sending>>
        /\ sessions' = [sessions EXCEPT ![r] = Idle]
    BY <1>17 DEF CommitEdit, Begin
  <2>2. Idle.created = s.created
    BY <1>3, <2>1, IdleFacts
  <2>3. QED
    BY <1>2, <2>1, <2>2
<1>18. ASSUME EndVoid(r) PROVE Goal
  <2>1. /\ s.op = "dispatch" /\ \A n \in Notifications : ~Inserts(s, n)
        /\ UNCHANGED <<delivered, sending>> /\ sessions' = [sessions EXCEPT ![r] = Idle]
    BY <1>18 DEF EndVoid, Void, Begin, Inserts, tables
  <2>2. \A c \in s.created : c[1] \in Notifications /\ Owns(s, c[1])
    BY <1>1 DEF Shaped, Created, Session, Copies
  <2>3. s.created = {}
    BY <2>1, <2>2 DEF Owns, Locks, Works
  <2>4. QED
    BY <1>2, <2>1, <2>3, IdleFacts
<1> HIDE DEF Goal
<1>19. Goal
  BY <1>4, <1>5, <1>6, <1>7, <1>8, <1>9, <1>10, <1>11, <1>12, <1>13, <1>14,
     <1>15, <1>16, <1>17, <1>18 DEF Silently
<1>20. QED
  BY <1>19 DEF Goal

LEMMA SendingStays ==
    ASSUME Sending, UNCHANGED <<delivered, sending>>,
           \A q \in Sessions : sessions'[q].created = sessions[q].created
    PROVE  Sending'
<1>1. UNCHANGED <<delivered, whatsapp, messages, repeated>>
  BY DEF sending
<1>2. \A c \in Copies : Holders(c)' = Holders(c)
  BY DEF Holders
<1>3. TasksAreTrue'
  BY <1>1, <1>2 DEF Sending, TasksAreTrue, TaskIsTrue
<1>4. StatusIsTrue'
  BY <1>1 DEF Sending, StatusIsTrue
<1>5. QED
  BY <1>3, <1>4 DEF Sending

(* What a step may change of one copy, by itself. *)
CopyStays(c) ==
    /\ whatsapp'[c] = whatsapp[c] /\ messages'[c] = messages[c]
    /\ delivered'[c] = delivered[c] /\ (c \in repeated' <=> c \in repeated)
    /\ Holders(c)' = Holders(c)

TrueStatus(t, m) ==
    /\ t.row = "SENT" => m > 0 /\ t.task = "done"
    /\ t.row = "FAILED" => t.task = "done"
    /\ t.row = "QUEUED" => t.task \notin {"none", "done"}

LEMMA CopyByCopy ==
    ASSUME Sending,
           \A c \in Copies : CopyStays(c) \/ (TaskIsTrue(c)' /\ TrueStatus(whatsapp'[c], messages'[c]))
    PROVE  Sending'
<1>1. \A c \in Copies : TaskIsTrue(c) /\ TrueStatus(whatsapp[c], messages[c])
  BY DEF Sending, TasksAreTrue, StatusIsTrue, TrueStatus
<1>2. ASSUME NEW c \in Copies, CopyStays(c)
      PROVE  TaskIsTrue(c)' /\ TrueStatus(whatsapp'[c], messages'[c])
  <2>1. TrueStatus(whatsapp'[c], messages'[c])
    BY <1>1, <1>2 DEF CopyStays
  <2>2. TaskIsTrue(c)'
    BY <1>1, <1>2 DEF CopyStays, TaskIsTrue
  <2>3. QED
    BY <2>1, <2>2
<1>3. \A c \in Copies : TaskIsTrue(c)' /\ TrueStatus(whatsapp'[c], messages'[c])
  BY <1>2
<1>4. TasksAreTrue' /\ StatusIsTrue'
  BY <1>3 DEF TasksAreTrue, StatusIsTrue, TrueStatus
<1>5. QED
  BY <1>4 DEF Sending


LEMMA TaskFacts ==
    ASSUME Core, Sending, NEW c \in Copies
    PROVE  /\ whatsapp[c] \in Task /\ messages[c] \in Nat /\ delivered[c] \in Nat
           /\ TaskIsTrue(c) /\ TrueStatus(whatsapp[c], messages[c])
BY DEF Core, Ownership, TypeOK, Sending, TasksAreTrue, StatusIsTrue, TrueStatus

LEMMA NewTaskFacts ==
    /\ NewTask.row = "none" /\ NewTask.task = "none"
    /\ [NewTask EXCEPT !.task = "sending", !.attempt = 1].row = "none"
    /\ [NewTask EXCEPT !.task = "sending", !.attempt = 1].task = "sending"
BY DEF NewTask

LEMMA DeliverSending ==
    ASSUME Core, Sending, NEW r \in Sessions, NEW u \in Users, Deliver(r, u)
    PROVE  Sending'
<1> DEFINE s == sessions[r]
           t == Delivered(s, u)
           task == [NewTask EXCEPT !.task = "sending", !.attempt = 1]
<1>1. PICK c \in Copies : c = <<s.now, u>>
  BY DeliverStep
<1>2. /\ s \in Session /\ c \in Copies /\ delivered[c] = 0 /\ c \notin s.created
      /\ t \in Session
      /\ sessions' = [sessions EXCEPT ![r] = t]
      /\ whatsapp' = [d \in Copies |->
                 IF d = c /\ u \in Reachable THEN task ELSE whatsapp[d]]
      /\ UNCHANGED <<tables, messages, repeated>>
  BY <1>1, DeliverStep
<1>3. t.created = s.created \cup {c}
  BY <1>1, <1>2 DEF Session, Delivered, Flushed
<1> HIDE DEF t, task
<1>4. \A q \in Sessions : sessions'[q] = IF q = r THEN t ELSE sessions[q]
  BY <1>2 DEF Core, Ownership, TypeOK
<1>5. \A q \in Sessions \ {r} : c \notin sessions[q].created
  <2>1. SUFFICES ASSUME NEW q \in Sessions \ {r}, c \in sessions[q].created PROVE FALSE
    OBVIOUS
  <2>2. Owns(sessions[q], s.now)
    BY <1>1, <2>1, SessionFacts DEF Core, Shaped, Created
  <2>3. QED
    BY <2>2, DelivererOwns
<1>6. c[2] = u
  BY <1>1
<1>7. Holders(c) = {} /\ Holders(c)' = {r}
  BY <1>3, <1>2, <1>4, <1>5 DEF Holders
<1>8. ASSUME NEW d \in Copies, d # c PROVE CopyStays(d)
  <2>1. Holders(d)' = Holders(d)
    BY <1>3, <1>2, <1>4, <1>8 DEF Holders
  <2>2. QED
    BY <1>2, <1>8, <2>1 DEF CopyStays, tables
<1>9. delivered'[c] = 0 /\ messages'[c] = messages[c] /\ repeated' = repeated
  BY <1>2 DEF tables
<1>10. TaskIsTrue(c) /\ TrueStatus(whatsapp[c], messages[c])
  BY <1>2, TaskFacts
<1>11. c \notin repeated => whatsapp[c].task = "none" /\ messages[c] = 0
  BY <1>2, <1>7, <1>10 DEF TaskIsTrue
<1>12. whatsapp[c].row = "none"
  BY <1>2, <1>10 DEF TaskIsTrue
<1>13. CASE u \in Reachable
  <2>1. whatsapp'[c] = task /\ task.row = "none" /\ task.task = "sending"
    BY <1>2, <1>13, NewTaskFacts DEF task
  <2>2. TaskIsTrue(c)'
    BY <1>7, <1>9, <1>11, <1>6, <1>13, <2>1 DEF TaskIsTrue
  <2>3. TrueStatus(whatsapp'[c], messages'[c])
    BY <2>1 DEF TrueStatus
  <2>4. QED
    BY <1>8, <2>2, <2>3, CopyByCopy
<1>14. CASE u \notin Reachable
  <2>1. whatsapp'[c] = NewTask /\ whatsapp[c] = NewTask
    BY <1>2, <1>10, <1>6, <1>14 DEF TaskIsTrue
  <2>2. TaskIsTrue(c)'
    BY <1>7, <1>9, <1>11, <1>6, <1>14, <2>1, NewTaskFacts DEF TaskIsTrue
  <2>3. TrueStatus(whatsapp'[c], messages'[c])
    BY <2>1, NewTaskFacts DEF TrueStatus
  <2>4. QED
    BY <1>8, <2>2, <2>3, CopyByCopy
<1>15. QED
  BY <1>13, <1>14

LEMMA RollbackSending ==
    ASSUME Core, Sending, NEW r \in Sessions, RollbackSession(r)
    PROVE  Sending'
<1> DEFINE s == sessions[r]
<1>1. s \in Session /\ TypeOK /\ s.created \subseteq Copies
  BY SessionFacts DEF Core, Ownership, Session
<1>2. PICK M \in SUBSET {c \in s.created : whatsapp[c].task = "sending"} :
        messages' = [c \in Copies |-> IF c \in M THEN messages[c] + 1 ELSE messages[c]]
  BY DEF RollbackSession
<1>3. /\ sessions' = [sessions EXCEPT ![r] = Idle] /\ delivered' = delivered
      /\ whatsapp' = [c \in Copies |-> IF c \in s.created THEN NewTask ELSE whatsapp[c]]
      /\ repeated' = repeated \cup {c \in s.created : c[2] \in Reachable}
  BY DEF RollbackSession, Begin, tables
<1>4. \A q \in Sessions : sessions'[q].created = IF q = r THEN {} ELSE sessions[q].created
  BY <1>1, <1>3, IdleFacts DEF TypeOK
<1>5. ASSUME NEW c \in Copies, c \notin s.created PROVE CopyStays(c)
  <2>1. Holders(c)' = Holders(c)
    BY <1>4, <1>5 DEF Holders
  <2>2. c \notin M
    BY <1>5
  <2>3. QED
    BY <1>2, <1>3, <1>5, <2>1, <2>2 DEF CopyStays
<1>6. ASSUME NEW c \in s.created
      PROVE  TaskIsTrue(c)' /\ TrueStatus(whatsapp'[c], messages'[c])
  <2>1. c \in Copies /\ TaskIsTrue(c) /\ messages[c] \in Nat
    BY <1>1, TaskFacts
  <2>2. whatsapp'[c] = NewTask
    BY <1>3, <2>1
  <2>3. \A q \in Sessions : c \in sessions[q].created => q = r
    BY OneHolder DEF Core
  <2>4. Holders(c)' = {}
    BY <1>4, <2>3 DEF Holders
  <2>5. CASE c[2] \in Reachable
    <3>1. c \in repeated'
      BY <1>3, <2>5
    <3>2. QED
      BY <2>2, <2>4, <3>1, NewTaskFacts DEF TaskIsTrue, TrueStatus
  <2>6. CASE c[2] \notin Reachable
    <3>1. whatsapp[c] = NewTask
      BY <2>1, <2>6 DEF TaskIsTrue
    <3>2. c \notin M /\ messages'[c] = messages[c]
      BY <1>2, <2>1, <3>1, NewTaskFacts
    <3>3. c \notin repeated' => messages[c] = 0
      BY <1>3, <2>1, <3>1, NewTaskFacts DEF TaskIsTrue
    <3>4. QED
      BY <2>2, <2>4, <3>2, <3>3, NewTaskFacts DEF TaskIsTrue, TrueStatus
  <2>7. QED
    BY <2>5, <2>6
<1>7. QED
  BY <1>5, <1>6, CopyByCopy

LEMMA CommitSending ==
    ASSUME Core, Sending, NEW r \in Sessions, Commit(r)
    PROVE  Sending'
<1> DEFINE s == sessions[r]
           t == Remaining(s)
<1>1. /\ s \in Session /\ TypeOK /\ sessions' = [sessions EXCEPT ![r] = t]
      /\ t.created = {} /\ s.created \subseteq Copies
  BY CommitStep, RemainingFacts DEF Session
<1> HIDE DEF t
<1>2. /\ delivered' = [c \in Copies |->
                         IF c \in s.created THEN delivered[c] + 1 ELSE delivered[c]]
      /\ whatsapp' = [c \in Copies |->
                        IF c \in s.created /\ c[2] \in Reachable
                        THEN [whatsapp[c] EXCEPT !.row = "QUEUED"] ELSE whatsapp[c]]
      /\ messages' = messages /\ repeated' = repeated
  BY DEF Commit
<1>3. \A q \in Sessions : sessions'[q].created = IF q = r THEN {} ELSE sessions[q].created
  BY <1>1 DEF TypeOK
<1>4. ASSUME NEW c \in Copies, c \notin s.created PROVE CopyStays(c)
  <2>1. Holders(c)' = Holders(c)
    BY <1>3, <1>4 DEF Holders
  <2>2. QED
    BY <1>2, <1>4, <2>1 DEF CopyStays
<1>5. ASSUME NEW c \in s.created
      PROVE  TaskIsTrue(c)' /\ TrueStatus(whatsapp'[c], messages'[c])
  <2>1. c \in Copies /\ whatsapp[c] \in Task /\ TaskIsTrue(c) /\ TrueStatus(whatsapp[c], messages[c])
    BY <1>1, TaskFacts
  <2>2. delivered[c] = 0 /\ delivered'[c] = 1
    BY <1>2, <2>1, HeldIsNew DEF Core
  <2>3. r \in Holders(c)
    BY DEF Holders
  <2>4. whatsapp[c].row = "none" /\ whatsapp[c].task # "done"
    BY <2>1, <2>2 DEF TaskIsTrue
  <2>5. CASE c[2] \in Reachable
    <3> DEFINE new == [whatsapp[c] EXCEPT !.row = "QUEUED"]
    <3>1. new.row = "QUEUED" /\ new.task = whatsapp[c].task
      BY <2>1 DEF Task
    <3>2. whatsapp'[c] = new
      BY <1>2, <2>1, <2>5
    <3> HIDE DEF new
    <3>3. whatsapp[c].task # "none"
      BY <2>1, <2>3, <2>5 DEF TaskIsTrue
    <3>4. TaskIsTrue(c)'
      BY <1>2, <2>1, <2>2, <2>4, <2>5, <3>1, <3>2, <3>3 DEF TaskIsTrue
    <3>5. QED
      BY <2>4, <3>1, <3>2, <3>3, <3>4 DEF TrueStatus
  <2>6. CASE c[2] \notin Reachable
    <3>1. whatsapp'[c] = whatsapp[c] /\ whatsapp[c] = NewTask
      BY <1>2, <2>1, <2>6 DEF TaskIsTrue
    <3>2. TaskIsTrue(c)'
      BY <1>2, <2>1, <2>2, <2>6, <3>1, NewTaskFacts DEF TaskIsTrue
    <3>3. QED
      BY <1>2, <2>1, <3>1, <3>2
  <2>7. QED
    BY <2>5, <2>6
<1>6. QED
  BY <1>4, <1>5, CopyByCopy

LEMMA TaskSending ==
    ASSUME Core, Sending, NEW c \in Copies, Send(c) \/ Record(c) \/ KillTask(c)
    PROVE  Sending'
<1>1. /\ whatsapp[c] \in Task /\ messages[c] \in Nat /\ TypeOK
      /\ TaskIsTrue(c) /\ TrueStatus(whatsapp[c], messages[c])
  BY TaskFacts DEF Core, Ownership
<1>2. delivered' = delivered /\ sessions' = sessions
  BY DEF Send, Record, KillTask, tables
<1>3. \A d \in Copies : Holders(d)' = Holders(d)
  BY <1>2 DEF Holders
<1>4. ASSUME \A d \in Copies \ {c} : whatsapp'[d] = whatsapp[d] /\ messages'[d] = messages[d],
             repeated \subseteq repeated', repeated' \subseteq repeated \cup {c},
             TaskIsTrue(c)', TrueStatus(whatsapp'[c], messages'[c])
      PROVE  Sending'
  <2>1. \A d \in Copies \ {c} : CopyStays(d)
    BY <1>2, <1>3, <1>4 DEF CopyStays
  <2>2. QED
    BY <1>4, <2>1, CopyByCopy
<1>5. CASE Send(c)
  <2>1. PICK answer \in Answers :
        /\ whatsapp' = [whatsapp EXCEPT ![c].task = answer]
        /\ messages' = [messages EXCEPT
                          ![c] = IF answer \in {"sent", "unanswered"} THEN @ + 1 ELSE @]
        /\ repeated' = IF answer = "unanswered" THEN repeated \cup {c} ELSE repeated
    BY <1>5 DEF Send
  <2> DEFINE new == [whatsapp[c] EXCEPT !.task = answer]
  <2>2. new.task = answer /\ new.row = whatsapp[c].row
    BY <1>1 DEF Task
  <2>3. /\ whatsapp' = [whatsapp EXCEPT ![c] = new]
        /\ whatsapp[c].task = "sending"
    BY <1>1, <1>5, <2>1 DEF TypeOK, Task, Send
  <2> HIDE DEF new
  <2>4. whatsapp'[c] = new /\ \A d \in Copies \ {c} : whatsapp'[d] = whatsapp[d]
    BY <1>1, <2>3 DEF TypeOK
  <2>5. /\ \A d \in Copies \ {c} : messages'[d] = messages[d]
        /\ messages'[c] = IF answer \in {"sent", "unanswered"} THEN messages[c] + 1 ELSE messages[c]
    BY <1>1, <2>1 DEF TypeOK
  <2>6. c[2] \in Reachable /\ whatsapp[c].row \in {"none", "QUEUED"}
    BY <1>1, <2>3, NewTaskFacts DEF TaskIsTrue, TrueStatus, Task
  <2>7. TrueStatus(whatsapp'[c], messages'[c])
    BY <2>2, <2>4, <2>6 DEF TrueStatus, Answers
  <2>8. /\ new.row # "none" => delivered[c] = 1
        /\ c \notin repeated => messages[c] = 0 /\ (delivered[c] = 1 \/ Holders(c) # {})
    BY <1>1, <2>2, <2>3 DEF TaskIsTrue
  <2>9. repeated \subseteq repeated' /\ repeated' \subseteq repeated \cup {c}
        /\ (c \notin repeated' => answer # "unanswered" /\ c \notin repeated)
    BY <2>1
  <2>10. TaskIsTrue(c)'
    <3>1. answer = "sent" => messages'[c] > 0
      BY <1>1, <2>5
    <3>2. c \notin repeated' =>
            /\ messages'[c] <= 1 /\ answer # "unanswered"
            /\ answer \in {"none", "sending", "refused", "rejected"} => messages'[c] = 0
            /\ delivered[c] = 1 \/ Holders(c) # {}
      BY <2>5, <2>8, <2>9
    <3>3. QED
      BY <1>2, <1>3, <2>2, <2>4, <2>6, <2>8, <3>1, <3>2 DEF TaskIsTrue, Answers
  <2>11. QED
    BY <1>4, <2>4, <2>5, <2>7, <2>9, <2>10
<1>6. CASE Record(c)
  <2> DEFINE t == whatsapp[c]
             new == Recorded(t)
  <2>1. /\ whatsapp' = [whatsapp EXCEPT ![c] = new]
        /\ t.task \in Answers /\ messages' = messages /\ repeated' = repeated
    BY <1>6 DEF Record
  <2>2. \/ t.row = "none" /\ new.row = "none" /\ new.task = "gaveUp"
        \/ t.row # "none" /\ t.task = "sent" /\ new.row = "SENT" /\ new.task = "done"
        \/ t.row # "none" /\ t.task \in {"refused", "unanswered"}
              /\ new.row = "QUEUED" /\ new.task = "sending"
        \/ t.row # "none" /\ t.task # "sent" /\ new.row = "FAILED" /\ new.task = "done"
    <3>1. CASE t.row = "none"
      <4>1. new = [t EXCEPT !.task = "gaveUp"]
        BY <3>1 DEF Recorded
      <4>2. QED
        BY <1>1, <3>1, <4>1 DEF Task
    <3>2. CASE t.row # "none" /\ t.task = "sent"
      <4>1. new = [t EXCEPT !.row = "SENT", !.task = "done"]
        BY <3>2 DEF Recorded
      <4>2. QED
        BY <1>1, <3>2, <4>1 DEF Task
    <3>3. CASE t.row # "none" /\ t.task \in {"refused", "unanswered"} /\ t.attempt < MaxAttempts
      <4> DEFINE k == t.attempt + 1
      <4>1. new = [t EXCEPT !.row = "QUEUED", !.task = "sending", !.attempt = k]
        BY <3>3 DEF Recorded
      <4> HIDE DEF k
      <4>2. QED
        BY <1>1, <3>3, <4>1 DEF Task
    <3>4. CASE t.row # "none" /\ t.task # "sent"
               /\ ~(t.task \in {"refused", "unanswered"} /\ t.attempt < MaxAttempts)
      <4>1. new = [t EXCEPT !.row = "FAILED", !.task = "done"]
        BY <3>4 DEF Recorded
      <4>2. QED
        BY <1>1, <3>4, <4>1 DEF Task
    <3>5. QED
      BY <3>1, <3>2, <3>3, <3>4
  <2> HIDE DEF new
  <2>3. whatsapp'[c] = new /\ \A d \in Copies \ {c} : whatsapp'[d] = whatsapp[d]
    BY <1>1, <2>1 DEF TypeOK
  <2>4. c[2] \in Reachable /\ t.task \notin {"none", "sending", "done"}
    BY <1>1, <2>1, NewTaskFacts DEF TaskIsTrue, Answers
  <2>5. /\ t.row # "none" => delivered[c] = 1
        /\ t.task = "sent" => messages[c] > 0
        /\ c \notin repeated =>
             /\ messages[c] <= 1 /\ t.task # "unanswered"
             /\ t.task = "refused" => messages[c] = 0
             /\ delivered[c] = 1 \/ Holders(c) # {}
    BY <1>1, <2>4 DEF TaskIsTrue
  <2>6. TrueStatus(whatsapp'[c], messages'[c])
    BY <2>1, <2>2, <2>3, <2>5 DEF TrueStatus
  <2>7. TaskIsTrue(c)'
    BY <1>2, <1>3, <2>1, <2>2, <2>3, <2>4, <2>5 DEF TaskIsTrue
  <2>8. QED
    BY <1>4, <2>1, <2>3, <2>6, <2>7
<1>7. CASE KillTask(c)
  <2> DEFINE new == [whatsapp[c] EXCEPT !.task = "gaveUp"]
  <2>1. new.task = "gaveUp" /\ new.row = whatsapp[c].row
    BY <1>1 DEF Task
  <2>2. /\ whatsapp' = [whatsapp EXCEPT ![c] = new]
        /\ messages' = messages /\ repeated' = repeated
        /\ whatsapp[c].task \in Answers \cup {"sending"}
    BY <1>1, <1>7 DEF TypeOK, Task, KillTask
  <2> HIDE DEF new
  <2>3. whatsapp'[c] = new /\ \A d \in Copies \ {c} : whatsapp'[d] = whatsapp[d]
    BY <1>1, <2>2 DEF TypeOK
  <2>4. c[2] \in Reachable /\ whatsapp[c].task \notin {"none", "done"}
    BY <1>1, <2>2, NewTaskFacts DEF TaskIsTrue, Answers
  <2>5. TrueStatus(whatsapp'[c], messages'[c])
    BY <1>1, <2>1, <2>3, <2>4 DEF TrueStatus
  <2>6. TaskIsTrue(c)'
    BY <1>1, <1>2, <1>3, <2>1, <2>2, <2>3, <2>4 DEF TaskIsTrue
  <2>7. QED
    BY <1>4, <2>2, <2>3, <2>5, <2>6
<1>8. QED
  BY <1>5, <1>6, <1>7

LEMMA NextSending ==
    ASSUME Core, Sending, [Next]_vars
    PROVE  Sending'
<1>1. ASSUME UNCHANGED <<delivered, sending, sessions>> PROVE Sending'
  BY <1>1, SendingStays
<1>2. CASE Next
  <2>1. ASSUME NEW r \in Sessions, Silently(r) \/ RollsBack(r) \/ Commit(r)
        PROVE  Sending'
    BY <2>1, SilentlyKeeps, SendingStays, RollbackSending, CommitSending DEF RollsBack
  <2>2. ASSUME NEW w \in Workers, Acquire(w) \/ LoseConnection(w) PROVE Sending'
    BY <1>1, <2>2 DEF Acquire, LoseConnection, tables
  <2>3. ASSUME NEW n \in Notifications, Elapse(n) PROVE Sending'
    BY <1>1, <2>3 DEF Elapse
  <2>4. QED
    BY <1>2, <2>1, <2>2, <2>3, NextCases, DeliverSending, TaskSending
<1>3. CASE UNCHANGED vars
  BY <1>1, <1>3 DEF vars, sending
<1>4. QED
  BY <1>2, <1>3

-----------------------------------------------------------------------------
(* The theorems.                                                           *)

LEMMA InitHolds == Init => NotifyInv
<1> SUFFICES ASSUME Init PROVE NotifyInv
  OBVIOUS
<1>1. /\ \A n \in Notifications :
            rows[n].state = "none" /\ rows[n].deleted = FALSE /\ rows[n].version = 0
      /\ \A c \in Copies : delivered[c] = 0 /\ whatsapp[c] = NewTask /\ messages[c] = 0
      /\ \A r \in Sessions : sessions[r] = Idle
  BY DEF Init
<1>2. TypeOK
  <2>1. [state |-> "none", deleted |-> FALSE, version |-> 0] \in Row
    BY DEF Row
  <2>2. NewTask \in Task
    BY NotificationAssumption DEF NewTask, Task
  <2>3. rows \in [Notifications -> Row] /\ whatsapp \in [Copies -> Task]
        /\ sessions \in [Sessions -> Session]
    BY <2>1, <2>2, IdleFacts DEF Init
  <2>4. QED
    BY <2>3, NotificationAssumption DEF Init, TypeOK
<1>3. SessionsShaped /\ SchedulersWork /\ OneOwner /\ OwnersHold /\ ReadersSee
  BY <1>1, IdleFacts DEF SessionsShaped, SchedulersWork, OneOwner, OwnersHold, ReadersSee
<1>4. RecipientsKnown
  BY <1>1, IdleFacts DEF RecipientsKnown, Known
<1>5. NewIsNotDeleted /\ OneDeliveryPerChannel /\ UnpublishedIsSilent
  BY <1>1 DEF NewIsNotDeleted, OneDeliveryPerChannel, UnpublishedIsSilent, Copies
<1>6. NoLoss
  BY <1>1, IdleFacts DEF NoLoss, NobodyForgotten, OnlyFailuresLose
<1>7. \A c \in Copies : Holders(c) = {}
  BY <1>1, IdleFacts DEF Holders
<1>8. TasksAreTrue /\ StatusIsTrue
  BY <1>1, <1>7, NewTaskFacts DEF TasksAreTrue, TaskIsTrue, StatusIsTrue
<1>9. QED
  BY <1>2, <1>3, <1>4, <1>5, <1>6, <1>8 DEF NotifyInv, Core, Sending, Ownership

(* At every time at most one session may deliver a notification, nobody    *)
(* has a delivery row of what is not delivered, no recipient is forgotten  *)
(* without a failure, and every WhatsApp task knows its row.               *)
THEOREM NotificationsInvariant == Spec => []NotifyInv
<1>1. NotifyInv /\ [Next]_vars => NotifyInv'
  BY NextCore, NextSending DEF NotifyInv
<1>2. QED
  BY InitHolds, <1>1, PTL DEF Spec

(* Every variable of the notifications keeps its type: in particular no    *)
(* task makes more than MaxAttempts attempts.                              *)
THEOREM NotificationsAreTyped == Spec => []TypeOK
<1>1. NotifyInv => TypeOK
  BY DEF NotifyInv, Core, Ownership
<1>2. QED
  BY NotificationsInvariant, <1>1, PTL

(* However many handlers and schedulers believe that they are the one to   *)
(* deliver, nobody gets two delivery rows of a notification on a channel.  *)
THEOREM DeliveredOnce == Spec => []OneDeliveryPerChannel
<1>1. NotifyInv => OneDeliveryPerChannel
  BY DEF NotifyInv, Core, Ownership
<1>2. QED
  BY NotificationsInvariant, <1>1, PTL

(* What is not published has been delivered to nobody. *)
THEOREM NothingBeforePublication == Spec => []UnpublishedIsSilent
<1>1. NotifyInv => UnpublishedIsSilent
  BY DEF NotifyInv, Core, Ownership
<1>2. QED
  BY NotificationsInvariant, <1>1, PTL

(* Only a dispatch that failed after the publication was committed, or was *)
(* cut short, leaves a recipient out; otherwise a scheduler is at it.      *)
THEOREM LossesAreFailures == Spec => []OnlyFailuresLose
<1>1. NotifyInv => OnlyFailuresLose
  BY DEF NotifyInv, Core, NoLoss
<1>2. QED
  BY NotificationsInvariant, <1>1, PTL

(* A second message on WhatsApp, or one of a notification that is not      *)
(* committed, takes a rollback, a lost answer or a running session.        *)
THEOREM MessagesHaveReasons == Spec => []MessagesAreExcused
<1>1. ASSUME NotifyInv PROVE MessagesAreExcused
  <2>1. SUFFICES ASSUME NEW n \in Notifications, NEW u \in Users, <<n, u>> \notin repeated
                 PROVE  LET c == <<n, u>> IN
                        /\ messages[c] <= 1
                        /\ messages[c] = 1 => \/ delivered[c] = 1
                                              \/ \E r \in Sessions : c \in sessions[r].created
    BY DEF MessagesAreExcused
  <2>2. PICK c \in Copies : c = <<n, u>>
    BY DEF Copies
  <2>3. TaskIsTrue(c) /\ c \notin repeated
    BY <1>1, <2>1, <2>2 DEF NotifyInv, Sending, TasksAreTrue
  <2>4. /\ messages[c] <= 1
        /\ messages[c] = 1 => delivered[c] = 1 \/ Holders(c) # {}
    BY <2>3 DEF TaskIsTrue
  <2>5. QED
    BY <2>2, <2>4 DEF Holders
<1>2. QED
  BY NotificationsInvariant, <1>1, PTL

(* The status of a WhatsApp row tells what became of the message. *)
THEOREM StatusesAreTrue == Spec => []StatusIsTrue
<1>1. NotifyInv => StatusIsTrue
  BY DEF NotifyInv, Sending
<1>2. QED
  BY NotificationsInvariant, <1>1, PTL

(* Neither the scheduler nor a publication, a reader or a second deletion  *)
(* writes a row that has been deleted.                                     *)
THEOREM DeletionIsFinal == Spec => DeletedIsFinal
<1>1. NotifyInv /\ [Next]_vars =>
         [\A n \in Notifications : rows[n].deleted => rows'[n] = rows[n]]_vars
  BY NextCore DEF NotifyInv, DeletedStays
<1>2. QED
  BY NotificationsInvariant, <1>1, PTL DEF Spec, DeletedIsFinal
=============================================================================
