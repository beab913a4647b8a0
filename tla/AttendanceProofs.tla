-------------------------- MODULE AttendanceProofs --------------------------
(***************************************************************************)
(* Proofs about Attendance, for every class, import and number of          *)
(* requests, and whatever is lost or repeated on the way.                  *)
(*                                                                         *)
(* A request may conclude three things from a version that has not         *)
(* changed: the day is not locked, a row that it found missing is still    *)
(* missing, and a row that it did not write need not be.  Of the job,      *)
(* which has no version, it knows only that what it read was true.         *)
(***************************************************************************)
EXTENDS Attendance, FiniteSetTheorems, TLAPS

Contents == {None, "marked", "imported", "deleted"}
StaffOps == {"mark", "correct", "execute", "lock", "delete"}

DayRow == [status: DayStatus \cup {"NONE", "DELETED"}, version: Nat]
Register == [Students -> [content: Contents, version: Nat]]
JobRow == [status: {"NONE", "PARTIAL", "COMPLETED"}, batches: SUBSET Batches,
           processed: Nat]
Session == [op: StaffOps \cup {"idle", "chunk"},
            step: {"none", "received", "job", "rows"},
            batch: Batches \cup {None}, job: JobRow, admin: BOOLEAN,
            dayNew: DayStatus \cup {None, "DELETED"}, daySeen: Nat,
            rows: SUBSET Students, seen: [Students -> Nat], content: Contents]

MarkedIn(reg) == {st \in Students : reg[st].content # None}

(* What a job says was true when it was written, and stays true. *)
JobOK(j, reg) ==
    /\ j.processed = Cardinality(RowsIn(j.batches))
    /\ \A b \in Batches : b \in j.batches \/ j.status = "COMPLETED"
                         => RowsOf[b] \subseteq MarkedIn(reg)

(* What a request knows of the day and of the register. *)
Unlocked(s, d) ==
    /\ s.dayNew # None /\ s.daySeen <= d.version
    /\ s.daySeen = d.version => d.status # "LOCKED"
Prepared(s, reg) ==
    /\ s.content = "imported"
    /\ RowsOf[s.batch] \subseteq s.rows \cup MarkedIn(reg)
    /\ ~Replace => \A st \in s.rows :
          /\ s.seen[st] <= reg[st].version
          /\ reg[st].content # None => s.seen[st] < reg[st].version

SessionOK(s, d, reg) ==
    /\ s \in Session /\ JobOK(s.job, reg)
    /\ s.op \in StaffOps => s.content # "imported" /\ (s.content = None => s.rows = {})
    /\ s.op = "mark" /\ ~s.admin => Unlocked(s, d)
    /\ s.op = "chunk" =>
          /\ s.batch \in Batches /\ s.step # "none"
          /\ s.step # "received" => s.batch \notin s.job.batches
          /\ s.step = "rows" => Prepared(s, reg)

ClientOK ==
    /\ client \in [next: Nat \ {0}, state: {"ready", "waiting", "failed", "done"},
                   waitsFor: Handlers \cup {None}]
    /\ client.state # "done" => client.next \in Batches
    /\ client.waitsFor # None => client.state = "waiting"

AttInv ==
    /\ day \in DayRow /\ register \in Register
    /\ job \in JobRow /\ JobOK(job, register)
    /\ DOMAIN handlers = Handlers
    /\ \A h \in Handlers : SessionOK(handlers[h], day, register)
    /\ ClientOK

-----------------------------------------------------------------------------
(* Counting the rows of batches.                                           *)

LEMMA RowsAreFinite ==
    /\ \A B \in SUBSET Batches : IsFiniteSet(RowsIn(B)) /\ Cardinality(RowsIn(B)) \in Nat
    /\ \A b \in Batches : /\ IsFiniteSet(RowsOf[b]) /\ Cardinality(RowsOf[b]) \in Nat
                          /\ RowsOf[b] \subseteq Students
    /\ RowsIn({}) = {} /\ Cardinality(RowsIn({})) = 0
<1>1. ASSUME NEW B \in SUBSET Batches
      PROVE  IsFiniteSet(RowsIn(B)) /\ Cardinality(RowsIn(B)) \in Nat
  <2>1. IsFiniteSet(B)
    BY FS_Subset, AttendanceAssumption
  <2>2. IsFiniteSet(B \X Students)
    BY <2>1, FS_Product, AttendanceAssumption
  <2>3. RowsIn(B) \in SUBSET (B \X Students)
    BY DEF RowsIn
  <2>4. IsFiniteSet(RowsIn(B))
    BY <2>2, <2>3, FS_Subset
  <2>5. QED
    BY <2>4, FS_CardinalityType
<1>2. ASSUME NEW b \in Batches
      PROVE  /\ IsFiniteSet(RowsOf[b]) /\ Cardinality(RowsOf[b]) \in Nat
             /\ RowsOf[b] \subseteq Students
  <2>1. RowsOf[b] \in SUBSET Students
    BY AttendanceAssumption
  <2>2. IsFiniteSet(RowsOf[b])
    BY <2>1, FS_Subset, AttendanceAssumption
  <2>3. QED
    BY <2>1, <2>2, FS_CardinalityType
<1>3. RowsIn({}) = {}
  BY DEF RowsIn
<1>4. QED
  BY <1>1, <1>2, <1>3, FS_EmptySet

LEMMA OneBatchMore ==
    ASSUME NEW B \in SUBSET Batches, NEW b \in Batches, b \notin B
    PROVE  Cardinality(RowsIn(B \cup {b})) = Cardinality(RowsIn(B)) + Cardinality(RowsOf[b])
<1> DEFINE New == {b} \X RowsOf[b]
<1>1. RowsOf[b] \subseteq Students /\ IsFiniteSet(RowsOf[b]) /\ IsFiniteSet(RowsIn(B))
  BY RowsAreFinite
<1>2. RowsIn(B \cup {b}) = RowsIn(B) \cup New /\ RowsIn(B) \cap New = {}
  BY <1>1 DEF RowsIn
<1>3. IsFiniteSet({b}) /\ Cardinality({b}) = 1
  BY FS_Singleton
<1>4. IsFiniteSet(New) /\ Cardinality(New) = 1 * Cardinality(RowsOf[b])
  BY <1>1, <1>3, FS_Product
<1> HIDE DEF New
<1>5. Cardinality(RowsIn(B) \cup New) =
         Cardinality(RowsIn(B)) + Cardinality(New) - Cardinality(RowsIn(B) \cap New)
  BY <1>1, <1>4, FS_Union
<1>6. Cardinality(RowsIn(B)) \in Nat /\ Cardinality(RowsOf[b]) \in Nat
  BY RowsAreFinite
<1>7. Cardinality(RowsIn(B) \cap New) = 0
  BY <1>2, FS_EmptySet
<1>8. Cardinality(New) = Cardinality(RowsOf[b])
  BY <1>4, <1>6
<1>9. Cardinality(RowsIn(B) \cup New) = Cardinality(RowsIn(B)) + Cardinality(RowsOf[b])
  BY <1>5, <1>6, <1>7, <1>8
<1>10. QED
  BY <1>2, <1>9

LEMMA AllBatches ==
    ASSUME NEW B \in SUBSET Batches, Cardinality(B) >= Cardinality(Batches)
    PROVE  B = Batches
<1>1. /\ IsFiniteSet(B) /\ Cardinality(B) <= Cardinality(Batches)
      /\ Cardinality(B) = Cardinality(Batches) => Batches = B
  BY FS_Subset, AttendanceAssumption
<1>2. Cardinality(B) \in Nat /\ Cardinality(Batches) \in Nat
  BY <1>1, FS_CardinalityType, AttendanceAssumption
<1>3. QED
  BY <1>1, <1>2

-----------------------------------------------------------------------------
(* The day and the register move on: what is written is new, and no row    *)
(* is emptied.                                                             *)
Progress(d, reg, d2, reg2) ==
    /\ d2 = d \/ d2.version > d.version
    /\ \A st \in Students :
          \/ reg2[st] = reg[st]
          \/ reg2[st].version > reg[st].version /\ reg2[st].content # None

LEMMA JobKept ==
    ASSUME NEW j, NEW d, NEW d2, NEW reg, NEW reg2, j.batches \subseteq Batches,
           JobOK(j, reg), Progress(d, reg, d2, reg2)
    PROVE  JobOK(j, reg2)
<1>1. MarkedIn(reg) \subseteq MarkedIn(reg2)
  BY DEF MarkedIn, Progress
<1>2. QED
  BY <1>1 DEF JobOK

LEMMA SessionKept ==
    ASSUME NEW s, NEW d \in DayRow, NEW d2 \in DayRow, NEW reg \in Register,
           NEW reg2 \in Register, SessionOK(s, d, reg), Progress(d, reg, d2, reg2)
    PROVE  SessionOK(s, d2, reg2)
<1>1. s \in Session /\ s.job.batches \subseteq Batches /\ JobOK(s.job, reg)
  BY DEF SessionOK, Session, JobRow
<1>2. JobOK(s.job, reg2)
  BY <1>1, JobKept
<1>3. MarkedIn(reg) \subseteq MarkedIn(reg2)
  BY DEF MarkedIn, Progress
<1>4. Unlocked(s, d) => Unlocked(s, d2)
  BY <1>1 DEF Unlocked, Progress, Session, DayRow
<1>5. ASSUME Prepared(s, reg)
      PROVE  Prepared(s, reg2)
  <2>1. ASSUME ~Replace, NEW st \in s.rows
        PROVE  /\ s.seen[st] <= reg2[st].version
               /\ reg2[st].content # None => s.seen[st] < reg2[st].version
    <3>1. st \in Students /\ s.seen[st] \in Nat
      BY <1>1 DEF Session
    <3>2. reg[st].version \in Nat /\ reg2[st].version \in Nat
      BY <3>1 DEF Register
    <3>3. /\ s.seen[st] <= reg[st].version
          /\ reg[st].content # None => s.seen[st] < reg[st].version
      BY <1>5, <2>1 DEF Prepared
    <3>4. reg2[st] = reg[st] \/ reg2[st].version > reg[st].version
      BY <3>1 DEF Progress
    <3>5. QED
      BY <3>2, <3>1, <3>3, <3>4
  <2>2. QED
    BY <1>3, <1>5, <2>1 DEF Prepared
<1>6. QED
  BY <1>1, <1>2, <1>4, <1>5 DEF SessionOK

LEMMA NoProgress ==
    \A d, reg : Progress(d, reg, d, reg)
  BY DEF Progress

(* A step changes the record of one request, and moves the register on.    *)
LEMMA OneStep ==
    ASSUME AttInv, day' \in DayRow, register' \in Register,
           job' \in JobRow, JobOK(job', register'), ClientOK',
           Progress(day, register, day', register'),
           NEW h \in Handlers, NEW s, SessionOK(s, day', register'),
           handlers' = [handlers EXCEPT ![h] = s]
    PROVE  AttInv'
<1>1. DOMAIN handlers' = Handlers
      /\ \A g \in Handlers : handlers'[g] = IF g = h THEN s ELSE handlers[g]
  BY DEF AttInv
<1>2. \A g \in Handlers : SessionOK(handlers[g], day', register')
  BY SessionKept DEF AttInv
<1>3. \A g \in Handlers : SessionOK(handlers'[g], day', register')
  BY <1>1, <1>2
<1>4. QED
  BY <1>1, <1>3 DEF AttInv

-----------------------------------------------------------------------------
(* What a request holds after it has read.                                 *)

LEMMA IdleOK ==
    /\ Idle \in Session /\ Idle.op = "idle" /\ NoJob \in JobRow
    /\ \A reg : JobOK(NoJob, reg) /\ \A d : SessionOK(Idle, d, reg)
<1>1. Idle \in Session /\ NoJob \in JobRow /\ Idle.op = "idle" /\ Idle.job = NoJob
  BY DEF Idle, NoJob, Session, JobRow, Contents, StaffOps
<1>2. \A reg : JobOK(NoJob, reg)
  BY RowsAreFinite DEF JobOK, NoJob
<1>3. QED
  BY <1>1, <1>2 DEF SessionOK, StaffOps

LEMMA HoldingFields ==
    ASSUME AttInv, NEW s \in Session, NEW rows \in SUBSET Students, NEW content \in Contents
    PROVE  LET t == Holding(s, rows, content)
           IN  /\ t \in Session /\ t.rows = rows /\ t.content = content
               /\ \A st \in rows : t.seen[st] = register[st].version
               /\ t.op = s.op /\ t.step = s.step /\ t.batch = s.batch /\ t.job = s.job
               /\ t.admin = s.admin /\ t.dayNew = s.dayNew /\ t.daySeen = s.daySeen
<1> DEFINE seen == [st \in Students |-> IF st \in rows THEN register[st].version ELSE 0]
<1>1. seen \in [Students -> Nat] /\ \A st \in rows : seen[st] = register[st].version
  BY DEF AttInv, Register
<1>2. Holding(s, rows, content) = [s EXCEPT !.rows = rows, !.content = content, !.seen = seen]
  BY DEF Holding
<1> HIDE DEF seen
<1>3. QED
  BY <1>1, <1>2 DEF Session

LEMMA WithDayFields ==
    ASSUME AttInv, NEW s \in Session, NEW status \in DayStatus \cup {"DELETED"}
    PROVE  LET t == WithDay(s, status)
           IN  /\ t \in Session /\ t.dayNew = status /\ t.daySeen = day.version
               /\ t.op = s.op /\ t.step = s.step /\ t.batch = s.batch /\ t.job = s.job
               /\ t.admin = s.admin /\ t.rows = s.rows /\ t.seen = s.seen
               /\ t.content = s.content
<1>1. day.version \in Nat
  BY DEF AttInv, DayRow
<1>2. QED
  BY <1>1 DEF WithDay, Session

LEMMA SubmittingFields ==
    ASSUME AttInv, NEW s \in Session
    PROVE  LET t == Submitting(s)
           IN  /\ t \in Session
               /\ t.op = s.op /\ t.step = s.step /\ t.batch = s.batch /\ t.job = s.job
               /\ t.admin = s.admin /\ t.rows = s.rows /\ t.seen = s.seen
               /\ t.content = s.content
<1>1. "SUBMITTED" \in DayStatus \cup {"DELETED"}
  BY DEF DayStatus
<1>2. QED
  BY <1>1, WithDayFields DEF Submitting

(* The staff of the school. *)
Staff(op, admin) == [Idle EXCEPT !.op = op, !.admin = admin]
LEMMA StaffFields ==
    ASSUME NEW op \in StaffOps, NEW admin \in BOOLEAN
    PROVE  /\ Staff(op, admin) \in Session /\ Staff(op, admin).op = op
           /\ Staff(op, admin).admin = admin /\ Staff(op, admin).job = NoJob
           /\ Staff(op, admin).rows = {} /\ Staff(op, admin).content = None
           /\ [Idle EXCEPT !.op = op, !.admin = admin] = Staff(op, admin)
  BY DEF Staff, Idle, NoJob, Session, JobRow, Contents, StaffOps

LEMMA StaffHolding ==
    ASSUME AttInv, NEW op \in StaffOps, NEW admin \in BOOLEAN,
           NEW rows \in SUBSET Students, NEW content \in Contents
    PROVE  LET t == Holding(Staff(op, admin), rows, content)
           IN  /\ t \in Session /\ t.op = op /\ t.job = NoJob /\ t.admin = admin
               /\ t.content = content
<1> DEFINE s == Staff(op, admin)
<1>1. s \in Session /\ s.op = op /\ s.job = NoJob /\ s.admin = admin
  BY StaffFields
<1> HIDE DEF s
<1>2. QED
  BY <1>1, HoldingFields DEF s

LEMMA StaffOK ==
    ASSUME AttInv, NEW s \in Session, s.op \in StaffOps, s.job = NoJob,
           s.content # "imported", s.content = None => s.rows = {},
           s.op = "mark" /\ ~s.admin =>
              s.dayNew # None /\ s.daySeen = day.version /\ day.status # "LOCKED"
    PROVE  SessionOK(s, day, register)
<1>1. day.version <= day.version
  BY DEF AttInv, DayRow
<1>2. QED
  BY <1>1, IdleOK DEF SessionOK, Unlocked, StaffOps

LEMMA Begins ==
    ASSUME AttInv, NEW h \in Handlers, NEW s, SessionOK(s, day, register), Begin(h, s)
    PROVE  AttInv'
<1>1. /\ day' = day /\ register' = register /\ job' = job /\ client' = client
      /\ handlers' = [handlers EXCEPT ![h] = s]
  BY DEF Begin
<1>2. ClientOK'
  BY <1>1 DEF AttInv, ClientOK
<1>3. QED
  BY <1>1, <1>2, NoProgress, OneStep DEF AttInv

(* Marks are prepared with the day, and the day was not locked. *)
LEMMA MarkStarts ==
    ASSUME AttInv, NEW h \in Handlers, NEW rows \in SUBSET Students, NEW admin \in BOOLEAN,
           \/ StartMark(h, rows, admin)
           \/ \E status \in DayStatus : StartBulkMark(h, rows, admin, status)
    PROVE  AttInv'
<1> DEFINE held == Holding(Staff("mark", admin), rows, "marked")
<1>1. "mark" \in StaffOps /\ "marked" \in Contents /\ "SUBMITTED" \in DayStatus
  BY DEF StaffOps, Contents, DayStatus
<1>2. PICK status \in DayStatus : Open(admin) /\ Begin(h, WithDay(held, status))
  BY <1>1, StaffFields DEF StartMark, StartBulkMark
<1>3. /\ held \in Session /\ held.op = "mark" /\ held.job = NoJob /\ held.admin = admin
      /\ held.content = "marked"
  BY <1>1, StaffHolding
<1> HIDE DEF held
<1>4. /\ WithDay(held, status) \in Session /\ WithDay(held, status).op = "mark"
      /\ WithDay(held, status).job = NoJob /\ WithDay(held, status).admin = admin
      /\ WithDay(held, status).content = "marked"
      /\ WithDay(held, status).dayNew = status
      /\ WithDay(held, status).daySeen = day.version
  BY <1>3, WithDayFields
<1>5. "marked" # None /\ status # None
  BY AttendanceAssumption DEF DayStatus
<1>6. SessionOK(WithDay(held, status), day, register)
  BY <1>1, <1>2, <1>4, <1>5, StaffOK DEF Open
<1>7. QED
  BY <1>2, <1>6, Begins

LEMMA OtherStaffStarts ==
    ASSUME AttInv, NEW h \in Handlers,
           \/ \E rows \in SUBSET Students : StartExecute(h, rows)
           \/ \E st \in Students, admin \in BOOLEAN : StartCorrect(h, st, admin)
           \/ StartLock(h) \/ StartDelete(h)
    PROVE  AttInv'
<1>1. /\ {"execute", "correct", "lock", "delete"} \subseteq StaffOps
      /\ {"marked", "deleted"} \subseteq Contents
      /\ Marked \in SUBSET Students
      /\ {"LOCKED", "DELETED"} \subseteq DayStatus \cup {"DELETED"}
      /\ "marked" # None /\ "deleted" # None
  BY AttendanceAssumption DEF StaffOps, Contents, Marked, DayStatus
<1>2. CASE \E rows \in SUBSET Students : StartExecute(h, rows)
  <2>1. PICK rows \in SUBSET Students, admin \in BOOLEAN :
          Begin(h, Submitting(Holding(Staff("execute", admin), rows, "marked")))
    BY <1>1, <1>2, StaffFields DEF StartExecute
  <2> DEFINE held == Holding(Staff("execute", admin), rows, "marked")
  <2>2. /\ held \in Session /\ held.op = "execute" /\ held.job = NoJob
        /\ held.content = "marked"
    BY <1>1, StaffHolding
  <2> HIDE DEF held
  <2>3. SessionOK(Submitting(held), day, register)
    BY <1>1, <2>2, SubmittingFields, StaffOK
  <2>4. QED
    BY <2>1, <2>3, Begins DEF held
<1>3. CASE \E st \in Students, admin \in BOOLEAN : StartCorrect(h, st, admin)
  <2>1. PICK st \in Students, admin \in BOOLEAN : StartCorrect(h, st, admin)
    BY <1>3
  <2>2. Begin(h, Holding(Staff("correct", admin), {st}, "marked"))
    BY <2>1 DEF StartCorrect, Staff
  <2> DEFINE held == Holding(Staff("correct", admin), {st}, "marked")
  <2>3. /\ held \in Session /\ held.op = "correct" /\ held.job = NoJob
        /\ held.content = "marked"
    BY <1>1, StaffHolding
  <2>4. QED
    BY <1>1, <2>2, <2>3, StaffOK, Begins
<1>4. CASE StartLock(h)
  <2>1. Begin(h, WithDay(Staff("lock", TRUE), "LOCKED"))
    BY <1>1, <1>4, StaffFields DEF StartLock
  <2> DEFINE s == Staff("lock", TRUE)
  <2>2. /\ s \in Session /\ s.op = "lock" /\ s.job = NoJob
        /\ s.rows = {} /\ s.content = None
    BY <1>1, StaffFields
  <2> HIDE DEF s
  <2>3. None # "imported"
    BY AttendanceAssumption
  <2>4. SessionOK(WithDay(s, "LOCKED"), day, register)
    BY <1>1, <2>2, <2>3, WithDayFields, StaffOK
  <2>5. QED
    BY <2>1, <2>4, Begins DEF s
<1>5. CASE StartDelete(h)
  <2>1. PICK admin \in BOOLEAN :
          Begin(h, WithDay(Holding(Staff("delete", admin), Marked, "deleted"), "DELETED"))
    BY <1>1, <1>5, StaffFields DEF StartDelete
  <2> DEFINE held == Holding(Staff("delete", admin), Marked, "deleted")
  <2>2. /\ held \in Session /\ held.op = "delete" /\ held.job = NoJob
        /\ held.content = "deleted"
    BY <1>1, StaffHolding
  <2> HIDE DEF held
  <2>3. SessionOK(WithDay(held, "DELETED"), day, register)
    BY <1>1, <2>2, WithDayFields, StaffOK
  <2>4. QED
    BY <2>1, <2>3, Begins DEF held
<1>6. QED
  BY <1>2, <1>3, <1>4, <1>5

-----------------------------------------------------------------------------
(* The import.                                                             *)

LEMMA ClientKept ==
    ASSUME AttInv, NEW h \in Handlers,
           Confirmed(h) \/ Refused(h) \/ UNCHANGED client
    PROVE  ClientOK'
<1>1. /\ client \in [next: Nat \ {0}, state: {"ready", "waiting", "failed", "done"},
                     waitsFor: Handlers \cup {None}]
      /\ client.state # "done" => client.next \in Batches
      /\ client.waitsFor # None => client.state = "waiting"
      /\ h # None
  BY AttendanceAssumption DEF AttInv, ClientOK
<1>2. CASE client.waitsFor # h \/ UNCHANGED client
  BY <1>1, <1>2 DEF Confirmed, Refused, ClientOK
<1>3. CASE client.waitsFor = h /\ Confirmed(h)
  <2>1. client.next + 1 \in Nat \ {0}
    BY <1>1
  <2> DEFINE n == client.next + 1
             state == IF n \in Batches THEN "ready" ELSE "done"
  <2>2. client' = [next |-> n, waitsFor |-> None, state |-> state]
    BY <1>3 DEF Confirmed
  <2> HIDE DEF n
  <2>3. QED
    BY <2>1, <2>2 DEF ClientOK, n
<1>4. CASE client.waitsFor = h /\ Refused(h)
  <2>1. client' = [client EXCEPT !.state = "failed", !.waitsFor = None]
    BY <1>4 DEF Refused
  <2>2. /\ client'.next = client.next /\ client'.state = "failed" /\ client'.waitsFor = None
        /\ client' \in [next: Nat \ {0}, state: {"ready", "waiting", "failed", "done"},
                        waitsFor: Handlers \cup {None}]
    BY <1>1, <2>1
  <2>3. QED
    BY <1>1, <1>4, <2>2 DEF ClientOK
<1>5. QED
  BY <1>2, <1>3, <1>4

(* The portal sends a batch, gives up waiting, or tries again. *)
LEMMA PortalMoves ==
    ASSUME AttInv, (\E h \in Handlers : Send(h)) \/ Timeout \/ Retry
    PROVE  AttInv'
<1>1. /\ client \in [next: Nat \ {0}, state: {"ready", "waiting", "failed", "done"},
                     waitsFor: Handlers \cup {None}]
      /\ client.state # "done" => client.next \in Batches
      /\ client.waitsFor # None => client.state = "waiting"
  BY DEF AttInv, ClientOK
<1>2. ASSUME NEW h \in Handlers, Send(h)
      PROVE  AttInv'
  <2> DEFINE s == [Idle EXCEPT !.op = "chunk", !.step = "received", !.batch = client.next]
  <2>1. /\ client.state = "ready" /\ client' = [client EXCEPT !.state = "waiting", !.waitsFor = h]
        /\ handlers' = [handlers EXCEPT ![h] = s]
        /\ day' = day /\ register' = register /\ job' = job
    BY <1>2 DEF Send
  <2>2. client.next \in Batches
    BY <1>1, <2>1
  <2>3. /\ s \in Session /\ s.op = "chunk" /\ s.step = "received"
        /\ s.batch = client.next /\ s.job = NoJob
    BY <2>2, IdleOK DEF Idle, Session, StaffOps
  <2> HIDE DEF s
  <2>4. SessionOK(s, day, register)
    BY <2>2, <2>3, IdleOK DEF SessionOK, StaffOps
  <2>5. ClientOK'
    BY <1>1, <2>1 DEF ClientOK
  <2>6. QED
    BY <2>1, <2>4, <2>5, NoProgress, OneStep DEF AttInv
<1>3. CASE Timeout \/ Retry
  <2>1. /\ handlers' = handlers /\ day' = day /\ register' = register /\ job' = job
    BY <1>3 DEF Timeout, Retry
  <2>2. ClientOK'
    BY <1>1, <1>3 DEF Timeout, Retry, ClientOK
  <2>3. QED
    BY <2>1, <2>2 DEF AttInv
<1>4. QED
  BY <1>2, <1>3

LEMMA JobIsRead ==
    ASSUME AttInv, NEW h \in Handlers, ReadJob(h)
    PROVE  AttInv'
<1>1. /\ handlers[h].op = "chunk" /\ handlers[h].step = "received"
      /\ day' = day /\ register' = register /\ job' = job
      /\ SessionOK(handlers[h], day, register) /\ JobOK(job, register) /\ job \in JobRow
  BY DEF ReadJob, AttInv
<1>2. CASE handlers[h].batch \in job.batches
  <2>1. Confirmed(h) /\ handlers' = [handlers EXCEPT ![h] = Idle]
    BY <1>2 DEF ReadJob, ConfirmKnown
  <2>2. ClientOK'
    BY <2>1, ClientKept
  <2>3. QED
    BY <1>1, <2>1, <2>2, IdleOK, NoProgress, OneStep DEF AttInv
<1>3. CASE handlers[h].batch \notin job.batches
  <2> DEFINE s == [handlers[h] EXCEPT !.step = "job", !.job = job]
  <2>1. handlers' = [handlers EXCEPT ![h] = s] /\ client' = client
    BY <1>3 DEF ReadJob, AttInv
  <2>2. handlers[h] \in Session /\ handlers[h].batch \in Batches
    BY <1>1 DEF SessionOK
  <2>3. /\ s \in Session /\ s.op = "chunk" /\ s.step = "job" /\ s.job = job
        /\ s.batch = handlers[h].batch
    BY <1>1, <2>2 DEF Session
  <2> HIDE DEF s
  <2>4. SessionOK(s, day, register)
    BY <1>1, <1>3, <2>2, <2>3 DEF SessionOK, StaffOps
  <2>5. ClientOK'
    BY <2>1, ClientKept
  <2>6. QED
    BY <1>1, <2>1, <2>4, <2>5, NoProgress, OneStep DEF AttInv
<1>4. QED
  BY <1>2, <1>3

LEMMA RowsAreRead ==
    ASSUME AttInv, NEW h \in Handlers, ReadRows(h)
    PROVE  AttInv'
<1> DEFINE s == [handlers[h] EXCEPT !.step = "rows"]
           rows == IF Replace
                   THEN {st \in RowsOf[s.batch] : register[st].content # "imported"}
                   ELSE RowsOf[s.batch] \ Marked
           held == Holding(s, rows, "imported")
<1>1. handlers[h].op = "chunk" /\ handlers[h].step = "job" /\ Begin(h, Submitting(held))
  BY DEF ReadRows
<1>2. /\ handlers[h] \in Session /\ JobOK(handlers[h].job, register)
      /\ handlers[h].batch \in Batches /\ handlers[h].batch \notin handlers[h].job.batches
  BY <1>1 DEF AttInv, SessionOK
<1>3. /\ s \in Session /\ s.op = "chunk" /\ s.step = "rows" /\ s.job = handlers[h].job
      /\ s.batch = handlers[h].batch
  BY <1>1, <1>2 DEF Session
<1> HIDE DEF s
<1>4. RowsOf[s.batch] \subseteq Students
  BY <1>2, <1>3, RowsAreFinite
<1>5. rows \in SUBSET Students /\ "imported" \in Contents /\ "imported" # None
  BY <1>4, AttendanceAssumption DEF Contents
<1>6. RowsOf[s.batch] \subseteq rows \cup MarkedIn(register)
  BY <1>4, <1>5 DEF MarkedIn, Marked
<1>7. ~Replace => \A st \in rows : st \in Students /\ register[st].content = None
  BY <1>4 DEF Marked
<1>8. \A st \in Students : register[st].version <= register[st].version
  BY DEF AttInv, Register
<1> HIDE DEF rows
<1>9. /\ held \in Session /\ held.op = "chunk" /\ held.step = "rows" /\ held.rows = rows
      /\ held.job = s.job /\ held.batch = s.batch /\ held.content = "imported"
      /\ \A st \in rows : held.seen[st] = register[st].version
  BY <1>3, <1>5, HoldingFields
<1> HIDE DEF held
<1> DEFINE t == Submitting(held)
<1>10. /\ t \in Session /\ t.op = "chunk" /\ t.step = "rows" /\ t.rows = rows
       /\ t.job = s.job /\ t.batch = s.batch /\ t.content = "imported"
       /\ \A st \in rows : t.seen[st] = register[st].version
  BY <1>9, SubmittingFields
<1> HIDE DEF t
<1>11. Prepared(t, register)
  BY <1>6, <1>7, <1>8, <1>10 DEF Prepared
<1>12. SessionOK(t, day, register)
  BY <1>2, <1>3, <1>10, <1>11 DEF SessionOK, StaffOps
<1>13. QED
  BY <1>1, <1>12, Begins DEF t

(* Commits, of the staff and of batches. *)
LEMMA Written ==
    ASSUME AttInv, NEW h \in Handlers, Fresh(handlers[h]), Write(handlers[h]),
           handlers[h].op \in StaffOps \/ (handlers[h].op = "chunk" /\ handlers[h].step = "rows")
    PROVE  /\ day' \in DayRow /\ register' \in Register
           /\ Progress(day, register, day', register')
           /\ handlers[h].rows \subseteq MarkedIn(register')
<1> DEFINE s == handlers[h]
<1>1. /\ s \in Session
      /\ s.content = None => s.rows = {}
      /\ day \in DayRow /\ register \in Register
  BY AttendanceAssumption DEF AttInv, SessionOK, Prepared
<1>2. /\ register' = [st \in Students |->
                        IF st \in s.rows
                        THEN [content |-> s.content, version |-> register[st].version + 1]
                        ELSE register[st]]
      /\ day' = IF s.dayNew = None THEN day
                ELSE [status |-> s.dayNew, version |-> day.version + 1]
  BY DEF Write
<1> HIDE DEF s
<1>3. /\ s.rows \subseteq Students /\ s.content \in Contents
      /\ s.dayNew # None => s.dayNew \in DayStatus \cup {"DELETED"}
  BY <1>1 DEF Session
<1> DEFINE new(st) == [content |-> s.content, version |-> register[st].version + 1]
<1>4. \A st \in Students : /\ register[st] \in [content: Contents, version: Nat]
                            /\ register[st].version + 1 \in Nat
                            /\ register[st].version + 1 > register[st].version
  BY <1>1 DEF Register
<1>5. \A st \in Students : /\ new(st) \in [content: Contents, version: Nat]
                            /\ new(st).version > register[st].version
                            /\ new(st).content = s.content
  BY <1>3, <1>4
<1>6. register' = [st \in Students |-> IF st \in s.rows THEN new(st) ELSE register[st]]
  BY <1>2
<1> HIDE DEF new
<1>7. /\ register' \in Register
      /\ \A st \in Students :
            \/ register'[st] = register[st]
            \/ register'[st].version > register[st].version /\ register'[st].content # None
      /\ s.rows \subseteq MarkedIn(register')
  BY <1>1, <1>3, <1>4, <1>5, <1>6 DEF Register, MarkedIn
<1>8. day.version + 1 \in Nat /\ day.version + 1 > day.version
  BY <1>1 DEF DayRow
<1>9. day' \in DayRow /\ (day' = day \/ day'.version > day.version)
  BY <1>1, <1>2, <1>3, <1>8 DEF DayRow
<1>10. QED
  BY <1>7, <1>9 DEF Progress, s

LEMMA StaffCommits ==
    ASSUME AttInv, NEW h \in Handlers, CommitStaff(h)
    PROVE  AttInv'
<1>1. /\ handlers[h].op \in StaffOps /\ Fresh(handlers[h]) /\ Write(handlers[h])
      /\ handlers' = [handlers EXCEPT ![h] = Idle] /\ job' = job /\ client' = client
  BY DEF CommitStaff, StaffOps
<1>2. /\ day' \in DayRow /\ register' \in Register
      /\ Progress(day, register, day', register')
  BY <1>1, Written
<1>3. job' \in JobRow /\ JobOK(job', register')
  BY <1>1, <1>2, JobKept DEF AttInv, JobRow
<1>4. ClientOK'
  BY <1>1, ClientKept
<1>5. QED
  BY <1>1, <1>2, <1>3, <1>4, IdleOK, OneStep

(* The status that a batch leaves alone is that of the job; the one that   *)
(* it writes follows from the list that it writes with it.                 *)
LEMMA RecordedIsTrue ==
    ASSUME NEW s, NEW reg, s \in Session, JobOK(s.job, reg), s.batch \in Batches,
           s.batch \notin s.job.batches, RowsOf[s.batch] \subseteq MarkedIn(reg),
           job \in JobRow, JobOK(job, reg)
    PROVE  Recorded(s) \in JobRow /\ JobOK(Recorded(s), reg)
<1> DEFINE B == s.job.batches \cup {s.batch}
           processed == s.job.processed + Cardinality(RowsOf[s.batch])
           status == StatusWith(s, B)
<1>1. s.job.batches \in SUBSET Batches /\ s.job.processed \in Nat
  BY DEF Session, JobRow
<1>2. B \in SUBSET Batches /\ Cardinality(RowsOf[s.batch]) \in Nat
  BY <1>1, RowsAreFinite
<1>3. processed = Cardinality(RowsIn(B)) /\ processed \in Nat
  BY <1>1, <1>2, OneBatchMore DEF JobOK
<1>4. Cardinality(B) >= Cardinality(Batches) => B = Batches
  BY <1>2, AllBatches
<1>5. \A b \in B : RowsOf[b] \subseteq MarkedIn(reg)
  BY <1>1 DEF JobOK
<1>6. Recorded(s) = [status |-> status, batches |-> B, processed |-> processed]
  BY DEF Recorded
<1>7. \/ status = job.status
      \/ status = "PARTIAL"
      \/ status = "COMPLETED" /\ Cardinality(B) >= Cardinality(Batches)
  BY DEF StatusWith
<1> HIDE DEF B, processed, status
<1>8. \A b \in Batches : status = "COMPLETED" => RowsOf[b] \subseteq MarkedIn(reg)
  BY <1>4, <1>5, <1>7 DEF JobOK
<1>9. status \in {"NONE", "PARTIAL", "COMPLETED"}
  BY <1>7 DEF JobRow
<1>10. QED
  BY <1>2, <1>3, <1>5, <1>6, <1>8, <1>9 DEF JobRow, JobOK

LEMMA ChunkCommits ==
    ASSUME AttInv, NEW h \in Handlers, CommitChunk(h)
    PROVE  AttInv'
<1> DEFINE s == handlers[h]
<1>1. /\ s.op = "chunk" /\ s.step = "rows" /\ Fresh(s) /\ Write(s) /\ job' = Recorded(s)
      /\ handlers' = [handlers EXCEPT ![h] = Idle] /\ Confirmed(h)
  BY DEF CommitChunk
<1>2. /\ day' \in DayRow /\ register' \in Register
      /\ Progress(day, register, day', register')
      /\ s.rows \subseteq MarkedIn(register')
  BY <1>1, Written
<1>3. /\ s \in Session /\ JobOK(s.job, register) /\ s.batch \in Batches
      /\ s.batch \notin s.job.batches /\ Prepared(s, register)
      /\ s.job.batches \subseteq Batches
  BY <1>1 DEF AttInv, SessionOK, Session, JobRow
<1> HIDE DEF s
<1>4. JobOK(s.job, register') /\ job \in JobRow /\ JobOK(job, register')
  <2>1. job \in JobRow /\ JobOK(job, register) /\ job.batches \subseteq Batches
    BY DEF AttInv, JobRow
  <2>2. QED
    BY <1>2, <1>3, <2>1, JobKept
<1>5. MarkedIn(register) \subseteq MarkedIn(register')
  BY <1>2 DEF Progress, MarkedIn
<1>6. RowsOf[s.batch] \subseteq MarkedIn(register')
  BY <1>2, <1>3, <1>5 DEF Prepared
<1>7. job' \in JobRow /\ JobOK(job', register')
  BY <1>1, <1>3, <1>4, <1>6, RecordedIsTrue
<1>8. ClientOK'
  BY <1>1, ClientKept
<1>9. QED
  BY <1>1, <1>2, <1>7, <1>8, IdleOK, OneStep

LEMMA RequestEnds ==
    ASSUME AttInv, NEW h \in Handlers, Reject(h) \/ Break(h)
    PROVE  AttInv'
<1>1. /\ day' = day /\ register' = register /\ job' = job /\ Refused(h)
      /\ handlers' = [handlers EXCEPT ![h] = Idle]
  BY DEF Reject, Break
<1>2. ClientOK'
  BY <1>1, ClientKept
<1>3. QED
  BY <1>1, <1>2, IdleOK, NoProgress, OneStep DEF AttInv

-----------------------------------------------------------------------------
(* The theorems.                                                           *)

LEMMA AttInvInit == AttInit => AttInv
<1> SUFFICES ASSUME AttInit PROVE AttInv
  OBVIOUS
<1>1. /\ day \in DayRow /\ register \in Register
      /\ job = NoJob /\ DOMAIN handlers = Handlers
      /\ \A h \in Handlers : handlers[h] = Idle
  BY DEF AttInit, DayRow, Register, Contents
<1>2. Cardinality(Batches) \in Nat /\ Cardinality(Batches) # 0 /\ 1 \in Batches
  BY FS_CardinalityType, FS_EmptySet, AttendanceAssumption
<1>3. ClientOK
  BY <1>2 DEF AttInit, ClientOK
<1>4. QED
  BY <1>1, <1>3, IdleOK DEF AttInv

(* What every request, the job and the portal know stays true: a job's     *)
(* counts and batches, also of a job that a request read before others     *)
(* wrote it, and what a version that has not changed still says.           *)
THEOREM AttendanceInvariant == AttSpec => []AttInv
<1>1. ASSUME AttInv, [AttNext]_attVars
      PROVE  AttInv'
  <2>1. CASE UNCHANGED attVars
    BY <1>1, <2>1 DEF attVars, AttInv, ClientOK
  <2>2. ASSUME NEW h \in Handlers, NEW rows \in SUBSET Students, NEW admin \in BOOLEAN,
               \/ StartMark(h, rows, admin)
               \/ \E status \in DayStatus : StartBulkMark(h, rows, admin, status)
        PROVE  AttInv'
    BY <1>1, <2>2, MarkStarts
  <2>3. ASSUME NEW h \in Handlers,
               \/ \E rows \in SUBSET Students : StartExecute(h, rows)
               \/ \E st \in Students, admin \in BOOLEAN : StartCorrect(h, st, admin)
               \/ StartLock(h) \/ StartDelete(h)
        PROVE  AttInv'
    BY <1>1, <2>3, OtherStaffStarts
  <2>4. ASSUME NEW h \in Handlers,
               \/ ReadJob(h) \/ ReadRows(h) \/ CommitChunk(h) \/ CommitStaff(h)
               \/ Reject(h) \/ Break(h)
        PROVE  AttInv'
    BY <1>1, <2>4, JobIsRead, RowsAreRead, ChunkCommits, StaffCommits, RequestEnds
  <2>5. CASE (\E h \in Handlers : Send(h)) \/ Timeout \/ Retry
    BY <1>1, <2>5, PortalMoves
  <2>6. QED
    BY <1>1, <2>1, <2>2, <2>3, <2>4, <2>5, AttendanceAssumption DEF AttNext
<1>2. QED
  BY AttInvInit, <1>1, PTL DEF AttSpec

(* import_attendance_chunk: the rows of a batch that the job lists are in  *)
(* the register and counted once, and all rows are if it says COMPLETED,   *)
(* also after a late batch has written an older list.                      *)
THEOREM JobIsTrueHolds == AttSpec => []JobIsTrue
<1>1. AttInv => JobIsTrue
  BY DEF AttInv, JobOK, JobIsTrue, MarkedIn, Marked
<1>2. QED
  BY <1>1, AttendanceInvariant, PTL

(* The register changes with the commits of one request. *)
LEMMA OneWrites ==
    ASSUME [AttNext]_attVars
    PROVE  \/ register' = register
           \/ \E h \in Handlers : CommitStaff(h) \/ CommitChunk(h)
<1>1. UNCHANGED attVars => register' = register
  BY DEF attVars
<1>2. \A h, s : Begin(h, s) => register' = register
  BY DEF Begin
<1>3. ASSUME NEW h \in Handlers,
             \/ \E rows \in SUBSET Students, admin \in BOOLEAN :
                   \/ StartMark(h, rows, admin)
                   \/ \E status \in DayStatus : StartBulkMark(h, rows, admin, status)
             \/ \E rows \in SUBSET Students : StartExecute(h, rows)
             \/ \E st \in Students, admin \in BOOLEAN : StartCorrect(h, st, admin)
             \/ StartLock(h) \/ StartDelete(h) \/ ReadRows(h)
      PROVE  register' = register
  BY <1>2, <1>3 DEF StartMark, StartBulkMark, StartExecute, StartCorrect, StartLock,
     StartDelete, ReadRows
<1>4. ASSUME NEW h \in Handlers, Send(h) \/ Break(h) \/ ReadJob(h) \/ Reject(h)
      PROVE  register' = register
  BY <1>4 DEF Send, Break, ReadJob, Reject
<1>5. Retry \/ Timeout => register' = register
  BY DEF Retry, Timeout
<1>6. QED
  BY <1>1, <1>3, <1>4, <1>5, AttendanceAssumption DEF AttNext

(* A teacher's marks never reach a day that was locked after the teacher's *)
(* request had looked at it.                                               *)
THEOREM LockStopsTeachersHolds == AttSpec => LockStopsTeachers
<1> DEFINE Stopped == \A h \in Handlers :
              /\ handlers[h].op = "mark" /\ ~handlers[h].admin
              /\ register' # register /\ handlers'[h] = Idle
              => day.status # "LOCKED"
<1>1. ASSUME AttInv, [AttNext]_attVars, NEW h \in Handlers,
             handlers[h].op = "mark", ~handlers[h].admin,
             register' # register, handlers'[h] = Idle
      PROVE  day.status # "LOCKED"
  <2>1. PICK g \in Handlers : CommitStaff(g) \/ CommitChunk(g)
    BY <1>1, OneWrites
  <2>2. handlers' = [handlers EXCEPT ![g] = Idle] /\ DOMAIN handlers = Handlers
    BY <1>1, <2>1 DEF CommitStaff, CommitChunk, AttInv
  <2>3. g = h
    BY <1>1, <2>2, IdleOK
  <2>4. Fresh(handlers[h])
    BY <2>1, <2>3 DEF CommitStaff, CommitChunk
  <2>5. Unlocked(handlers[h], day)
    BY <1>1 DEF AttInv, SessionOK
  <2>6. QED
    BY <2>4, <2>5 DEF Fresh, Unlocked
<1>2. AttInv /\ [AttNext]_attVars => [Stopped]_attVars
  BY <1>1
<1>3. QED
  BY <1>2, AttendanceInvariant, PTL DEF AttSpec, LockStopsTeachers

(* An import that is to skip what exists replaces no mark, not even one    *)
(* that was made after the batch had read the register.                    *)
THEOREM SkipKeepsMarksHolds == AttSpec => SkipKeepsMarks
<1> DEFINE Kept == ~Replace => \A st \in Marked :
              register'[st].content = "imported" => register'[st] = register[st]
<1>1. ASSUME AttInv, [AttNext]_attVars, ~Replace, NEW st \in Marked,
             register'[st].content = "imported"
      PROVE  register'[st] = register[st]
  <2>1. CASE register' = register
    BY <2>1
  <2>2. ASSUME NEW h \in Handlers, CommitStaff(h) \/ CommitChunk(h)
        PROVE  register'[st] = register[st]
    <3> DEFINE s == handlers[h]
    <3>1. st \in Students /\ register[st].content # None /\ SessionOK(s, day, register)
      BY <1>1 DEF Marked, AttInv
    <3>2. Write(s) /\ Fresh(s)
      BY <2>2 DEF CommitStaff, CommitChunk
    <3>3. \/ s.op \in StaffOps
          \/ s.op = "chunk" /\ s.step = "rows"
      BY <2>2 DEF CommitStaff, CommitChunk, StaffOps
    <3> HIDE DEF s
    <3>4. ASSUME st \in s.rows
          PROVE  FALSE
      <4>1. register'[st].content = s.content /\ register[st].version = s.seen[st]
        BY <3>1, <3>2, <3>4 DEF Write, Fresh
      <4>2. s.op \notin StaffOps
        BY <1>1, <3>1, <4>1 DEF SessionOK
      <4>3. Prepared(s, register)
        BY <3>1, <3>3, <4>2 DEF SessionOK
      <4>4. s.seen[st] < register[st].version /\ register[st].version \in Nat
        BY <1>1, <3>1, <3>4, <4>3 DEF Prepared, AttInv, Register
      <4>5. QED
        BY <4>1, <4>4
    <3>5. QED
      BY <3>1, <3>2, <3>4 DEF Write
  <2>3. QED
    BY <1>1, <2>1, <2>2, OneWrites
<1>2. AttInv /\ [AttNext]_attVars => [Kept]_attVars
  BY <1>1
<1>3. QED
  BY <1>2, AttendanceInvariant, PTL DEF AttSpec, SkipKeepsMarks
=============================================================================
