---------------------------- MODULE MarksProofs ----------------------------
(***************************************************************************)
(* Proofs about MarksWorkflow, for every set of papers, students, entries  *)
(* and requests: its invariant, the legality of reviews and of the         *)
(* examination's moves, the safety of versioned saves, and that it         *)
(* implements MarksBoard.                                                  *)
(*                                                                         *)
(* The argument is that of optimistic locking.  As long as the examination *)
(* is there, the version of a row only grows, and every commit that writes *)
(* the row moves it; so what a session or a form has read of a row is true *)
(* of it as long as the version is the one that was read.  Once it is gone *)
(* there is no row, and no session can commit one.                         *)
(***************************************************************************)
EXTENDS MarksWorkflow, TLAPS

Stored == Entries \cup {Sanitised(e) : e \in Entries}
                  \cup {Uploaded(e) : e \in Entries}

(* Rows: without a version, nothing; with one, an entry that a client made. *)
RowsOK(ms) ==
    \A m \in Mark : /\ ms[m].version = 0 => ms[m] = Missing
                    /\ ms[m].version # 0 => /\ ms[m].status # "MISSING"
                                            /\ ms[m].entry \in Stored

(* What a session knows of a row that still has the version it has read. *)
StillTrue(s, m, row) ==
    /\ s.op \in ReviewOps => /\ Allowed(row.status, s.new[m].status)
                             /\ s.new[m].entry = row.entry
    /\ s.op = "save" /\ m \in s.checked => row.entry = s.shown[m]

WritesOK(s) ==
    \A m \in s.touched : s.new[m].status # "MISSING" /\ s.new[m].entry \in Stored

SessionOK(s, gone, ms) ==
    /\ s \in Session
    /\ s.checked \subseteq s.touched
    /\ WritesOK(s)
    /\ HeldInRange(s)
    /\ ~gone => \A m \in s.touched :
                    /\ s.seen[m] <= ms[m].version
                    /\ s.seen[m] = ms[m].version => StillTrue(s, m, ms[m])

FormOK(f, gone, ms) ==
    ~gone => \A m \in Mark : /\ f[m].version <= ms[m].version
                             /\ f[m].version = ms[m].version => f[m].entry = ms[m].entry

Gone == exam.status = "GONE"

MarksInv ==
    /\ MarksShape
    /\ RowsOK(marks)
    /\ Gone => marks = [m \in Mark |-> Missing]
    /\ \A e \in Editors : FormOK(forms[e], Gone, marks)
    /\ \A r \in Requests : SessionOK(requests[r], Gone, marks)

-----------------------------------------------------------------------------
(* Entries and rows.                                                        *)

LEMMA EntryTypes ==
    ASSUME NEW e \in Entries
    PROVE  /\ e \in Entry
           /\ Sanitised(e) \in Entry
           /\ Uploaded(e) \in Entry
<1>1. e \in Entry
  BY MarksAssumption DEF Entry
<1>2. Sanitised(e) \in Entry
  BY <1>1 DEF Sanitised, Entry
<1>3. Uploaded(e) \in Entry
  BY <1>1 DEF Uploaded, Entry
<1>4. QED
  BY <1>1, <1>2, <1>3

LEMMA StoredEntry ==
    ASSUME NEW e \in Entries
    PROVE  e \in Stored /\ Sanitised(e) \in Stored /\ Uploaded(e) \in Stored
  BY DEF Stored

LEMMA SheetTypes ==
    ASSUME NEW S, NEW es \in Sheets(S)
    PROVE  DOMAIN es \subseteq S /\ \A x \in DOMAIN es : es[x] \in Entries
  BY DEF Sheets

LEMMA IdleIsOK ==
    ASSUME NEW gone \in BOOLEAN, NEW ms
    PROVE  SessionOK(Idle, gone, ms)
<1>1. Idle \in Session
  BY DEF Idle, Session, Missing, MarkRow, Ops
<1>2. Idle.touched = {} /\ Idle.checked = {}
  BY DEF Idle
<1>3. QED
  BY <1>1, <1>2 DEF SessionOK, WritesOK, HeldInRange

(* The session of an operation that writes new[m] in the rows it has read. *)
LEMMA HoldingFields ==
    ASSUME NEW op, NEW rows, NEW new
    PROVE  LET s == Holding(op, rows, new)
           IN  /\ s.op = op /\ s.touched = rows /\ s.examSeen = 0 /\ s.examNew = None
               /\ s.seen = [m \in Mark |-> IF m \in rows THEN marks[m].version ELSE 0]
               /\ s.new = [m \in Mark |-> IF m \in rows THEN new[m] ELSE Missing]
               /\ s.checked = {} /\ s.shown = [m \in Mark |-> None]
               /\ op \in Ops /\ rows \in SUBSET Mark
                  /\ s.seen \in [Mark -> Nat] /\ s.new \in [Mark -> MarkRow]
                      => s \in Session
<1> DEFINE seen == [m \in Mark |-> IF m \in rows THEN marks[m].version ELSE 0]
           written == [m \in Mark |-> IF m \in rows THEN new[m] ELSE Missing]
           s == [Idle EXCEPT !.op = op, !.touched = rows, !.seen = seen, !.new = written]
<1>1. Holding(op, rows, new) = s
  BY DEF Holding
<1>2. Idle \in Session
  BY DEF Idle, Session, Missing, MarkRow, Ops
<1> HIDE DEF seen, written
<1>3. /\ s.op = op /\ s.touched = rows /\ s.seen = seen /\ s.new = written
      /\ s.examSeen = Idle.examSeen /\ s.examNew = Idle.examNew
      /\ s.checked = Idle.checked /\ s.shown = Idle.shown
  BY <1>2 DEF Session
<1>4. ASSUME op \in Ops, rows \in SUBSET Mark, seen \in [Mark -> Nat],
             written \in [Mark -> MarkRow]
      PROVE  s \in Session
  BY <1>2, <1>4 DEF Session
<1>5. /\ Idle.examSeen = 0 /\ Idle.examNew = None
      /\ Idle.checked = {} /\ Idle.shown = [m \in Mark |-> None]
  BY DEF Idle
<1>6. QED
  BY <1>1, <1>3, <1>4, <1>5 DEF seen, written

LEMMA HoldingIsOK ==
    ASSUME MarksShape,
           NEW op \in Ops, NEW rows \in SUBSET Mark, NEW new,
           \A m \in rows : /\ new[m] \in MarkRow
                           /\ new[m].status # "MISSING" /\ new[m].entry \in Stored,
           op \in ReviewOps => \A m \in rows : /\ Allowed(marks[m].status, new[m].status)
                                               /\ new[m].entry = marks[m].entry,
           op \in {"save", "upload"} => \A m \in rows : InRange(new[m].entry)
    PROVE  /\ SessionOK(Holding(op, rows, new), Gone, marks)
           /\ Holding(op, rows, new).touched = rows
           /\ Holding(op, rows, new).op = op
           /\ \A m \in rows : /\ Holding(op, rows, new).seen[m] = marks[m].version
                              /\ Holding(op, rows, new).new[m] = new[m]
<1> DEFINE s == Holding(op, rows, new)
<1>1. /\ s.op = op /\ s.touched = rows /\ s.checked = {}
      /\ s.seen = [m \in Mark |-> IF m \in rows THEN marks[m].version ELSE 0]
      /\ s.new = [m \in Mark |-> IF m \in rows THEN new[m] ELSE Missing]
  BY HoldingFields
<1>2. s \in Session
  <2>1. [m \in Mark |-> IF m \in rows THEN marks[m].version ELSE 0] \in [Mark -> Nat]
    BY DEF MarksShape, MarkRow
  <2>2. [m \in Mark |-> IF m \in rows THEN new[m] ELSE Missing] \in [Mark -> MarkRow]
    BY DEF MarkRow, Missing
  <2>3. QED
    BY <1>1, <2>1, <2>2, HoldingFields
<1>3. \A m \in rows : s.seen[m] = marks[m].version /\ s.new[m] = new[m]
  BY <1>1
<1>4. s.touched = rows /\ s.op = op /\ s.checked = {}
  BY <1>1
<1> HIDE DEF s
<1>5. WritesOK(s)
  BY <1>3, <1>4 DEF WritesOK
<1>6. \A m \in rows : s.seen[m] <= marks[m].version
  BY <1>3 DEF MarksShape, MarkRow
<1>7. \A m \in rows : StillTrue(s, m, marks[m])
  BY <1>3, <1>4 DEF StillTrue
<1>8. HeldInRange(s)
  BY <1>3, <1>4 DEF HeldInRange, InRange
<1>9. QED
  BY <1>2, <1>3, <1>4, <1>5, <1>6, <1>7, <1>8 DEF SessionOK, s

(* Writing the examination as well, or comparing with a form. *)
LEMMA ExamSessionIsOK ==
    ASSUME NEW gone \in BOOLEAN, NEW ms, NEW s, SessionOK(s, gone, ms),
           NEW v \in Nat, NEW status \in ExamStatus \cup {None}
    PROVE  SessionOK([s EXCEPT !.examSeen = v, !.examNew = status], gone, ms)
<1> DEFINE t == [s EXCEPT !.examSeen = v, !.examNew = status]
<1>1. s \in Session
  BY DEF SessionOK
<1>2. t \in Session /\ t.op = s.op /\ t.touched = s.touched /\ t.seen = s.seen
      /\ t.new = s.new /\ t.checked = s.checked /\ t.shown = s.shown
  BY <1>1 DEF Session
<1> HIDE DEF t
<1>3. QED
  BY <1>2 DEF SessionOK, WritesOK, HeldInRange, StillTrue, t

LEMMA SavedSessionIsOK ==
    ASSUME NEW gone \in BOOLEAN, NEW ms, NEW s, SessionOK(s, gone, ms),
           s.op = "save",
           NEW checked \in SUBSET Mark, NEW shown \in [Mark -> Entry \cup {None}],
           checked \subseteq s.touched,
           \A m \in checked : ms[m].entry = shown[m]
    PROVE  SessionOK([s EXCEPT !.checked = checked, !.shown = shown], gone, ms)
<1> DEFINE t == [s EXCEPT !.checked = checked, !.shown = shown]
<1>1. s \in Session
  BY DEF SessionOK
<1>2. t \in Session /\ t.op = s.op /\ t.touched = s.touched /\ t.seen = s.seen
      /\ t.new = s.new /\ t.checked = checked /\ t.shown = shown
  BY <1>1 DEF Session
<1> HIDE DEF t
<1>3. \A m \in t.touched : StillTrue(t, m, ms[m])
  BY <1>2 DEF StillTrue, ReviewOps
<1>4. QED
  BY <1>2, <1>3 DEF SessionOK, WritesOK, HeldInRange, t

-----------------------------------------------------------------------------
(* Requests that start.                                                     *)

LEMMA BeginKeeps ==
    ASSUME MarksInv, NEW r \in Requests, NEW s, SessionOK(s, Gone, marks), Begin(r, s)
    PROVE  MarksInv'
<1>1. requests' = [requests EXCEPT ![r] = s]
      /\ exam' = exam /\ marks' = marks /\ enrolled' = enrolled /\ forms' = forms
  BY DEF Begin
<1>2. requests \in [Requests -> Session] /\ s \in Session
  BY DEF MarksInv, MarksShape, SessionOK
<1>3. MarksShape'
  BY <1>1, <1>2 DEF MarksInv, MarksShape
<1>4. \A x \in Requests : SessionOK(requests'[x], Gone, marks)
  BY <1>1, <1>2 DEF MarksInv
<1>5. QED
  BY <1>1, <1>3, <1>4 DEF MarksInv, Gone

(* Rows that are there keep their entry under another status. *)
LEMMA RestatedRows ==
    ASSUME MarksInv, NEW rows \in SUBSET Entered, NEW status \in MarksStatus, NEW m \in rows
    PROVE  /\ Restated(rows, status)[m] \in MarkRow
           /\ Restated(rows, status)[m].status = status
           /\ Restated(rows, status)[m].status # "MISSING"
           /\ Restated(rows, status)[m].entry = marks[m].entry
           /\ Restated(rows, status)[m].entry \in Stored
<1>1. m \in Mark /\ marks[m] \in MarkRow /\ marks[m].status # "MISSING"
  BY DEF Entered, MarksInv, MarksShape
<1>2. marks[m].entry \in Stored
  BY <1>1 DEF MarksInv, RowsOK, Missing
<1>3. Restated(rows, status)[m] = [marks[m] EXCEPT !.status = status]
  BY DEF Restated
<1>4. status # "MISSING"
  BY DEF MarksStatus
<1>5. QED
  BY <1>1, <1>2, <1>3, <1>4 DEF MarkRow

LEMMA RestatedIsOK ==
    ASSUME MarksInv, NEW op \in Ops \ {"save", "upload"},
           NEW rows \in SUBSET Entered, NEW status \in MarksStatus,
           op \in ReviewOps => \A m \in rows : Allowed(marks[m].status, status)
    PROVE  SessionOK(Holding(op, rows, Restated(rows, status)), Gone, marks)
<1> DEFINE new == Restated(rows, status)
<1>1. rows \in SUBSET Mark
  BY DEF Entered
<1>2. \A m \in rows : /\ new[m] \in MarkRow /\ new[m].status = status
                       /\ new[m].status # "MISSING" /\ new[m].entry \in Stored
                       /\ new[m].entry = marks[m].entry
  BY RestatedRows
<1>3. MarksShape
  BY DEF MarksInv
<1> HIDE DEF new
<1>4. SessionOK(Holding(op, rows, new), Gone, marks)
  BY <1>1, <1>2, <1>3, HoldingIsOK
<1>5. QED
  BY <1>4 DEF new

LEMMA ReviewKeeps ==
    ASSUME MarksInv, NEW r \in Requests, NEW p \in Papers, NEW op \in ReviewOps,
           NEW status \in MarksStatus, StartReview(r, op, p, status)
    PROVE  MarksInv'
<1>1. Rows(p) \in SUBSET Entered /\ op \in Ops \ {"save", "upload"}
  BY DEF Rows, Ops, ReviewOps
<1>2. SessionOK(Holding(op, Rows(p), Restated(Rows(p), status)), Gone, marks)
  BY <1>1, RestatedIsOK DEF StartReview
<1>3. QED
  BY <1>2, BeginKeeps DEF StartReview

LEMMA UnlockKeeps ==
    ASSUME MarksInv, NEW r \in Requests, NEW p \in Papers, StartUnlock(r, p)
    PROVE  MarksInv'
<1>1. Rows(p) \in SUBSET Entered /\ "DRAFT" \in MarksStatus
      /\ "unlock" \in Ops /\ "unlock" \notin ReviewOps
  BY DEF Rows, MarksStatus, Ops, ReviewOps
<1>2. SessionOK(Holding("unlock", Rows(p), Restated(Rows(p), "DRAFT")), Gone, marks)
  BY <1>1, RestatedIsOK
<1>3. QED
  BY <1>2, BeginKeeps DEF StartUnlock

(* Publishing and unpublishing the examination. *)
LEMMA ExamWideIsOK ==
    ASSUME MarksInv, NEW op \in Ops \ (ReviewOps \cup {"save", "upload"}),
           NEW rows \in SUBSET Entered,
           NEW status \in MarksStatus, NEW next \in ExamStatus \cup {None}
    PROVE  SessionOK([Holding(op, rows, Restated(rows, status))
                        EXCEPT !.examSeen = exam.version, !.examNew = next], Gone, marks)
<1>1. SessionOK(Holding(op, rows, Restated(rows, status)), Gone, marks)
  BY RestatedIsOK
<1>2. exam.version \in Nat /\ Gone \in BOOLEAN
  BY DEF MarksInv, MarksShape, ExamRow, Gone
<1>3. QED
  BY <1>1, <1>2, ExamSessionIsOK

LEMMA PublishExamKeeps ==
    ASSUME MarksInv, NEW r \in Requests, NEW scope \in SUBSET Papers,
           StartPublishExam(r, scope)
    PROVE  MarksInv'
<1> DEFINE rows == {m \in Entered : m[1] \in scope /\ marks[m].status # "LOCKED"}
           next == IF exam.status \in {"COMPLETED", "ARCHIVED"} THEN exam.status
                                                               ELSE "PUBLISHED"
           s == [Holding("publish_exam", rows, Restated(rows, "PUBLISHED"))
                    EXCEPT !.examSeen = exam.version, !.examNew = next]
<1>1. "publish_exam" \in Ops \ (ReviewOps \cup {"save", "upload"}) /\ "PUBLISHED" \in MarksStatus
      /\ rows \in SUBSET Entered
  BY DEF Ops, ReviewOps, MarksStatus
<1>2. next \in ExamStatus \cup {None}
  BY DEF ExamStatus
<1>3. Begin(r, s)
  BY DEF StartPublishExam
<1> HIDE DEF rows, next
<1>4. SessionOK(s, Gone, marks)
  BY <1>1, <1>2, ExamWideIsOK
<1>5. QED
  BY <1>3, <1>4, BeginKeeps

LEMMA UnpublishExamKeeps ==
    ASSUME MarksInv, NEW r \in Requests, NEW scope \in SUBSET Papers,
           StartUnpublishExam(r, scope)
    PROVE  MarksInv'
<1> DEFINE rows == {m \in Entered : m[1] \in scope /\ marks[m].status = "PUBLISHED"}
           next == IF exam.status = "PUBLISHED" THEN "APPROVED" ELSE None
           s == [Holding("unpublish_exam", rows, Restated(rows, "APPROVED"))
                    EXCEPT !.examSeen = exam.version, !.examNew = next]
<1>1. "unpublish_exam" \in Ops \ (ReviewOps \cup {"save", "upload"}) /\ "APPROVED" \in MarksStatus
      /\ rows \in SUBSET Entered
  BY DEF Ops, ReviewOps, MarksStatus
<1>2. next \in ExamStatus \cup {None}
  BY DEF ExamStatus
<1>3. Begin(r, s)
  BY DEF StartUnpublishExam
<1> HIDE DEF rows, next
<1>4. SessionOK(s, Gone, marks)
  BY <1>1, <1>2, ExamWideIsOK
<1>5. QED
  BY <1>3, <1>4, BeginKeeps

(* Operations that write no row of marks. *)
LEMMA EmptyHoldingIsOK ==
    ASSUME MarksInv, NEW op \in Ops
    PROVE  SessionOK(Holding(op, {}, marks), Gone, marks)
<1>1. MarksShape
  BY DEF MarksInv
<1>2. QED
  BY <1>1, HoldingIsOK

LEMMA TransitionKeeps ==
    ASSUME MarksInv, NEW r \in Requests, NEW target \in ExamStatus,
           NEW override \in BOOLEAN, StartTransition(r, target, override)
    PROVE  MarksInv'
<1>1. SessionOK(Holding("transition", {}, marks), Gone, marks)
  BY EmptyHoldingIsOK DEF Ops
<1>2. exam.version \in Nat /\ Gone \in BOOLEAN
  BY DEF MarksInv, MarksShape, ExamRow, Gone
<1>3. SessionOK([Holding("transition", {}, marks)
                   EXCEPT !.examSeen = exam.version, !.examNew = target], Gone, marks)
  BY <1>1, <1>2, ExamSessionIsOK
<1>4. QED
  BY <1>3, BeginKeeps DEF StartTransition

LEMMA DeleteKeeps ==
    ASSUME MarksInv, NEW r \in Requests, StartDelete(r)
    PROVE  MarksInv'
<1> DEFINE h == Holding("delete", {}, marks)
           s == [h EXCEPT !.examSeen = exam.version]
<1>1. "delete" \in Ops
  BY DEF Ops
<1>2. SessionOK(h, Gone, marks)
  BY <1>1, EmptyHoldingIsOK
<1>3. h.examNew = None
  BY DEF Holding, Idle
<1>4. exam.version \in Nat /\ Gone \in BOOLEAN
  BY DEF MarksInv, MarksShape, ExamRow, Gone
<1>5. Begin(r, s)
  BY DEF StartDelete
<1> HIDE DEF h
<1>6. h \in Session
  BY <1>2 DEF SessionOK
<1>7. s = [h EXCEPT !.examSeen = exam.version, !.examNew = None]
  BY <1>3, <1>6 DEF Session
<1>8. SessionOK(s, Gone, marks)
  BY <1>2, <1>4, <1>7, ExamSessionIsOK
<1> HIDE DEF s
<1>9. QED
  BY <1>5, <1>8, BeginKeeps

LEMMA PurgeKeeps ==
    ASSUME MarksInv, NEW r \in Requests, StartPurge(r)
    PROVE  MarksInv'
  BY EmptyHoldingIsOK, BeginKeeps DEF StartPurge, Ops

(* Entries that clients send. *)
LEMMA SanitisedType ==
    ASSUME NEW e \in Entries, NEW autosave \in BOOLEAN, Acceptable(e, autosave)
    PROVE  Sanitised(e) \in Entry /\ Sanitised(e) \in Stored /\ InRange(Sanitised(e))
  BY EntryTypes, StoredEntry DEF Acceptable

LEMMA ConfirmKeeps ==
    ASSUME MarksInv, NEW r \in Requests, NEW es \in Sheets(Mark),
           NEW duplicates, NEW autoApprove \in BOOLEAN,
           StartConfirm(r, es, duplicates, autoApprove)
    PROVE  MarksInv'
<1> DEFINE rows == IF duplicates = "SKIP_EXISTING" THEN DOMAIN es \ Entered
                                                  ELSE DOMAIN es
           target == IF autoApprove THEN "PUBLISHED" ELSE "SUBMITTED"
           new == [m \in rows |-> [status |-> target, version |-> 0,
                                   entry |-> es[m]]]
<1>1. MarksShape /\ "confirm" \in Ops /\ "confirm" \notin ReviewOps
  BY DEF MarksInv, Ops, ReviewOps
<1>2. rows \in SUBSET Mark /\ \A m \in rows : m \in DOMAIN es /\ es[m] \in Entries
  BY SheetTypes
<1>4. \A m \in rows : es[m] \in Entry /\ es[m] \in Stored
  BY <1>2, EntryTypes, StoredEntry
<1>5. target \in MarksStatus /\ target # "MISSING"
  BY DEF MarksStatus
<1>6. \A m \in rows : /\ new[m] \in MarkRow /\ new[m].status # "MISSING"
                       /\ new[m].entry \in Stored
  BY <1>4, <1>5 DEF MarkRow
<1>7. Begin(r, Holding("confirm", rows, new))
  BY DEF StartConfirm
<1> HIDE DEF rows, new
<1>8. SessionOK(Holding("confirm", rows, new), Gone, marks)
  BY <1>1, <1>2, <1>6, HoldingIsOK
<1>9. QED
  BY <1>7, <1>8, BeginKeeps

LEMMA UploadKeeps ==
    ASSUME MarksInv, NEW r \in Requests, NEW es \in Sheets(Mark), StartUpload(r, es)
    PROVE  MarksInv'
<1> DEFINE rows == {m \in DOMAIN es : InRange(Uploaded(es[m]))}
           next(m) == IF marks[m].status \in {"MISSING", "DRAFT"}
                      THEN "SUBMITTED" ELSE marks[m].status
           new == [m \in rows |-> [status |-> next(m), entry |-> Uploaded(es[m]),
                                   version |-> 0]]
<1>1. MarksShape /\ "upload" \in Ops /\ "upload" \notin ReviewOps
  BY DEF MarksInv, Ops, ReviewOps
<1>2. rows \in SUBSET Mark /\ \A m \in rows : es[m] \in Entries
  BY SheetTypes
<1>3. \A m \in rows : /\ Uploaded(es[m]) \in Entry /\ Uploaded(es[m]) \in Stored
                       /\ InRange(Uploaded(es[m]))
  BY <1>2, EntryTypes, StoredEntry
<1>4. \A m \in rows : next(m) \in MarksStatus /\ next(m) # "MISSING"
  BY <1>1, <1>2 DEF MarksShape, MarkRow, MarksStatus
<1>5. Begin(r, Holding("upload", rows, new))
  BY DEF StartUpload
<1> HIDE DEF rows, next
<1>6. \A m \in rows : /\ new[m] \in MarkRow /\ new[m].status # "MISSING"
                       /\ new[m].entry \in Stored /\ InRange(new[m].entry)
  BY <1>3, <1>4 DEF MarkRow
<1> HIDE DEF new
<1>7. SessionOK(Holding("upload", rows, new), Gone, marks)
  BY <1>1, <1>2, <1>6, HoldingIsOK
<1>8. QED
  BY <1>5, <1>7, BeginKeeps

LEMMA SaveKeeps ==
    ASSUME MarksInv, NEW r \in Requests, NEW e \in Editors, NEW p \in Papers,
           NEW es \in Sheets(Students), NEW status \in SaveStatuses \cup {None},
           NEW withVersions \in BOOLEAN, NEW autosave \in BOOLEAN,
           NEW superuser \in BOOLEAN,
           StartSave(r, e, p, es, status, withVersions, autosave, superuser)
    PROVE  MarksInv'
<1> DEFINE rows == {p} \X DOMAIN es
           present == rows \cap Entered
           checked == {m \in present : withVersions /\ forms[e][m].version > 0}
           next(m) == CASE status # None -> status
                        [] m \in present -> marks[m].status
                        [] OTHER -> "DRAFT"
           new == [m \in rows |-> [status |-> next(m), entry |-> Sanitised(es[m[2]]),
                                   version |-> 0]]
           shown == [m \in Mark |-> IF m \in checked THEN forms[e][m].entry ELSE None]
           h == Holding("save", rows, new)
           s == [h EXCEPT !.checked = checked, !.shown = shown]
<1>1. MarksShape /\ "save" \in Ops /\ "save" \notin ReviewOps /\ ~Gone
  BY DEF MarksInv, Ops, ReviewOps, StartSave, ExamExists, Gone, ExamStatus
<1>2. DOMAIN es \subseteq Students /\ \A st \in DOMAIN es : es[st] \in Entries
  BY SheetTypes
<1>3. rows \in SUBSET Mark /\ \A m \in rows : m[2] \in DOMAIN es
  BY <1>2 DEF Mark
<1>4. \A st \in DOMAIN es : Acceptable(es[st], autosave)
  BY DEF StartSave
<1>5. \A m \in rows : /\ Sanitised(es[m[2]]) \in Entry /\ Sanitised(es[m[2]]) \in Stored
                       /\ InRange(Sanitised(es[m[2]]))
  BY <1>2, <1>3, <1>4, SanitisedType
<1>6. \A m \in rows : next(m) \in MarksStatus /\ next(m) # "MISSING"
  <2>1. \A m \in present : marks[m].status \in MarksStatus
    BY <1>1, <1>3 DEF Entered, MarksShape, MarkRow
  <2>2. status # None => status \in MarksStatus
    BY MarksAssumption
  <2>3. \A m \in rows : next(m) \in MarksStatus
    BY <2>1, <2>2 DEF MarksStatus
  <2>4. QED
    BY <2>3 DEF MarksStatus
<1>7. CurrentVersion(e, checked)
  BY DEF StartSave
<1>8. checked \subseteq rows /\ checked \in SUBSET Mark
  BY <1>3
<1>9. \A m \in checked : marks[m].entry = forms[e][m].entry
  BY <1>1, <1>7, <1>8 DEF CurrentVersion, MarksInv, FormOK
<1>10. Begin(r, s)
  BY DEF StartSave
<1> HIDE DEF next, rows
<1>11. \A m \in rows : /\ new[m] \in MarkRow /\ new[m].status # "MISSING"
                        /\ new[m].entry \in Stored /\ InRange(new[m].entry)
  BY <1>5, <1>6 DEF MarkRow
<1>12. shown \in [Mark -> Entry \cup {None}] /\ \A m \in checked : marks[m].entry = shown[m]
  BY <1>1, <1>8, <1>9 DEF MarksShape, Shown
<1> HIDE DEF new
<1>13. SessionOK(h, Gone, marks)
  BY <1>1, <1>3, <1>11, HoldingIsOK
<1>14. h.op = "save" /\ h.touched = rows
  BY DEF Holding, Idle
<1> HIDE DEF h, checked, shown
<1>15. SessionOK(s, Gone, marks)
  BY <1>8, <1>12, <1>13, <1>14, SavedSessionIsOK DEF Gone
<1>16. QED
  BY <1>10, <1>15, BeginKeeps

-----------------------------------------------------------------------------
(* Forms, students, and requests that end.                                  *)

LEMMA OpenFormKeeps ==
    ASSUME MarksInv, NEW e \in Editors, NEW p \in Papers, OpenForm(e, p)
    PROVE  MarksInv'
<1> DEFINE read == [m \in Mark |-> IF m[1] = p
                                   THEN [entry |-> marks[m].entry, version |-> marks[m].version]
                                   ELSE forms[e][m]]
<1>1. /\ forms \in [Editors -> [Mark -> Shown]] /\ marks \in [Mark -> MarkRow]
      /\ forms' = [forms EXCEPT ![e] = read]
      /\ exam' = exam /\ marks' = marks /\ enrolled' = enrolled /\ requests' = requests
  BY DEF MarksInv, MarksShape, OpenForm
<1>2. read \in [Mark -> Shown]
  BY <1>1 DEF MarkRow, Shown
<1>3. FormOK(read, Gone, marks)
  BY <1>1 DEF FormOK, MarksInv, MarkRow
<1> HIDE DEF read
<1>4. MarksShape'
  BY <1>1, <1>2 DEF MarksInv, MarksShape
<1>5. \A x \in Editors : FormOK(forms'[x], Gone, marks)
  BY <1>1, <1>3 DEF MarksInv
<1>6. QED
  BY <1>1, <1>4, <1>5 DEF MarksInv, Gone

LEMMA MoveKeeps ==
    ASSUME MarksInv, NEW st \in Students, MoveStudent(st)
    PROVE  MarksInv'
<1>1. MarksShape' /\ exam' = exam /\ marks' = marks /\ forms' = forms /\ requests' = requests
  BY DEF MarksInv, MarksShape, MoveStudent
<1>2. QED
  BY <1>1 DEF MarksInv, Gone

(* A handler that leaves the session without writing it. *)
LEMMA EndedRequests ==
    ASSUME MarksInv, NEW r \in Requests, requests' = [requests EXCEPT ![r] = Idle]
    PROVE  /\ requests' \in [Requests -> Session]
           /\ requests'[r] = Idle
           /\ \A x \in Requests \ {r} : requests'[x] = requests[x]
<1>1. Idle \in Session
  BY DEF Idle, Session, Missing, MarkRow, Ops
<1>2. requests \in [Requests -> Session]
  BY DEF MarksInv, MarksShape
<1>3. QED
  BY <1>1, <1>2

LEMMA RollbackKeeps ==
    ASSUME MarksInv, NEW r \in Requests, Rollback(r)
    PROVE  MarksInv'
<1>1. /\ requests' = [requests EXCEPT ![r] = Idle]
      /\ exam' = exam /\ marks' = marks /\ enrolled' = enrolled /\ forms' = forms
  BY DEF Rollback
<1>2. Gone \in BOOLEAN
  BY DEF Gone
<1>3. \A x \in Requests : SessionOK(requests'[x], Gone, marks)
  BY <1>1, <1>2, EndedRequests, IdleIsOK DEF MarksInv
<1>4. MarksShape'
  BY <1>1, EndedRequests DEF MarksInv, MarksShape
<1>5. QED
  BY <1>1, <1>3, <1>4 DEF MarksInv, Gone

LEMMA CommitDeleteKeeps ==
    ASSUME MarksInv, NEW r \in Requests, CommitDelete(r)
    PROVE  MarksInv'
<1>1. /\ requests' = [requests EXCEPT ![r] = Idle]
      /\ exam' = [status |-> "DELETED", version |-> exam.version + 1]
      /\ marks' = marks /\ enrolled' = enrolled /\ forms' = forms
  BY DEF CommitDelete
<1>2. Gone = FALSE /\ Gone' = FALSE
  BY <1>1 DEF CommitDelete, Gone
<1>3. \A x \in Requests : SessionOK(requests'[x], Gone', marks')
  <2> SUFFICES ASSUME NEW x \in Requests PROVE SessionOK(requests'[x], Gone, marks)
    BY <1>1, <1>2
  <2>1. CASE x = r
    BY <1>1, <1>2, <2>1, EndedRequests, IdleIsOK
  <2>2. CASE x # r
    BY <1>1, <2>2, EndedRequests DEF MarksInv
  <2>3. QED
    BY <2>1, <2>2
<1>4. MarksShape'
  <2>1. exam' \in ExamRow
    BY <1>1 DEF MarksInv, MarksShape, ExamRow
  <2>2. requests' \in [Requests -> Session]
    BY <1>1, EndedRequests
  <2>3. QED
    BY <1>1, <2>1, <2>2 DEF MarksInv, MarksShape
<1>5. \A x \in Editors : FormOK(forms'[x], Gone', marks')
  BY <1>1, <1>2 DEF MarksInv
<1>6. RowsOK(marks')
  BY <1>1 DEF MarksInv
<1>7. QED
  BY <1>2, <1>3, <1>4, <1>5, <1>6 DEF MarksInv

(* What a session or form knows survives the permanent deletion trivially. *)
LEMMA GoneIsOK ==
    ASSUME NEW s, NEW gone, NEW ms, NEW later, SessionOK(s, gone, ms)
    PROVE  SessionOK(s, TRUE, later)
  BY DEF SessionOK

LEMMA CommitPurgeKeeps ==
    ASSUME MarksInv, NEW r \in Requests, CommitPurge(r)
    PROVE  MarksInv'
<1>1. /\ requests' = [requests EXCEPT ![r] = Idle]
      /\ exam' = [exam EXCEPT !.status = "GONE"]
      /\ marks' = [m \in Mark |-> Missing] /\ enrolled' = enrolled /\ forms' = forms
  BY DEF CommitPurge
<1>2. exam' \in ExamRow /\ exam'.status = "GONE"
  BY <1>1 DEF MarksInv, MarksShape, ExamRow
<1>3. marks' \in [Mark -> MarkRow]
  BY <1>1 DEF Missing, MarkRow
<1>4. MarksShape'
  BY <1>1, <1>2, <1>3, EndedRequests DEF MarksInv, MarksShape
<1>5. RowsOK(marks')
  BY <1>1 DEF RowsOK, Missing
<1>6. \A x \in Requests : SessionOK(requests'[x], TRUE, marks')
  <2> SUFFICES ASSUME NEW x \in Requests PROVE SessionOK(requests'[x], TRUE, marks')
    OBVIOUS
  <2>1. CASE x = r
    BY <1>1, <2>1, EndedRequests, IdleIsOK
  <2>2. CASE x # r
    BY <1>1, <2>2, EndedRequests, GoneIsOK DEF MarksInv
  <2>3. QED
    BY <2>1, <2>2
<1>7. \A x \in Editors : FormOK(forms'[x], TRUE, marks')
  BY DEF FormOK
<1>8. QED
  BY <1>1, <1>2, <1>4, <1>5, <1>6, <1>7 DEF MarksInv, Gone

(* A commit: the rows it writes move on, the others stay. *)
Written(s, ms) == [m \in Mark |-> IF m \in s.touched
                                  THEN [s.new[m] EXCEPT !.version = ms[m].version + 1]
                                  ELSE ms[m]]

LEMMA WrittenRows ==
    ASSUME MarksInv, NEW s, SessionOK(s, Gone, marks)
    PROVE  /\ Written(s, marks) \in [Mark -> MarkRow]
           /\ RowsOK(Written(s, marks))
           /\ \A m \in s.touched :
                 /\ Written(s, marks)[m].version = marks[m].version + 1
                 /\ Written(s, marks)[m].status = s.new[m].status
                 /\ Written(s, marks)[m].entry = s.new[m].entry
           /\ \A m \in Mark \ s.touched : Written(s, marks)[m] = marks[m]
<1> DEFINE w == Written(s, marks)
<1>1. /\ marks \in [Mark -> MarkRow]
      /\ s.touched \in SUBSET Mark /\ s.new \in [Mark -> MarkRow]
      /\ WritesOK(s)
  BY DEF MarksInv, MarksShape, SessionOK, Session
<1>2. \A m \in s.touched : w[m] = [s.new[m] EXCEPT !.version = marks[m].version + 1]
  BY <1>1 DEF Written
<1>3. \A m \in Mark \ s.touched : w[m] = marks[m]
  BY DEF Written
<1>4. \A m \in s.touched : /\ w[m].version = marks[m].version + 1
                            /\ w[m].status = s.new[m].status
                            /\ w[m].entry = s.new[m].entry
                            /\ w[m] \in MarkRow
  <2> SUFFICES ASSUME NEW m \in s.touched
               PROVE  /\ w[m].version = marks[m].version + 1
                      /\ w[m].status = s.new[m].status
                      /\ w[m].entry = s.new[m].entry
                      /\ w[m] \in MarkRow
    OBVIOUS
  <2>1. s.new[m] \in MarkRow /\ marks[m].version \in Nat
    BY <1>1 DEF MarkRow
  <2> DEFINE n == s.new[m]
  <2>2. w[m] = [n EXCEPT !.version = marks[m].version + 1]
    BY <1>2
  <2> HIDE DEF w, n
  <2>3. n \in MarkRow
    BY <2>1 DEF n
  <2>4. w[m] \in MarkRow /\ w[m].version = marks[m].version + 1
        /\ w[m].status = n.status /\ w[m].entry = n.entry
    BY <2>1, <2>2, <2>3 DEF MarkRow
  <2>5. QED
    BY <2>4 DEF n
<1>5. w \in [Mark -> MarkRow]
  <2>1. \A m \in Mark : w[m] \in MarkRow
    BY <1>1, <1>3, <1>4
  <2>2. QED
    BY <2>1 DEF Written
<1>6. RowsOK(w)
  <2> SUFFICES ASSUME NEW m \in Mark
               PROVE  /\ w[m].version = 0 => w[m] = Missing
                      /\ w[m].version # 0 => /\ w[m].status # "MISSING"
                                             /\ w[m].entry \in Stored
    BY DEF RowsOK
  <2> HIDE DEF w
  <2>1. CASE m \in s.touched
    <3>1. marks[m].version + 1 # 0
      BY <1>1 DEF MarkRow
    <3>2. QED
      BY <1>1, <1>4, <2>1, <3>1 DEF WritesOK
  <2>2. CASE m \notin s.touched
    BY <1>3, <2>2 DEF MarksInv, RowsOK
  <2>3. QED
    BY <2>1, <2>2
<1>7. QED
  BY <1>3, <1>4, <1>5, <1>6

LEMMA CommitFacts ==
    ASSUME MarksInv, NEW r \in Requests, Commit(r)
    PROVE  /\ marks' = Written(requests[r], marks)
           /\ requests' = [requests EXCEPT ![r] = Idle]
           /\ enrolled' = enrolled /\ forms' = forms
           /\ exam' \in ExamRow /\ Gone' = Gone
           /\ Gone => marks' = marks /\ exam' = exam
<1> DEFINE s == requests[r]
<1>1. /\ marks' = Written(s, marks)
      /\ exam' = IF s.examNew = None THEN exam
                 ELSE [status |-> s.examNew, version |-> exam.version + 1]
      /\ requests' = [requests EXCEPT ![r] = Idle]
      /\ enrolled' = enrolled /\ forms' = forms
      /\ Fresh(s)
  BY DEF Commit, Written
<1>2. s \in Session /\ s.touched \in SUBSET Mark /\ s.examNew \in ExamStatus \cup {None}
  BY DEF MarksInv, MarksShape, Session
<1>3. exam \in ExamRow /\ marks \in [Mark -> MarkRow]
  BY DEF MarksInv, MarksShape
<1> HIDE DEF s
<1>4. exam' \in ExamRow
  <2>1. CASE s.examNew = None
    BY <1>1, <1>3, <2>1
  <2>2. CASE s.examNew # None
    BY <1>1, <1>2, <1>3, <2>2 DEF ExamRow
  <2>3. QED
    BY <2>1, <2>2
<1>5. CASE Gone
  <2>1. \A m \in Mark : marks[m].version = 0
    BY <1>5 DEF MarksInv, Missing
  <2>2. s.touched = {}
    BY <1>1, <1>2, <1>5, <2>1 DEF Fresh, Gone
  <2>3. s.examNew = None
    BY <1>1, <1>5 DEF Fresh, Gone
  <2>4. marks' = marks
    BY <1>1, <1>3, <2>2 DEF Written
  <2>5. exam' = exam
    BY <1>1, <2>3
  <2>6. Gone' = Gone
    BY <2>5 DEF Gone
  <2>7. QED
    BY <1>1, <1>4, <2>4, <2>5, <2>6 DEF s
<1>6. CASE ~Gone
  <2>1. exam'.status # "GONE"
    <3>1. CASE s.examNew = None
      BY <1>1, <1>6, <3>1 DEF Gone
    <3>2. CASE s.examNew # None
      BY <1>1, <1>2, <3>2 DEF ExamStatus
    <3>3. QED
      BY <3>1, <3>2
  <2>2. Gone' = Gone
    BY <1>6, <2>1 DEF Gone
  <2>3. QED
    BY <1>1, <1>4, <1>6, <2>2 DEF s
<1>7. QED
  BY <1>5, <1>6

(* What another session has read of a row is true of it until the row moves. *)
LEMMA OthersStayOK ==
    ASSUME MarksInv, NEW r \in Requests, Commit(r), NEW t, SessionOK(t, Gone, marks)
    PROVE  SessionOK(t, Gone', marks')
<1> DEFINE s == requests[r]
<1>1. /\ Gone' = Gone
      /\ marks \in [Mark -> MarkRow] /\ t \in Session
      /\ marks' = Written(s, marks)
  BY CommitFacts DEF MarksInv, MarksShape, SessionOK
<1>2. \A m \in s.touched : marks'[m].version = marks[m].version + 1
  BY <1>1, WrittenRows DEF MarksInv
<1>3. \A m \in Mark \ s.touched : marks'[m] = marks[m]
  BY <1>1, WrittenRows DEF MarksInv
<1> HIDE DEF s
<1>4. ASSUME ~Gone, NEW m \in t.touched
      PROVE  /\ t.seen[m] <= marks'[m].version
             /\ t.seen[m] = marks'[m].version => StillTrue(t, m, marks'[m])
  <2>1. m \in Mark /\ t.seen[m] \in Nat /\ marks[m].version \in Nat
    BY <1>1, <1>4 DEF Session, MarkRow
  <2>2. /\ t.seen[m] <= marks[m].version
        /\ t.seen[m] = marks[m].version => StillTrue(t, m, marks[m])
    BY <1>4 DEF SessionOK
  <2>3. QED
    BY <1>2, <1>3, <2>1, <2>2
<1>5. QED
  BY <1>1, <1>4 DEF SessionOK

LEMMA CommitKeeps ==
    ASSUME MarksInv, NEW r \in Requests, Commit(r)
    PROVE  MarksInv'
<1> DEFINE s == requests[r]
<1>1. /\ marks' = Written(s, marks)
      /\ requests' = [requests EXCEPT ![r] = Idle]
      /\ enrolled' = enrolled /\ forms' = forms
      /\ exam' \in ExamRow /\ Gone' = Gone
      /\ Gone => marks' = marks /\ exam' = exam
  BY CommitFacts
<1>2. SessionOK(s, Gone, marks)
  BY DEF MarksInv
<1>3. /\ marks' \in [Mark -> MarkRow] /\ RowsOK(marks')
      /\ \A m \in s.touched : marks'[m].version = marks[m].version + 1
      /\ \A m \in Mark \ s.touched : marks'[m] = marks[m]
  BY <1>1, <1>2, WrittenRows
<1>4. MarksShape'
  <2>1. requests' \in [Requests -> Session]
    BY <1>1, EndedRequests
  <2>2. QED
    BY <1>1, <1>3, <2>1 DEF MarksInv, MarksShape
<1>5. Gone' => marks' = [m \in Mark |-> Missing]
  BY <1>1 DEF MarksInv
<1>6. \A x \in Requests : SessionOK(requests'[x], Gone', marks')
  <2> SUFFICES ASSUME NEW x \in Requests PROVE SessionOK(requests'[x], Gone', marks')
    OBVIOUS
  <2>1. CASE x = r
    <3>1. Gone' \in BOOLEAN /\ requests'[x] = Idle
      BY <1>1, <2>1, EndedRequests DEF Gone
    <3>2. QED
      BY <3>1, IdleIsOK
  <2>2. CASE x # r
    <3>1. requests'[x] = requests[x]
      BY <1>1, <2>2, EndedRequests
    <3>2. SessionOK(requests[x], Gone, marks)
      BY DEF MarksInv
    <3>3. QED
      BY <3>1, <3>2, OthersStayOK
  <2>3. QED
    BY <2>1, <2>2
<1>7. \A x \in Editors : FormOK(forms'[x], Gone', marks')
  <2> SUFFICES ASSUME NEW x \in Editors, ~Gone, NEW m \in Mark
               PROVE  /\ forms[x][m].version <= marks'[m].version
                      /\ forms[x][m].version = marks'[m].version
                             => forms[x][m].entry = marks'[m].entry
    BY <1>1 DEF FormOK
  <2>1. /\ forms[x][m].version <= marks[m].version
        /\ forms[x][m].version = marks[m].version => forms[x][m].entry = marks[m].entry
    BY DEF MarksInv, FormOK
  <2>2. forms[x][m].version \in Nat /\ marks[m].version \in Nat
    BY DEF MarksInv, MarksShape, MarkRow, Shown
  <2> HIDE DEF s
  <2>3. QED
    BY <1>3, <2>1, <2>2
<1>8. QED
  BY <1>3, <1>4, <1>5, <1>6, <1>7 DEF MarksInv

-----------------------------------------------------------------------------
(* The invariant.                                                           *)

LEMMA InitInv == MarksInit => MarksInv
<1> SUFFICES ASSUME MarksInit PROVE MarksInv
  OBVIOUS
<1>1. /\ exam = [status |-> "DRAFT", version |-> 1]
      /\ marks = [m \in Mark |-> Missing]
      /\ enrolled = Students
      /\ forms = [e \in Editors |-> [m \in Mark |-> [entry |-> None, version |-> 0]]]
      /\ requests = [r \in Requests |-> Idle]
  BY DEF MarksInit
<1>2. Missing \in MarkRow /\ Missing.version = 0 /\ Missing.entry = None
  BY DEF Missing, MarkRow
<1>3. Gone = FALSE /\ exam \in ExamRow
  BY <1>1 DEF Gone, ExamRow, ExamStatus
<1>4. Idle \in Session
  BY DEF Idle, Session, Missing, MarkRow, Ops
<1>5. forms \in [Editors -> [Mark -> Shown]]
  BY <1>1 DEF Shown
<1>6. MarksShape
  BY <1>1, <1>2, <1>3, <1>4, <1>5 DEF MarksShape
<1>7. RowsOK(marks)
  BY <1>1, <1>2 DEF RowsOK
<1>8. \A e \in Editors : FormOK(forms[e], Gone, marks)
  BY <1>1, <1>2 DEF FormOK
<1>9. \A r \in Requests : SessionOK(requests[r], Gone, marks)
  BY <1>1, <1>3, IdleIsOK
<1>10. QED
  BY <1>1, <1>6, <1>7, <1>8, <1>9 DEF MarksInv

(* A request that starts. *)
Start(r) ==
    \/ \E e \in Editors, p \in Papers, es \in Sheets(Students),
          status \in SaveStatuses \cup {None},
          withVersions, autosave, superuser \in BOOLEAN :
          StartSave(r, e, p, es, status, withVersions, autosave, superuser)
    \/ \E es \in Sheets(Mark) : StartUpload(r, es)
    \/ \E es \in Sheets(Mark), autoApprove \in BOOLEAN, duplicates \in
          {"UPDATE_EXISTING", "SKIP_EXISTING", "FAIL_DUPLICATE"} :
          StartConfirm(r, es, duplicates, autoApprove)
    \/ \E p \in Papers, allowPartial \in BOOLEAN : StartSubmit(r, p, allowPartial)
    \/ \E p \in Papers : \/ StartApprove(r, p) \/ StartReturn(r, p)
                         \/ StartPublish(r, p) \/ StartLock(r, p)
                         \/ StartUnlock(r, p)
    \/ \E scope \in SUBSET Papers : \/ StartPublishExam(r, scope)
                                   \/ StartUnpublishExam(r, scope)
    \/ \E target \in ExamStatus : StartTransition(r, target, FALSE)
    \/ \E target \in Overrides : StartTransition(r, target, TRUE)
    \/ StartDelete(r) \/ StartPurge(r)

(* What is read of a file is a sheet, so a file is a save like others. *)
LEMMA FileIsSave ==
    ASSUME NEW r, NEW e, NEW p, NEW es \in Sheets(Students), NEW superuser,
           StartFile(r, e, p, es, superuser)
    PROVE  \E fs \in Sheets(Students) :
              StartSave(r, e, p, fs, None, FALSE, FALSE, superuser)
<1> DEFINE read == {st \in DOMAIN es \cap enrolled :
                      es[st].result = "ABSENT" \/ InRange(es[st])}
           fs == [st \in read |-> es[st]]
<1>1. read # {} /\ StartSave(r, e, p, fs, None, FALSE, FALSE, superuser)
  BY DEF StartFile
<1>2. DOMAIN es \in SUBSET Students /\ es \in [DOMAIN es -> Entries]
  BY DEF Sheets
<1>3. fs \in [read -> Entries]
  BY <1>2
<1>4. read \in (SUBSET Students) \ {{}}
  BY <1>1, <1>2
<1> HIDE DEF read, fs
<1>5. fs \in Sheets(Students)
  BY <1>3, <1>4 DEF Sheets
<1>6. QED
  BY <1>1, <1>5

LEMMA NextCases ==
    ASSUME MarksNext
    PROVE  \/ \E st \in Students : MoveStudent(st)
           \/ \E e \in Editors, p \in Papers : OpenForm(e, p)
           \/ \E r \in Requests : Start(r)
           \/ \E r \in Requests :
                 Commit(r) \/ CommitDelete(r) \/ CommitPurge(r) \/ Rollback(r)
<1>1. CASE \E r \in Requests : \E e \in Editors, p \in Papers,
              es \in Sheets(Students), superuser \in BOOLEAN :
              StartFile(r, e, p, es, superuser)
  <2>1. PICK r \in Requests, e \in Editors, p \in Papers, superuser \in BOOLEAN :
           \E fs \in Sheets(Students) :
              StartSave(r, e, p, fs, None, FALSE, FALSE, superuser)
    BY <1>1, FileIsSave
  <2>2. None \in SaveStatuses \cup {None} /\ FALSE \in BOOLEAN
    OBVIOUS
  <2>3. Start(r)
    BY Zenon, <2>1, <2>2 DEF Start
  <2>4. QED
    BY <2>3
<1>2. CASE ~ \E r \in Requests : \E e \in Editors, p \in Papers,
              es \in Sheets(Students), superuser \in BOOLEAN :
              StartFile(r, e, p, es, superuser)
  BY Zenon, <1>2 DEF MarksNext, Start
<1>3. QED
  BY <1>1, <1>2

LEMMA StartKeeps ==
    ASSUME MarksInv, NEW r \in Requests, Start(r)
    PROVE  MarksInv'
<1>1. CASE \E e \in Editors, p \in Papers, es \in Sheets(Students),
              status \in SaveStatuses \cup {None},
              withVersions, autosave, superuser \in BOOLEAN :
              StartSave(r, e, p, es, status, withVersions, autosave, superuser)
  BY <1>1, SaveKeeps
<1>2. CASE \E es \in Sheets(Mark) : StartUpload(r, es)
  BY <1>2, UploadKeeps
<1>3. CASE \E es \in Sheets(Mark), autoApprove \in BOOLEAN, duplicates \in
              {"UPDATE_EXISTING", "SKIP_EXISTING", "FAIL_DUPLICATE"} :
              StartConfirm(r, es, duplicates, autoApprove)
  BY <1>3, ConfirmKeeps
<1>4. CASE \E p \in Papers, allowPartial \in BOOLEAN : StartSubmit(r, p, allowPartial)
  BY <1>4, ReviewKeeps DEF StartSubmit, ReviewOps, MarksStatus
<1>5. CASE \E p \in Papers : \/ StartApprove(r, p) \/ StartReturn(r, p)
                             \/ StartPublish(r, p) \/ StartLock(r, p)
                             \/ StartUnlock(r, p)
  BY <1>5, ReviewKeeps, UnlockKeeps
     DEF StartApprove, StartReturn, StartPublish, StartLock, ReviewOps, MarksStatus
<1>6. CASE \E scope \in SUBSET Papers : \/ StartPublishExam(r, scope)
                                       \/ StartUnpublishExam(r, scope)
  BY <1>6, PublishExamKeeps, UnpublishExamKeeps
<1>7. CASE \/ \E target \in ExamStatus : StartTransition(r, target, FALSE)
           \/ \E target \in Overrides : StartTransition(r, target, TRUE)
  BY <1>7, TransitionKeeps, MarksAssumption
<1>8. CASE StartDelete(r) \/ StartPurge(r)
  BY <1>8, DeleteKeeps, PurgeKeeps
<1>9. QED
  BY Zenon, <1>1, <1>2, <1>3, <1>4, <1>5, <1>6, <1>7, <1>8 DEF Start

LEMMA StepInv == MarksInv /\ [MarksNext]_marksVars => MarksInv'
<1> SUFFICES ASSUME MarksInv, [MarksNext]_marksVars PROVE MarksInv'
  OBVIOUS
<1>1. CASE \E st \in Students : MoveStudent(st)
  BY <1>1, MoveKeeps
<1>2. CASE \E e \in Editors, p \in Papers : OpenForm(e, p)
  BY <1>2, OpenFormKeeps
<1>3. CASE \E r \in Requests : Start(r)
  BY <1>3, StartKeeps
<1>4. CASE \E r \in Requests :
              Commit(r) \/ CommitDelete(r) \/ CommitPurge(r) \/ Rollback(r)
  BY <1>4, CommitKeeps, CommitDeleteKeeps, CommitPurgeKeeps, RollbackKeeps
<1>5. CASE UNCHANGED marksVars
  <2>1. exam' = exam /\ marks' = marks /\ enrolled' = enrolled
        /\ forms' = forms /\ requests' = requests
    BY <1>5 DEF marksVars
  <2>2. MarksShape'
    BY <2>1 DEF MarksInv, MarksShape
  <2>3. QED
    BY <2>1, <2>2 DEF MarksInv, Gone
<1>6. QED
  BY <1>1, <1>2, <1>3, <1>4, <1>5, NextCases

(* In every reachable state a session, or a form, that has read the current *)
(* version of a row knows the row; and after a permanent deletion there are *)
(* no rows (services/marks.py, models/marks.py version_id_col).             *)
THEOREM MarksInvariant == MarksSpec => []MarksInv
  BY InitInv, StepInv, PTL DEF MarksSpec

(* Every row, form and session stays within its type, and no save and no    *)
(* upload that the handlers run comes to commit a value outside the paper's *)
(* range; what a confirmed sheet brings is bounded by nothing.              *)
THEOREM TypesHold == MarksSpec => []MarksTypeOK
<1>1. MarksInv => MarksTypeOK
  BY DEF MarksInv, MarksTypeOK, SessionOK
<1>2. QED
  BY <1>1, MarksInvariant, PTL

-----------------------------------------------------------------------------
(* What steps never do.                                                     *)

(* Only a commit and a permanent deletion write marks. *)
LEMMA StartWritesNothing ==
    ASSUME NEW r \in Requests, Start(r)
    PROVE  marks' = marks /\ exam' = exam
<1>1. ASSUME \E s : Begin(r, s) PROVE marks' = marks /\ exam' = exam
  BY <1>1 DEF Begin
<1>2. CASE \E e \in Editors, p \in Papers, es \in Sheets(Students),
              status \in SaveStatuses \cup {None},
              withVersions, autosave, superuser \in BOOLEAN :
              StartSave(r, e, p, es, status, withVersions, autosave, superuser)
  <2>1. ASSUME NEW e, NEW p, NEW es, NEW status, NEW withVersions, NEW autosave,
               NEW superuser,
               StartSave(r, e, p, es, status, withVersions, autosave, superuser)
        PROVE  marks' = marks /\ exam' = exam
    BY <2>1 DEF StartSave, Begin
  <2>2. QED
    BY <1>2, <2>1
<1>3. CASE \/ \E es \in Sheets(Mark) : StartUpload(r, es)
           \/ \E es \in Sheets(Mark), autoApprove \in BOOLEAN, duplicates \in
                {"UPDATE_EXISTING", "SKIP_EXISTING", "FAIL_DUPLICATE"} :
                StartConfirm(r, es, duplicates, autoApprove)
  BY Zenon, <1>1, <1>3 DEF StartUpload, StartConfirm
<1>4. CASE \/ \E p \in Papers, allowPartial \in BOOLEAN : StartSubmit(r, p, allowPartial)
           \/ \E p \in Papers : \/ StartApprove(r, p) \/ StartReturn(r, p)
                               \/ StartPublish(r, p) \/ StartLock(r, p)
                               \/ StartUnlock(r, p)
  BY Zenon, <1>1, <1>4 DEF StartSubmit, StartApprove, StartReturn, StartPublish,
                           StartLock, StartReview, StartUnlock
<1>5. CASE \E scope \in SUBSET Papers : \/ StartPublishExam(r, scope)
                                       \/ StartUnpublishExam(r, scope)
  BY Zenon, <1>1, <1>5 DEF StartPublishExam, StartUnpublishExam
<1>6. CASE \/ \E target \in ExamStatus : StartTransition(r, target, FALSE)
           \/ \E target \in Overrides : StartTransition(r, target, TRUE)
           \/ StartDelete(r) \/ StartPurge(r)
  BY Zenon, <1>1, <1>6 DEF StartTransition, StartDelete, StartPurge
<1>7. QED
  BY Zenon, <1>2, <1>3, <1>4, <1>5, <1>6 DEF Start

LEMMA WhoWritesMarks ==
    ASSUME [MarksNext]_marksVars
    PROVE  \/ marks' = marks
           \/ \E r \in Requests : Commit(r) \/ CommitPurge(r)
<1>1. CASE \E st \in Students : MoveStudent(st)
  BY <1>1 DEF MoveStudent
<1>2. CASE \E e \in Editors, p \in Papers : OpenForm(e, p)
  BY <1>2 DEF OpenForm
<1>3. CASE \E r \in Requests : Start(r)
  BY <1>3, StartWritesNothing
<1>4. CASE \E r \in Requests :
              Commit(r) \/ CommitDelete(r) \/ CommitPurge(r) \/ Rollback(r)
  BY <1>4 DEF CommitDelete, Rollback
<1>5. CASE UNCHANGED marksVars
  BY <1>5 DEF marksVars
<1>6. QED
  BY <1>1, <1>2, <1>3, <1>4, <1>5, NextCases

(* The request that ends with a commit is the one that committed. *)
LEMMA CommitsItsOwn ==
    ASSUME MarksInv, NEW r \in Requests, NEW x \in Requests,
           Commit(x) \/ CommitPurge(x),
           requests[r].op # "idle", requests'[r].op = "idle"
    PROVE  x = r
<1>1. requests' = [requests EXCEPT ![x] = Idle]
  BY DEF Commit, CommitPurge
<1>2. QED
  BY <1>1, EndedRequests

(* A row that a commit writes over still was as the session had read it. *)
LEMMA CommittedRow ==
    ASSUME MarksInv, NEW r \in Requests, Commit(r), NEW m \in Mark
    PROVE  \/ marks'[m] = marks[m]
           \/ /\ m \in requests[r].touched
              /\ StillTrue(requests[r], m, marks[m])
              /\ marks'[m].status = requests[r].new[m].status
              /\ marks'[m].entry = requests[r].new[m].entry
              /\ marks'[m].status # "MISSING"
<1> DEFINE s == requests[r]
<1>1. SessionOK(s, Gone, marks) /\ marks' = Written(s, marks) /\ (Gone => marks' = marks)
  BY CommitFacts DEF MarksInv
<1>2. Fresh(s)
  BY DEF Commit
<1>3. CASE Gone
  BY <1>1, <1>3
<1>4. CASE m \notin s.touched
  BY <1>1, <1>4, WrittenRows
<1>5. CASE m \in s.touched /\ ~Gone
  <2>1. marks'[m].status = s.new[m].status /\ marks'[m].entry = s.new[m].entry
    BY <1>1, <1>5, WrittenRows
  <2>2. s.seen[m] = marks[m].version
    BY <1>2, <1>5 DEF Fresh
  <2> HIDE DEF s
  <2>3. StillTrue(s, m, marks[m]) /\ s.new[m].status # "MISSING"
    BY <1>1, <1>5, <2>2 DEF SessionOK, WritesOK
  <2>4. QED
    BY <1>5, <2>1, <2>3 DEF s
<1>6. QED
  BY <1>3, <1>4, <1>5

(* No review takes a row through a transition that                          *)
(* _validate_marks_transition forbids, or alters a value, whatever other    *)
(* handlers commit between its check and its commit (services/marks.py).    *)
THEOREM ReviewsAreLegal == MarksSpec => ReviewIsLegal
<1> DEFINE Legal == \A r \in Requests :
                requests[r].op \in ReviewOps /\ requests'[r].op = "idle" =>
                    \A m \in Entered :
                        /\ marks'[m].status # "MISSING"
                        /\ Allowed(marks[m].status, marks'[m].status)
                        /\ marks'[m].entry = marks[m].entry
<1>1. MarksInv /\ [MarksNext]_marksVars => Legal
  <2> SUFFICES ASSUME MarksInv, [MarksNext]_marksVars, NEW r \in Requests,
                      requests[r].op \in ReviewOps, requests'[r].op = "idle",
                      NEW m \in Entered
               PROVE  /\ marks'[m].status # "MISSING"
                      /\ Allowed(marks[m].status, marks'[m].status)
                      /\ marks'[m].entry = marks[m].entry
    OBVIOUS
  <2>1. m \in Mark /\ marks[m].status # "MISSING"
    BY DEF Entered
  <2>2. CASE marks'[m] = marks[m]
    BY <2>1, <2>2 DEF Allowed
  <2>3. ASSUME NEW x \in Requests, Commit(x) \/ CommitPurge(x)
        PROVE  /\ marks'[m].status # "MISSING"
               /\ Allowed(marks[m].status, marks'[m].status)
               /\ marks'[m].entry = marks[m].entry
    <3>1. x = r
      BY <2>3, CommitsItsOwn DEF ReviewOps
    <3>2. Commit(r)
      BY <2>3, <3>1 DEF CommitPurge, ReviewOps
    <3>3. QED
      BY <2>1, <2>2, <3>2, CommittedRow DEF StillTrue
  <2>4. QED
    BY <2>2, <2>3, WhoWritesMarks
<1>2. QED
  BY <1>1, MarksInvariant, PTL DEF MarksSpec, ReviewIsLegal

(* A save that sends versions overwrites no entry its form did not show     *)
(* (bulk_save_marks, the version check and version_id_col together).        *)
THEOREM SavesAreSeen == MarksSpec => NoUnseenOverwrite
<1> DEFINE Seen == \A r \in Requests :
                requests[r].op = "save" /\ requests'[r].op = "idle" =>
                    \A m \in requests[r].checked :
                        marks'[m].entry # marks[m].entry =>
                            marks[m].entry = requests[r].shown[m]
<1>1. MarksInv /\ [MarksNext]_marksVars => Seen
  <2> SUFFICES ASSUME MarksInv, [MarksNext]_marksVars, NEW r \in Requests,
                      requests[r].op = "save", requests'[r].op = "idle",
                      NEW m \in requests[r].checked,
                      marks'[m].entry # marks[m].entry
               PROVE  marks[m].entry = requests[r].shown[m]
    OBVIOUS
  <2>1. m \in Mark
    BY DEF MarksInv, MarksShape, Session
  <2>2. PICK x \in Requests : Commit(x) \/ CommitPurge(x)
    BY WhoWritesMarks
  <2>3. x = r
    BY <2>2, CommitsItsOwn
  <2>4. Commit(r)
    BY <2>2, <2>3 DEF CommitPurge
  <2>5. QED
    BY <2>1, <2>4, CommittedRow DEF StillTrue
<1>2. QED
  BY <1>1, MarksInvariant, PTL DEF MarksSpec, NoUnseenOverwrite

-----------------------------------------------------------------------------
(* The lifecycle of the examination: what a session is about to make of the *)
(* examination is legal as long as it has the version that was read.        *)

Unmoved(s, ex) == s.examSeen = ex.version /\ ex.status # "GONE"
MoveOK(s, ex) ==
    /\ s.examNew # None => /\ s.examSeen <= ex.version
                           /\ Unmoved(s, ex) => \/ s.examNew = ex.status
                                                \/ LegalMove(ex.status, s.examNew)
    /\ s.op = "delete" => /\ s.examSeen <= ex.version
                          /\ Unmoved(s, ex) => ex.status = "DRAFT"
MovesOK == \A r \in Requests : MoveOK(requests[r], exam)

LEMMA IdleMove == \A ex : MoveOK(Idle, ex)
  BY DEF MoveOK, Idle

(* Operations that do not write the examination. *)
LEMMA HoldingMove ==
    ASSUME NEW op, op # "delete", NEW rows, NEW new
    PROVE  MoveOK(Holding(op, rows, new), exam)
<1>1. Holding(op, rows, new).op = op /\ Holding(op, rows, new).examNew = None
  BY DEF Holding, Idle
<1>2. QED
  BY <1>1 DEF MoveOK

LEMMA SaveMove ==
    ASSUME NEW rows, NEW new, NEW checked, NEW shown
    PROVE  MoveOK([Holding("save", rows, new)
                     EXCEPT !.checked = checked, !.shown = shown], exam)
<1> DEFINE s == [Holding("save", rows, new) EXCEPT !.checked = checked, !.shown = shown]
<1>1. s.op = "save" /\ s.examNew = None
  BY DEF Holding, Idle
<1>2. QED
  BY <1>1 DEF MoveOK

(* Operations that write it with the version they have read. *)
LEMMA ExamMove ==
    ASSUME MarksInv, NEW op, op # "delete", NEW rows, NEW new, NEW next,
           next = None \/ next = exam.status \/ LegalMove(exam.status, next)
    PROVE  MoveOK([Holding(op, rows, new)
                     EXCEPT !.examSeen = exam.version, !.examNew = next], exam)
<1> DEFINE s == [Holding(op, rows, new) EXCEPT !.examSeen = exam.version, !.examNew = next]
<1>1. s.op = op /\ s.examNew = next /\ s.examSeen = exam.version
  BY DEF Holding, Idle
<1>2. exam.version \in Nat
  BY DEF MarksInv, MarksShape, ExamRow
<1>3. QED
  BY <1>1, <1>2 DEF MoveOK

LEMMA DeleteMove ==
    ASSUME MarksInv, exam.status = "DRAFT", NEW new
    PROVE  MoveOK([Holding("delete", {}, new) EXCEPT !.examSeen = exam.version], exam)
<1> DEFINE s == [Holding("delete", {}, new) EXCEPT !.examSeen = exam.version]
<1>1. s.op = "delete" /\ s.examNew = None /\ s.examSeen = exam.version
  BY DEF Holding, Idle
<1>2. exam.version \in Nat
  BY DEF MarksInv, MarksShape, ExamRow
<1>3. QED
  BY <1>1, <1>2 DEF MoveOK

LEMMA BegunMoves ==
    ASSUME MarksInv, MovesOK, NEW r \in Requests, NEW s, MoveOK(s, exam), Begin(r, s)
    PROVE  MovesOK' /\ exam' = exam
<1>1. requests' = [requests EXCEPT ![r] = s] /\ exam' = exam
  BY DEF Begin
<1>2. requests \in [Requests -> Session]
  BY DEF MarksInv, MarksShape
<1>3. \A x \in Requests : requests'[x] = IF x = r THEN s ELSE requests[x]
  BY <1>1, <1>2
<1>4. QED
  BY <1>1, <1>3 DEF MovesOK

LEMMA StartMoves ==
    ASSUME MarksInv, MovesOK, NEW r \in Requests, Start(r)
    PROVE  MovesOK' /\ exam' = exam
<1>1. ASSUME NEW e \in Editors, NEW p \in Papers, NEW es \in Sheets(Students),
             NEW status \in SaveStatuses \cup {None}, NEW withVersions \in BOOLEAN,
             NEW autosave \in BOOLEAN, NEW superuser \in BOOLEAN,
             StartSave(r, e, p, es, status, withVersions, autosave, superuser)
      PROVE  MovesOK' /\ exam' = exam
  <2>1. PICK rows, new, checked, shown :
            Begin(r, [Holding("save", rows, new)
                        EXCEPT !.checked = checked, !.shown = shown])
    BY <1>1 DEF StartSave
  <2>2. QED
    BY <2>1, SaveMove, BegunMoves
<1>2. ASSUME \E op, rows, new : op # "delete" /\ Begin(r, Holding(op, rows, new))
      PROVE  MovesOK' /\ exam' = exam
  BY <1>2, HoldingMove, BegunMoves
<1>3. CASE \/ \E es \in Sheets(Mark) : StartUpload(r, es)
           \/ \E es \in Sheets(Mark), autoApprove \in BOOLEAN, duplicates \in
                {"UPDATE_EXISTING", "SKIP_EXISTING", "FAIL_DUPLICATE"} :
                StartConfirm(r, es, duplicates, autoApprove)
  <2>1. "upload" # "delete" /\ "confirm" # "delete"
    OBVIOUS
  <2>2. \E op, rows, new : op # "delete" /\ Begin(r, Holding(op, rows, new))
    BY Zenon, <1>3, <2>1 DEF StartUpload, StartConfirm
  <2>3. QED
    BY <1>2, <2>2
<1>4. CASE \/ \E p \in Papers, allowPartial \in BOOLEAN : StartSubmit(r, p, allowPartial)
           \/ \E p \in Papers : \/ StartApprove(r, p) \/ StartReturn(r, p)
                               \/ StartPublish(r, p) \/ StartLock(r, p)
                               \/ StartUnlock(r, p)
  <2>1. /\ "submit" # "delete" /\ "approve" # "delete" /\ "return" # "delete"
        /\ "publish" # "delete" /\ "lock" # "delete" /\ "unlock" # "delete"
    OBVIOUS
  <2>2. \E op, rows, new : op # "delete" /\ Begin(r, Holding(op, rows, new))
    BY Zenon, <1>4, <2>1 DEF StartSubmit, StartApprove, StartReturn, StartPublish,
                             StartLock, StartReview, StartUnlock
  <2>3. QED
    BY <1>2, <2>2
<1>5. ASSUME NEW op, op # "delete",
             \E rows, new, next :
                 /\ next = None \/ next = exam.status \/ LegalMove(exam.status, next)
                 /\ Begin(r, [Holding(op, rows, new)
                                EXCEPT !.examSeen = exam.version, !.examNew = next])
      PROVE  MovesOK' /\ exam' = exam
  BY <1>5, ExamMove, BegunMoves
<1>6. ASSUME NEW scope \in SUBSET Papers, StartPublishExam(r, scope)
      PROVE  MovesOK' /\ exam' = exam
  <2> DEFINE rows == {m \in Entered : m[1] \in scope /\ marks[m].status # "LOCKED"}
             next == IF exam.status \in {"COMPLETED", "ARCHIVED"} THEN exam.status
                                                                 ELSE "PUBLISHED"
  <2>1. Begin(r, [Holding("publish_exam", rows, Restated(rows, "PUBLISHED"))
                    EXCEPT !.examSeen = exam.version, !.examNew = next])
    BY <1>6 DEF StartPublishExam
  <2>2. next = exam.status \/ LegalMove(exam.status, next)
    BY <1>6 DEF StartPublishExam, ExamExists, LegalMove
  <2> HIDE DEF rows, next
  <2>3. QED
    BY <1>5, <2>1, <2>2
<1>7. ASSUME NEW scope \in SUBSET Papers, StartUnpublishExam(r, scope)
      PROVE  MovesOK' /\ exam' = exam
  <2> DEFINE rows == {m \in Entered : m[1] \in scope /\ marks[m].status = "PUBLISHED"}
             next == IF exam.status = "PUBLISHED" THEN "APPROVED" ELSE None
  <2>1. Begin(r, [Holding("unpublish_exam", rows, Restated(rows, "APPROVED"))
                    EXCEPT !.examSeen = exam.version, !.examNew = next])
    BY <1>7 DEF StartUnpublishExam
  <2>2. next = None \/ LegalMove(exam.status, next)
    BY DEF LegalMove
  <2> HIDE DEF rows, next
  <2>3. QED
    BY <1>5, <2>1, <2>2
<1>8. ASSUME NEW target, NEW override \in BOOLEAN, StartTransition(r, target, override),
             override => target \in Overrides
      PROVE  MovesOK' /\ exam' = exam
  <2>1. Begin(r, [Holding("transition", {}, marks)
                    EXCEPT !.examSeen = exam.version, !.examNew = target])
    BY <1>8 DEF StartTransition
  <2>2. LegalMove(exam.status, target)
    BY <1>8 DEF StartTransition, ExamExists, LegalMove
  <2>3. QED
    BY <1>5, <2>1, <2>2
<1>9. CASE StartDelete(r) \/ StartPurge(r)
  BY <1>9, DeleteMove, HoldingMove, BegunMoves DEF StartDelete, StartPurge
<1>10. CASE \/ \E target \in ExamStatus : StartTransition(r, target, FALSE)
            \/ \E target \in Overrides : StartTransition(r, target, TRUE)
  BY <1>8, <1>10
<1>11. CASE \E e \in Editors, p \in Papers, es \in Sheets(Students),
               status \in SaveStatuses \cup {None},
               withVersions, autosave, superuser \in BOOLEAN :
               StartSave(r, e, p, es, status, withVersions, autosave, superuser)
  BY <1>1, <1>11
<1>12. CASE \E scope \in SUBSET Papers : \/ StartPublishExam(r, scope)
                                        \/ StartUnpublishExam(r, scope)
  BY <1>6, <1>7, <1>12
<1>13. QED
  BY Zenon, <1>3, <1>4, <1>9, <1>10, <1>11, <1>12 DEF Start

(* Versions only grow, so what another session has read of the examination  *)
(* is out of date once it has been written.                                 *)
LEMMA LaterMove ==
    ASSUME NEW s \in Session, NEW ex \in ExamRow, NEW later \in ExamRow,
           \/ later = ex \/ later.version = ex.version + 1
           \/ later.version = ex.version /\ later.status = "GONE",
           MoveOK(s, ex)
    PROVE  MoveOK(s, later)
<1>1. s.examSeen \in Nat /\ ex.version \in Nat /\ later.version \in Nat
  BY DEF Session, ExamRow
<1>2. QED
  BY <1>1 DEF MoveOK, Unmoved

LEMMA EndMoves ==
    ASSUME MarksInv, MovesOK, NEW r \in Requests,
           Commit(r) \/ CommitDelete(r) \/ CommitPurge(r) \/ Rollback(r)
    PROVE  MovesOK' /\ (exam'.status # exam.status => LegalMove(exam.status, exam'.status))
<1> DEFINE s == requests[r]
<1>1. requests' = [requests EXCEPT ![r] = Idle]
  BY DEF Commit, CommitDelete, CommitPurge, Rollback
<1>2. s \in Session /\ MoveOK(s, exam) /\ exam \in ExamRow /\ exam.version \in Nat
  BY DEF MarksInv, MarksShape, MovesOK, ExamRow
<1>3. MarksInv'
  BY CommitKeeps, CommitDeleteKeeps, CommitPurgeKeeps, RollbackKeeps
<1>4. exam' \in ExamRow
  BY <1>3 DEF MarksInv, MarksShape
<1>5. /\ \/ exam' = exam \/ exam'.version = exam.version + 1
         \/ exam'.version = exam.version /\ exam'.status = "GONE"
      /\ exam'.status # exam.status => LegalMove(exam.status, exam'.status)
  <2>1. CASE Commit(r)
    <3>1. exam' = IF s.examNew = None THEN exam
                  ELSE [status |-> s.examNew, version |-> exam.version + 1]
      BY <2>1 DEF Commit
    <3>2. s.examNew # None => Unmoved(s, exam)
      BY <2>1 DEF Commit, Fresh, Unmoved
    <3> HIDE DEF s
    <3>3. QED
      BY <1>2, <3>1, <3>2 DEF MoveOK
  <2>2. CASE CommitDelete(r)
    <3>1. /\ exam' = [status |-> "DELETED", version |-> exam.version + 1]
          /\ Unmoved(s, exam) /\ s.op = "delete"
      BY <2>2 DEF CommitDelete, Unmoved
    <3> HIDE DEF s
    <3>2. QED
      BY <1>2, <3>1 DEF MoveOK, LegalMove
  <2>3. CASE CommitPurge(r)
    <3>1. exam'.status = "GONE" /\ exam'.version = exam.version
      BY <1>2, <2>3 DEF CommitPurge, ExamRow
    <3>2. QED
      BY <3>1 DEF LegalMove
  <2>4. CASE Rollback(r)
    BY <2>4 DEF Rollback
  <2>5. QED
    BY <2>1, <2>2, <2>3, <2>4
<1>6. ASSUME NEW x \in Requests PROVE MoveOK(requests'[x], exam')
  <2>1. CASE x = r
    BY <1>1, <2>1, EndedRequests, IdleMove
  <2>2. CASE x # r
    <3>1. requests'[x] = requests[x]
      BY <1>1, <2>2, EndedRequests
    <3>2. requests[x] \in Session /\ MoveOK(requests[x], exam)
      BY DEF MarksInv, MarksShape, MovesOK
    <3>3. QED
      BY <1>2, <1>4, <1>5, <3>1, <3>2, LaterMove
  <2>3. QED
    BY <2>1, <2>2
<1>7. QED
  BY <1>5, <1>6 DEF MovesOK

LEMMA StepMoves ==
    ASSUME MarksInv, MovesOK, [MarksNext]_marksVars
    PROVE  MovesOK' /\ (exam'.status # exam.status => LegalMove(exam.status, exam'.status))
<1>1. CASE \E st \in Students : MoveStudent(st)
  BY <1>1 DEF MoveStudent, MovesOK
<1>2. CASE \E e \in Editors, p \in Papers : OpenForm(e, p)
  BY <1>2 DEF OpenForm, MovesOK
<1>3. CASE \E r \in Requests : Start(r)
  BY <1>3, StartMoves
<1>4. CASE \E r \in Requests :
              Commit(r) \/ CommitDelete(r) \/ CommitPurge(r) \/ Rollback(r)
  BY <1>4, EndMoves
<1>5. CASE UNCHANGED marksVars
  BY <1>5 DEF marksVars, MovesOK
<1>6. QED
  BY <1>1, <1>2, <1>3, <1>4, <1>5, NextCases

(* The examination moves only along its lifecycle, whatever transitions,    *)
(* publications and deletions overlap (transition_exam_status,              *)
(* publish_examination_marks, delete_examination).                          *)
THEOREM LifecycleHolds == MarksSpec => LifecycleIsLegal
<1>1. MarksInit => MovesOK
  BY IdleMove DEF MarksInit, MovesOK
<1>2. MarksInv /\ MovesOK /\ [MarksNext]_marksVars => MovesOK'
  BY StepMoves
<1>3. MarksInv /\ MovesOK /\ [MarksNext]_marksVars
          => (exam'.status # exam.status => LegalMove(exam.status, exam'.status))
  BY StepMoves
<1>4. QED
  BY <1>1, <1>2, <1>3, MarksInvariant, PTL DEF MarksSpec, LifecycleIsLegal

-----------------------------------------------------------------------------
(* MarksWorkflow implements MarksBoard.                                     *)

Period == CASE exam.status = "GONE" -> "GONE"
            [] exam.status \in Reportable -> "REPORTABLE"
            [] OTHER -> "CLOSED"
Rowed == [m \in Mark |-> Public(marks[m])]

LEMMA InitBoard == MarksInit => Board!BoardInit
<1> SUFFICES ASSUME MarksInit PROVE Board!BoardInit
  OBVIOUS
<1>1. exam.status = "DRAFT" /\ \A m \in Mark : marks[m] = Missing
  BY DEF MarksInit
<1>2. Period = "CLOSED"
  BY <1>1 DEF Period, Reportable
<1>3. Rowed = [m \in Board!Slot |-> Board!NoRow]
  BY <1>1 DEF Rowed, Public, Missing, Mark, Board!Slot, Board!NoRow
<1>4. QED
  BY <1>2, <1>3 DEF Board!BoardInit, Period, Rowed

LEMMA CommitBoard ==
    ASSUME MarksInv, NEW r \in Requests, Commit(r)
    PROVE  Board!BoardNext \/ UNCHANGED Board!boardVars
<1> DEFINE s == requests[r]
           content == [m \in s.touched |-> s.new[m].entry]
<1>1. /\ marks' = Written(s, marks) /\ exam' \in ExamRow /\ Gone' = Gone
      /\ (Gone => marks' = marks /\ exam' = exam)
      /\ SessionOK(s, Gone, marks)
  BY CommitFacts DEF MarksInv
<1>2. CASE Gone
  <2>1. Period' = Period /\ Rowed' = Rowed
    BY <1>1, <1>2 DEF Period, Rowed
  <2>2. QED
    BY <2>1 DEF Board!boardVars, Period, Rowed
<1>3. CASE ~Gone
  <2>1. Period # "GONE"
    BY <1>3 DEF Period, Gone
  <2>2. Period' \in {"CLOSED", "REPORTABLE"}
    <3>1. exam'.status # "GONE"
      BY <1>1, <1>3 DEF Gone
    <3>2. QED
      BY <3>1 DEF Period
  <2>3. s.touched \in SUBSET Board!Slot
    BY <1>1 DEF SessionOK, Session, Mark, Board!Slot
  <2>4. content \in [s.touched -> Stored]
    BY <1>1 DEF SessionOK, WritesOK
  <2>5. Rowed' = [m \in Board!Slot |->
                    IF m \in s.touched
                    THEN [entry |-> content[m], version |-> Rowed[m].version + 1]
                    ELSE Rowed[m]]
    <3>1. \A m \in s.touched : /\ marks'[m].version = marks[m].version + 1
                               /\ marks'[m].entry = s.new[m].entry
      BY <1>1, WrittenRows
    <3>2. \A m \in Mark \ s.touched : marks'[m] = marks[m]
      BY <1>1, WrittenRows
    <3> HIDE DEF s
    <3>3. QED
      BY <3>1, <3>2 DEF Rowed, Public, Mark, Board!Slot
  <2> HIDE DEF content
  <2>6. Board!Change(s.touched, content, Period')
    BY <2>1, <2>5 DEF Board!Change, Period, Rowed
  <2>7. QED
    BY <2>2, <2>3, <2>4, <2>6 DEF Board!BoardNext, Stored
<1>4. QED
  BY <1>2, <1>3

(* Every step of the handlers is a step of the board or leaves it alone, so *)
(* a row is only replaced by its next version, and rows go away only with   *)
(* the examination, for good.                                               *)
THEOREM WorkflowImplementsBoard == MarksSpec => ImplementsBoard
<1>1. MarksInv /\ [MarksNext]_marksVars => [Board!BoardNext]_(Board!boardVars)
  <2> SUFFICES ASSUME MarksInv, [MarksNext]_marksVars
               PROVE  Board!BoardNext \/ UNCHANGED Board!boardVars
    OBVIOUS
  <2>1. ASSUME exam' = exam, marks' = marks
        PROVE  UNCHANGED Board!boardVars
    BY <2>1 DEF Board!boardVars
  <2>2. CASE \E st \in Students : MoveStudent(st)
    BY <2>1, <2>2 DEF MoveStudent
  <2>3. CASE \E e \in Editors, p \in Papers : OpenForm(e, p)
    BY <2>1, <2>3 DEF OpenForm
  <2>4. CASE \E r \in Requests : Start(r)
    BY <2>1, <2>4, StartWritesNothing
  <2>5. CASE \E r \in Requests : Commit(r)
    BY <2>5, CommitBoard
  <2>6. CASE \E r \in Requests : CommitDelete(r)
    <3>1. exam.status # "GONE" /\ exam'.status = "DELETED" /\ marks' = marks
      BY <2>6 DEF CommitDelete
    <3>2. Period # "GONE" /\ Period' = "CLOSED" /\ Rowed' = Rowed
      BY <3>1 DEF Period, Reportable, Rowed
    <3> DEFINE nothing == [m \in {} |-> None]
    <3>3. Rowed' = [m \in Board!Slot |->
                      IF m \in {}
                      THEN [entry |-> nothing[m], version |-> Rowed[m].version + 1]
                      ELSE Rowed[m]]
      BY <3>2 DEF Rowed, Mark, Board!Slot
    <3>4. Board!Change({}, nothing, "CLOSED")
      BY <3>2, <3>3 DEF Board!Change, Period, Rowed
    <3>5. {} \in SUBSET Board!Slot /\ nothing \in [{} -> Stored]
      OBVIOUS
    <3> HIDE DEF nothing
    <3>6. QED
      BY <3>4, <3>5 DEF Board!BoardNext, Stored
  <2>7. CASE \E r \in Requests : CommitPurge(r)
    <3>1. exam'.status = "GONE" /\ \A m \in Mark : marks'[m] = Missing
      BY <2>7 DEF CommitPurge, MarksInv, MarksShape, ExamRow
    <3>2. Period' = "GONE"
      BY <3>1 DEF Period, Reportable
    <3>3. Rowed' = [m \in Board!Slot |-> Board!NoRow]
      BY <3>1 DEF Rowed, Public, Missing, Mark, Board!Slot, Board!NoRow
    <3>4. Board!Remove
      BY <3>2, <3>3 DEF Board!Remove, Period, Rowed
    <3>5. QED
      BY <3>4 DEF Board!BoardNext
  <2>8. CASE \E r \in Requests : Rollback(r)
    BY <2>1, <2>8 DEF Rollback
  <2>9. CASE UNCHANGED marksVars
    BY <2>1, <2>9 DEF marksVars
  <2>10. QED
    BY <2>2, <2>3, <2>4, <2>5, <2>6, <2>7, <2>8, <2>9, NextCases
<1>2. QED
  BY <1>1, InitBoard, MarksInvariant, PTL DEF MarksSpec, ImplementsBoard, Board!BoardSpec
=============================================================================
