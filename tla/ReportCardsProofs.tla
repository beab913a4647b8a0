------------------------- MODULE ReportCardsProofs -------------------------
(***************************************************************************)
(* Proofs about ReportCards, for every set of papers, students, entries    *)
(* and handlers: its types, that a locked card is frozen, that a published *)
(* one is complete, that it is withdrawn only for a reason, and that its   *)
(* file is stored.                                                         *)
(*                                                                         *)
(* A handler decides on the card it has read.  As long as the version is   *)
(* the one that was read, the card is the one that was read; what was true *)
(* of the marks when they were read need not be any more, but versions of  *)
(* marks only grow until the examination is gone.                          *)
(*                                                                         *)
(* From "Results" on, proofs about ResultPolicy, for every class, maximum, *)
(* policy and sheet: a better sheet has no worse result, the two ranks     *)
(* agree, a percentage has one grade.  The code's loops are sums and       *)
(* products over finite sets.  A sum of natural numbers is the cardinality *)
(* of a set with as many cells for each term as the term says, a product   *)
(* of a set of choices: so sums are compared as finite sets are.           *)
(***************************************************************************)
EXTENDS ReportCards, ResultPolicy, FiniteSetTheorems, WellFoundedInduction,
        TLAPS

Public == {"PUBLISHED", "LOCKED"}

(* A row without a version holds nothing; a removed period has no rows. *)
BoardOK ==
    /\ \A m \in Slot : board[m].version = 0 => board[m] = NoRow
    /\ period = "GONE" => \A m \in Slot : board[m] = NoRow

(* What a published card keeps of its publication. *)
Complete(card) ==
    card.status \in Public =>
        /\ card.snapshot # None
        /\ \A p \in Papers : /\ card.snapshot[p] # None
                             /\ card.snapshot[p].value # None

CardOK(card, file) ==
    /\ card.version = 0 => card = NoCard
    /\ card.version > 0 => card.status # "ABSENT"
    /\ card.status # "ABSENT" => file # None
    /\ Complete(card)

(* The marks of the student moved since the clock of the publication. *)
MovedSince(st, card, per, brd) ==
    per # "GONE" => \E p \in Papers : brd[<<p, st>>].version > card.publishedAt[p]

(* What a handler that read the card at its version may do to it. *)
MayLeave(s, st, card, per, brd) ==
    /\ card.status = "LOCKED" => /\ s.new[st].status \in Public
                                 /\ s.new[st].compiled = card.compiled
                                 /\ s.new[st].snapshot = card.snapshot
    /\ card.status = "PUBLISHED" => \/ s.new[st].status = "PUBLISHED"
                                    \/ s.op \in {"unpublish", "lock"}
                                    \/ MovedSince(st, card, per, brd)

(* Until the publication of a class is compiled it holds the cards it read; *)
(* from then on, as any other handler, what it will leave of them.          *)
RowOK(s, st, per, brd, card, file) ==
    /\ s.seen[st] <= card.version
    /\ s.seen[st] # 0 => file # None
    /\ s.step = "ready" => file # None
    /\ s.step = "compiled" => st \in s.uploads \/ file # None
    /\ s.step = "clock" /\ s.op = "publish_class" =>
          /\ file # None
          /\ s.seen[st] = card.version => s.new[st].status = card.status
    /\ s.step # "clock" =>
          /\ s.new[st].status # "ABSENT"
          /\ Complete(s.new[st])
          /\ s.seen[st] = card.version => MayLeave(s, st, card, per, brd)

HandlerOK(s, per, brd, cs, fs) ==
    /\ s.step = "compiled" => s.sheet # None
    /\ s.op = "download" => s.sheet # None
    /\ s.step = "clock" => s.op \in {"bulk_publish", "publish_class"}
    /\ \A st \in s.touched : RowOK(s, st, per, brd, cs[st], fs[st])

CardsInv ==
    /\ CardsTypeOK
    /\ BoardOK
    /\ \A st \in Students : CardOK(cards[st], files[st])
    /\ \A h \in Handlers : HandlerOK(handlers[h], period, board, cards, files)

-----------------------------------------------------------------------------
(* Sheets and cards.                                                        *)

LEMMA SheetTypes ==
    ASSUME CardsInv, NEW st \in Students
    PROVE  /\ SheetOf(st) \in Sheet /\ SheetOf(st) # None
           /\ VersionsOf(st) \in [Papers -> Nat]
           /\ \A p \in Papers : /\ SheetOf(st)[p] = board[<<p, st>>].entry
                                /\ VersionsOf(st)[p] = board[<<p, st>>].version
<1>1. board \in [Slot -> Row] /\ \A p \in Papers : <<p, st>> \in Slot
  BY DEF CardsInv, CardsTypeOK, BoardTypeOK, Slot
<1>2. SheetOf(st) \in Sheet
  BY <1>1 DEF SheetOf, Sheet, Row
<1>3. VersionsOf(st) \in [Papers -> Nat]
  BY <1>1 DEF VersionsOf, Row
<1>4. SheetOf(st) # None
  BY <1>2, CardsAssumption
<1>5. QED
  BY <1>2, <1>3, <1>4 DEF SheetOf, VersionsOf

(* In a filled student's marks every row has an entry, hence a version. *)
LEMMA FilledIsEntered ==
    ASSUME CardsInv, NEW st \in Students, Filled(st)
    PROVE  \A p \in Papers : /\ SheetOf(st)[p] # None /\ SheetOf(st)[p].value # None
                             /\ VersionsOf(st)[p] > 0
<1> SUFFICES ASSUME NEW p \in Papers
             PROVE  /\ SheetOf(st)[p] # None /\ SheetOf(st)[p].value # None
                    /\ VersionsOf(st)[p] > 0
  OBVIOUS
<1>1. SheetOf(st)[p] # None /\ SheetOf(st)[p].value # None
  BY DEF Filled
<1>2. <<p, st>> \in Slot
  BY DEF Slot
<1>3. board[<<p, st>>].version # 0
  BY <1>1, <1>2, SheetTypes DEF CardsInv, BoardOK, NoRow
<1>4. board[<<p, st>>].version \in Nat
  BY <1>2 DEF CardsInv, CardsTypeOK, BoardTypeOK, Row
<1>5. QED
  BY <1>1, <1>3, <1>4, SheetTypes

LEMMA CardTypes ==
    ASSUME CardsInv, NEW st \in Students
    PROVE  /\ cards[st] \in Card /\ files[st] \in Sheet \cup {None}
           /\ cards[st].version \in Nat
           /\ CardOK(cards[st], files[st])
  BY DEF CardsInv, CardsTypeOK, Card

LEMMA RestatedCard ==
    ASSUME CardsInv, NEW st \in Students, NEW status \in CardStatus
    PROVE  /\ Restated(st, status) \in Card
           /\ Restated(st, status).status = status
           /\ Restated(st, status).compiled = cards[st].compiled
           /\ Restated(st, status).snapshot = cards[st].snapshot
           /\ Restated(st, status).publishedAt = cards[st].publishedAt
<1> DEFINE c == cards[st]
<1>1. c \in Card
  BY CardTypes
<1>2. Restated(st, status) = [c EXCEPT !.status = status]
  BY DEF Restated
<1> HIDE DEF c
<1>3. /\ [c EXCEPT !.status = status] \in Card
      /\ [c EXCEPT !.status = status].status = status
      /\ [c EXCEPT !.status = status].compiled = c.compiled
      /\ [c EXCEPT !.status = status].snapshot = c.snapshot
      /\ [c EXCEPT !.status = status].publishedAt = c.publishedAt
  BY <1>1 DEF Card
<1>4. QED
  BY <1>2, <1>3 DEF c

LEMMA RegeneratedCard ==
    ASSUME CardsInv, NEW st \in Students
    PROVE  Regenerated(st) \in Card /\ Regenerated(st).status = "DRAFT"
<1> DEFINE c == cards[st]
           sheet == SheetOf(st)
<1>1. c \in Card /\ sheet \in Sheet
  BY CardTypes, SheetTypes
<1>2. Regenerated(st) = [c EXCEPT !.status = "DRAFT", !.compiled = sheet, !.snapshot = None]
  BY DEF Regenerated
<1> HIDE DEF c, sheet
<1>3. QED
  BY <1>1, <1>2 DEF Card, CardStatus

LEMMA PublishedCard ==
    ASSUME CardsInv, NEW st \in Students, NEW card \in Card, Valid(st)
    PROVE  /\ Published(card, st) \in Card /\ Published(card, st).status = "PUBLISHED"
           /\ Complete(Published(card, st))
<1> DEFINE sheet == SheetOf(st)
<1>1. sheet \in Sheet /\ sheet # None
  BY SheetTypes
<1>2. \A p \in Papers : sheet[p] # None /\ sheet[p].value # None
  BY FilledIsEntered DEF Valid
<1>3. Published(card, st) = [card EXCEPT !.status = "PUBLISHED", !.snapshot = sheet]
  BY DEF Published
<1> HIDE DEF sheet
<1>4. /\ Published(card, st) \in Card /\ Published(card, st).status = "PUBLISHED"
      /\ Published(card, st).snapshot = sheet
  BY <1>1, <1>3 DEF Card, CardStatus
<1>5. QED
  BY <1>1, <1>2, <1>4 DEF Complete

-----------------------------------------------------------------------------
(* Handlers that start.                                                     *)

LEMMA IdleIsOK ==
    ASSUME NEW per, NEW brd, NEW cs, NEW fs
    PROVE  Idle \in Session /\ Idle.op = "idle" /\ HandlerOK(Idle, per, brd, cs, fs)
<1>1. NoCard \in Card
  BY DEF NoCard, Card
<1>2. Idle \in Session
  BY <1>1 DEF Idle, Session
<1>3. Idle.op = "idle" /\ Idle.step = "none" /\ Idle.touched = {}
  BY DEF Idle
<1>4. QED
  BY <1>2, <1>3 DEF HandlerOK

LEMMA HoldingFields ==
    ASSUME CardsInv, NEW op \in Ops, NEW sts \in SUBSET Students, NEW new,
           \A st \in sts : new[st] \in Card
    PROVE  /\ Holding(op, sts, new) \in Session
           /\ Holding(op, sts, new).op = op /\ Holding(op, sts, new).step = "ready"
           /\ Holding(op, sts, new).touched = sts
           /\ \A st \in sts : /\ Holding(op, sts, new).seen[st] = cards[st].version
                              /\ Holding(op, sts, new).new[st] = new[st]
<1> DEFINE seen == [st \in Students |-> IF st \in sts THEN cards[st].version ELSE 0]
           written == [st \in Students |-> IF st \in sts THEN new[st] ELSE NoCard]
           s == [Idle EXCEPT !.op = op, !.step = "ready", !.touched = sts,
                             !.seen = seen, !.new = written]
<1>1. Holding(op, sts, new) = s
  BY DEF Holding
<1>2. seen \in [Students -> Nat] /\ \A st \in sts : seen[st] = cards[st].version
  BY CardTypes
<1>3. written \in [Students -> Card] /\ \A st \in sts : written[st] = new[st]
  BY DEF NoCard, Card
<1>4. Idle \in Session
  BY IdleIsOK
<1> HIDE DEF seen, written
<1>5. s \in Session /\ s.op = op /\ s.step = "ready" /\ s.touched = sts
      /\ s.seen = seen /\ s.new = written
  BY <1>2, <1>3, <1>4 DEF Session
<1> HIDE DEF s
<1>6. QED
  BY <1>1, <1>2, <1>3, <1>5

LEMMA HeldKeeps ==
    ASSUME CardsInv, NEW h \in Handlers, NEW s \in Session,
           HandlerOK(s, period, board, cards, files),
           handlers' = [handlers EXCEPT ![h] = s],
           period' = period, board' = board, cards' = cards, files' = files
    PROVE  CardsInv'
<1>1. handlers \in [Handlers -> Session]
  BY DEF CardsInv, CardsTypeOK
<1>2. CardsTypeOK'
  BY <1>1 DEF CardsInv, CardsTypeOK, BoardTypeOK
<1>3. \A x \in Handlers : HandlerOK(handlers'[x], period, board, cards, files)
  BY <1>1 DEF CardsInv
<1>4. QED
  BY <1>2, <1>3 DEF CardsInv, BoardOK

LEMMA BeginKeeps ==
    ASSUME CardsInv, NEW h \in Handlers, NEW s \in Session, HandlerOK(s, period, board, cards, files),
           Begin(h, s)
    PROVE  CardsInv'
<1>1. /\ handlers' = [handlers EXCEPT ![h] = s]
      /\ period' = period /\ board' = board /\ cards' = cards /\ files' = files
  BY DEF Begin
<1>2. QED
  BY <1>1, HeldKeeps

(* A card with a version has a file. *)
LEMMA SeenIsStored ==
    ASSUME CardsInv, NEW st \in Students
    PROVE  /\ cards[st].version # 0 => files[st] # None
           /\ cards[st].status # "ABSENT" => files[st] # None
  BY CardTypes DEF CardOK

(* The conditions under which a handler that is ready to commit is OK. *)
LEMMA ReadyKeeps ==
    ASSUME CardsInv, NEW h \in Handlers, NEW op \in Ops, NEW sts \in SUBSET Students, NEW new,
           \A st \in sts : /\ new[st] \in Card /\ new[st].status # "ABSENT"
                           /\ Complete(new[st])
                           /\ cards[st].status # "ABSENT"
                           /\ cards[st].status = "LOCKED" =>
                                 /\ new[st].status \in Public
                                 /\ new[st].compiled = cards[st].compiled
                                 /\ new[st].snapshot = cards[st].snapshot
                           /\ cards[st].status = "PUBLISHED" =>
                                 new[st].status = "PUBLISHED" \/ op \in {"unpublish", "lock"},
           Begin(h, Holding(op, sts, new))
    PROVE  CardsInv'
<1> DEFINE s == Holding(op, sts, new)
<1>1. /\ s \in Session /\ s.op = op /\ s.step = "ready" /\ s.touched = sts
      /\ \A st \in sts : s.seen[st] = cards[st].version /\ s.new[st] = new[st]
  <2>1. \A st \in sts : new[st] \in Card
    OBVIOUS
  <2>2. QED
    BY <2>1, HoldingFields
<1>2. Begin(h, s)
  OBVIOUS
<1> HIDE DEF s
<1>3. \A st \in sts : RowOK(s, st, period, board, cards[st], files[st])
  <2> SUFFICES ASSUME NEW st \in sts PROVE RowOK(s, st, period, board, cards[st], files[st])
    OBVIOUS
  <2>1. cards[st].version \in Nat /\ CardOK(cards[st], files[st])
    BY CardTypes
  <2>2. MayLeave(s, st, cards[st], period, board)
    BY <1>1 DEF MayLeave
  <2>3. s.seen[st] <= cards[st].version
    BY <1>1, <2>1
  <2>4. files[st] # None
    BY <2>1 DEF CardOK
  <2>5. QED
    BY <1>1, <2>2, <2>3, <2>4 DEF RowOK
<1>4. HandlerOK(s, period, board, cards, files)
  BY <1>1, <1>3 DEF HandlerOK, Ops
<1>5. QED
  BY <1>1, <1>2, <1>4, BeginKeeps

LEMMA MoveKeeps ==
    ASSUME CardsInv, NEW h \in Handlers, NEW op \in Ops, NEW st \in Students,
           NEW from \in SUBSET CardStatus, NEW status \in CardStatus,
           Move(h, op, st, from, status),
           "LOCKED" \in from => status \in Public,
           "PUBLISHED" \in from => status = "PUBLISHED" \/ op \in {"unpublish", "lock"},
           status \in Public => from \subseteq Public
    PROVE  CardsInv'
<1> DEFINE new == [x \in {st} |-> Restated(x, status)]
<1>1. cards[st].status \in from /\ Begin(h, Holding(op, {st}, new))
  BY DEF Move
<1>2. /\ new[st] \in Card /\ new[st].status = status
      /\ new[st].compiled = cards[st].compiled /\ new[st].snapshot = cards[st].snapshot
      /\ new[st].publishedAt = cards[st].publishedAt
  BY RestatedCard
<1> HIDE DEF new
<1>3. Complete(cards[st])
  BY CardTypes DEF CardOK
<1>4. Complete(new[st])
  BY <1>1, <1>2, <1>3 DEF Complete
<1>5. status # "ABSENT" /\ cards[st].status # "ABSENT"
  BY <1>1 DEF CardStatus
<1>6. \A x \in {st} : /\ new[x] \in Card /\ new[x].status # "ABSENT"
                      /\ Complete(new[x])
                      /\ cards[x].status # "ABSENT"
                      /\ cards[x].status = "LOCKED" =>
                            /\ new[x].status \in Public
                            /\ new[x].compiled = cards[x].compiled
                            /\ new[x].snapshot = cards[x].snapshot
                      /\ cards[x].status = "PUBLISHED" =>
                            new[x].status = "PUBLISHED" \/ op \in {"unpublish", "lock"}
  BY <1>1, <1>2, <1>4, <1>5
<1>7. QED
  BY <1>1, <1>6, ReadyKeeps

LEMMA MovesKeep ==
    ASSUME CardsInv, NEW h \in Handlers, NEW st \in Students,
           \/ StartSubmit(h, st) \/ StartApprove(h, st) \/ StartReject(h, st)
           \/ StartUnpublish(h, st) \/ StartLock(h, st) \/ StartUnlock(h, st)
    PROVE  CardsInv'
<1>1. CASE StartSubmit(h, st)
  BY <1>1, MoveKeeps DEF StartSubmit, Ops, CardStatus, Public
<1>2. CASE StartApprove(h, st)
  BY <1>2, MoveKeeps DEF StartApprove, Ops, CardStatus, Public
<1>3. CASE StartReject(h, st)
  BY <1>3, MoveKeeps DEF StartReject, Ops, CardStatus, Public
<1>4. CASE StartUnpublish(h, st)
  BY <1>4, MoveKeeps DEF StartUnpublish, Ops, CardStatus, Public
<1>5. CASE StartLock(h, st)
  BY <1>5, MoveKeeps DEF StartLock, Ops, CardStatus, Public
<1>6. CASE StartUnlock(h, st)
  BY <1>6, MoveKeeps DEF StartUnlock, Ops, CardStatus, Public
<1>7. QED
  BY <1>1, <1>2, <1>3, <1>4, <1>5, <1>6

LEMMA BulkApproveKeeps ==
    ASSUME CardsInv, NEW h \in Handlers, NEW sts \in SUBSET Students, StartBulkApprove(h, sts)
    PROVE  CardsInv'
<1> DEFINE chosen == {st \in sts : /\ cards[st].status \in {"DRAFT", "UNDER_REVIEW"}
                                   /\ Valid(st)}
           new == [st \in chosen |-> Restated(st, "APPROVED")]
<1>1. Begin(h, Holding("bulk_approve", chosen, new))
  BY DEF StartBulkApprove
<1>2. chosen \in SUBSET Students /\ "APPROVED" \in CardStatus /\ "bulk_approve" \in Ops
  BY DEF CardStatus, Ops
<1>3. \A st \in chosen : cards[st].status \in {"DRAFT", "UNDER_REVIEW"}
  OBVIOUS
<1>4. \A st \in chosen : new[st] \in Card /\ new[st].status = "APPROVED"
  BY <1>2, RestatedCard
<1> HIDE DEF chosen, new
<1>5. \A st \in chosen : Complete(new[st])
  BY <1>4 DEF Complete, Public
<1>6. QED
  BY <1>1, <1>2, <1>3, <1>4, <1>5, ReadyKeeps

(* A publication that has read its clock. *)
LEMMA ClockFields ==
    ASSUME CardsInv, NEW op \in Ops, NEW sts \in SUBSET Students, NEW card,
           \A st \in sts : card[st] \in Card
    PROVE  /\ Clock(op, sts, card) \in Session
           /\ Clock(op, sts, card).op = op /\ Clock(op, sts, card).step = "clock"
           /\ Clock(op, sts, card).touched = sts
           /\ \A st \in sts : /\ Clock(op, sts, card).seen[st] = cards[st].version
                              /\ Clock(op, sts, card).new[st].status = card[st].status
<1> DEFINE new == [st \in sts |-> [card[st] EXCEPT !.publishedAt = VersionsOf(st)]]
           g == Holding(op, sts, new)
           s == [g EXCEPT !.step = "clock"]
<1>1. ASSUME NEW st \in sts PROVE new[st] \in Card /\ new[st].status = card[st].status
  <2> DEFINE c == card[st]
             versions == VersionsOf(st)
  <2>1. c \in Card /\ versions \in [Papers -> Nat]
    BY SheetTypes
  <2>2. new[st] = [c EXCEPT !.publishedAt = versions]
    OBVIOUS
  <2> HIDE DEF c, versions, new
  <2>3. new[st] \in Card /\ new[st].status = c.status
    BY <2>1, <2>2 DEF Card
  <2>4. QED
    BY <2>3 DEF c
<1>2. Clock(op, sts, card) = s
  BY DEF Clock
<1> HIDE DEF new
<1>3. /\ g \in Session /\ g.op = op /\ g.touched = sts
      /\ \A st \in sts : g.seen[st] = cards[st].version /\ g.new[st] = new[st]
  BY <1>1, HoldingFields
<1> HIDE DEF g
<1>4. /\ s \in Session /\ s.op = op /\ s.step = "clock" /\ s.touched = sts
      /\ s.seen = g.seen /\ s.new = g.new
  BY <1>3 DEF Session
<1> HIDE DEF s
<1>5. QED
  BY <1>1, <1>2, <1>3, <1>4

LEMMA BulkPublishKeeps ==
    ASSUME CardsInv, NEW h \in Handlers, NEW sts \in SUBSET Students, StartBulkPublish(h, sts)
    PROVE  CardsInv'
<1> DEFINE none == [st \in sts |-> NoCard]
           op == "bulk_publish"
           g == Clock(op, sts, none)
           zero == Idle.seen
           s == [g EXCEPT !.seen = zero]
<1>1. Begin(h, s)
  BY DEF StartBulkPublish
<1>2. \A st \in sts : none[st] \in Card
  BY DEF NoCard, Card
<1>3. zero \in [Students -> Nat] /\ \A st \in Students : zero[st] = 0
  BY DEF Idle
<1> HIDE DEF none, zero
<1>4. g \in Session /\ g.op = "bulk_publish" /\ g.step = "clock" /\ g.touched = sts
  <2>1. op \in Ops
    BY DEF Ops
  <2> HIDE DEF op
  <2>2. g \in Session /\ g.op = op /\ g.step = "clock" /\ g.touched = sts
    BY <1>2, <2>1, ClockFields
  <2>3. QED
    BY <2>2 DEF op
<1> HIDE DEF g
<1>5. /\ s \in Session /\ s.op = "bulk_publish" /\ s.step = "clock" /\ s.touched = sts
      /\ s.seen = zero
  BY <1>3, <1>4 DEF Session
<1> HIDE DEF s
<1>6. \A st \in sts : cards[st].version \in Nat
  BY CardTypes
<1>7. HandlerOK(s, period, board, cards, files)
  BY <1>3, <1>5, <1>6 DEF HandlerOK, RowOK
<1>8. QED
  BY <1>1, <1>5, <1>7, BeginKeeps

LEMMA PublishClassKeeps ==
    ASSUME CardsInv, NEW h \in Handlers, StartPublishClass(h)
    PROVE  CardsInv'
<1> DEFINE found == {st \in Students : cards[st].status \in Eligible}
           op == "publish_class"
           s == Clock(op, found, cards)
<1>1. Begin(h, s)
  BY DEF StartPublishClass
<1>2. found \in SUBSET Students /\ \A st \in found : cards[st] \in Card
  BY CardTypes
<1>3. \A st \in found : cards[st].version \in Nat /\ files[st] # None
  BY CardTypes, SeenIsStored DEF Eligible
<1> HIDE DEF found
<1>4. /\ s \in Session /\ s.op = "publish_class" /\ s.step = "clock" /\ s.touched = found
      /\ \A st \in found : /\ s.seen[st] = cards[st].version
                           /\ s.new[st].status = cards[st].status
  <2>1. op \in Ops
    BY DEF Ops
  <2> HIDE DEF op
  <2>2. /\ s \in Session /\ s.op = op /\ s.step = "clock" /\ s.touched = found
        /\ \A st \in found : /\ s.seen[st] = cards[st].version
                             /\ s.new[st].status = cards[st].status
    BY <1>2, <2>1, ClockFields
  <2>3. QED
    BY <2>2 DEF op
<1> HIDE DEF s
<1>5. HandlerOK(s, period, board, cards, files)
  BY <1>3, <1>4 DEF HandlerOK, RowOK
<1>6. QED
  BY <1>1, <1>4, <1>5, BeginKeeps

(* The cards that are published are eligible and valid when they are read,  *)
(* which for a class was before the clock.                                  *)
LEMMA CompilePublicationKeeps ==
    ASSUME CardsInv, NEW h \in Handlers, CompilePublication(h)
    PROVE  CardsInv'
<1> DEFINE s == handlers[h]
           chosen == {st \in s.touched : Copy(s, st).status \in Eligible /\ Valid(st)}
           new == [st \in chosen |-> Published(Copy(s, st), st)]
           g == Holding(s.op, chosen, new)
           seen == [st \in Students |->
                      IF st \in chosen /\ s.op = "publish_class" THEN s.seen[st]
                                                                ELSE g.seen[st]]
           k == [g EXCEPT !.seen = seen]
<1>1. /\ s.step = "clock"
      /\ handlers' = [handlers EXCEPT ![h] = k]
      /\ period' = period /\ board' = board /\ cards' = cards /\ files' = files
  BY DEF CompilePublication
<1>2. s \in Session /\ HandlerOK(s, period, board, cards, files)
  BY DEF CardsInv, CardsTypeOK
<1>3. /\ s.op \in {"bulk_publish", "publish_class"} /\ s.op \in Ops
      /\ s.touched \subseteq Students /\ s.seen \in [Students -> Nat]
      /\ s.new \in [Students -> Card]
  BY <1>1, <1>2 DEF HandlerOK, Ops, Session
<1>4. \A st \in chosen : /\ st \in Students /\ st \in s.touched /\ Valid(st)
                         /\ Copy(s, st).status \in Eligible
  BY <1>3
<1> HIDE DEF s, chosen
<1>5. ASSUME NEW st \in chosen
      PROVE  /\ Copy(s, st) \in Card
             /\ s.op = "publish_class" => Copy(s, st) = s.new[st]
             /\ s.op # "publish_class" => Copy(s, st).status = cards[st].status
  <2>1. s.new[st] \in Card /\ cards[st] \in Card
    BY <1>3, <1>4, CardTypes
  <2> DEFINE c == cards[st]
             at == s.new[st].publishedAt
  <2>2. at \in [Papers -> Nat]
    BY <2>1 DEF Card
  <2>3. c \in Card
    BY <2>1
  <2>4. Copy(s, st) = IF s.op = "publish_class" THEN s.new[st]
                                               ELSE [c EXCEPT !.publishedAt = at]
    BY DEF Copy
  <2> HIDE DEF c, at
  <2>5. [c EXCEPT !.publishedAt = at] \in Card /\ [c EXCEPT !.publishedAt = at].status = c.status
    BY <2>2, <2>3 DEF Card
  <2>6. QED
    BY <2>1, <2>4, <2>5 DEF c
<1>6. \A st \in chosen : /\ new[st] \in Card /\ new[st].status = "PUBLISHED"
                         /\ Complete(new[st])
  BY <1>4, <1>5, PublishedCard
<1> HIDE DEF new
<1>7. chosen \in SUBSET Students
  BY <1>4
<1>8. /\ g \in Session /\ g.op = s.op /\ g.step = "ready" /\ g.touched = chosen
      /\ \A st \in chosen : g.seen[st] = cards[st].version /\ g.new[st] = new[st]
  <2>1. \A st \in chosen : new[st] \in Card
    BY <1>6
  <2>2. PICK op \in Ops : op = s.op
    BY <1>3
  <2> DEFINE k1 == Holding(op, chosen, new)
  <2>3. /\ k1 \in Session /\ k1.op = op /\ k1.step = "ready" /\ k1.touched = chosen
        /\ \A st \in chosen : k1.seen[st] = cards[st].version /\ k1.new[st] = new[st]
    BY <1>7, <2>1, HoldingFields
  <2>4. QED
    BY <2>2, <2>3
<1> HIDE DEF g
<1>9. /\ seen \in [Students -> Nat]
       /\ \A st \in chosen : seen[st] = IF s.op = "publish_class" THEN s.seen[st]
                                                               ELSE cards[st].version
  BY <1>3, <1>7, <1>8 DEF Session
<1> HIDE DEF seen
<1>10. /\ k \in Session /\ k.op = s.op /\ k.step = "ready" /\ k.touched = chosen
       /\ k.seen = seen /\ k.new = g.new
  BY <1>8, <1>9 DEF Session
<1> HIDE DEF k
<1>11. ASSUME NEW st \in chosen
       PROVE  RowOK(k, st, period, board, cards[st], files[st])
  <2>1. cards[st].version \in Nat /\ st \in Students
        /\ RowOK(s, st, period, board, cards[st], files[st])
    BY <1>2, <1>4, CardTypes DEF HandlerOK
  <2>2. CASE s.op = "publish_class"
    <3>1. /\ files[st] # None /\ s.seen[st] <= cards[st].version
          /\ s.seen[st] = cards[st].version => s.new[st].status = cards[st].status
      BY <1>1, <2>1, <2>2 DEF RowOK
    <3>2. s.new[st].status \in Eligible
      BY <1>4, <1>5, <2>2
    <3>3. k.seen[st] = cards[st].version => MayLeave(k, st, cards[st], period, board)
      BY <1>9, <1>10, <2>2, <3>1, <3>2 DEF MayLeave, Eligible
    <3>4. QED
      BY <1>6, <1>8, <1>9, <1>10, <2>2, <3>1, <3>3 DEF RowOK
  <2>3. CASE s.op # "publish_class"
    <3>1. cards[st].status \in Eligible
      BY <1>4, <1>5, <2>3
    <3>2. files[st] # None
      BY <2>1, <3>1, SeenIsStored DEF Eligible
    <3>3. MayLeave(k, st, cards[st], period, board)
      BY <3>1 DEF MayLeave, Eligible
    <3>4. QED
      BY <1>6, <1>8, <1>9, <1>10, <2>1, <2>3, <3>2, <3>3 DEF RowOK
  <2>4. QED
    BY <2>2, <2>3
<1>12. HandlerOK(k, period, board, cards, files)
  BY <1>3, <1>10, <1>11 DEF HandlerOK
<1>13. QED
  BY <1>1, <1>10, <1>12, HeldKeeps

(* A filled student's card is compiled anew, a published one when the marks *)
(* moved since.                                                             *)
LEMMA GenerationIsOK ==
    ASSUME CardsInv, NEW st \in Students, MayGenerate(st)
    PROVE  /\ Generation(st) \in Session /\ Generation(st).op = "generate"
           /\ Generation(st).step = "compiled" /\ Generation(st).touched = {st}
           /\ Generation(st).uploads = {st} /\ Generation(st).sheet # None
           /\ RowOK(Generation(st), st, period, board, cards[st], files[st])
<1> DEFINE new == [x \in {st} |-> Regenerated(x)]
           g == Holding("generate", {st}, new)
           one == {st}
           s == [g EXCEPT !.step = "compiled", !.uploads = one, !.sheet = SheetOf(st)]
<1>1. /\ Filled(st) /\ cards[st].status # "LOCKED"
      /\ (cards[st].status = "PUBLISHED" => Corrected(st))
      /\ Generation(st) = s
  BY DEF MayGenerate, Generation
<1>2. new[st] \in Card /\ new[st].status = "DRAFT"
  BY RegeneratedCard
<1> HIDE DEF new
<1>3. /\ g \in Session /\ g.op = "generate" /\ g.touched = {st}
      /\ g.seen[st] = cards[st].version /\ g.new[st] = new[st]
  <2> DEFINE sts == {st}
             op == "generate"
  <2>1. op \in Ops /\ sts \in SUBSET Students /\ st \in sts /\ \A x \in sts : new[x] \in Card
    BY <1>2 DEF Ops
  <2> HIDE DEF sts, op
  <2>2. LET k == Holding(op, sts, new)
        IN  /\ k \in Session /\ k.op = op /\ k.touched = sts
            /\ k.seen[st] = cards[st].version /\ k.new[st] = new[st]
    BY <2>1, HoldingFields
  <2>3. QED
    BY <2>2 DEF sts, op
<1>4. SheetOf(st) \in Sheet /\ SheetOf(st) # None /\ one \in SUBSET Students
  BY SheetTypes
<1> HIDE DEF g
<1>5. /\ s \in Session /\ s.op = "generate" /\ s.touched = {st}
      /\ s.seen[st] = cards[st].version /\ s.new[st] = new[st]
      /\ s.step = "compiled" /\ s.uploads = one /\ s.sheet # None
  BY <1>3, <1>4 DEF Session
<1>6. cards[st].status = "PUBLISHED" => MovedSince(st, cards[st], period, board)
  <2> SUFFICES ASSUME cards[st].status = "PUBLISHED"
               PROVE  \E p \in Papers : board[<<p, st>>].version > cards[st].publishedAt[p]
    BY DEF MovedSince
  <2>1. PICK p \in Papers : TRUE
    BY CardsAssumption
  <2>2. board[<<p, st>>].version > 0
    BY <1>1, FilledIsEntered, SheetTypes
  <2>3. \E q \in Papers : VersionsOf(st)[q] > cards[st].publishedAt[q]
    BY <1>1, <2>2 DEF Corrected
  <2>4. QED
    BY <2>3, SheetTypes
<1> HIDE DEF s
<1>7. RowOK(s, st, period, board, cards[st], files[st])
  <2>1. cards[st].version \in Nat
    BY CardTypes
  <2>2. MayLeave(s, st, cards[st], period, board)
    BY <1>1, <1>6 DEF MayLeave
  <2>3. Complete(s.new[st]) /\ s.new[st].status # "ABSENT"
    BY <1>2, <1>5 DEF Complete, Public
  <2>4. QED
    BY <1>5, <2>1, <2>2, <2>3, SeenIsStored DEF RowOK
<1>8. QED
  BY <1>1, <1>5, <1>7

LEMMA GenerateKeeps ==
    ASSUME CardsInv, NEW h \in Handlers, NEW st \in Students, StartGenerate(h, st)
    PROVE  CardsInv'
<1> DEFINE s == Generation(st)
<1>1. MayGenerate(st) /\ Begin(h, s)
  BY DEF StartGenerate
<1>2. /\ s \in Session /\ s.op = "generate" /\ s.step = "compiled" /\ s.touched = {st}
      /\ s.sheet # None /\ RowOK(s, st, period, board, cards[st], files[st])
  BY <1>1, GenerationIsOK
<1> HIDE DEF s
<1>3. HandlerOK(s, period, board, cards, files)
  BY <1>2 DEF HandlerOK
<1>4. QED
  BY <1>1, <1>2, <1>3, BeginKeeps

(* A card that is left in the session is one that was there, with its file. *)
LEMMA GoOnKeeps ==
    ASSUME CardsInv, NEW h \in Handlers, NEW st \in Students, GoOn(h, st)
    PROVE  CardsInv'
<1> DEFINE s == handlers[h]
           g == Generation(st)
           left == {x \in s.touched : s.seen[x] # 0}
           touched == {st} \cup left
           seen == [x \in Students |-> IF x \in left THEN s.seen[x] ELSE g.seen[x]]
           new == [x \in Students |-> IF x \in left THEN s.new[x] ELSE g.new[x]]
           k == [g EXCEPT !.touched = touched, !.seen = seen, !.new = new]
<1>1. /\ s.op = "generate" /\ s.step = "compiled" /\ st \notin s.touched
      /\ MayGenerate(st)
      /\ handlers' = [handlers EXCEPT ![h] = k]
      /\ period' = period /\ board' = board /\ cards' = cards /\ files' = files
  BY DEF GoOn
<1>2. s \in Session /\ HandlerOK(s, period, board, cards, files)
  BY DEF CardsInv, CardsTypeOK
<1>3. /\ g \in Session /\ g.op = "generate" /\ g.step = "compiled" /\ g.sheet # None
      /\ RowOK(g, st, period, board, cards[st], files[st])
  BY <1>1, GenerationIsOK
<1> HIDE DEF s, g
<1>4. /\ touched \in SUBSET Students
      /\ seen \in [Students -> Nat] /\ new \in [Students -> Card]
      /\ \A x \in left : /\ x \in s.touched /\ x \in Students /\ s.seen[x] # 0
                        /\ seen[x] = s.seen[x] /\ new[x] = s.new[x]
      /\ seen[st] = g.seen[st] /\ new[st] = g.new[st]
  BY <1>1, <1>2, <1>3 DEF Session
<1>5. \A x \in touched : x = st \/ x \in left
  OBVIOUS
<1> HIDE DEF left, touched, seen, new
<1>6. /\ k \in Session /\ k.op = "generate" /\ k.step = "compiled" /\ k.sheet # None
      /\ k.touched = touched /\ k.seen = seen /\ k.new = new /\ k.uploads = g.uploads
  BY <1>3, <1>4 DEF Session
<1> HIDE DEF k
<1>7. RowOK(k, st, period, board, cards[st], files[st])
  BY <1>3, <1>4, <1>6 DEF RowOK, MayLeave
<1>8. ASSUME NEW x \in left
      PROVE  RowOK(k, x, period, board, cards[x], files[x])
  <2>1. RowOK(s, x, period, board, cards[x], files[x]) /\ s.seen[x] # 0
    BY <1>2, <1>4 DEF HandlerOK
  <2>2. QED
    BY <1>1, <1>4, <1>6, <2>1 DEF RowOK, MayLeave
<1>9. HandlerOK(k, period, board, cards, files)
  BY <1>5, <1>6, <1>7, <1>8 DEF HandlerOK
<1>10. QED
  BY <1>1, <1>6, <1>9, HeldKeeps

LEMMA DownloadKeeps ==
    ASSUME CardsInv, NEW h \in Handlers, NEW st \in Students, StartDownload(h, st)
    PROVE  CardsInv'
<1> DEFINE empty == [p \in Papers |-> None]
           sheet == IF period = "REPORTABLE" THEN SheetOf(st) ELSE empty
           one == {st}
           i == Idle
           s == [i EXCEPT !.op = "download", !.step = "compiled", !.uploads = one,
                          !.sheet = sheet]
<1>1. Begin(h, s)
  BY DEF StartDownload
<1>2. empty \in Sheet
  BY DEF Sheet
<1>3. sheet \in Sheet /\ sheet # None
  BY <1>2, SheetTypes, CardsAssumption
<1>4. one \in SUBSET Students
  OBVIOUS
<1>5. i \in Session /\ i.touched = {}
  BY IdleIsOK DEF Idle
<1> HIDE DEF i, sheet, one
<1>6. s \in Session /\ s.touched = {} /\ s.sheet = sheet /\ s.step = "compiled"
  BY <1>3, <1>4, <1>5 DEF Session
<1> HIDE DEF s
<1>7. HandlerOK(s, period, board, cards, files)
  BY <1>3, <1>6 DEF HandlerOK
<1>8. QED
  BY <1>1, <1>6, <1>7, BeginKeeps

-----------------------------------------------------------------------------
(* Handlers that go on, and the marks.                                      *)

LEMMA EndedHandlers ==
    ASSUME CardsInv, NEW h \in Handlers, handlers' = [handlers EXCEPT ![h] = Idle]
    PROVE  /\ handlers' \in [Handlers -> Session]
           /\ handlers'[h] = Idle
           /\ \A x \in Handlers \ {h} : handlers'[x] = handlers[x]
  BY IdleIsOK DEF CardsInv, CardsTypeOK

(* Files only change into others. *)
LEMMA FilesStay ==
    ASSUME CardsInv, NEW fs, \A st \in Students : files[st] # None => fs[st] # None
    PROVE  /\ \A st \in Students : CardOK(cards[st], fs[st])
           /\ \A x \in Handlers : HandlerOK(handlers[x], period, board, cards, fs)
<1>1. \A st \in Students : CardOK(cards[st], fs[st])
  BY DEF CardsInv, CardOK
<1>2. ASSUME NEW x \in Handlers
      PROVE  HandlerOK(handlers[x], period, board, cards, fs)
  <2>1. handlers[x].touched \subseteq Students
    BY DEF CardsInv, CardsTypeOK, Session
  <2>2. HandlerOK(handlers[x], period, board, cards, files)
    BY DEF CardsInv
  <2>3. QED
    BY <2>1, <2>2 DEF HandlerOK, RowOK
<1>3. QED
  BY <1>1, <1>2

LEMMA StoredFiles ==
    ASSUME CardsInv, NEW s \in Session, s.sheet # None
    PROVE  /\ Stored(s) \in [Students -> Sheet \cup {None}]
           /\ \A st \in Students : files[st] # None => Stored(s)[st] # None
           /\ \A st \in s.uploads : Stored(s)[st] # None
<1>1. s.sheet \in Sheet /\ s.uploads \subseteq Students
  BY DEF Session
<1>2. files \in [Students -> Sheet \cup {None}]
  BY DEF CardsInv, CardsTypeOK
<1>3. QED
  BY <1>1, <1>2 DEF Stored

LEMMA UploadKeeps ==
    ASSUME CardsInv, NEW h \in Handlers, Upload(h)
    PROVE  CardsInv'
<1> DEFINE s == handlers[h]
           t == [s EXCEPT !.step = "ready", !.uploads = {}, !.sheet = None]
<1>1. s \in Session /\ handlers \in [Handlers -> Session]
      /\ HandlerOK(s, period, board, cards, files)
  BY DEF CardsInv, CardsTypeOK
<1>2. /\ s.op = "generate" /\ s.step = "compiled"
      /\ files' = Stored(s)
      /\ handlers' = [handlers EXCEPT ![h] = t]
      /\ period' = period /\ board' = board /\ cards' = cards
  BY DEF Upload
<1> HIDE DEF s
<1>3. s.sheet # None /\ s.touched \subseteq Students
  BY <1>1, <1>2 DEF HandlerOK, Session
<1>4. /\ files' \in [Students -> Sheet \cup {None}]
      /\ \A st \in Students : files[st] # None => files'[st] # None
      /\ \A st \in s.uploads : files'[st] # None
  BY <1>1, <1>2, <1>3, StoredFiles
<1>5. t \in Session /\ t.op = "generate" /\ t.step = "ready" /\ t.touched = s.touched
      /\ t.seen = s.seen /\ t.new = s.new
  BY <1>1, <1>2 DEF Session
<1> HIDE DEF t
<1>6. HandlerOK(t, period, board, cards, files')
  <2>1. \A st \in s.touched : RowOK(s, st, period, board, cards[st], files[st])
    BY <1>1 DEF HandlerOK
  <2>2. ASSUME NEW st \in t.touched
        PROVE  RowOK(t, st, period, board, cards[st], files'[st])
    <3>1. st \in s.touched /\ st \in Students
      BY <1>3, <1>5
    <3>2. files'[st] # None
      BY <1>2, <1>4, <2>1, <3>1 DEF RowOK
    <3>3. QED
      BY <1>2, <1>5, <2>1, <3>1, <3>2 DEF RowOK, MayLeave
  <2>3. QED
    BY <1>5, <2>2 DEF HandlerOK
<1>7. \A x \in Handlers : HandlerOK(handlers'[x], period', board', cards', files')
  BY <1>1, <1>2, <1>4, <1>6, FilesStay
<1>8. CardsTypeOK'
  BY <1>1, <1>2, <1>4, <1>5 DEF CardsInv, CardsTypeOK, BoardTypeOK
<1>9. \A st \in Students : CardOK(cards'[st], files'[st])
  BY <1>2, <1>4, FilesStay
<1>10. QED
  BY <1>2, <1>7, <1>8, <1>9 DEF CardsInv, BoardOK

LEMMA EndDownloadKeeps ==
    ASSUME CardsInv, NEW h \in Handlers, EndDownload(h)
    PROVE  CardsInv'
<1> DEFINE s == handlers[h]
<1>1. s \in Session /\ HandlerOK(s, period, board, cards, files)
  BY DEF CardsInv, CardsTypeOK
<1>2. /\ s.op = "download"
      /\ files' = Stored(s)
      /\ handlers' = [handlers EXCEPT ![h] = Idle]
      /\ period' = period /\ board' = board /\ cards' = cards
  BY DEF EndDownload
<1> HIDE DEF s
<1>3. s.sheet # None
  BY <1>1, <1>2 DEF HandlerOK
<1>4. files' \in [Students -> Sheet \cup {None}]
      /\ \A st \in Students : files[st] # None => files'[st] # None
  BY <1>1, <1>2, <1>3, StoredFiles
<1>5. \A x \in Handlers : HandlerOK(handlers'[x], period', board', cards', files')
  <2> SUFFICES ASSUME NEW x \in Handlers
               PROVE  HandlerOK(handlers'[x], period, board, cards, files')
    BY <1>2
  <2>1. CASE x = h
    BY <1>2, <2>1, EndedHandlers, IdleIsOK
  <2>2. CASE x # h
    BY <1>2, <1>4, <2>2, EndedHandlers, FilesStay
  <2>3. QED
    BY <2>1, <2>2
<1>6. CardsTypeOK'
  BY <1>2, <1>4, EndedHandlers DEF CardsInv, CardsTypeOK, BoardTypeOK
<1>7. \A st \in Students : CardOK(cards'[st], files'[st])
  BY <1>2, <1>4, FilesStay
<1>8. QED
  BY <1>2, <1>5, <1>6, <1>7 DEF CardsInv, BoardOK

LEMMA RollbackKeeps ==
    ASSUME CardsInv, NEW h \in Handlers, Rollback(h)
    PROVE  CardsInv'
<1>1. /\ handlers' = [handlers EXCEPT ![h] = Idle]
      /\ period' = period /\ board' = board /\ cards' = cards /\ files' = files
  BY DEF Rollback
<1>2. \A x \in Handlers : HandlerOK(handlers'[x], period, board, cards, files)
  BY <1>1, EndedHandlers, IdleIsOK DEF CardsInv
<1>3. CardsTypeOK'
  BY <1>1, EndedHandlers DEF CardsInv, CardsTypeOK, BoardTypeOK
<1>4. QED
  BY <1>1, <1>2, <1>3 DEF CardsInv, BoardOK

(* A commit: the cards it writes move on, the others stay. *)
Written(s, cs) == [st \in Students |->
                      IF st \in s.touched
                      THEN [s.new[st] EXCEPT !.version = cs[st].version + 1]
                      ELSE cs[st]]

LEMMA WrittenCards ==
    ASSUME CardsInv, NEW s \in Session
    PROVE  /\ Written(s, cards) \in [Students -> Card]
           /\ \A st \in s.touched :
                 /\ Written(s, cards)[st].version = cards[st].version + 1
                 /\ Written(s, cards)[st].status = s.new[st].status
                 /\ Written(s, cards)[st].compiled = s.new[st].compiled
                 /\ Written(s, cards)[st].snapshot = s.new[st].snapshot
                 /\ Written(s, cards)[st].publishedAt = s.new[st].publishedAt
           /\ \A st \in Students \ s.touched : Written(s, cards)[st] = cards[st]
<1> DEFINE w == Written(s, cards)
<1>1. s.touched \subseteq Students /\ s.new \in [Students -> Card]
  BY DEF Session
<1>2. \A st \in s.touched : w[st] = [s.new[st] EXCEPT !.version = cards[st].version + 1]
  BY <1>1 DEF Written
<1>3. \A st \in Students \ s.touched : w[st] = cards[st] /\ w[st] \in Card
  BY CardTypes DEF Written
<1>4. ASSUME NEW st \in s.touched
      PROVE  /\ w[st] \in Card /\ w[st].version = cards[st].version + 1
             /\ w[st].status = s.new[st].status /\ w[st].compiled = s.new[st].compiled
             /\ w[st].snapshot = s.new[st].snapshot
             /\ w[st].publishedAt = s.new[st].publishedAt
  <2> DEFINE n == s.new[st]
  <2>1. n \in Card /\ cards[st].version + 1 \in Nat
    BY <1>1, CardTypes
  <2>2. w[st] = [n EXCEPT !.version = cards[st].version + 1]
    BY <1>2
  <2> HIDE DEF w, n
  <2>3. /\ w[st] \in Card /\ w[st].version = cards[st].version + 1
        /\ w[st].status = n.status /\ w[st].compiled = n.compiled
        /\ w[st].snapshot = n.snapshot /\ w[st].publishedAt = n.publishedAt
    BY <2>1, <2>2 DEF Card
  <2>4. QED
    BY <2>3 DEF n
<1>5. w \in [Students -> Card]
  <2>1. \A st \in Students : w[st] \in Card
    BY <1>3, <1>4
  <2>2. QED
    BY <2>1 DEF Written
<1>6. QED
  BY <1>3, <1>4, <1>5

LEMMA CommitFacts ==
    ASSUME CardsInv, NEW h \in Handlers, Commit(h)
    PROVE  /\ handlers[h] \in Session /\ handlers[h].touched \subseteq Students
           /\ cards' = Written(handlers[h], cards)
           /\ handlers' = [handlers EXCEPT ![h] = Idle]
           /\ period' = period /\ board' = board /\ files' = files
           /\ handlers[h].step = "ready"
           /\ \A st \in handlers[h].touched :
                 /\ RowOK(handlers[h], st, period, board, cards[st], files[st])
                 /\ MayLeave(handlers[h], st, cards[st], period, board)
<1> DEFINE s == handlers[h]
<1>1. /\ cards' = Written(s, cards)
      /\ handlers' = [handlers EXCEPT ![h] = Idle]
      /\ period' = period /\ board' = board /\ files' = files
      /\ s.step = "ready" /\ Fresh(s)
  BY DEF Commit, Written
<1>2. s \in Session /\ s.touched \subseteq Students
  BY DEF CardsInv, CardsTypeOK, Session
<1>3. \A st \in s.touched : RowOK(s, st, period, board, cards[st], files[st])
  BY DEF CardsInv, HandlerOK
<1> HIDE DEF s
<1>4. \A st \in s.touched : MayLeave(s, st, cards[st], period, board)
  BY <1>1, <1>3 DEF Fresh, RowOK
<1>5. QED
  BY <1>1, <1>2, <1>3, <1>4 DEF s

LEMMA CommitKeeps ==
    ASSUME CardsInv, NEW h \in Handlers, Commit(h)
    PROVE  CardsInv'
<1> DEFINE s == handlers[h]
<1>1. /\ s \in Session /\ s.touched \subseteq Students
      /\ cards' = Written(s, cards)
      /\ handlers' = [handlers EXCEPT ![h] = Idle]
      /\ period' = period /\ board' = board /\ files' = files
      /\ s.step = "ready"
      /\ \A st \in s.touched : RowOK(s, st, period, board, cards[st], files[st])
  BY CommitFacts
<1> HIDE DEF s
<1>2. /\ cards' \in [Students -> Card]
      /\ \A st \in s.touched : /\ cards'[st].version = cards[st].version + 1
                                /\ cards'[st].status = s.new[st].status
                                /\ cards'[st].snapshot = s.new[st].snapshot
                                /\ cards'[st].publishedAt = s.new[st].publishedAt
      /\ \A st \in Students \ s.touched : cards'[st] = cards[st]
  BY <1>1, WrittenCards
<1>3. CardsTypeOK'
  BY <1>1, <1>2, EndedHandlers DEF CardsInv, CardsTypeOK, BoardTypeOK
<1>4. ASSUME NEW st \in Students
      PROVE  CardOK(cards'[st], files[st])
  <2>1. CASE st \notin s.touched
    BY <1>2, <2>1, CardTypes
  <2>2. CASE st \in s.touched
    <3>1. cards[st].version \in Nat
      BY CardTypes
    <3>2. cards'[st].version > 0 /\ cards'[st].version # 0
      BY <1>2, <2>2, <3>1
    <3>3. /\ Complete(s.new[st]) /\ s.new[st].status # "ABSENT" /\ files[st] # None
      BY <1>1, <2>2 DEF RowOK
    <3>4. Complete(cards'[st])
      BY <1>2, <2>2, <3>3 DEF Complete
    <3>5. QED
      BY <1>2, <2>2, <3>2, <3>3, <3>4 DEF CardOK
  <2>3. QED
    BY <2>1, <2>2
<1>5. ASSUME NEW x \in Handlers
      PROVE  HandlerOK(handlers'[x], period, board, cards', files)
  <2>1. CASE x = h
    BY <1>1, <2>1, EndedHandlers, IdleIsOK
  <2>2. CASE x # h
    <3> DEFINE t == handlers[x]
    <3>1. handlers'[x] = t
      BY <1>1, <2>2, EndedHandlers
    <3>2. t \in Session /\ HandlerOK(t, period, board, cards, files)
      BY DEF CardsInv, CardsTypeOK
    <3> HIDE DEF t
    <3>3. ASSUME NEW st \in t.touched
          PROVE  RowOK(t, st, period, board, cards'[st], files[st])
      <4>1. st \in Students /\ t.seen[st] \in Nat /\ cards[st].version \in Nat
        BY <3>2, CardTypes DEF Session
      <4>2. RowOK(t, st, period, board, cards[st], files[st])
        BY <3>2 DEF HandlerOK
      <4>3. CASE st \in s.touched
        BY <1>2, <4>1, <4>2, <4>3 DEF RowOK
      <4>4. CASE st \notin s.touched
        BY <1>2, <4>1, <4>2, <4>4
      <4>5. QED
        BY <4>3, <4>4
    <3>4. QED
      BY <3>1, <3>2, <3>3 DEF HandlerOK
  <2>3. QED
    BY <2>1, <2>2
<1>6. QED
  BY <1>1, <1>3, <1>4, <1>5 DEF CardsInv, BoardOK

(* Versions of marks grow, or the examination goes with all of them. *)
LEMMA BoardGrows ==
    ASSUME CardsInv, BoardNext
    PROVE  /\ BoardTypeOK' /\ BoardOK'
           /\ period' # "GONE" => /\ period # "GONE"
                                  /\ \A m \in Slot : board'[m].version >= board[m].version
<1>1. board \in [Slot -> Row]
  BY DEF CardsInv, CardsTypeOK, BoardTypeOK
<1>2. ASSUME NEW rows \in SUBSET Slot, NEW next \in {"CLOSED", "REPORTABLE"},
             NEW content \in [rows -> StoredEntries], Change(rows, content, next)
      PROVE  /\ BoardTypeOK' /\ BoardOK'
             /\ period' # "GONE" => /\ period # "GONE"
                                    /\ \A m \in Slot : board'[m].version >= board[m].version
  <2>1. /\ period # "GONE" /\ period' = next
        /\ board' = [m \in Slot |-> IF m \in rows
                       THEN [entry |-> content[m], version |-> board[m].version + 1]
                       ELSE board[m]]
    BY <1>2 DEF Change
  <2>2. \A m \in Slot : board[m].version \in Nat
    BY <1>1 DEF Row
  <2>3. board' \in [Slot -> Row]
    BY <1>1, <2>1, <2>2 DEF Row
  <2>4. \A m \in Slot : board'[m].version >= board[m].version
    BY <2>1, <2>2
  <2>5. \A m \in Slot : board'[m].version = 0 => board'[m] = NoRow
    <3> SUFFICES ASSUME NEW m \in Slot, board'[m].version = 0 PROVE board'[m] = NoRow
      OBVIOUS
    <3>1. m \notin rows
      BY <2>1, <2>2
    <3>2. QED
      BY <2>1, <3>1 DEF CardsInv, BoardOK
  <2>6. QED
    BY <2>1, <2>3, <2>4, <2>5 DEF BoardTypeOK, BoardOK
<1>3. CASE Remove
  <2>1. period' = "GONE" /\ board' = [m \in Slot |-> NoRow]
    BY <1>3 DEF Remove
  <2>2. QED
    BY <2>1 DEF BoardTypeOK, BoardOK, NoRow, Row
<1>4. QED
  BY <1>2, <1>3 DEF BoardNext

LEMMA MarksMoveKeeps ==
    ASSUME CardsInv, MarksMove
    PROVE  CardsInv'
<1>1. BoardNext /\ cards' = cards /\ files' = files /\ handlers' = handlers
  BY DEF MarksMove
<1>2. CardsTypeOK' /\ BoardOK'
  BY <1>1, BoardGrows DEF CardsInv, CardsTypeOK
<1>3. ASSUME NEW st \in Students, MovedSince(st, cards[st], period, board)
      PROVE  MovedSince(st, cards[st], period', board')
  <2> SUFFICES ASSUME period' # "GONE"
               PROVE  \E p \in Papers : board'[<<p, st>>].version > cards[st].publishedAt[p]
    BY DEF MovedSince
  <2>1. period # "GONE" /\ \A m \in Slot : board'[m].version >= board[m].version
    BY <1>1, BoardGrows
  <2>2. PICK p \in Papers : board[<<p, st>>].version > cards[st].publishedAt[p]
    BY <1>3, <2>1 DEF MovedSince
  <2>3. <<p, st>> \in Slot
    BY DEF Slot
  <2>4. /\ board[<<p, st>>].version \in Nat /\ board'[<<p, st>>].version \in Nat
        /\ cards[st].publishedAt[p] \in Nat
    BY <1>2, <2>3, CardTypes DEF CardsInv, CardsTypeOK, BoardTypeOK, Row, Card
  <2>5. QED
    BY <2>1, <2>2, <2>3, <2>4
<1>4. \A x \in Handlers : HandlerOK(handlers[x], period', board', cards, files)
  <2> SUFFICES ASSUME NEW x \in Handlers
               PROVE  HandlerOK(handlers[x], period', board', cards, files)
    OBVIOUS
  <2>1. handlers[x].touched \subseteq Students
        /\ HandlerOK(handlers[x], period, board, cards, files)
    BY DEF CardsInv, CardsTypeOK, Session
  <2>2. ASSUME NEW st \in handlers[x].touched
        PROVE  RowOK(handlers[x], st, period', board', cards[st], files[st])
    BY <1>3, <2>1 DEF HandlerOK, RowOK, MayLeave
  <2>3. QED
    BY <2>1, <2>2 DEF HandlerOK
<1>5. QED
  BY <1>1, <1>2, <1>4 DEF CardsInv

-----------------------------------------------------------------------------
(* The invariant.                                                           *)

LEMMA InitInv == CardsInit => CardsInv
<1> SUFFICES ASSUME CardsInit PROVE CardsInv
  OBVIOUS
<1>1. /\ period = "CLOSED" /\ board = [m \in Slot |-> NoRow]
      /\ cards = [st \in Students |-> NoCard]
      /\ files = [st \in Students |-> None]
      /\ handlers = [h \in Handlers |-> Idle]
  BY DEF CardsInit, BoardInit
<1>2. NoRow \in Row /\ NoCard \in Card
  BY DEF NoRow, Row, NoCard, Card
<1>3. NoCard.status = "ABSENT" /\ NoCard.version = 0
  BY DEF NoCard
<1>4. CardsTypeOK
  BY <1>1, <1>2, IdleIsOK DEF CardsTypeOK, BoardTypeOK
<1>5. BoardOK
  BY <1>1 DEF BoardOK
<1>6. CardOK(NoCard, None)
  BY <1>3 DEF CardOK, Complete, Public
<1>7. QED
  BY <1>1, <1>4, <1>5, <1>6, IdleIsOK DEF CardsInv

(* What a handler may do when it starts, and when it goes on. *)
Start(h) ==
    \/ \E st \in Students :
        \/ StartGenerate(h, st) \/ StartDownload(h, st)
        \/ StartSubmit(h, st) \/ StartApprove(h, st) \/ StartReject(h, st)
        \/ StartUnpublish(h, st) \/ StartLock(h, st) \/ StartUnlock(h, st)
    \/ \E sts \in (SUBSET Students) \ {{}} :
        StartBulkApprove(h, sts) \/ StartBulkPublish(h, sts)
    \/ StartPublishClass(h)

Continue(h) ==
    \/ Upload(h) \/ EndDownload(h) \/ CompilePublication(h)
    \/ Commit(h) \/ Rollback(h)
    \/ \E st \in Students : GoOn(h, st)

LEMMA NextCases ==
    ASSUME CardsNext
    PROVE  \/ MarksMove
           \/ \E h \in Handlers : Start(h)
           \/ \E h \in Handlers : Continue(h)
  BY Zenon DEF CardsNext, Start, Continue

LEMMA StartKeeps ==
    ASSUME CardsInv, NEW h \in Handlers, Start(h)
    PROVE  CardsInv'
<1>1. ASSUME NEW st \in Students,
             \/ StartGenerate(h, st) \/ StartDownload(h, st)
             \/ StartSubmit(h, st) \/ StartApprove(h, st) \/ StartReject(h, st)
             \/ StartUnpublish(h, st) \/ StartLock(h, st) \/ StartUnlock(h, st)
      PROVE  CardsInv'
  BY <1>1, GenerateKeeps, DownloadKeeps, MovesKeep
<1>2. ASSUME NEW sts \in SUBSET Students,
             StartBulkApprove(h, sts) \/ StartBulkPublish(h, sts)
      PROVE  CardsInv'
  BY <1>2, BulkApproveKeeps, BulkPublishKeeps
<1>3. CASE StartPublishClass(h)
  BY <1>3, PublishClassKeeps
<1>4. QED
  BY <1>1, <1>2, <1>3 DEF Start

LEMMA StepInv == CardsInv /\ [CardsNext]_cardVars => CardsInv'
<1> SUFFICES ASSUME CardsInv, [CardsNext]_cardVars PROVE CardsInv'
  OBVIOUS
<1>1. CASE MarksMove
  BY <1>1, MarksMoveKeeps
<1>2. CASE \E h \in Handlers : Start(h)
  BY <1>2, StartKeeps
<1>3. CASE \E h \in Handlers : Continue(h)
  BY <1>3, UploadKeeps, EndDownloadKeeps, CompilePublicationKeeps, CommitKeeps,
     RollbackKeeps, GoOnKeeps DEF Continue
<1>4. CASE UNCHANGED cardVars
  <2>1. /\ period' = period /\ board' = board /\ cards' = cards
        /\ files' = files /\ handlers' = handlers
    BY <1>4 DEF cardVars
  <2>2. QED
    BY <2>1 DEF CardsInv, CardsTypeOK, BoardTypeOK, BoardOK
<1>5. QED
  BY <1>1, <1>2, <1>3, <1>4, NextCases

(* In every reachable state a handler that read the card at its version     *)
(* may leave the card what it will leave it (services/report_card.py,       *)
(* version_id_col of models/report_card.py).                                *)
THEOREM CardsInvariant == CardsSpec => []CardsInv
  BY InitInv, StepInv, PTL DEF CardsSpec

(* Cards, files and handlers stay within their types. *)
THEOREM CardsAreTyped == CardsSpec => []CardsTypeOK
<1>1. CardsInv => CardsTypeOK
  BY DEF CardsInv
<1>2. QED
  BY <1>1, CardsInvariant, PTL

(* A published or locked card carries a complete snapshot, whatever         *)
(* regeneration, review and publication overlap.                            *)
THEOREM PublishedCardsAreComplete == CardsSpec => []PublishedIsComplete
<1>1. CardsInv => PublishedIsComplete
  BY DEF CardsInv, CardOK, Complete, Public, PublishedIsComplete
<1>2. QED
  BY <1>1, CardsInvariant, PTL

(* A committed card has a file, wherever the process stops between writing  *)
(* the file and committing the card (generate_report_card).                 *)
THEOREM FilesAreStored == CardsSpec => []FileIsStored
<1>1. CardsInv => FileIsStored
  BY DEF CardsInv, CardOK, FileIsStored
<1>2. QED
  BY <1>1, CardsInvariant, PTL

-----------------------------------------------------------------------------
(* What steps never do.                                                     *)

LEMMA StartWritesNothing ==
    ASSUME NEW h \in Handlers, Start(h)
    PROVE  cards' = cards
<1>1. ASSUME \E s : Begin(h, s) PROVE cards' = cards
  BY <1>1 DEF Begin
<1>2. ASSUME NEW st \in Students,
             \/ StartGenerate(h, st) \/ StartDownload(h, st)
             \/ StartSubmit(h, st) \/ StartApprove(h, st) \/ StartReject(h, st)
             \/ StartUnpublish(h, st) \/ StartLock(h, st) \/ StartUnlock(h, st)
      PROVE  cards' = cards
  <2>1. \E s : Begin(h, s)
    BY Zenon, <1>2 DEF StartGenerate, StartDownload, StartSubmit, StartApprove, StartReject,
                       StartUnpublish, StartLock, StartUnlock, Move
  <2>2. QED
    BY <1>1, <2>1
<1>3. ASSUME NEW sts \in SUBSET Students,
             StartBulkApprove(h, sts) \/ StartBulkPublish(h, sts)
      PROVE  cards' = cards
  BY Zenon, <1>1, <1>3 DEF StartBulkApprove, StartBulkPublish
<1>4. CASE StartPublishClass(h)
  BY Zenon, <1>1, <1>4 DEF StartPublishClass
<1>5. QED
  BY <1>2, <1>3, <1>4 DEF Start

LEMMA WhoWritesCards ==
    ASSUME [CardsNext]_cardVars
    PROVE  cards' = cards \/ \E h \in Handlers : Commit(h)
<1>1. CASE MarksMove
  BY <1>1 DEF MarksMove
<1>2. CASE \E h \in Handlers : Start(h)
  BY <1>2, StartWritesNothing
<1>3. CASE \E h \in Handlers : Continue(h)
  BY <1>3 DEF Continue, Upload, EndDownload, CompilePublication, Rollback, GoOn
<1>4. CASE UNCHANGED cardVars
  BY <1>4 DEF cardVars
<1>5. QED
  BY <1>1, <1>2, <1>3, <1>4, NextCases

(* A card that a commit writes over is the card the handler had read. *)
LEMMA CommittedCard ==
    ASSUME CardsInv, NEW h \in Handlers, Commit(h), NEW st \in Students
    PROVE  \/ cards'[st] = cards[st]
           \/ /\ st \in handlers[h].touched
              /\ MayLeave(handlers[h], st, cards[st], period, board)
              /\ cards'[st].status = handlers[h].new[st].status
              /\ cards'[st].compiled = handlers[h].new[st].compiled
              /\ cards'[st].snapshot = handlers[h].new[st].snapshot
<1> DEFINE s == handlers[h]
<1>1. /\ s \in Session /\ cards' = Written(s, cards)
      /\ \A x \in s.touched : MayLeave(s, x, cards[x], period, board)
  BY CommitFacts
<1> HIDE DEF s
<1>2. CASE st \notin s.touched
  BY <1>1, <1>2, WrittenCards
<1>3. CASE st \in s.touched
  <2>1. /\ cards'[st].status = s.new[st].status
        /\ cards'[st].compiled = s.new[st].compiled
        /\ cards'[st].snapshot = s.new[st].snapshot
    BY <1>1, <1>3, WrittenCards
  <2>2. QED
    BY <1>1, <1>3, <2>1 DEF s
<1>4. QED
  BY <1>2, <1>3

(* A locked card keeps what it says until it is unlocked, whichever handler *)
(* had read it before it was locked (lock_report_card, unlock_report_card). *)
THEOREM LockedCardsAreFrozen == CardsSpec => LockedCardIsFrozen
<1> DEFINE Frozen == \A st \in Students : cards[st].status = "LOCKED" =>
                        /\ cards'[st].status \in {"LOCKED", "PUBLISHED"}
                        /\ cards'[st].compiled = cards[st].compiled
                        /\ cards'[st].snapshot = cards[st].snapshot
<1>1. CardsInv /\ [CardsNext]_cardVars => Frozen
  BY WhoWritesCards, CommittedCard DEF MayLeave, Public
<1>2. QED
  BY <1>1, CardsInvariant, PTL DEF CardsSpec, LockedCardIsFrozen

(* A published card stops being published only by being withdrawn or        *)
(* locked, or after a mark was written since the clock of its publication   *)
(* (generate_report_card), or when the examination is gone.                 *)
THEOREM CardsAreWithdrawnForAReason == CardsSpec => WithdrawnForAReason
<1> DEFINE Reason ==
       \A st \in Students :
          cards[st].status = "PUBLISHED" /\ cards'[st].status # "PUBLISHED" =>
              \/ \E h \in Handlers : /\ handlers[h].op \in {"unpublish", "lock"}
                                     /\ st \in handlers[h].touched
                                     /\ handlers'[h].op = "idle"
              \/ \E p \in Papers : VersionsOf(st)[p] > cards[st].publishedAt[p]
              \/ period = "GONE"
<1>1. CardsInv /\ [CardsNext]_cardVars => Reason
  <2> SUFFICES ASSUME CardsInv, [CardsNext]_cardVars, NEW st \in Students,
                      cards[st].status = "PUBLISHED", cards'[st].status # "PUBLISHED"
               PROVE  \/ \E h \in Handlers : /\ handlers[h].op \in {"unpublish", "lock"}
                                             /\ st \in handlers[h].touched
                                             /\ handlers'[h].op = "idle"
                      \/ \E p \in Papers : VersionsOf(st)[p] > cards[st].publishedAt[p]
                      \/ period = "GONE"
    OBVIOUS
  <2>1. PICK h \in Handlers : Commit(h)
    BY WhoWritesCards
  <2>2. handlers'[h].op = "idle"
    BY <2>1, CommitFacts, EndedHandlers, IdleIsOK
  <2>3. /\ st \in handlers[h].touched
        /\ \/ handlers[h].op \in {"unpublish", "lock"}
           \/ MovedSince(st, cards[st], period, board)
    BY <2>1, CommittedCard DEF MayLeave
  <2>4. ASSUME MovedSince(st, cards[st], period, board)
        PROVE  \/ \E p \in Papers : VersionsOf(st)[p] > cards[st].publishedAt[p]
               \/ period = "GONE"
    BY <2>4, SheetTypes DEF MovedSince
  <2>5. QED
    BY <2>2, <2>3, <2>4
<1>2. QED
  BY <1>1, CardsInvariant, PTL DEF CardsSpec, WithdrawnForAReason

-----------------------------------------------------------------------------
(* Results.  Sums, products and least elements of finite sets.             *)

(* Of the sets in a family of subsets of a finite set, one is smallest. *)
LEMMA Smallest ==
    ASSUME NEW S, IsFiniteSet(S), NEW F \in SUBSET SUBSET S, F # {}
    PROVE  \E s \in F : \A t \in F : t \subseteq s => t = s
<1>1. F \subseteq FiniteSubsetsOf(S)
  BY FS_Subset DEF FiniteSubsetsOf
<1>2. PICK s \in F : \A t \in F : <<t, s>> \notin StrictSubsetOrdering(S)
  BY <1>1, FS_StrictSubsetOrderingWellFounded, WFMin
<1>3. QED
  BY <1>2 DEF StrictSubsetOrdering

(* A family that holds of a set whenever it holds of the set without some  *)
(* element holds of all subsets of a finite set.                           *)
LEMMA ByRemoval ==
    ASSUME NEW S, IsFiniteSet(S), NEW F \in SUBSET SUBSET S, {} \in F,
           \A s \in SUBSET S : s # {} => \E x \in s : s \ {x} \in F => s \in F
    PROVE  F = SUBSET S
<1> DEFINE G == (SUBSET S) \ F
<1>1. SUFFICES ASSUME G # {} PROVE FALSE
  OBVIOUS
<1>2. G \in SUBSET SUBSET S
  OBVIOUS
<1> HIDE DEF G
<1>3. PICK s \in G : \A t \in G : t \subseteq s => t = s
  BY <1>1, <1>2, Smallest
<1> USE DEF G
<1>4. PICK x \in s : s \ {x} \in F => s \in F
  <2>1. s \in SUBSET S /\ s # {}
    BY <1>3
  <2>2. QED
    BY <2>1
<1>5. s \ {x} \in SUBSET S /\ s \ {x} # s /\ s \ {x} \subseteq s
  BY <1>3, <1>4
<1>6. QED
  BY <1>3, <1>4, <1>5

(* Some element of a finite set of numbers is least. *)
LEMMA MinIsLeast ==
    ASSUME NEW S \in SUBSET Nat, S # {}
    PROVE  Min(S) \in S /\ \A i \in S : Min(S) <= i
<1>1. S \subseteq Nat
  OBVIOUS
<1>2. PICK m \in S : \A i \in S : <<i, m>> \notin OpToRel(<, Nat)
  BY <1>1, NatLessThanWellFounded, WFMin
<1>3. \A i \in S : m <= i
  <2>1. \A i \in S : ~(i < m)
    BY <1>1, <1>2 DEF OpToRel
  <2>2. QED
    BY <1>1, <2>1
<1>4. QED
  BY <1>3 DEF Min

(* A sum counts the cells of a table with a column of height f[x] for x. *)
Cells(f, s) == {c \in s \X Nat : c[2] < f[c[1]]}

LEMMA CellsOfOne ==
    ASSUME NEW S, NEW f \in [S -> Nat], NEW s \in SUBSET S, NEW x \in s,
           IsFiniteSet(Cells(f, s \ {x}))
    PROVE  /\ IsFiniteSet(Cells(f, s))
           /\ Cardinality(Cells(f, s)) = f[x] + Cardinality(Cells(f, s \ {x}))
<1> DEFINE Column == {x} \X (0..(f[x] - 1))
           Rest == Cells(f, s \ {x})
<1>1. f[x] \in Nat
  OBVIOUS
<1>2. IsFiniteSet(0..(f[x] - 1)) /\ Cardinality(0..(f[x] - 1)) = f[x]
  BY <1>1, FS_Interval
<1>3. IsFiniteSet({x}) /\ Cardinality({x}) = 1
  BY FS_Singleton
<1>4. IsFiniteSet(Column) /\ Cardinality(Column) = Cardinality({x}) * Cardinality(0..(f[x] - 1))
  BY <1>2, <1>3, FS_Product
<1>5. Cardinality(Column) = f[x]
  BY <1>1, <1>2, <1>3, <1>4
<1>6. Cells(f, s) = Rest \cup Column /\ Rest \cap Column = {}
  BY <1>1 DEF Cells
<1> HIDE DEF Column, Rest
<1>7. /\ IsFiniteSet(Rest \cup Column)
      /\ Cardinality(Rest \cup Column) =
            Cardinality(Rest) + Cardinality(Column) - Cardinality(Rest \cap Column)
  BY <1>4, FS_Union DEF Rest
<1>8. Cardinality(Rest) \in Nat /\ Cardinality(Rest \cap Column) = 0
  BY <1>6, FS_CardinalityType, FS_EmptySet DEF Rest
<1>9. QED
  BY <1>1, <1>5, <1>6, <1>7, <1>8 DEF Rest

LEMMA CellsAreFinite ==
    ASSUME NEW S, IsFiniteSet(S), NEW f \in [S -> Nat], NEW s \in SUBSET S
    PROVE  IsFiniteSet(Cells(f, s)) /\ Cardinality(Cells(f, s)) \in Nat
<1> DEFINE F == {t \in SUBSET S : IsFiniteSet(Cells(f, t))}
<1>1. {} \in F
  BY FS_EmptySet DEF Cells
<1>2. \A t \in SUBSET S : t # {} => \E x \in t : t \ {x} \in F => t \in F
  BY CellsOfOne
<1> HIDE DEF F
<1>3. F \in SUBSET SUBSET S
  BY DEF F
<1>4. F = SUBSET S
  BY <1>1, <1>2, <1>3, ByRemoval
<1>5. QED
  BY <1>4, FS_CardinalityType DEF F

(* A fold of f over subsets of S takes out one element after the other. *)
One(s) == CHOOSE x \in s : TRUE
SumStep(g, f, S) == [s \in SUBSET S |-> IF s = {} THEN 0 ELSE f[One(s)] + g[s \ {One(s)}]]

LEMMA SumCounts ==
    ASSUME NEW S, IsFiniteSet(S), NEW f \in [S -> Nat]
    PROVE  SumFunction(f) = Cardinality(Cells(f, S))
<1>1. SumFunction(f) = (CHOOSE g : g = SumStep(g, f, S))[S]
  <2>1. SumFunction(f) = (CHOOSE g : g = SumStep(g, f, DOMAIN f))[DOMAIN f]
    BY DEF SumFunction, SumFunctionOnSet, FoldFunctionOnSet, MapThenFoldSet, SumStep, One
  <2>2. QED
    BY <2>1
<1> DEFINE count == [s \in SUBSET S |-> Cardinality(Cells(f, s))]
<1>2. \A s \in SUBSET S : s # {} => One(s) \in s
  BY DEF One
<1>3. count = SumStep(count, f, S)
  <2>1. ASSUME NEW s \in SUBSET S
        PROVE  count[s] = IF s = {} THEN 0 ELSE f[One(s)] + count[s \ {One(s)}]
    <3>1. CASE s = {}
      BY <3>1, FS_EmptySet DEF Cells
    <3>2. CASE s # {}
      <4>1. One(s) \in s /\ s \ {One(s)} \in SUBSET S
        BY <1>2, <3>2
      <4>2. QED
        BY <3>2, <4>1, CellsAreFinite, CellsOfOne
    <3>3. QED
      BY <3>1, <3>2
  <2> HIDE DEF count
  <2>2. count = [s \in SUBSET S |-> IF s = {} THEN 0 ELSE f[One(s)] + count[s \ {One(s)}]]
    BY <2>1 DEF count
  <2>3. QED
    BY <2>2 DEF SumStep
<1> DEFINE g == CHOOSE h : h = SumStep(h, f, S)
<1>4. g = SumStep(g, f, S)
  BY <1>3
<1> HIDE DEF g, count
<1> DEFINE F == {s \in SUBSET S : g[s] = count[s]}
<1>5. F = SUBSET S
  <2>1. {} \in F
    BY <1>3, <1>4 DEF SumStep
  <2>2. ASSUME NEW s \in SUBSET S, s # {}
        PROVE  \E x \in s : s \ {x} \in F => s \in F
    <3>1. One(s) \in s /\ s \ {One(s)} \in SUBSET S
      BY <1>2, <2>2
    <3>2. /\ g[s] = f[One(s)] + g[s \ {One(s)}]
          /\ count[s] = f[One(s)] + count[s \ {One(s)}]
      BY <1>3, <1>4, <2>2 DEF SumStep
    <3>3. QED
      BY <3>1, <3>2
  <2> HIDE DEF F
  <2>3. F \in SUBSET SUBSET S
    BY DEF F
  <2>4. QED
    BY <2>1, <2>2, <2>3, ByRemoval
<1>6. QED
  BY <1>1, <1>5 DEF g, count

LEMMA SumIsNat ==
    ASSUME NEW S, IsFiniteSet(S), NEW f \in [S -> Nat]
    PROVE  SumFunction(f) \in Nat
  BY SumCounts, CellsAreFinite

(* Larger terms make a larger sum. *)
LEMMA SumIsMonotone ==
    ASSUME NEW S, IsFiniteSet(S), NEW f \in [S -> Nat], NEW g \in [S -> Nat],
           \A x \in S : f[x] <= g[x]
    PROVE  SumFunction(f) <= SumFunction(g)
<1>1. Cells(f, S) \subseteq Cells(g, S)
  BY DEF Cells
<1>2. IsFiniteSet(Cells(g, S))
  BY CellsAreFinite
<1>3. QED
  BY <1>1, <1>2, FS_Subset, SumCounts

(* A common factor of the terms is one of the sum. *)
LEMMA SumOfMultiples ==
    ASSUME NEW S, IsFiniteSet(S), NEW f \in [S -> Nat], NEW k \in Nat,
           NEW g \in [S -> Nat], \A x \in S : g[x] = f[x] * k
    PROVE  SumFunction(g) = SumFunction(f) * k
<1> DEFINE m(s) == Cardinality(Cells(f, s))
           n(s) == Cardinality(Cells(g, s))
           F == {s \in SUBSET S : n(s) = m(s) * k}
<1>1. {} \in F
  <2>1. Cells(f, {}) = {} /\ Cells(g, {}) = {}
    BY DEF Cells
  <2>2. n({}) = 0 /\ m({}) = 0
    BY <2>1, FS_EmptySet
  <2> HIDE DEF n, m
  <2>3. QED
    BY <2>2
<1>2. ASSUME NEW s \in SUBSET S, s # {}
      PROVE  \E x \in s : s \ {x} \in F => s \in F
  <2>1. PICK x \in s : TRUE
    BY <1>2
  <2>2. ASSUME s \ {x} \in F PROVE n(s) = m(s) * k
    <3>1. /\ m(s) = f[x] + m(s \ {x}) /\ n(s) = g[x] + n(s \ {x})
          /\ m(s \ {x}) \in Nat
      BY <2>1, CellsAreFinite, CellsOfOne
    <3>2. n(s \ {x}) = m(s \ {x}) * k
      BY <2>2
    <3> HIDE DEF m, n
    <3>3. \A i, j \in Nat : i * k + j * k = (i + j) * k
      OBVIOUS
    <3>4. f[x] \in Nat /\ g[x] = f[x] * k
      BY <2>1
    <3>5. QED
      BY <3>1, <3>2, <3>3, <3>4
  <2>3. QED
    BY <2>1, <2>2
<1> HIDE DEF F
<1>3. F \in SUBSET SUBSET S
  BY DEF F
<1>4. F = SUBSET S
  BY <1>1, <1>2, <1>3, ByRemoval
<1>5. QED
  BY <1>4, SumCounts DEF F

LEMMA SumOfEqual ==
    ASSUME NEW S, IsFiniteSet(S), NEW k \in Nat, NEW f \in [S -> Nat], \A x \in S : f[x] = k
    PROVE  SumFunction(f) = Cardinality(S) * k
<1>1. IsFiniteSet(0..(k - 1)) /\ Cardinality(0..(k - 1)) = k
  BY FS_Interval
<1>2. Cells(f, S) = S \X (0..(k - 1))
  BY DEF Cells
<1>3. Cardinality(S \X (0..(k - 1))) = Cardinality(S) * k
  BY <1>1, FS_Product
<1>4. QED
  BY <1>2, <1>3, SumCounts

(* A product counts the ways to choose a cell in each column. *)
Choosings(f, s) == {h \in [s -> Nat] : \A x \in s : h[x] < f[x]}

LEMMA ChoosingsOfOne ==
    ASSUME NEW S, NEW f \in [S -> Nat], NEW s \in SUBSET S, NEW x \in s,
           IsFiniteSet(Choosings(f, s \ {x}))
    PROVE  /\ IsFiniteSet(Choosings(f, s))
           /\ Cardinality(Choosings(f, s)) = f[x] * Cardinality(Choosings(f, s \ {x}))
<1> DEFINE Column == 0..(f[x] - 1)
           Rest == Choosings(f, s \ {x})
           Both == Column \X Rest
           join == [c \in Both |-> [y \in s |-> IF y = x THEN c[1] ELSE c[2][y]]]
<1>1. f[x] \in Nat
  OBVIOUS
<1>2. IsFiniteSet(Column) /\ Cardinality(Column) = f[x]
  BY <1>1, FS_Interval
<1>3. IsFiniteSet(Both) /\ Cardinality(Both) = f[x] * Cardinality(Rest)
  BY <1>2, FS_Product
<1>4. join \in Bijection(Both, Choosings(f, s))
  <2>1. ASSUME NEW c \in Both PROVE join[c] \in Choosings(f, s)
    <3>1. /\ c[1] \in Nat /\ c[1] < f[x]
          /\ c[2] \in [s \ {x} -> Nat] /\ \A y \in s \ {x} : c[2][y] < f[y]
      BY <1>1 DEF Choosings
    <3>2. QED
      BY <3>1 DEF Choosings
  <2>2. ASSUME NEW c \in Both, NEW d \in Both, join[c] = join[d] PROVE c = d
    <3>1. join[c][x] = c[1] /\ join[d][x] = d[1]
      OBVIOUS
    <3>2. \A y \in s \ {x} : join[c][y] = c[2][y] /\ join[d][y] = d[2][y]
      OBVIOUS
    <3>3. c[2] \in [s \ {x} -> Nat] /\ d[2] \in [s \ {x} -> Nat]
      BY DEF Choosings
    <3> HIDE DEF join
    <3>4. c[1] = d[1] /\ \A y \in s \ {x} : c[2][y] = d[2][y]
      BY <2>2, <3>1, <3>2
    <3>5. c[2] = d[2]
      BY <3>3, <3>4
    <3>6. c = <<c[1], c[2]>> /\ d = <<d[1], d[2]>>
      OBVIOUS
    <3>7. QED
      BY <3>4, <3>5, <3>6
  <2>3. ASSUME NEW h \in Choosings(f, s) PROVE \E c \in Both : join[c] = h
    <3> DEFINE r == [y \in s \ {x} |-> h[y]]
    <3>1. h \in [s -> Nat] /\ \A y \in s : h[y] < f[y]
      BY DEF Choosings
    <3>2. r \in Rest /\ h[x] \in Column
      BY <1>1, <3>1 DEF Choosings
    <3>3. join[<<h[x], r>>] = [y \in s |-> h[y]]
      BY <3>2
    <3>4. QED
      BY <3>1, <3>2, <3>3
  <2> HIDE DEF Both, join
  <2>4. join \in [Both -> Choosings(f, s)]
    BY <2>1 DEF join
  <2>5. QED
    BY <2>2, <2>3, <2>4 DEF Bijection, Injection, Surjection, IsInjective
<1>5. QED
  BY <1>3, <1>4, FS_Bijection DEF ExistsBijection

LEMMA ChoosingsAreFinite ==
    ASSUME NEW S, IsFiniteSet(S), NEW f \in [S -> Nat], NEW s \in SUBSET S
    PROVE  IsFiniteSet(Choosings(f, s)) /\ Cardinality(Choosings(f, s)) \in Nat
<1> DEFINE F == {t \in SUBSET S : IsFiniteSet(Choosings(f, t))}
<1>1. {} \in F
  <2>1. Choosings(f, {}) = {[x \in {} |-> 0]}
    BY DEF Choosings
  <2>2. QED
    BY <2>1, FS_Singleton
<1>2. \A t \in SUBSET S : t # {} => \E x \in t : t \ {x} \in F => t \in F
  BY ChoosingsOfOne
<1> HIDE DEF F
<1>3. F \in SUBSET SUBSET S
  BY DEF F
<1>4. F = SUBSET S
  BY <1>1, <1>2, <1>3, ByRemoval
<1>5. QED
  BY <1>4, FS_CardinalityType DEF F

ProductStep(g, f, S) ==
    [s \in SUBSET S |-> IF s = {} THEN 1 ELSE f[One(s)] * g[s \ {One(s)}]]

LEMMA ProductIsNat ==
    ASSUME NEW S, IsFiniteSet(S), NEW f \in [S -> Nat]
    PROVE  Product(f) \in Nat
<1>1. Product(f) = (CHOOSE g : g = ProductStep(g, f, S))[S]
  <2>1. Product(f) = (CHOOSE g : g = ProductStep(g, f, DOMAIN f))[DOMAIN f]
    BY DEF Product, FoldFunction, FoldFunctionOnSet, MapThenFoldSet, ProductStep, One
  <2>2. QED
    BY <2>1
<1> DEFINE count == [s \in SUBSET S |-> Cardinality(Choosings(f, s))]
<1>2. \A s \in SUBSET S : s # {} => One(s) \in s
  BY DEF One
<1>3. count = ProductStep(count, f, S)
  <2>1. ASSUME NEW s \in SUBSET S
        PROVE  count[s] = IF s = {} THEN 1 ELSE f[One(s)] * count[s \ {One(s)}]
    <3>1. CASE s = {}
      <4>1. Choosings(f, {}) = {[x \in {} |-> 0]}
        BY DEF Choosings
      <4>2. QED
        BY <3>1, <4>1, FS_Singleton
    <3>2. CASE s # {}
      <4>1. One(s) \in s /\ s \ {One(s)} \in SUBSET S
        BY <1>2, <3>2
      <4>2. QED
        BY <3>2, <4>1, ChoosingsAreFinite, ChoosingsOfOne
    <3>3. QED
      BY <3>1, <3>2
  <2> HIDE DEF count
  <2>2. count = [s \in SUBSET S |-> IF s = {} THEN 1 ELSE f[One(s)] * count[s \ {One(s)}]]
    BY <2>1 DEF count
  <2>3. QED
    BY <2>2 DEF ProductStep
<1> DEFINE g == CHOOSE h : h = ProductStep(h, f, S)
<1>4. g = ProductStep(g, f, S)
  BY <1>3
<1> HIDE DEF g, count
<1> DEFINE F == {s \in SUBSET S : g[s] \in Nat}
<1>5. {} \in F
  BY <1>4 DEF ProductStep
<1>6. ASSUME NEW s \in SUBSET S, s # {}
      PROVE  \E x \in s : s \ {x} \in F => s \in F
  <2>1. One(s) \in s /\ s \ {One(s)} \in SUBSET S /\ f[One(s)] \in Nat
    BY <1>2, <1>6
  <2>2. g[s] = f[One(s)] * g[s \ {One(s)}]
    BY <1>4, <1>6 DEF ProductStep
  <2>3. \A i, j \in Nat : i * j \in Nat
    OBVIOUS
  <2>4. s \ {One(s)} \in F => g[s \ {One(s)}] \in Nat
    OBVIOUS
  <2>5. s \ {One(s)} \in F => g[s] \in Nat
    BY <2>1, <2>2, <2>3, <2>4
  <2>6. QED
    BY <2>1, <2>5
<1> HIDE DEF F
<1>7. F \in SUBSET SUBSET S
  BY DEF F
<1>8. F = SUBSET S
  BY <1>5, <1>6, <1>7, ByRemoval
<1>9. QED
  BY <1>1, <1>8 DEF F, g

-----------------------------------------------------------------------------
(* Percentages, grades and decisions.                                      *)

LEMMA Dividing ==
    ASSUME NEW a \in Nat, NEW b \in Nat, b > 0
    PROVE  a \div b \in Nat /\ b * (a \div b) <= a /\ a < b * (a \div b) + b
  OBVIOUS

LEMMA DivisionIsMonotone ==
    ASSUME NEW a \in Nat, NEW c \in Nat, NEW b \in Nat, b > 0, a <= c
    PROVE  a \div b <= c \div b
<1> DEFINE q == a \div b
           r == c \div b
<1>1. q \in Nat /\ r \in Nat /\ b * q <= a /\ c < b * r + b
  BY Dividing
<1> HIDE DEF q, r
<1>2. b * q < b * (r + 1)
  BY <1>1
<1>3. \A i, j \in Nat : i >= j => b * i >= b * j
  OBVIOUS
<1>4. q <= r
  BY <1>1, <1>2, <1>3
<1>5. QED
  BY <1>4 DEF q, r

LEMMA PercentIsNat ==
    ASSUME NEW a \in Nat, NEW b \in Nat
    PROVE  Percent(a, b) \in Nat
<1>1. b > 0 => 20000 * a + b \in Nat /\ 2 * b \in Nat /\ 2 * b > 0
  OBVIOUS
<1>2. QED
  BY <1>1, Dividing DEF Percent

LEMMA PercentIsMonotone ==
    ASSUME NEW a \in Nat, NEW c \in Nat, NEW b \in Nat, a <= c
    PROVE  Percent(a, b) <= Percent(c, b)
<1>1. b > 0 => /\ 20000 * a + b \in Nat /\ 20000 * c + b \in Nat
               /\ 2 * b \in Nat /\ 2 * b > 0 /\ 20000 * a + b <= 20000 * c + b
  OBVIOUS
<1>2. b > 0 => (20000 * a + b) \div (2 * b) <= (20000 * c + b) \div (2 * b)
  BY <1>1, DivisionIsMonotone
<1>3. QED
  BY <1>2 DEF Percent

LEMMA PercentIsAtMostAll ==
    ASSUME NEW a \in Nat, NEW b \in Nat, a <= b
    PROVE  Percent(a, b) <= 10000
<1>1. CASE b = 0
  BY <1>1 DEF Percent
<1>2. CASE b > 0
  <2> DEFINE q == (20000 * a + b) \div (2 * b)
  <2>1. q \in Nat /\ (2 * b) * q <= 20000 * a + b
    BY <1>2, Dividing
  <2> HIDE DEF q
  <2>2. (2 * b) * q < (2 * b) * 10001
    BY <1>2, <2>1
  <2>3. \A i, j \in Nat : i >= j => (2 * b) * i >= (2 * b) * j
    OBVIOUS
  <2>4. q < 10001
    BY <2>1, <2>2, <2>3
  <2>5. QED
    BY <1>2, <2>1, <2>4 DEF Percent, q
<1>3. QED
  BY <1>1, <1>2

(* The bands cover all percentages, in the order of the grades. *)
Fits(k, pct) == InBand(DefaultBands[k], pct)
OnlyFits(k, pct) == Fits(k, pct) /\ \A j \in 1..7 : Fits(j, pct) => j = k

LEMMA GradeOf ==
    ASSUME NEW pct \in Nat, pct <= 10000
    PROVE  \E i \in 1..7 : OnlyFits(8 - i, pct) /\ Grade(pct) = Grades[i]
<1> DEFINE fits == {k \in DOMAIN DefaultBands : InBand(DefaultBands[k], pct)}
<1>1. DOMAIN DefaultBands = 1..7
  BY DEF DefaultBands
<1>2. \E i \in 1..7 : OnlyFits(8 - i, pct)
  <2>1. /\ Fits(1, pct) <=> 9000 <= pct /\ pct <= 10000
        /\ Fits(2, pct) <=> 8000 <= pct /\ pct <= 8999
        /\ Fits(3, pct) <=> 7000 <= pct /\ pct <= 7999
        /\ Fits(4, pct) <=> 6000 <= pct /\ pct <= 6999
        /\ Fits(5, pct) <=> 5000 <= pct /\ pct <= 5999
        /\ Fits(6, pct) <=> 3500 <= pct /\ pct <= 4999
        /\ Fits(7, pct) <=> 0 <= pct /\ pct <= 3499
    BY DEF Fits, InBand, DefaultBands
  <2>2. \/ Fits(1, pct) \/ Fits(2, pct) \/ Fits(3, pct) \/ Fits(4, pct)
        \/ Fits(5, pct) \/ Fits(6, pct) \/ Fits(7, pct)
    BY <2>1
  <2>3. PICK k \in 1..7 : Fits(k, pct)
    BY <2>2
  <2>4. \A j \in 1..7 : Fits(j, pct) => j = k
    BY <2>1, <2>3
  <2>5. 8 - k \in 1..7 /\ 8 - (8 - k) = k
    OBVIOUS
  <2>6. QED
    BY <2>3, <2>4, <2>5 DEF OnlyFits
<1>3. PICK i \in 1..7 : OnlyFits(8 - i, pct)
  BY <1>2
<1>4. fits = {8 - i}
  BY <1>1, <1>3 DEF OnlyFits, Fits
<1>5. Min(fits) = 8 - i
  <2>1. fits \in SUBSET Nat /\ fits # {}
    BY <1>4
  <2>2. Min(fits) \in fits
    BY <2>1, MinIsLeast
  <2>3. QED
    BY <1>4, <2>2
<1>6. Grade(pct) = DefaultBands[8 - i].grade
  BY <1>4, <1>5 DEF Grade
<1>7. DefaultBands[8 - i].grade = Grades[i]
  BY DEF DefaultBands, Grades
<1>8. QED
  BY <1>3, <1>6, <1>7

LEMMA GradeIsMonotone ==
    ASSUME NEW x \in Nat, NEW y \in Nat, x <= y, y <= 10000
    PROVE  NotBelow(Grades, Grade(y), Grade(x))
<1>1. PICK i \in 1..7 : OnlyFits(8 - i, x) /\ Grade(x) = Grades[i]
  BY GradeOf
<1>2. PICK j \in 1..7 : OnlyFits(8 - j, y) /\ Grade(y) = Grades[j]
  BY GradeOf
<1>3. i <= j
  BY <1>1, <1>2 DEF OnlyFits, Fits, InBand, DefaultBands
<1>4. DOMAIN Grades = 1..7 /\ \A k, l \in 1..7 : Grades[k] = Grades[l] => k = l
  BY DEF Grades
<1>5. QED
  BY <1>1, <1>2, <1>3, <1>4 DEF NotBelow

LEMMA PromotionIsMonotone ==
    ASSUME NEW x \in Nat, NEW y \in Nat, x <= y, NEW m \in Nat, NEW n \in Nat, n <= m
    PROVE  NotBelow(Verdicts, Promotion(y, n, 7500), Promotion(x, m, 7500))
<1>1. \A z, k \in Nat : Promotion(z, k, 7500) =
                         IF z < 3500 \/ k > 1 THEN "DETAINED"
                         ELSE IF k = 1 THEN "CONDITIONALLY_PROMOTED" ELSE "PROMOTED"
  BY DEF Promotion
<1>2. QED
  BY <1>1 DEF NotBelow, Verdicts

-----------------------------------------------------------------------------
(* What a better sheet does to the results.                                *)

IsSheet(sh) ==
    /\ IsFiniteSet(DOMAIN sh) /\ DOMAIN sh \subseteq Paper
    /\ \A p \in DOMAIN sh : sh[p].value \in Nat /\ sh[p].value <= MaxOf[p[1]]

Improves(new, old) ==
    /\ DOMAIN new = DOMAIN old
    /\ \A p \in DOMAIN old : /\ old[p].value <= new[p].value
                             /\ Scored(old[p]) => Scored(new[p])

LEMMA PapersCount ==
    ASSUME NEW sh, IsSheet(sh), NEW e
    PROVE  /\ IsFiniteSet(PapersIn(sh, e)) /\ PapersIn(sh, e) \subseteq DOMAIN sh
           /\ \A p \in DOMAIN sh : p[1] \in Exams /\ MaxOf[p[1]] \in Nat /\ MaxOf[p[1]] > 0
<1>1. PapersIn(sh, e) \in SUBSET DOMAIN sh
  BY DEF PapersIn
<1>2. QED
  BY <1>1, FS_Subset, PolicyAssumption DEF IsSheet, Paper

LEMMA Multiplying ==
    ASSUME NEW a \in Nat, NEW c \in Nat, NEW k \in Nat, a <= c
    PROVE  /\ a * k \in Nat /\ k * a \in Nat
           /\ a * k <= c * k /\ k * a <= k * c
  OBVIOUS

(* The percentage of a subject. *)
LEMMA SubjectIsMonotone ==
    ASSUME NEW old, IsSheet(old), NEW new, IsSheet(new), Improves(new, old),
           NEW s, NEW ws \in [Exams -> Nat]
    PROVE  /\ SubjectPercent(old, s, ws) \in Nat /\ SubjectPercent(new, s, ws) \in Nat
           /\ SubjectPercent(old, s, ws) <= SubjectPercent(new, s, ws)
<1> DEFINE ps == {p \in DOMAIN old : p[2] = s}
           w == [p \in ps |-> ws[p[1]]]
           max == [p \in ps |-> MaxOf[p[1]]]
           plain(sh) == [p \in ps |-> sh[p].value]
           scaled(sh) == [p \in ps |-> ws[p[1]] * ScaledMark(sh, p)]
<1>1. IsFiniteSet(ps) /\ ps \subseteq DOMAIN old /\ DOMAIN new = DOMAIN old
  BY FS_Subset DEF IsSheet, Improves
<1>2. \A p \in ps : p[1] \in Exams /\ MaxOf[p[1]] \in Nat /\ MaxOf[p[1]] > 0
  BY <1>1, PapersCount
<1>3. \A p \in ps : /\ old[p].value \in Nat /\ new[p].value \in Nat
                     /\ old[p].value <= new[p].value
  BY <1>1 DEF IsSheet, Improves
<1>4. Scale \in Nat
  BY ProductIsNat, PolicyAssumption DEF Scale
<1>5. w \in [ps -> Nat] /\ max \in [ps -> Nat] /\ SumFunction(w) \in Nat /\ SumFunction(max) \in Nat
  BY <1>1, <1>2, SumIsNat
<1>6. /\ plain(old) \in [ps -> Nat] /\ plain(new) \in [ps -> Nat]
      /\ SumFunction(plain(old)) \in Nat /\ SumFunction(plain(new)) \in Nat
      /\ SumFunction(plain(old)) <= SumFunction(plain(new))
  BY <1>1, <1>3, SumIsNat, SumIsMonotone
<1>7. ASSUME NEW p \in ps
      PROVE  /\ ws[p[1]] * ScaledMark(old, p) \in Nat /\ ws[p[1]] * ScaledMark(new, p) \in Nat
             /\ ws[p[1]] * ScaledMark(old, p) <= ws[p[1]] * ScaledMark(new, p)
  <2> DEFINE q == Scale \div MaxOf[p[1]]
  <2>1. q \in Nat /\ ws[p[1]] \in Nat
    BY <1>2, <1>4, Dividing
  <2> HIDE DEF q
  <2>2. /\ old[p].value * q \in Nat /\ new[p].value * q \in Nat
        /\ old[p].value * q <= new[p].value * q
    BY <1>3, <2>1, Multiplying
  <2>3. ScaledMark(old, p) = old[p].value * q /\ ScaledMark(new, p) = new[p].value * q
    BY DEF ScaledMark, q
  <2>4. QED
    BY <2>1, <2>2, <2>3, Multiplying
<1>8. /\ scaled(old) \in [ps -> Nat] /\ scaled(new) \in [ps -> Nat]
      /\ SumFunction(scaled(old)) \in Nat /\ SumFunction(scaled(new)) \in Nat
      /\ SumFunction(scaled(old)) <= SumFunction(scaled(new))
  <2>1. /\ scaled(old) \in [ps -> Nat] /\ scaled(new) \in [ps -> Nat]
        /\ \A p \in ps : scaled(old)[p] <= scaled(new)[p]
    BY <1>7
  <2> HIDE DEF scaled
  <2>2. QED
    BY <1>1, <2>1, SumIsNat, SumIsMonotone
<1>9. /\ SubjectPercent(old, s, ws) =
            IF Weighted(ws) /\ SumFunction(w) > 0
            THEN Percent(SumFunction(scaled(old)), SumFunction(w) * Scale)
            ELSE Percent(SumFunction(plain(old)), SumFunction(max))
      /\ SubjectPercent(new, s, ws) =
            IF Weighted(ws) /\ SumFunction(w) > 0
            THEN Percent(SumFunction(scaled(new)), SumFunction(w) * Scale)
            ELSE Percent(SumFunction(plain(new)), SumFunction(max))
  BY <1>1 DEF SubjectPercent
<1> HIDE DEF ps, w, max, plain, scaled
<1>10. SumFunction(w) * Scale \in Nat
  BY <1>4, <1>5
<1>11. QED
  BY <1>5, <1>6, <1>8, <1>9, <1>10, PercentIsNat, PercentIsMonotone

(* No subject is failed that was not. *)
LEMMA FailedIsMonotone ==
    ASSUME NEW old, IsSheet(old), NEW new, IsSheet(new), Improves(new, old),
           NEW ws \in [Exams -> Nat]
    PROVE  Failed(old, ws) \in Nat /\ Failed(new, ws) \in Nat /\ Failed(new, ws) <= Failed(old, ws)
<1> DEFINE low(sh) == {s \in SubjectsOf(sh) : SubjectPercent(sh, s, ws) < 3500}
           about == [p \in DOMAIN old |-> p[2]]
<1>1. SubjectsOf(new) = SubjectsOf(old)
  BY DEF SubjectsOf, Improves
<1>2. about \in Surjection(DOMAIN old, SubjectsOf(old))
  BY DEF Surjection, SubjectsOf
<1>3. IsFiniteSet(SubjectsOf(old))
  BY <1>2, FS_Surjection DEF IsSheet
<1>4. low(new) \subseteq low(old)
  <2>1. ASSUME NEW s \in SubjectsOf(old), SubjectPercent(new, s, ws) < 3500
        PROVE  SubjectPercent(old, s, ws) < 3500
    BY <2>1, SubjectIsMonotone
  <2>2. QED
    BY <1>1, <2>1
<1>5. low(old) \in SUBSET SubjectsOf(old)
  OBVIOUS
<1> HIDE DEF low
<1>6. /\ IsFiniteSet(low(old)) /\ IsFiniteSet(low(new))
      /\ Cardinality(low(new)) <= Cardinality(low(old))
  BY <1>3, <1>4, <1>5, FS_Subset
<1>7. Cardinality(low(old)) \in Nat /\ Cardinality(low(new)) \in Nat
  BY <1>6, FS_CardinalityType
<1>8. QED
  BY <1>6, <1>7 DEF Failed, low

(* What was obtained in an examination. *)
LEMMA ObtainedIsMonotone ==
    ASSUME NEW old, IsSheet(old), NEW new, IsSheet(new), Improves(new, old), NEW e \in Exams
    PROVE  /\ Attainable(new, e) = Attainable(old, e) /\ Attainable(old, e) \in Nat
           /\ Obtained(old, e) \in Nat /\ Obtained(new, e) \in Nat
           /\ Obtained(old, e) <= Obtained(new, e) /\ Obtained(new, e) <= Attainable(old, e)
<1> DEFINE ps == PapersIn(old, e)
           f == [p \in ps |-> old[p].value]
           g == [p \in ps |-> new[p].value]
           max == [p \in ps |-> MaxOf[e]]
<1>1. PapersIn(new, e) = ps
  BY DEF PapersIn, Improves
<1>2. IsFiniteSet(ps) /\ ps \subseteq DOMAIN old /\ \A p \in ps : p[1] = e
  BY PapersCount DEF PapersIn
<1>3. MaxOf[e] \in Nat
  BY PolicyAssumption
<1>4. \A p \in ps : /\ old[p].value \in Nat /\ new[p].value \in Nat
                     /\ old[p].value <= new[p].value /\ new[p].value <= MaxOf[e]
  BY <1>2 DEF IsSheet, Improves
<1>5. /\ Attainable(old, e) = MaxOf[e] * Cardinality(ps)
      /\ Attainable(new, e) = MaxOf[e] * Cardinality(ps)
  BY <1>1 DEF Attainable
<1>6. Obtained(old, e) = SumFunction(f) /\ Obtained(new, e) = SumFunction(g)
  BY <1>1 DEF Obtained
<1>7. f \in [ps -> Nat] /\ g \in [ps -> Nat] /\ max \in [ps -> Nat]
  BY <1>3, <1>4
<1>8. \A p \in ps : f[p] <= g[p] /\ g[p] <= max[p] /\ max[p] = MaxOf[e]
  BY <1>4
<1> HIDE DEF ps, f, g, max
<1>9. SumFunction(max) = Cardinality(ps) * MaxOf[e]
  BY <1>2, <1>3, <1>7, <1>8, SumOfEqual
<1>10. Cardinality(ps) \in Nat
  BY <1>2, FS_CardinalityType
<1>11. \A i, j \in Nat : i * j = j * i /\ i * j \in Nat
  OBVIOUS
<1>12. SumFunction(max) = Attainable(old, e) /\ Attainable(old, e) \in Nat
  BY <1>3, <1>5, <1>9, <1>10, <1>11
<1>13. /\ SumFunction(f) \in Nat /\ SumFunction(g) \in Nat
       /\ SumFunction(f) <= SumFunction(g) /\ SumFunction(g) <= SumFunction(max)
  BY <1>2, <1>7, <1>8, SumIsNat, SumIsMonotone
<1>14. QED
  BY <1>5, <1>6, <1>12, <1>13

(* The share of a weighted examination in the common denominator. *)
LEMMA ShareIsBounded ==
    ASSUME NEW a \in Nat, NEW c \in Nat, NEW max \in Nat, NEW size \in Nat, NEW w \in Nat,
           a <= c, c <= max, max > 0
    PROVE  /\ w * a * (size \div max) \in Nat /\ w * c * (size \div max) \in Nat
           /\ w * a * (size \div max) <= w * c * (size \div max)
           /\ w * c * (size \div max) <= w * size
<1> DEFINE q == size \div max
<1>1. q \in Nat /\ max * q <= size
  BY Dividing
<1> HIDE DEF q
<1>2. /\ a * q \in Nat /\ c * q \in Nat /\ max * q \in Nat
      /\ a * q <= c * q /\ c * q <= max * q
  BY <1>1, Multiplying
<1>3. c * q <= size
  BY <1>1, <1>2
<1>4. /\ w * (a * q) \in Nat /\ w * (c * q) \in Nat
      /\ w * (a * q) <= w * (c * q) /\ w * (c * q) <= w * size
  BY <1>2, <1>3, Multiplying
<1>5. \A i, j, k \in Nat : i * j * k = i * (j * k)
  OBVIOUS
<1>6. w * a * q = w * (a * q) /\ w * c * q = w * (c * q)
  BY <1>1, <1>5
<1>7. QED
  BY <1>4, <1>6 DEF q

LEMMA OverallIsMonotone ==
    ASSUME NEW old, IsSheet(old), NEW new, IsSheet(new), Improves(new, old),
           NEW ws \in [Exams -> Nat]
    PROVE  /\ OverallPercent(old, ws) \in Nat /\ OverallPercent(new, ws) \in Nat
           /\ OverallPercent(old, ws) <= OverallPercent(new, ws)
           /\ OverallPercent(new, ws) <= 10000
<1> DEFINE es == Counted(old)
           max == [e \in es |-> Attainable(old, e)]
           size == Product(max)
           w == [e \in es |-> ws[e]]
           full == [e \in es |-> ws[e] * size]
           plain(sh) == [e \in es |-> Obtained(sh, e)]
           share(sh) == [e \in es |-> ws[e] * Obtained(sh, e) * (size \div Attainable(sh, e))]
<1>1. es \subseteq Exams /\ IsFiniteSet(es) /\ Counted(new) = es
  <2>1. es \in SUBSET Exams /\ Counted(new) = es
    BY ObtainedIsMonotone DEF Counted
  <2>2. QED
    BY <2>1, FS_Subset, PolicyAssumption
<1>2. \A e \in es : /\ Attainable(new, e) = Attainable(old, e)
                     /\ Attainable(old, e) \in Nat /\ Attainable(old, e) > 0
                     /\ Obtained(old, e) \in Nat /\ Obtained(new, e) \in Nat
                     /\ Obtained(old, e) <= Obtained(new, e)
                     /\ Obtained(new, e) <= Attainable(old, e)
  BY ObtainedIsMonotone DEF Counted
<1>3. max \in [es -> Nat] /\ size \in Nat /\ SumFunction(max) \in Nat
  BY <1>1, <1>2, ProductIsNat, SumIsNat
<1>4. [e \in es |-> Attainable(new, e)] = max
  BY <1>2
<1> HIDE DEF size
<1>5. /\ w \in [es -> Nat] /\ full \in [es -> Nat]
      /\ SumFunction(w) \in Nat /\ SumFunction(full) = SumFunction(w) * size
  <2>1. /\ w \in [es -> Nat] /\ full \in [es -> Nat]
        /\ \A e \in es : full[e] = w[e] * size
    BY <1>1, <1>3
  <2> HIDE DEF w, full
  <2>2. QED
    BY <1>1, <1>3, <2>1, SumIsNat, SumOfMultiples
<1>6. /\ SumFunction(plain(old)) \in Nat /\ SumFunction(plain(new)) \in Nat
      /\ SumFunction(plain(old)) <= SumFunction(plain(new))
      /\ SumFunction(plain(new)) <= SumFunction(max)
  <2>1. /\ plain(old) \in [es -> Nat] /\ plain(new) \in [es -> Nat]
        /\ \A e \in es : plain(old)[e] <= plain(new)[e] /\ plain(new)[e] <= max[e]
    BY <1>2
  <2> HIDE DEF plain, max
  <2>2. QED
    BY <1>1, <1>3, <2>1, SumIsNat, SumIsMonotone
<1>7. /\ SumFunction(share(old)) \in Nat /\ SumFunction(share(new)) \in Nat
      /\ SumFunction(share(old)) <= SumFunction(share(new))
      /\ SumFunction(share(new)) <= SumFunction(full)
  <2>1. ASSUME NEW e \in es
        PROVE  /\ share(old)[e] \in Nat /\ share(new)[e] \in Nat
               /\ share(old)[e] <= share(new)[e] /\ share(new)[e] <= full[e]
    <3>1. ws[e] \in Nat
      BY <1>1
    <3>2. /\ share(old)[e] = ws[e] * Obtained(old, e) * (size \div Attainable(old, e))
          /\ share(new)[e] = ws[e] * Obtained(new, e) * (size \div Attainable(old, e))
          /\ full[e] = ws[e] * size
      BY <1>2
    <3> HIDE DEF share, full
    <3>3. QED
      BY <1>2, <1>3, <3>1, <3>2, ShareIsBounded
  <2>2. share(old) \in [es -> Nat] /\ share(new) \in [es -> Nat]
    BY <2>1
  <2> HIDE DEF share, full
  <2>3. QED
    BY <1>1, <1>5, <2>1, <2>2, SumIsNat, SumIsMonotone
<1>8. /\ OverallPercent(old, ws) =
            IF Weighted(ws) THEN Percent(SumFunction(share(old)), SumFunction(w) * size)
                            ELSE Percent(SumFunction(plain(old)), SumFunction(max))
      /\ OverallPercent(new, ws) =
            IF Weighted(ws) THEN Percent(SumFunction(share(new)), SumFunction(w) * size)
                            ELSE Percent(SumFunction(plain(new)), SumFunction(max))
  BY <1>1, <1>4 DEF OverallPercent, size
<1> HIDE DEF es, max, w, full, plain, share
<1>9. SumFunction(w) * size \in Nat
  BY <1>3, <1>5
<1>10. QED
  BY <1>3, <1>5, <1>6, <1>7, <1>8, <1>9, PercentIsNat, PercentIsMonotone, PercentIsAtMostAll

(* The result of one examination. *)
LEMMA ExamIsMonotone ==
    ASSUME NEW old, IsSheet(old), NEW new, IsSheet(new), Improves(new, old)
    PROVE  /\ ExamPercent(old) \in Nat /\ ExamPercent(new) \in Nat
           /\ ExamPercent(old) <= ExamPercent(new) /\ ExamPercent(new) <= 10000
           /\ ExamFailed(old) \in Nat /\ ExamFailed(new) \in Nat
           /\ ExamFailed(new) <= ExamFailed(old)
<1> DEFINE ps == DOMAIN old
           max == [p \in ps |-> MaxOf[p[1]]]
           got(sh) == [p \in ps |-> IF Scored(sh[p]) THEN sh[p].value ELSE 0]
           low(sh) == {p \in ps : ~Scored(sh[p]) \/ 100 * sh[p].value < 35 * MaxOf[p[1]]}
<1>1. IsFiniteSet(ps) /\ DOMAIN new = ps
  BY DEF IsSheet, Improves
<1>2. \A p \in ps : MaxOf[p[1]] \in Nat
  BY PapersCount
<1>3. \A p \in ps : /\ old[p].value \in Nat /\ new[p].value \in Nat
                     /\ old[p].value <= new[p].value /\ new[p].value <= MaxOf[p[1]]
  BY DEF IsSheet, Improves
<1>4. \A p \in ps : Scored(old[p]) => Scored(new[p])
  BY DEF Improves
<1>5. /\ SumFunction(max) \in Nat
      /\ SumFunction(got(old)) \in Nat /\ SumFunction(got(new)) \in Nat
      /\ SumFunction(got(old)) <= SumFunction(got(new))
      /\ SumFunction(got(new)) <= SumFunction(max)
  <2>1. /\ got(old) \in [ps -> Nat] /\ got(new) \in [ps -> Nat] /\ max \in [ps -> Nat]
        /\ \A p \in ps : got(old)[p] <= got(new)[p] /\ got(new)[p] <= max[p]
    <3>1. ASSUME NEW p \in ps
          PROVE  /\ got(old)[p] \in Nat /\ got(new)[p] \in Nat /\ max[p] \in Nat
                 /\ got(old)[p] <= got(new)[p] /\ got(new)[p] <= max[p]
      BY <1>2, <1>3, <1>4
    <3>2. QED
      BY <3>1
  <2> HIDE DEF got, max
  <2>2. QED
    BY <1>1, <2>1, SumIsNat, SumIsMonotone
<1>6. /\ ExamPercent(old) = Percent(SumFunction(got(old)), SumFunction(max))
      /\ ExamPercent(new) = Percent(SumFunction(got(new)), SumFunction(max))
  BY <1>1 DEF ExamPercent
<1>7. ExamFailed(old) = Cardinality(low(old)) /\ ExamFailed(new) = Cardinality(low(new))
  BY <1>1 DEF ExamFailed
<1>8. low(new) \subseteq low(old) /\ low(old) \in SUBSET ps
  <2>1. ASSUME NEW p \in ps, 100 * new[p].value < 35 * MaxOf[p[1]]
        PROVE  100 * old[p].value < 35 * MaxOf[p[1]]
    BY <1>2, <1>3, <2>1
  <2>2. QED
    BY <1>4, <2>1
<1> HIDE DEF max, got, low
<1>9. /\ IsFiniteSet(low(old)) /\ IsFiniteSet(low(new))
      /\ Cardinality(low(new)) <= Cardinality(low(old))
  BY <1>1, <1>8, FS_Subset
<1>10. Cardinality(low(old)) \in Nat /\ Cardinality(low(new)) \in Nat
  BY <1>9, FS_CardinalityType
<1>11. QED
  BY <1>5, <1>6, <1>7, <1>9, <1>10, PercentIsNat, PercentIsMonotone, PercentIsAtMostAll

-----------------------------------------------------------------------------
(* The sheets of the students, and what a step does to them.               *)

RowsOf(p) == {Absent} \cup {Present(v) : v \in 0..MaxOf[p[1]]}

(* Every sheet holds rows of marks for papers of the student's section. *)
ResultsInv ==
    /\ situation \in Situations
    /\ DOMAIN entered = DOMAIN situation.home
    /\ \A st \in DOMAIN situation.home :
          /\ DOMAIN entered[st] \subseteq Expected(situation.schedules, situation.home[st])
          /\ \A p \in DOMAIN entered[st] : entered[st][p] \in RowsOf(p)

LEMMA RowsCarryMarks ==
    ASSUME NEW p \in Paper, NEW row \in RowsOf(p)
    PROVE  row.value \in Nat /\ row.value <= MaxOf[p[1]]
<1>1. MaxOf[p[1]] \in Nat
  BY PolicyAssumption DEF Paper
<1>2. QED
  BY <1>1 DEF RowsOf, Absent, Present

LEMMA WeightsAreNat ==
    ASSUME NEW schedules, NEW policies \in Seq(Weightings)
    PROVE  Weights(schedules, policies) \in [Exams -> Nat]
<1>1. ASSUME NEW e \in Exams
      PROVE  Weight(e, policies) \in Nat
  <2> DEFINE found == {i \in DOMAIN policies : policies[i][e] # Unset}
  <2>1. CASE found = {}
    BY <2>1 DEF Weight
  <2>2. CASE found # {}
    <3>1. found \in SUBSET Nat
      OBVIOUS
    <3>2. Min(found) \in found
      BY <2>2, <3>1, MinIsLeast
    <3>3. policies[Min(found)] \in Weightings /\ policies[Min(found)][e] # Unset
      BY <3>2
    <3>4. policies[Min(found)][e] \in Nat
      BY <3>3, PolicyAssumption DEF Weightings
    <3>5. QED
      BY <2>2, <3>4 DEF Weight
  <2>3. QED
    BY <2>1, <2>2
<1>2. QED
  BY <1>1 DEF Weights

LEMMA RowsAreASheet ==
    ASSUME NEW s \in Situations, NEW section, NEW sh,
           DOMAIN sh \subseteq Expected(s.schedules, section),
           \A p \in DOMAIN sh : sh[p] \in RowsOf(p)
    PROVE  IsSheet(sh)
<1>1. s.schedules \in SUBSET Paper /\ IsFiniteSet(s.schedules)
  BY PolicyAssumption
<1>2. DOMAIN sh \in SUBSET s.schedules
  BY DEF Expected
<1>3. IsFiniteSet(DOMAIN sh) /\ DOMAIN sh \subseteq Paper
  BY <1>1, <1>2, FS_Subset
<1>4. \A p \in DOMAIN sh : sh[p].value \in Nat /\ sh[p].value <= MaxOf[p[1]]
  BY <1>3, RowsCarryMarks
<1>5. QED
  BY <1>3, <1>4 DEF IsSheet

LEMMA SheetsInReach ==
    ASSUME ResultsInv, NEW st \in DOMAIN situation.home
    PROVE  IsSheet(entered[st])
BY RowsAreASheet DEF ResultsInv

LEMMA ResultsStart ==
    ASSUME ResultsInit
    PROVE  ResultsInv
BY DEF ResultsInit, ResultsInv

(* What the two writers of a sheet leave in it. *)
LEMMA AWriteIsAnImprovement ==
    ASSUME ResultsInv, NEW st \in DOMAIN situation.home,
           NEW p \in Expected(situation.schedules, situation.home[st]),
           Enter(st, p) \/ Improve(st, p)
    PROVE  \E row \in RowsOf(p) :
              /\ Write(st, p, row)
              /\ p \in DOMAIN entered[st] =>
                    /\ entered[st][p].value <= row.value
                    /\ Scored(entered[st][p]) => Scored(row)
<1>1. p \in Paper
  BY PolicyAssumption DEF ResultsInv, Expected
<1>2. MaxOf[p[1]] \in Nat
  BY <1>1, PolicyAssumption DEF Paper
<1>3. CASE Enter(st, p)
  <2>1. p \notin DOMAIN entered[st]
    BY <1>3 DEF Enter
  <2>2. PICK row \in {Absent, Present(0)} : Write(st, p, row)
    BY <1>3 DEF Enter
  <2>3. row \in RowsOf(p)
    BY <1>2 DEF RowsOf
  <2>4. QED
    BY <2>1, <2>2, <2>3
<1>4. CASE Improve(st, p)
  <2>1. p \in DOMAIN entered[st]
    BY <1>4 DEF Improve
  <2>2. entered[st][p] \in RowsOf(p)
    BY <2>1 DEF ResultsInv
  <2>3. CASE entered[st][p] = Absent /\ Write(st, p, Present(0))
    <3>1. Present(0) \in RowsOf(p)
      BY <1>2 DEF RowsOf
    <3>2. entered[st][p].value <= Present(0).value /\ Scored(Present(0))
      BY <2>3 DEF Absent, Present, Scored
    <3>3. QED
      BY <2>3, <3>1, <3>2
  <2>4. CASE /\ entered[st][p].result = "PRESENT" /\ entered[st][p].value < MaxOf[p[1]]
             /\ Write(st, p, Present(entered[st][p].value + 1))
    <3> DEFINE v == entered[st][p].value
    <3>1. v \in Nat
      BY <1>1, <2>2, RowsCarryMarks
    <3>2. v + 1 \in 0..MaxOf[p[1]]
      BY <1>2, <2>4, <3>1
    <3>3. Present(v + 1) \in RowsOf(p)
      BY <3>2 DEF RowsOf
    <3>4. v <= Present(v + 1).value
      BY <3>1 DEF Present
    <3>5. Scored(Present(v + 1))
      BY DEF Present, Scored
    <3>6. QED
      BY <2>4, <3>3, <3>4, <3>5
  <2>5. QED
    BY <1>4, <2>3, <2>4 DEF Improve
<1>5. QED
  BY <1>3, <1>4

(* The sheets after a write. *)
LEMMA AfterAWrite ==
    ASSUME ResultsInv, NEW st \in DOMAIN situation.home, NEW p, NEW row, Write(st, p, row)
    PROVE  /\ situation' = situation /\ DOMAIN entered' = DOMAIN situation.home
           /\ entered'[st] = [q \in DOMAIN entered[st] \cup {p} |->
                                  IF q = p THEN row ELSE entered[st][q]]
           /\ \A x \in DOMAIN situation.home \ {st} : entered'[x] = entered[x]
BY DEF ResultsInv, Write

LEMMA ResultsStep ==
    ASSUME ResultsInv, [ResultsNext]_resultVars
    PROVE  ResultsInv'
<1>1. CASE ResultsNext
  <2>1. PICK st \in DOMAIN situation.home :
           \E p \in Expected(situation.schedules, situation.home[st]) :
              Enter(st, p) \/ Improve(st, p)
    BY <1>1 DEF ResultsNext
  <2>2. PICK p \in Expected(situation.schedules, situation.home[st]) :
           Enter(st, p) \/ Improve(st, p)
    BY <2>1
  <2>3. PICK row \in RowsOf(p) : Write(st, p, row)
    BY <2>2, AWriteIsAnImprovement
  <2>4. /\ situation' = situation /\ DOMAIN entered' = DOMAIN situation.home
        /\ entered'[st] = [q \in DOMAIN entered[st] \cup {p} |->
                               IF q = p THEN row ELSE entered[st][q]]
        /\ \A x \in DOMAIN situation.home \ {st} : entered'[x] = entered[x]
    BY <2>3, AfterAWrite
  <2>5. ASSUME NEW x \in DOMAIN situation.home
        PROVE  /\ DOMAIN entered'[x] \subseteq
                     Expected(situation.schedules, situation.home[x])
               /\ \A q \in DOMAIN entered'[x] : entered'[x][q] \in RowsOf(q)
    <3>1. CASE x = st
      BY <2>2, <2>3, <2>4, <3>1 DEF ResultsInv
    <3>2. CASE x # st
      BY <2>4, <3>2 DEF ResultsInv
    <3>3. QED
      BY <3>1, <3>2
  <2>6. QED
    BY <2>4, <2>5 DEF ResultsInv, Expected, RowsOf, Absent, Present
<1>2. CASE UNCHANGED resultVars
  BY <1>2 DEF resultVars, ResultsInv, Expected, RowsOf, Absent, Present
<1>3. QED
  BY <1>1, <1>2

(* Whatever a school records (validate_report_card_data reads the rows of  *)
(* the papers of the student's section), a student's sheet has only rows   *)
(* for those papers, each absent with nothing or present with a mark that  *)
(* the paper allows.                                                       *)
THEOREM ResultsInvariant == ResultsSpec => []ResultsInv
<1>1. ResultsInit => ResultsInv
  BY ResultsStart
<1>2. ResultsInv /\ [ResultsNext]_resultVars => ResultsInv'
  BY ResultsStep
<1>3. QED
  BY <1>1, <1>2, PTL DEF ResultsSpec

-----------------------------------------------------------------------------
(* A better sheet, a better result.                                        *)

LEMMA StepsImprove ==
    ASSUME ResultsInv, [ResultsNext]_resultVars,
           NEW st \in DOMAIN situation.home, DOMAIN entered'[st] = DOMAIN entered[st]
    PROVE  Improves(entered'[st], entered[st])
<1> DEFINE ps == DOMAIN entered[st]
<1>1. ASSUME entered'[st] = entered[st]
      PROVE  Improves(entered'[st], entered[st])
  <2>1. \A p \in ps : entered[st][p].value \in Nat
    BY SheetsInReach DEF IsSheet
  <2>2. QED
    BY <1>1, <2>1 DEF Improves
<1>2. CASE ResultsNext
  <2>1. PICK x \in DOMAIN situation.home :
           \E p \in Expected(situation.schedules, situation.home[x]) :
              Enter(x, p) \/ Improve(x, p)
    BY <1>2 DEF ResultsNext
  <2>2. PICK p \in Expected(situation.schedules, situation.home[x]) :
           Enter(x, p) \/ Improve(x, p)
    BY <2>1
  <2>3. PICK row \in RowsOf(p) :
           /\ Write(x, p, row)
           /\ p \in DOMAIN entered[x] => /\ entered[x][p].value <= row.value
                                         /\ Scored(entered[x][p]) => Scored(row)
    BY <2>2, AWriteIsAnImprovement
  <2>4. /\ entered'[x] = [q \in DOMAIN entered[x] \cup {p} |->
                              IF q = p THEN row ELSE entered[x][q]]
        /\ \A y \in DOMAIN situation.home \ {x} : entered'[y] = entered[y]
    BY <2>3, AfterAWrite
  <2>5. CASE x = st
    <3>1. DOMAIN entered'[st] = ps \cup {p}
      BY <2>4, <2>5
    <3>2. p \in ps
      BY <3>1
    <3>3. \A q \in ps : entered[st][q].value \in Nat
      BY SheetsInReach DEF IsSheet
    <3>4. ASSUME NEW q \in ps
          PROVE  /\ entered[st][q].value <= entered'[st][q].value
                 /\ Scored(entered[st][q]) => Scored(entered'[st][q])
      <4>1. CASE q = p
        BY <2>3, <2>4, <2>5, <3>2, <4>1
      <4>2. CASE q # p
        <5>1. entered'[st][q] = entered[st][q]
          BY <2>4, <2>5, <4>2
        <5>2. QED
          BY <3>3, <5>1
      <4>3. QED
        BY <4>1, <4>2
    <3>5. QED
      BY <3>4 DEF Improves
  <2>6. CASE x # st
    BY <1>1, <2>4, <2>6
  <2>7. QED
    BY <2>5, <2>6
<1>3. CASE UNCHANGED resultVars
  BY <1>1, <1>3 DEF resultVars
<1>4. QED
  BY <1>2, <1>3

LEMMA SameSituation ==
    ASSUME ResultsInv, [ResultsNext]_resultVars
    PROVE  situation' = situation
BY DEF ResultsNext, Enter, Improve, Write, resultVars

(* The papers of one examination, of a better sheet, are a better sheet. *)
LEMMA RestrictionImproves ==
    ASSUME NEW old, IsSheet(old), NEW new, IsSheet(new), Improves(new, old),
           NEW ps \in SUBSET DOMAIN old
    PROVE  /\ IsSheet(Restriction(old, ps)) /\ IsSheet(Restriction(new, ps))
           /\ Improves(Restriction(new, ps), Restriction(old, ps))
<1>1. IsFiniteSet(ps) /\ ps \subseteq Paper
  BY FS_Subset DEF IsSheet
<1>2. ps \subseteq DOMAIN new
  BY DEF Improves
<1>3. IsSheet(Restriction(old, ps)) /\ IsSheet(Restriction(new, ps))
  BY <1>1, <1>2 DEF IsSheet, Restriction
<1>4. Improves(Restriction(new, ps), Restriction(old, ps))
  BY DEF Improves, Restriction
<1>5. QED
  BY <1>3, <1>4

LEMMA ConsolidatedIsNoWorse ==
    ASSUME NEW old, IsSheet(old), NEW new, IsSheet(new), Improves(new, old),
           WeightsNow \in [Exams -> Nat], NEW st
    PROVE  NoWorse(Consolidated(st, new), Consolidated(st, old))
<1> DEFINE x == OverallPercent(old, WeightsNow)
           y == OverallPercent(new, WeightsNow)
           m == Failed(old, WeightsNow)
           n == Failed(new, WeightsNow)
<1>1. x \in Nat /\ y \in Nat /\ x <= y /\ y <= 10000
  BY OverallIsMonotone
<1>2. m \in Nat /\ n \in Nat /\ n <= m
  BY FailedIsMonotone
<1> DEFINE before == IF AllMarked(st, old) THEN Promotion(x, m, 7500)
                                            ELSE "PENDING_RESULTS"
           after == IF AllMarked(st, new) THEN Promotion(y, n, 7500)
                                         ELSE "PENDING_RESULTS"
<1>3. /\ Consolidated(st, old) = [overall |-> x, verdict |-> before]
      /\ Consolidated(st, new) = [overall |-> y, verdict |-> after]
  BY DEF Consolidated
<1>6. AllMarked(st, old) <=> AllMarked(st, new)
  BY DEF AllMarked, Has, Improves
<1> HIDE DEF x, y, m, n
<1>4. /\ NotBelow(Grades, Grade(y), Grade(x))
      /\ NotBelow(Verdicts, Promotion(y, n, 7500), Promotion(x, m, 7500))
  BY <1>1, <1>2, GradeIsMonotone, PromotionIsMonotone
<1>7. NotBelow(Verdicts, after, before)
  <2>1. CASE AllMarked(st, old)
    BY <1>4, <1>6, <2>1
  <2>2. CASE ~AllMarked(st, old)
    BY <1>6, <2>2 DEF NotBelow, Verdicts
  <2>3. QED
    BY <2>1, <2>2
<1> HIDE DEF before, after
<1>5. QED
  BY <1>1, <1>3, <1>4, <1>7 DEF NoWorse

LEMMA SingleExamIsNoWorse ==
    ASSUME NEW old, IsSheet(old), NEW new, IsSheet(new), Improves(new, old), NEW e
    PROVE  NoWorse(SingleExam(new, e), SingleExam(old, e))
<1> DEFINE ps == PapersIn(old, e)
           was == Restriction(old, ps)
           is == Restriction(new, ps)
           x == ExamPercent(was)
           y == ExamPercent(is)
           m == ExamFailed(was)
           n == ExamFailed(is)
<1>1. PapersIn(new, e) = ps
  BY DEF PapersIn, Improves
<1>2. IsSheet(was) /\ IsSheet(is) /\ Improves(is, was)
  <2>1. ps \in SUBSET DOMAIN old
    BY PapersCount
  <2>2. QED
    BY <2>1, RestrictionImproves
<1>3. /\ SingleExam(old, e) = [overall |-> x, verdict |-> Promotion(x, m, 7500)]
      /\ SingleExam(new, e) = [overall |-> y, verdict |-> Promotion(y, n, 7500)]
  BY <1>1 DEF SingleExam
<1> HIDE DEF was, is
<1>4. /\ x \in Nat /\ y \in Nat /\ x <= y /\ y <= 10000
      /\ m \in Nat /\ n \in Nat /\ n <= m
  BY <1>2, ExamIsMonotone
<1> HIDE DEF x, y, m, n
<1>5. /\ NotBelow(Grades, Grade(y), Grade(x))
      /\ NotBelow(Verdicts, Promotion(y, n, 7500), Promotion(x, m, 7500))
  BY <1>4, GradeIsMonotone, PromotionIsMonotone
<1>6. QED
  BY <1>3, <1>4, <1>5 DEF NoWorse

LEMMA WeightsInReach ==
    ASSUME ResultsInv
    PROVE  WeightsNow \in [Exams -> Nat]
BY WeightsAreNat, PolicyAssumption DEF ResultsInv, WeightsNow

(* A raised mark, or an absent student's paper sat after all, never lowers *)
(* the overall percentage or the grade, and never turns the promotion      *)
(* decision for the worse: in the consolidated card, where the weights of  *)
(* the policies and the papers a subject lacks rescale every percentage,   *)
(* and in the card of one examination (validate_report_card_data).         *)
THEOREM MarksNeverHurt == ResultsSpec => BetterMarksNeverHurt
<1> DEFINE Unhurt == \A st \in DOMAIN situation.home :
               DOMAIN entered'[st] = DOMAIN entered[st] =>
                   /\ NoWorse(Consolidated(st, entered'[st]), Consolidated(st, entered[st]))
                   /\ \A e \in Exams :
                         NoWorse(SingleExam(entered'[st], e), SingleExam(entered[st], e))
<1>1. ResultsInv /\ ResultsInv' /\ [ResultsNext]_resultVars => [Unhurt]_resultVars
  <2> SUFFICES ASSUME ResultsInv, ResultsInv', [ResultsNext]_resultVars,
                      NEW st \in DOMAIN situation.home,
                      DOMAIN entered'[st] = DOMAIN entered[st]
               PROVE  /\ NoWorse(Consolidated(st, entered'[st]), Consolidated(st, entered[st]))
                      /\ \A e \in Exams :
                            NoWorse(SingleExam(entered'[st], e), SingleExam(entered[st], e))
    OBVIOUS
  <2>1. Improves(entered'[st], entered[st])
    BY StepsImprove
  <2>2. IsSheet(entered[st])
    BY SheetsInReach
  <2>3. IsSheet(entered'[st])
    <3>1. situation' = situation
      BY SameSituation
    <3>2. \A p : RowsOf(p)' = RowsOf(p)
      BY DEF RowsOf, Absent, Present
    <3>3. /\ DOMAIN entered'[st] \subseteq Expected(situation.schedules, situation.home[st])
          /\ \A p \in DOMAIN entered'[st] : entered'[st][p] \in RowsOf(p)
      BY <3>1, <3>2 DEF ResultsInv, Expected
    <3>4. QED
      BY <3>3, RowsAreASheet DEF ResultsInv
  <2>4. WeightsNow \in [Exams -> Nat]
    BY WeightsInReach
  <2>5. QED
    BY <2>1, <2>2, <2>3, <2>4, ConsolidatedIsNoWorse, SingleExamIsNoWorse
<1>2. QED
  BY <1>1, ResultsInvariant, PTL DEF BetterMarksNeverHurt, ResultsSpec

-----------------------------------------------------------------------------
(* The ranks.                                                              *)

(* A set between two finite ones. *)
LEMMA CountsBetween ==
    ASSUME NEW N, NEW A, NEW D, IsFiniteSet(N), IsFiniteSet(D), N \subseteq A, A \subseteq N \cup D
    PROVE  Cardinality(N) <= Cardinality(A) /\ Cardinality(A) <= Cardinality(N) + Cardinality(D)
<1>1. /\ IsFiniteSet(N \cup D)
      /\ Cardinality(N \cup D) = Cardinality(N) + Cardinality(D) - Cardinality(N \cap D)
  BY FS_Union
<1>2. IsFiniteSet(A) /\ Cardinality(A) <= Cardinality(N \cup D)
  BY <1>1, FS_Subset
<1>3. Cardinality(N) <= Cardinality(A)
  BY <1>2, FS_Subset
<1>4. IsFiniteSet(N \cap D)
  BY FS_Intersection
<1>5. /\ Cardinality(N) \in Nat /\ Cardinality(D) \in Nat /\ Cardinality(A) \in Nat
      /\ Cardinality(N \cap D) \in Nat
  BY <1>2, <1>4, FS_CardinalityType
<1>6. QED
  BY <1>1, <1>2, <1>3, <1>5

LEMMA InReachRanksAgree ==
    ASSUME ResultsInv
    PROVE  RanksAgree
<1> DEFINE home == situation.home
           peers(section) == {x \in DOMAIN home : home[x] = section}
           near(section) == SectionScores(situation.schedules, entered, section,
                                          peers(section), WeightsNow)
           all == ClassScores(situation.schedules, entered, home, WeightsNow)
           own(section) == Expected(situation.schedules, section)
<1>1. IsFiniteSet(DOMAIN home) /\ DOMAIN entered = DOMAIN home
  BY PolicyAssumption DEF ResultsInv
<1>2. ASSUME NEW section \in Sections, NEW st \in DOMAIN near(section)
      PROVE  /\ st \in DOMAIN all
             /\ Rank(near(section), st) <= Rank(all, st)
             /\ Rank(all, st) <= Rank(near(section), st)
                                   + Cardinality(DOMAIN all \ peers(section))
  <2> DEFINE ps == PapersOf(situation.schedules, section)
             N == {x \in DOMAIN near(section) : near(section)[x] > near(section)[st]}
             A == {x \in DOMAIN all : all[x] > all[st]}
             D == DOMAIN all \ peers(section)
  <2>1. DOMAIN near(section) = {x \in peers(section) : Has(entered[x], ps)}
    BY DEF SectionScores
  <2>2. DOMAIN all = {x \in DOMAIN home : Has(entered[x], own(home[x]))}
    BY <1>1 DEF ClassScores
  (* Who is ranked in the section has no row but of its papers. *)
  <2>3. ps = own(section)
    <3>1. own(section) \subseteq ps
      BY DEF Expected, PapersOf
    <3>2. ps \subseteq DOMAIN entered[st] /\ st \in DOMAIN home /\ home[st] = section
      BY <2>1 DEF Has
    <3>3. DOMAIN entered[st] \subseteq own(section)
      BY <3>2 DEF ResultsInv
    <3>4. QED
      BY <3>1, <3>2, <3>3
  <2>4. DOMAIN near(section) = DOMAIN all \cap peers(section)
    BY <2>1, <2>2, <2>3
  <2>5. \A x \in DOMAIN near(section) : near(section)[x] = all[x]
    <3>1. \A x \in DOMAIN near(section) :
             /\ x \in DOMAIN all /\ home[x] = section
             /\ near(section)[x] = OverallPercent(Restriction(entered[x], ps), WeightsNow)
      BY <2>1, <2>4 DEF SectionScores
    <3>2. \A x \in DOMAIN all :
             all[x] = OverallPercent(Restriction(entered[x], own(home[x])), WeightsNow)
      BY <1>1 DEF ClassScores
    <3>3. QED
      BY <2>3, <3>1, <3>2
  <2>6. DOMAIN all \in SUBSET DOMAIN home /\ st \in DOMAIN all
    BY <2>2, <2>4
  <2>7. Rank(near(section), st) = 1 + Cardinality(N) /\ Rank(all, st) = 1 + Cardinality(A)
    BY DEF Rank
  <2> HIDE DEF near, all
  <2>8. N \subseteq A /\ A \subseteq N \cup D
    BY <2>4, <2>5
  <2>9. N \in SUBSET DOMAIN home /\ A \in SUBSET DOMAIN home /\ D \in SUBSET DOMAIN home
    BY <2>4, <2>6
  <2> HIDE DEF N, A, D
  <2>10. IsFiniteSet(N) /\ IsFiniteSet(A) /\ IsFiniteSet(D)
    BY <1>1, <2>9, FS_Subset
  <2>11. /\ Cardinality(N) \in Nat /\ Cardinality(A) \in Nat /\ Cardinality(D) \in Nat
    BY <2>10, FS_CardinalityType
  <2>12. Cardinality(N) <= Cardinality(A) /\ Cardinality(A) <= Cardinality(N) + Cardinality(D)
    BY <2>8, <2>10, CountsBetween
  <2>13. /\ 1 + Cardinality(N) <= 1 + Cardinality(A)
         /\ 1 + Cardinality(A) <= (1 + Cardinality(N)) + Cardinality(D)
    BY <2>11, <2>12
  <2>14. QED
    BY <2>6, <2>7, <2>13 DEF D
<1>3. QED
  BY <1>2 DEF RanksAgree

(* A student with a rank in the section has one in the class, at least as  *)
(* far down, and at most by the ranked students of the other sections:     *)
(* the two queries of validate_report_card_data select the same papers for *)
(* every student they both rank.                                           *)
THEOREM RanksInReach == ResultsSpec => []RanksAgree
<1>1. ResultsInv => RanksAgree
  BY InReachRanksAgree
<1>2. QED
  BY <1>1, ResultsInvariant, PTL

-----------------------------------------------------------------------------
(* The overall percentage of either kind of report card. *)
OverallPercentages(st, sh) ==
    {Consolidated(st, sh).overall} \cup {SingleExam(sh, e).overall : e \in Exams}

(* An overall percentage is rounded to hundredths before its grade is      *)
(* looked up (the last lines of both branches of                           *)
(* validate_report_card_data).  Whatever the weights and the papers, it is *)
(* one of 0.00 to 100.00 and lies in exactly one band, whose grade         *)
(* get_grade_for_percentage answers: there is no gap to fall into, and the *)
(* order in which the bands are searched does not matter.                  *)
PercentagesHaveABand ==
    \A st \in DOMAIN situation.home : \A pct \in OverallPercentages(st, entered[st]) :
        /\ pct \in Nat /\ pct <= 10000
        /\ \E k \in 1..7 : OnlyFits(k, pct) /\ Grade(pct) = DefaultBands[k].grade

LEMMA ImprovesItself ==
    ASSUME NEW sh, IsSheet(sh)
    PROVE  Improves(sh, sh)
BY DEF IsSheet, Improves

LEMMA InReachPercentagesHaveABand ==
    ASSUME ResultsInv
    PROVE  PercentagesHaveABand
<1>1. ASSUME NEW st \in DOMAIN situation.home, NEW pct \in OverallPercentages(st, entered[st])
      PROVE  pct \in Nat /\ pct <= 10000
  <2> DEFINE sh == entered[st]
  <2>1. IsSheet(sh) /\ Improves(sh, sh)
    BY SheetsInReach, ImprovesItself
  <2>2. CASE pct = Consolidated(st, sh).overall
    <3>1. pct = OverallPercent(sh, WeightsNow)
      BY <2>2 DEF Consolidated
    <3>2. WeightsNow \in [Exams -> Nat]
      BY WeightsInReach
    <3>3. QED
      BY <2>1, <3>1, <3>2, OverallIsMonotone
  <2>3. ASSUME NEW e \in Exams, pct = SingleExam(sh, e).overall
        PROVE  pct \in Nat /\ pct <= 10000
    <3> DEFINE of == Restriction(sh, PapersIn(sh, e))
    <3>1. pct = ExamPercent(of)
      BY <2>3 DEF SingleExam
    <3>2. PapersIn(sh, e) \in SUBSET DOMAIN sh
      BY <2>1, PapersCount
    <3>3. IsSheet(of) /\ Improves(of, of)
      BY <2>1, <3>2, RestrictionImproves
    <3> HIDE DEF of
    <3>4. QED
      BY <3>1, <3>3, ExamIsMonotone
  <2>4. QED
    BY <2>2, <2>3 DEF OverallPercentages
<1>2. ASSUME NEW pct \in Nat, pct <= 10000
      PROVE  \E k \in 1..7 : OnlyFits(k, pct) /\ Grade(pct) = DefaultBands[k].grade
  <2>1. PICK i \in 1..7 : OnlyFits(8 - i, pct) /\ Grade(pct) = Grades[i]
    BY <1>2, GradeOf
  <2>2. 8 - i \in 1..7 /\ DefaultBands[8 - i].grade = Grades[i]
    BY DEF DefaultBands, Grades
  <2>3. QED
    BY <2>1, <2>2
<1>3. QED
  BY <1>1, <1>2 DEF PercentagesHaveABand

(* Every overall percentage that a report card may print is a percentage,  *)
(* and its grade is the one of the only band of                            *)
(* get_grade_for_percentage that it lies in.                               *)
THEOREM PercentagesInReach == ResultsSpec => []PercentagesHaveABand
<1>1. ResultsInv => PercentagesHaveABand
  BY InReachPercentagesHaveABand
<1>2. QED
  BY <1>1, ResultsInvariant, PTL
=============================================================================
