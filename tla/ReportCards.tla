---------------------------- MODULE ReportCards ----------------------------
(***************************************************************************)
(* Report cards of one academic year: services/report_card.py over the     *)
(* marks that MarksBoard describes, and the PDF files that the endpoints   *)
(* keep in file storage under one path per student.                        *)
(*                                                                         *)
(* A handler reads the card and the marks, may write the file, and commits *)
(* the card; the commit fails when the version of a card it updates moved  *)
(* (version_id_col), or when another handler inserted the student's card   *)
(* (unique on student and year).  Writing the file is not undone.          *)
(***************************************************************************)
EXTENDS MarksBoard, FiniteSetsExt

CONSTANTS
    Handlers,       \* handlers of the report card endpoints that run at once
    MaxMoves,       \* bound: updates of rows of marks, all together
    MaxCommits      \* bound: updates of cards, all together, by the time
                    \* that a handler reads a card

VARIABLES
    cards,      \* report_card_publications, one row per student
    files,      \* the PDF in file storage: the marks that it shows
    handlers    \* what each running handler holds in its session

cardVars == <<period, board, cards, files, handlers>>

(* The marks a card was compiled from: the entry of every paper. *)
Sheet == [Papers -> StoredEntries \cup {None}]

ASSUME CardsAssumption ==
    /\ MaxMoves \in Nat /\ MaxCommits \in Nat
    /\ Papers # {} /\ None \notin Sheet

CardStatus == {"DRAFT", "UNDER_REVIEW", "APPROVED", "PUBLISHED", "LOCKED"}
(* compiled: settings written at generation; snapshot: at publication;     *)
(* publishedAt: what published_at can be compared with, the versions of    *)
(* the student's marks when the clock was read, which is before the        *)
(* snapshot is compiled.                                                   *)
Card == [status: CardStatus \cup {"ABSENT"},
         compiled: Sheet \cup {None}, snapshot: Sheet \cup {None},
         publishedAt: [Papers -> Nat], version: Nat]

Ops == {"generate", "submit", "approve", "bulk_approve", "reject",
        "bulk_publish", "publish_class", "unpublish", "lock", "unlock"}
Session == [op: Ops \cup {"idle", "download"},
            step: {"none", "clock", "compiled", "ready"},
            touched: SUBSET Students, uploads: SUBSET Students,
            seen: [Students -> Nat],
            new: [Students -> Card],
            sheet: Sheet \cup {None}]

NoCard == [status |-> "ABSENT", compiled |-> None, snapshot |-> None,
           publishedAt |-> [p \in Papers |-> 0], version |-> 0]
Idle == [op |-> "idle", step |-> "none", touched |-> {}, uploads |-> {},
         seen |-> [st \in Students |-> 0], new |-> [st \in Students |-> NoCard],
         sheet |-> None]

CardsTypeOK ==
    /\ BoardTypeOK
    /\ cards \in [Students -> Card]
    /\ files \in [Students -> Sheet \cup {None}]
    /\ handlers \in [Handlers -> Session]

CardsInit ==
    /\ BoardInit
    /\ cards = [st \in Students |-> NoCard]
    /\ files = [st \in Students |-> None]
    /\ handlers = [h \in Handlers |-> Idle]

-----------------------------------------------------------------------------
(* Reading the marks.                                                      *)

(* What validate_report_card_data compiles: the papers of the reportable   *)
(* examination, whatever the status of their marks.                        *)
SheetOf(st) == [p \in Papers |-> board[<<p, st>>].entry]
VersionsOf(st) == [p \in Papers |-> board[<<p, st>>].version]

(* is_valid: a value in every row; a consolidated card, which is what      *)
(* approval and publication always compile, reports only examinations      *)
(* whose status is reportable, a single-exam card any.                     *)
Filled(st) == \A p \in Papers : /\ SheetOf(st)[p] # None
                               /\ SheetOf(st)[p].value # None
Valid(st) == period = "REPORTABLE" /\ Filled(st)

(* Slip: the marks are not compared with the publication. *)
AlwaysCorrected(st) == TRUE

(* generate_report_card: the newest updated_at of the student's marks is   *)
(* later than published_at; a student without marks counts as corrected.   *)
(* The marks may have moved between the clock and the snapshot, and then   *)
(* be in it.  updated_at is the time at which the transaction of the mark  *)
(* began: a mark that was committed after the clock by a transaction older *)
(* than it is refused by the code, one refusal that the model allows to be *)
(* missing.                                                                *)
Corrected(st) ==
    \/ \A p \in Papers : board[<<p, st>>].version = 0
    \/ \E p \in Papers : VersionsOf(st)[p] > cards[st].publishedAt[p]

-----------------------------------------------------------------------------
(* Sessions.                                                               *)

Holding(op, sts, new) ==
    [Idle EXCEPT !.op = op, !.step = "ready", !.touched = sts,
                 !.seen = [st \in Students |-> IF st \in sts THEN cards[st].version
                                                            ELSE 0],
                 !.new = [st \in Students |-> IF st \in sts THEN new[st] ELSE NoCard]]

WithinCommits == MapThenSumSet(LAMBDA st : cards[st].version, Students) < MaxCommits

(* The handler that starts is idle (CardsNext). *)
Begin(h, session) ==
    /\ session.touched # {} => WithinCommits
    /\ handlers' = [handlers EXCEPT ![h] = session]
    /\ UNCHANGED <<period, board, cards, files>>

(* Slip: the mapper of the cards has no version column. *)
AnyVersion(s) == \A st \in s.touched : s.seen[st] = 0 => cards[st].version = 0

(* The version, or the unique constraint, that the commit is checked by. *)
Fresh(s) == \A st \in s.touched : cards[st].version = s.seen[st]

Commit(h) ==
    LET s == handlers[h] IN
    /\ s.op \in Ops /\ s.step = "ready"
    /\ Fresh(s)
    /\ cards' = [st \in Students |->
                    IF st \in s.touched
                    THEN [s.new[st] EXCEPT !.version = cards[st].version + 1]
                    ELSE cards[st]]
    /\ handlers' = [handlers EXCEPT ![h] = Idle]
    /\ UNCHANGED <<period, board, files>>

(* A commit that fails, an error before it, or a process that stops. *)
Rollback(h) ==
    /\ handlers[h].op # "idle"
    /\ handlers' = [handlers EXCEPT ![h] = Idle]
    /\ UNCHANGED <<period, board, cards, files>>

-----------------------------------------------------------------------------
(* Generation.                                                             *)

(* Slip: a regenerated card keeps its status. *)
RegeneratedInPlace(st) ==
    [cards[st] EXCEPT !.status = IF @ = "ABSENT" THEN "DRAFT" ELSE @,
                      !.compiled = SheetOf(st), !.snapshot = None]

(* The card goes back to a draft with new settings; published_at stays. *)
Regenerated(st) ==
    [cards[st] EXCEPT !.status = "DRAFT", !.compiled = SheetOf(st),
                      !.snapshot = None]

(* The card that generate_report_card finds may be compiled anew. *)
MayGenerate(st) ==
    /\ Filled(st)
    /\ cards[st].status # "LOCKED"
    /\ cards[st].status = "PUBLISHED" => Corrected(st)

Generation(st) ==
    [Holding("generate", {st}, [x \in {st} |-> Regenerated(x)])
        EXCEPT !.step = "compiled", !.uploads = {st}, !.sheet = SheetOf(st)]

(* generate_report_card, also for each student of bulk_generate_class. *)
StartGenerate(h, st) ==
    /\ MayGenerate(st)
    /\ Begin(h, Generation(st))

(* bulk_generate_class catches the error of a student whose file could not *)
(* be written and goes on without a rollback: a card that was there stays  *)
(* changed in the session (a new one was not added yet), and goes with the *)
(* next student's commit.                                                  *)
GoOn(h, st) ==
    LET s == handlers[h]
        g == Generation(st)
        left == {x \in s.touched : s.seen[x] # 0}
    IN  /\ s.op = "generate" /\ s.step = "compiled"
        /\ st \notin s.touched
        /\ MayGenerate(st)
        /\ handlers' = [handlers EXCEPT ![h] =
              [g EXCEPT !.touched = {st} \cup left,
                        !.seen = [x \in Students |-> IF x \in left THEN s.seen[x]
                                                                  ELSE g.seen[x]],
                        !.new = [x \in Students |-> IF x \in left THEN s.new[x]
                                                                 ELSE g.new[x]]]]
        /\ UNCHANGED <<period, board, cards, files>>

(* Storage overwrites the file of each student in s.uploads. *)
Stored(s) == [st \in Students |-> IF st \in s.uploads THEN s.sheet ELSE files[st]]

(* Slip: the file is written after the commit. *)
SkipUpload(h) ==
    /\ handlers[h].op = "generate" /\ handlers[h].step = "compiled"
    /\ handlers' = [handlers EXCEPT ![h].step = "ready"]
    /\ UNCHANGED <<period, board, cards, files>>

Upload(h) ==
    /\ handlers[h].op = "generate" /\ handlers[h].step = "compiled"
    /\ files' = Stored(handlers[h])
    /\ handlers' = [handlers EXCEPT ![h].step = "ready", ![h].uploads = {},
                                    ![h].sheet = None]
    /\ UNCHANGED <<period, board, cards>>

(* download_report_card: a missing file, or a file without a card, is      *)
(* compiled from the marks of the moment, complete or not, and stored.     *)
StartDownload(h, st) ==
    /\ cards[st].status = "ABSENT" \/ files[st] = None
    /\ Begin(h, [Idle EXCEPT !.op = "download", !.step = "compiled", !.uploads = {st},
                             !.sheet = IF period = "REPORTABLE" THEN SheetOf(st)
                                       ELSE [p \in Papers |-> None]])
EndDownload(h) ==
    /\ handlers[h].op = "download"
    /\ files' = Stored(handlers[h])
    /\ handlers' = [handlers EXCEPT ![h] = Idle]
    /\ UNCHANGED <<period, board, cards>>

-----------------------------------------------------------------------------
(* Review and publication.                                                 *)

Restated(st, status) == [cards[st] EXCEPT !.status = status]
Move(h, op, st, from, status) ==
    /\ cards[st].status \in from
    /\ Begin(h, Holding(op, {st}, [x \in {st} |-> Restated(x, status)]))

StartSubmit(h, st) == Move(h, "submit", st, {"DRAFT"}, "UNDER_REVIEW")
StartApprove(h, st) ==
    /\ Valid(st)
    /\ Move(h, "approve", st, {"UNDER_REVIEW"}, "APPROVED")
StartReject(h, st) == Move(h, "reject", st, {"UNDER_REVIEW", "APPROVED"}, "DRAFT")

(* Slip: a withdrawn card is archived, a status nothing takes it back from. *)
ArchiveInstead(h, st) == Move(h, "unpublish", st, {"PUBLISHED"}, "ARCHIVED")

StartUnpublish(h, st) == Move(h, "unpublish", st, {"PUBLISHED"}, "DRAFT")
StartLock(h, st) == Move(h, "lock", st, {"PUBLISHED"}, "LOCKED")
StartUnlock(h, st) == Move(h, "unlock", st, {"LOCKED"}, "PUBLISHED")

Eligible == {"DRAFT", "UNDER_REVIEW", "APPROVED"}

(* bulk_approve_report_cards: incomplete or locked cards are reported as   *)
(* failures, the others commit together.                                   *)
StartBulkApprove(h, sts) ==
    LET chosen == {st \in sts : /\ cards[st].status \in {"DRAFT", "UNDER_REVIEW"}
                                /\ Valid(st)}
    IN Begin(h, Holding("bulk_approve", chosen,
                        [st \in chosen |-> Restated(st, "APPROVED")]))

(* A publication reads the clock first: published_at will be this moment. *)
Clock(op, sts, card) ==
    [Holding(op, sts, [st \in sts |-> [card[st] EXCEPT !.publishedAt = VersionsOf(st)]])
        EXCEPT !.step = "clock"]
(* bulk_publish_selected_cards: cards that exist are named, and read later. *)
StartBulkPublish(h, sts) ==
    /\ \A st \in sts : cards[st].status # "ABSENT"
    /\ Begin(h, [Clock("bulk_publish", sts, [st \in sts |-> NoCard])
                   EXCEPT !.seen = Idle.seen])
(* publish_report_cards: the class's cards that can be published are read  *)
(* before the clock.                                                       *)
StartPublishClass(h) ==
    LET found == {st \in Students : cards[st].status \in Eligible}
    IN  /\ found # {}
        /\ Begin(h, Clock("publish_class", found, cards))

(* The card that is published: the class's is the one read at the start, a *)
(* selected one is read now.                                               *)
Copy(s, st) == IF s.op = "publish_class" THEN s.new[st]
               ELSE [cards[st] EXCEPT !.publishedAt = s.new[st].publishedAt]
Published(card, st) ==
    [card EXCEPT !.status = "PUBLISHED", !.snapshot = SheetOf(st)]

(* The marks are read and the complete cards published; the class must     *)
(* have one.                                                               *)
CompilePublication(h) ==
    LET s == handlers[h]
        chosen == {st \in s.touched : Copy(s, st).status \in Eligible /\ Valid(st)}
        g == Holding(s.op, chosen, [st \in chosen |-> Published(Copy(s, st), st)])
    IN  /\ s.step = "clock"
        /\ s.op = "publish_class" => chosen # {}
        /\ handlers' = [handlers EXCEPT ![h] =
              [g EXCEPT !.seen = [st \in Students |->
                  IF st \in chosen /\ s.op = "publish_class" THEN s.seen[st]
                                                            ELSE g.seen[st]]]]
        /\ UNCHANGED <<period, board, cards, files>>

-----------------------------------------------------------------------------
(* The marks move underneath: any step of MarksBoard. *)
MarksMove ==
    /\ BoardNext
    /\ MapThenSumSet(LAMBDA m : board'[m].version, Slot) <= MaxMoves
    /\ UNCHANGED <<cards, files, handlers>>

CardsNext ==
    \/ MarksMove
    \/ \E h \in {x \in Handlers : handlers[x].op = "idle"} :
        \/ \E st \in Students :
            \/ StartGenerate(h, st) \/ StartDownload(h, st)
            \/ StartSubmit(h, st) \/ StartApprove(h, st) \/ StartReject(h, st)
            \/ StartUnpublish(h, st) \/ StartLock(h, st) \/ StartUnlock(h, st)
        \/ \E sts \in (SUBSET Students) \ {{}} :
            StartBulkApprove(h, sts) \/ StartBulkPublish(h, sts)
        \/ StartPublishClass(h)
    \/ \E h \in Handlers :
        \/ Upload(h) \/ EndDownload(h) \/ CompilePublication(h)
        \/ Commit(h) \/ Rollback(h)
        \/ \E st \in Students : GoOn(h, st)

CardsSpec == CardsInit /\ [][CardsNext]_cardVars

-----------------------------------------------------------------------------
(* Properties.                                                             *)

(* A locked card is frozen: whichever handler read the card before it was  *)
(* locked, what the card says and the snapshot of its publication stay     *)
(* until an administrator unlocks it, and unlocking changes neither.       *)
LockedCardIsFrozen ==
    [][\A st \in Students : cards[st].status = "LOCKED" =>
          /\ cards'[st].status \in {"LOCKED", "PUBLISHED"}
          /\ cards'[st].compiled = cards[st].compiled
          /\ cards'[st].snapshot = cards[st].snapshot]_cardVars

(* What is published carries the snapshot it was published with, with a    *)
(* value for every paper, even when regeneration, review and publication   *)
(* of the same card overlap.                                               *)
PublishedIsComplete ==
    \A st \in Students : cards[st].status \in {"PUBLISHED", "LOCKED"} =>
        /\ cards[st].snapshot # None
        /\ \A p \in Papers : /\ cards[st].snapshot[p] # None
                             /\ cards[st].snapshot[p].value # None

(* A published card, which parents see, stops being published only by a    *)
(* commit that withdraws or locks this card, or when a mark of the student *)
(* was written after the clock of the publication was read, or the         *)
(* examination is gone with its marks.  A regeneration that read the card  *)
(* before it was published does not take it from the parents.              *)
WithdrawnForAReason ==
    [][\A st \in Students :
          cards[st].status = "PUBLISHED" /\ cards'[st].status # "PUBLISHED" =>
              \/ \E h \in Handlers : /\ handlers[h].op \in {"unpublish", "lock"}
                                     /\ st \in handlers[h].touched
                                     /\ handlers'[h].op = "idle"
              \/ \E p \in Papers : VersionsOf(st)[p] > cards[st].publishedAt[p]
              \/ period = "GONE"]_cardVars

(* A committed card always has a file behind its pdf_url, whenever the     *)
(* process stops between writing the file and committing the card.         *)
FileIsStored == \A st \in Students : cards[st].status # "ABSENT" =>
                                        files[st] # None

=============================================================================
