-------------------------- MODULE ImportJobsProofs --------------------------
(***************************************************************************)
(* Proofs about ImportJobs, for every number of rows, of rows to a         *)
(* transaction and of requests.                                            *)
(*                                                                         *)
(* What is stored rests on the keys: a record that a transaction has       *)
(* inserted makes every other one wait.  What is reported rests on the     *)
(* transaction: a row is reported with what it has inserted, or with       *)
(* nothing.                                                                *)
(***************************************************************************)
EXTENDS ImportJobs, FiniteSetTheorems, NaturalsInduction, WellFoundedInduction, TLAPS

Transaction == [chunk: SUBSET Rows, out: [Rows -> {"none", "done", "failed"}],
                new: SUBSET Keys, swept: SUBSET Rows, skipped: SUBSET Rows]
Request == [op: {"idle", "validate", "execute", "cancel"},
            step: {"none", "begin", "sweep", "stage", "select", "rows", "finish"},
            pending: Transaction, failed: BOOLEAN, stale: BOOLEAN]

ImpTypeOK ==
    /\ kind \in AllKinds
    /\ rows \in [Rows -> {"none", "valid", "invalid", "done", "failed"}]
    /\ audit \in SUBSET Rows
    /\ stored \in [Keys -> Nat]
    /\ handlers \in [Handlers -> Request]

(* A request on its own: what its transaction holds at each step. *)
NothingDone(p) == p.out = Pending.out /\ p.new = {}
RequestSound(s) ==
    LET p == s.pending IN
    /\ s.op # "execute" \/ s.step \in {"begin", "sweep"} => p = Pending
    /\ s.op = "execute" => s.step \in {"begin", "sweep", "select", "rows", "finish"}
    /\ s.step # "rows" => p.chunk = {} /\ NothingDone(p)
    /\ s.step = "rows" => p.chunk # {}
    /\ s.stale => s.step = "rows" /\ p = [Pending EXCEPT !.chunk = p.chunk]
    /\ \A r \in Rows : p.out[r] # "none" => r \in p.chunk

(* The records that a transaction has inserted are nobody else's, and are  *)
(* all that its rows need and nothing else.                                *)
Inserted(h) == handlers[h].pending.new
Done(h, r) == handlers[h].pending.out[r] = "done"
KeysInv ==
    /\ \A h \in Handlers : \A k \in Inserted(h) :
          /\ stored[k] = 0
          /\ \A g \in Others(h) : k \notin Inserted(g)
    /\ \A h \in Handlers, r \in Rows :
          Done(h, r) => \A k \in Needs(r) : stored[k] = 1 \/ k \in Inserted(h)
    /\ \A h \in Handlers : \A k \in Inserted(h) :
          \E r \in Rows : Done(h, r) /\ k \in Needs(r)

StoreInv ==
    /\ ImpTypeOK
    /\ \A h \in Handlers : RequestSound(handlers[h])
    /\ KeysInv /\ StoredOnce /\ DoneIsStored

-----------------------------------------------------------------------------
(* Requests.                                                               *)

LEMMA IdleSound ==
    /\ Idle \in Request /\ Pending \in Transaction
    /\ RequestSound(Idle) /\ NothingDone(Idle.pending) /\ Idle.pending = Pending
    /\ \A op \in {"validate", "execute", "cancel"} :
          LET s == [Idle EXCEPT !.op = op, !.step = "begin"]
          IN  s \in Request /\ RequestSound(s) /\ s.pending = Pending
              /\ s.op = op /\ s.step = "begin"
<1>1. Pending \in Transaction /\ NothingDone(Pending) /\ Pending.chunk = {}
      /\ (\A r \in Rows : Pending.out[r] = "none")
      /\ [Pending EXCEPT !.chunk = {}] = Pending
  BY DEF Pending, Transaction, NothingDone
<1>2. Idle \in Request /\ Idle.pending = Pending
  BY <1>1 DEF Idle, Request
<1>3. RequestSound(Idle)
  BY <1>1 DEF Idle, RequestSound
<1>4. ASSUME NEW op \in {"validate", "execute", "cancel"}
      PROVE  LET s == [Idle EXCEPT !.op = op, !.step = "begin"]
             IN  s \in Request /\ RequestSound(s) /\ s.pending = Pending
                 /\ s.op = op /\ s.step = "begin"
  BY <1>1 DEF Idle, RequestSound, Request
<1>5. QED
  BY <1>1, <1>2, <1>3, <1>4

LEMMA EmptyTransaction ==
    /\ Pending.chunk = {} /\ Pending.new = {} /\ Pending.swept = {} /\ Pending.skipped = {}
    /\ \A r \in Rows : Pending.out[r] = "none"
    /\ \A c : LET p == [Pending EXCEPT !.chunk = c]
             IN  /\ p.chunk = c /\ p.new = {} /\ p.swept = {} /\ p.skipped = {}
                 /\ p.out = Pending.out
    /\ [Pending EXCEPT !.chunk = {}] = Pending
BY DEF Pending

LEMMA EmptySound ==
    ASSUME NEW s, s.pending = Pending, s.step # "rows", ~s.stale,
           s.op = "execute" => s.step \in {"begin", "sweep", "select", "finish"}
    PROVE  RequestSound(s) /\ NothingDone(s.pending)
BY EmptyTransaction DEF RequestSound, NothingDone

LEMMA InitStore == ImpInit => StoreInv
<1> SUFFICES ASSUME ImpInit PROVE StoreInv
  OBVIOUS
<1>1. \A h \in Handlers : handlers[h] = Idle
  BY DEF ImpInit
<1>2. Idle.pending = Pending /\ Pending.new = {} /\ \A r \in Rows : Pending.out[r] = "none"
  BY DEF Idle, Pending
<1>3. ImpTypeOK
  BY IdleSound, ImportAssumption DEF ImpInit, ImpTypeOK
<1>4. StoredOnce /\ DoneIsStored
  BY DEF ImpInit, StoredOnce, DoneIsStored
<1>5. KeysInv
  BY <1>1, <1>2 DEF KeysInv, Inserted, Done
<1>6. QED
  BY <1>1, <1>3, <1>4, <1>5, IdleSound DEF StoreInv

(* A step that stores nothing, and inserts nothing that was not inserted.  *)
LEMMA Quiet ==
    ASSUME StoreInv, ImpTypeOK', kind' = kind, stored' = stored,
           \A g \in Handlers :
              /\ RequestSound(handlers'[g])
              /\ \/ handlers'[g].pending = handlers[g].pending
                 \/ NothingDone(handlers'[g].pending),
           \A r \in Rows : rows'[r] = "done" => rows[r] = "done"
    PROVE  StoreInv'
<1>1. \A g \in Handlers : /\ Inserted(g)' \subseteq Inserted(g)
                           /\ \A r \in Rows : Done(g, r)' => Done(g, r) /\ Inserted(g)' = Inserted(g)
  BY DEF NothingDone, Inserted, Done, Pending
<1>2. \A g \in Handlers : Inserted(g)' = {} \/ (\A r \in Rows : Done(g, r)' <=> Done(g, r))
  BY DEF NothingDone, Inserted, Done
<1>3. \A r \in Rows : Needs(r)' = Needs(r)
  BY DEF Needs
<1>4. KeysInv'
  <2>1. ASSUME NEW g \in Handlers, NEW k \in Inserted(g)'
        PROVE  \E r \in Rows : Done(g, r)' /\ k \in Needs(r)'
    <3>1. PICK r \in Rows : Done(g, r) /\ k \in Needs(r)
      BY <1>1, <2>1 DEF StoreInv, KeysInv
    <3>2. QED
      BY <1>2, <1>3, <2>1, <3>1
  <2>2. ASSUME NEW g \in Handlers, NEW k \in Inserted(g)'
        PROVE  stored'[k] = 0 /\ \A f \in Others(g) : k \notin Inserted(f)'
    BY <1>1, <2>2 DEF StoreInv, KeysInv, Others
  <2>3. ASSUME NEW g \in Handlers, NEW r \in Rows, Done(g, r)'
        PROVE  \A k \in Needs(r)' : stored'[k] = 1 \/ k \in Inserted(g)'
    BY <1>1, <1>3, <2>3 DEF StoreInv, KeysInv
  <2>4. QED
    BY <2>1, <2>2, <2>3 DEF KeysInv, Others
<1>5. StoredOnce' /\ DoneIsStored'
  BY <1>3 DEF StoreInv, StoredOnce, DoneIsStored
<1>6. QED
  BY <1>4, <1>5 DEF StoreInv

LEMMA QuietAlone ==
    ASSUME StoreInv, NEW h \in Handlers, NEW s \in Request,
           RequestSound(s), NothingDone(s.pending),
           handlers' = [handlers EXCEPT ![h] = s],
           UNCHANGED <<kind, rows, stored>>, audit' \in SUBSET Rows
    PROVE  StoreInv'
<1>1. \A g \in Handlers : handlers'[g] = IF g = h THEN s ELSE handlers[g]
  BY DEF StoreInv, ImpTypeOK
<1>2. ImpTypeOK'
  BY DEF StoreInv, ImpTypeOK
<1>3. QED
  BY <1>1, <1>2, Quiet DEF StoreInv

(* Requests that start, begin or end without a commit. *)
LEMMA Leaving ==
    ASSUME StoreInv, NEW h \in Handlers,
           \/ Abandon(h) \/ FailExecution(h) \/ Crash(h) \/ CommitCancel(h)
           \/ RefuseStudents(h) \/ RefuseFile(h)
    PROVE  StoreInv'
<1>1. /\ handlers' = [handlers EXCEPT ![h] = Idle]
      /\ UNCHANGED <<kind, rows, audit, stored>>
  BY DEF Abandon, FailExecution, Crash, CommitCancel, RefuseStudents, RefuseFile,
     RolledBack, Leave
<1>2. audit' \in SUBSET Rows
  BY <1>1 DEF StoreInv, ImpTypeOK
<1>3. QED
  BY <1>1, <1>2, IdleSound, QuietAlone

LEMMA Starting ==
    ASSUME StoreInv, NEW h \in Handlers,
           StartValidate(h) \/ StartExecute(h) \/ StartCancel(h)
    PROVE  StoreInv'
<1>1. PICK op \in {"validate", "execute", "cancel"} : Start(h, op)
  BY DEF StartValidate, StartExecute, StartCancel
<1> DEFINE s == [Idle EXCEPT !.op = op, !.step = "begin"]
<1>2. /\ handlers' = [handlers EXCEPT ![h] = s]
      /\ UNCHANGED <<kind, status, rows, audit, stored>>
  BY <1>1 DEF Start
<1>3. s \in Request /\ RequestSound(s) /\ NothingDone(s.pending)
  BY IdleSound
<1> HIDE DEF s
<1>4. audit' \in SUBSET Rows
  BY <1>2 DEF StoreInv, ImpTypeOK
<1>5. QED
  BY <1>2, <1>3, <1>4, QuietAlone

(* A request that goes on to another step. *)
LEMMA Moved ==
    ASSUME StoreInv, NEW h \in Handlers,
           NEW step \in {"sweep", "stage", "select"}, Go(h, step)
    PROVE  LET s == [handlers[h] EXCEPT !.step = step]
           IN  /\ handlers' = [handlers EXCEPT ![h] = s] /\ s \in Request
               /\ s.step = step /\ s.op = handlers[h].op
               /\ s.pending = handlers[h].pending /\ s.stale = handlers[h].stale
BY DEF Go, StoreInv, ImpTypeOK, Request

LEMMA Beginning ==
    ASSUME StoreInv, NEW h \in Handlers, BeginValidate(h) \/ BeginExecute(h)
    PROVE  StoreInv'
<1> DEFINE op == handlers[h].op
           step == IF BeginValidate(h)
                   THEN IF kind = "GUARDIAN_MAPPING" THEN "sweep" ELSE "stage"
                   ELSE IF kind \in GuardianKinds THEN "sweep" ELSE "select"
           s == [handlers[h] EXCEPT !.step = step]
<1>1. /\ handlers[h].step = "begin"
      /\ op = IF BeginValidate(h) THEN "validate" ELSE "execute"
      /\ Go(h, step) /\ UNCHANGED <<kind, rows, audit, stored>>
  BY DEF BeginValidate, BeginExecute, At
<1>2. /\ handlers' = [handlers EXCEPT ![h] = s] /\ s \in Request
      /\ s.step = step /\ s.op = op /\ s.pending = handlers[h].pending
      /\ s.stale = handlers[h].stale
  <2>1. step \in {"sweep", "stage", "select"} /\ Go(h, step)
    BY <1>1
  <2> HIDE DEF step
  <2>2. QED
    BY <2>1, Moved
<1>3. step \in {"sweep", "stage", "select"} /\ (op = "execute" => step # "stage")
  BY <1>1
<1>4. handlers[h].pending = Pending /\ RequestSound(handlers[h])
  BY <1>1 DEF StoreInv, RequestSound
<1>5. op \in {"validate", "execute"}
  BY <1>1
<1>6. audit' \in SUBSET Rows
  BY <1>1 DEF StoreInv, ImpTypeOK
<1> HIDE DEF op, step, s
<1>7. RequestSound(s) /\ NothingDone(s.pending)
  BY <1>2, <1>3, <1>4, <1>5, IdleSound DEF RequestSound, NothingDone
<1>8. QED
  BY <1>1, <1>2, <1>6, <1>7, QuietAlone

-----------------------------------------------------------------------------
(* Validation.                                                             *)

(* The requests after h has deleted the staging rows and become s. *)
LEMMA RestagedSound ==
    ASSUME StoreInv, NEW h \in Handlers, Unlocked(h), NEW s \in Request,
           \/ handlers' = [Restaged(h) EXCEPT ![h] = s]
           \/ handlers' = Restaged(h) /\ s = Idle
    PROVE  /\ handlers' \in [Handlers -> Request] /\ handlers'[h] = s
           /\ \A g \in Others(h) :
                 /\ handlers'[g].pending = handlers[g].pending
                 /\ handlers'[g].op = handlers[g].op /\ handlers'[g].step = handlers[g].step
                 /\ RequestSound(handlers'[g])
                 /\ handlers'[g].pending.chunk # {} => handlers'[g].stale
                 /\ ~Written(g)
<1>1. ASSUME NEW g \in Others(h)
      PROVE  LET t == [handlers[g] EXCEPT !.stale = @ \/ handlers[g].pending.chunk # {}]
             IN  /\ t \in Request /\ t.pending = handlers[g].pending
                 /\ t.op = handlers[g].op /\ t.step = handlers[g].step
                 /\ t.stale = (handlers[g].stale \/ handlers[g].pending.chunk # {})
  BY DEF Others, StoreInv, ImpTypeOK, Request
<1>2. \A g \in Handlers : handlers'[g] =
        IF g = h THEN s
        ELSE [handlers[g] EXCEPT !.stale = @ \/ handlers[g].pending.chunk # {}]
  BY DEF Restaged
<1>3. handlers' \in [Handlers -> Request]
  <2>1. \A g \in Handlers : handlers'[g] \in Request
    BY <1>1, <1>2 DEF Others
  <2>2. QED
    BY <2>1 DEF Restaged
<1>4. ASSUME NEW g \in Others(h)
      PROVE  /\ handlers'[g].pending = handlers[g].pending
             /\ handlers'[g].op = handlers[g].op /\ handlers'[g].step = handlers[g].step
             /\ handlers'[g].stale = (handlers[g].stale \/ handlers[g].pending.chunk # {})
  <2> DEFINE t == [handlers[g] EXCEPT !.stale = @ \/ handlers[g].pending.chunk # {}]
  <2>1. handlers'[g] = t
    BY <1>2 DEF Others
  <2>2. /\ t.pending = handlers[g].pending
        /\ t.op = handlers[g].op /\ t.step = handlers[g].step
        /\ t.stale = (handlers[g].stale \/ handlers[g].pending.chunk # {})
    BY <1>1
  <2> HIDE DEF t
  <2>3. QED
    BY <2>1, <2>2
<1>5. ASSUME NEW g \in Others(h)
      PROVE  RequestSound(handlers'[g]) /\ ~Written(g)
  <2>1. ~Written(g) /\ RequestSound(handlers[g])
    BY DEF Unlocked, StoreInv, Others
  <2>2. handlers[g].pending = [Pending EXCEPT !.chunk = handlers[g].pending.chunk]
    BY <2>1 DEF Written
  <2>3. QED
    BY <1>4, <2>1, <2>2 DEF RequestSound
<1>6. QED
  BY <1>2, <1>3, <1>4, <1>5

LEMMA SweepMappingInv ==
    ASSUME StoreInv, NEW h \in Handlers, SweepMapping(h)
    PROVE  StoreInv'
<1> DEFINE s == [handlers[h] EXCEPT !.step = "stage"]
<1>1. /\ s \in Request /\ s.op = "validate" /\ s.step = "stage" /\ s.pending = Pending
      /\ s.stale = handlers[h].stale
      /\ At(h, "validate", "sweep") /\ Unlocked(h)
      /\ \A r \in Rows : rows'[r] = "none"
      /\ rows' = [r \in Rows |-> "none"] /\ audit' = {}
      /\ handlers' = [Restaged(h) EXCEPT ![h] = s]
      /\ UNCHANGED <<kind, status, stored>>
  <2>1. handlers[h] \in Request /\ RequestSound(handlers[h])
    BY DEF StoreInv, ImpTypeOK
  <2>2. At(h, "validate", "sweep") /\ handlers[h].pending = Pending
    BY <2>1 DEF SweepMapping, At, RequestSound
  <2>3. s \in Request /\ s.op = "validate" /\ s.step = "stage" /\ s.pending = Pending
        /\ s.stale = handlers[h].stale
    BY <2>1, <2>2 DEF At, Request
  <2>4. QED
    BY <2>2, <2>3 DEF SweepMapping
<1> HIDE DEF s
<1>2. RequestSound(s) /\ NothingDone(s.pending)
  <2>1. ~handlers[h].stale
    BY <1>1 DEF At, StoreInv, RequestSound
  <2>2. QED
    BY <1>1, <2>1, EmptySound
<1>3. /\ handlers' \in [Handlers -> Request] /\ handlers'[h] = s
      /\ \A g \in Others(h) :
            /\ handlers'[g].pending = handlers[g].pending
            /\ handlers'[g].op = handlers[g].op /\ handlers'[g].step = handlers[g].step
            /\ RequestSound(handlers'[g])
            /\ handlers'[g].pending.chunk # {} => handlers'[g].stale
            /\ ~Written(g)
  BY <1>1, RestagedSound
<1>4. \A g \in Handlers : g = h \/ g \in Others(h)
  BY DEF Others
<1>5. ImpTypeOK'
  BY <1>1, <1>3 DEF StoreInv, ImpTypeOK
<1>6. QED
  BY <1>1, <1>2, <1>3, <1>4, <1>5, Quiet

LEMMA StageInv ==
    ASSUME StoreInv, NEW h \in Handlers, Stage(h)
    PROVE  StoreInv'
<1>1. PICK valid \in SUBSET Acceptable :
        rows' = [r \in Rows |-> IF r \in valid THEN "valid" ELSE "invalid"]
  BY DEF Stage
<1>2. /\ At(h, "validate", "stage") /\ Unlocked(h) /\ audit' = Rows
      /\ UNCHANGED <<kind, stored>>
      /\ kind = "GUARDIAN_MAPPING" => audit = {}
      /\ IF kind \in {"ACADEMIC_SETUP", "GUARDIANS"} THEN handlers' = Restaged(h)
         ELSE handlers' = [handlers EXCEPT ![h] = Idle]
  BY DEF Stage
<1>3. /\ handlers' \in [Handlers -> Request] /\ handlers'[h] = Idle
      /\ \A g \in Others(h) :
            /\ handlers'[g].pending = handlers[g].pending
            /\ handlers'[g].op = handlers[g].op /\ handlers'[g].step = handlers[g].step
            /\ RequestSound(handlers'[g])
            /\ ~Written(g)
  <2>1. CASE kind \in {"ACADEMIC_SETUP", "GUARDIANS"}
    BY <1>2, <2>1, RestagedSound, IdleSound
  <2>2. CASE kind \notin {"ACADEMIC_SETUP", "GUARDIANS"}
    BY <1>2, <2>2, IdleSound DEF StoreInv, ImpTypeOK, Others, Unlocked
  <2>3. QED
    BY <2>1, <2>2
<1>4. \A g \in Handlers : g = h \/ g \in Others(h)
  BY DEF Others
<1>5. ImpTypeOK'
  BY <1>1, <1>2, <1>3 DEF StoreInv, ImpTypeOK
<1>6. QED
  BY <1>1, <1>2, <1>3, <1>4, <1>5, IdleSound, Quiet

LEMMA ReportRowInv ==
    ASSUME StoreInv, NEW r \in Rows, ReportRow(r)
    PROVE  StoreInv'
<1>1. audit' = audit \cup {r} /\ UNCHANGED <<kind, status, rows, stored, handlers>>
  BY DEF ReportRow
<1>2. ImpTypeOK'
  BY <1>1 DEF StoreInv, ImpTypeOK
<1>3. QED
  BY <1>1, <1>2, Quiet DEF StoreInv

-----------------------------------------------------------------------------
(* Execution.                                                              *)

LEMMA SweepAuditInv ==
    ASSUME StoreInv, NEW h \in Handlers, SweepAudit(h)
    PROVE  StoreInv'
<1> DEFINE skipped == {r \in Rows : rows[r] = "invalid"}
           p == [Pending EXCEPT !.swept = audit, !.skipped = skipped]
           s == [handlers[h] EXCEPT !.step = "select", !.pending = p]
<1>1. /\ handlers[h] \in Request /\ At(h, "execute", "sweep")
      /\ handlers[h].pending = Pending /\ ~handlers[h].stale
      /\ audit \in SUBSET Rows /\ skipped \in SUBSET Rows
  BY DEF SweepAudit, At, StoreInv, ImpTypeOK, RequestSound
<1>2. /\ handlers' = [handlers EXCEPT ![h].step = "select", ![h].pending.swept = audit,
                                     ![h].pending.skipped = skipped]
      /\ UNCHANGED <<kind, status, rows, audit, stored>>
  BY DEF SweepAudit
<1>3. handlers' = [handlers EXCEPT ![h] = s]
  BY <1>1, <1>2 DEF StoreInv, ImpTypeOK, Request, Pending
<1>4. /\ p \in Transaction /\ p.swept = audit /\ p.chunk = {} /\ p.new = {}
      /\ p.out = Pending.out /\ NothingDone(p)
  BY <1>1 DEF Transaction, Pending, NothingDone
<1> HIDE DEF p
<1>5. /\ s \in Request /\ s.pending = p /\ s.op = "execute" /\ s.step = "select"
      /\ s.stale = handlers[h].stale
  BY <1>1, <1>4 DEF Request, At
<1> HIDE DEF s
<1>6. RequestSound(s)
  BY <1>1, <1>4, <1>5, EmptyTransaction DEF RequestSound
<1>7. QED
  BY <1>1, <1>2, <1>3, <1>4, <1>5, <1>6, QuietAlone

(* The first of the rows. *)
LEMMA FirstRow ==
    ASSUME NEW S \in SUBSET Rows, S # {}
    PROVE  \E r \in S : Cardinality({q \in S : q < r}) < ChunkSize
<1>1. S \subseteq Nat /\ ChunkSize \in Nat \ {0}
  BY ImportAssumption, FS_CardinalityType
<1>2. PICK r \in S : \A q \in S : <<q, r>> \notin OpToRel(<, Nat)
  BY <1>1, NatLessThanWellFounded, WFMin
<1>3. {q \in S : q < r} = {}
  BY <1>1, <1>2 DEF OpToRel
<1>4. Cardinality({q \in S : q < r}) = 0
  BY <1>3, FS_EmptySet
<1>5. QED
  BY <1>1, <1>4

LEMMA SelectChunkInv ==
    ASSUME StoreInv, NEW h \in Handlers, SelectChunk(h)
    PROVE  StoreInv'
<1> DEFINE C == {r \in ValidRows : Cardinality({q \in ValidRows : q < r}) < ChunkSize}
           step == IF ValidRows = {} THEN "finish" ELSE "rows"
           o == handlers[h].pending
           p == [o EXCEPT !.chunk = C]
           s == [handlers[h] EXCEPT !.step = step, !.stale = FALSE, !.pending = p]
<1>1. /\ handlers[h] \in Request /\ At(h, "execute", "select") /\ o \in Transaction
      /\ o.chunk = {} /\ NothingDone(o)
  BY DEF SelectChunk, At, StoreInv, ImpTypeOK, RequestSound, Request
<1>2. /\ handlers' = [handlers EXCEPT ![h].step = step, ![h].stale = FALSE,
                                     ![h].pending.chunk = C]
      /\ UNCHANGED <<kind, status, rows, audit, stored>>
  BY DEF SelectChunk
<1>3. C \subseteq ValidRows /\ ValidRows \in SUBSET Rows
  BY DEF ValidRows
<1>4. step = IF C = {} THEN "finish" ELSE "rows"
  BY <1>3, FirstRow
<1> HIDE DEF C, step
<1>6. handlers' = [handlers EXCEPT ![h] = s]
  BY <1>1, <1>2 DEF StoreInv, ImpTypeOK, Request, Transaction
<1>7. /\ p \in Transaction /\ p.chunk = C /\ p.new = {} /\ p.swept = o.swept
      /\ p.skipped = o.skipped /\ p.out = Pending.out /\ NothingDone(p)
  BY <1>1, <1>3 DEF Transaction, NothingDone
<1> HIDE DEF p
<1>8. /\ s \in Request /\ s.pending = p /\ s.op = "execute" /\ s.step = step
      /\ ~s.stale
  BY <1>1, <1>4, <1>7 DEF Request, At
<1> HIDE DEF s
<1>9. RequestSound(s)
  BY <1>4, <1>7, <1>8, EmptyTransaction DEF RequestSound
<1>10. audit' \in SUBSET Rows
  BY <1>2 DEF StoreInv, ImpTypeOK
<1>11. QED
  BY <1>2, <1>6, <1>7, <1>8, <1>9, <1>10, QuietAlone

LEMMA NeedsKeys ==
    ASSUME NEW r \in Rows
    PROVE  Needs(r) \subseteq Keys
BY ImportAssumption DEF Needs, Keys

(* A row is stored, or fails, on its own: nothing of it is anybody else's. *)
LEMMA ExecuteRowInv ==
    ASSUME StoreInv, NEW h \in Handlers, NEW r \in Rows, ExecuteRow(h, r)
    PROVE  StoreInv'
<1>1. PICK outcome \in {"done", "failed"} :
        handlers' = [handlers EXCEPT ![h].pending = Outcome(h, r, outcome),
                                     ![h].failed = @ \/ outcome = "failed"]
  BY DEF ExecuteRow
<1> DEFINE o == handlers[h].pending
           new == IF outcome = "done" THEN o.new \cup Missing(h, r) ELSE o.new
           p == [o EXCEPT !.out[r] = outcome, !.new = new]
           failed == handlers[h].failed \/ outcome = "failed"
           s == [handlers[h] EXCEPT !.pending = p, !.failed = failed]
<1>2. /\ UNCHANGED <<kind, status, rows, audit, stored>>
      /\ At(h, "execute", "rows") /\ ~handlers[h].stale /\ r \in o.chunk
      /\ o.out[r] = "none" /\ ~Waits(h, r)
  BY DEF ExecuteRow, NextRow, Touched
<1>3. /\ handlers \in [Handlers -> Request] /\ handlers[h] \in Request /\ o \in Transaction
      /\ RequestSound(handlers[h]) /\ o.new = Inserted(h)
  BY DEF StoreInv, ImpTypeOK, Request, Inserted
<1>4. p = Outcome(h, r, outcome)
  BY <1>3 DEF Outcome, Transaction
<1>5. /\ new \in SUBSET Keys /\ o.new \subseteq new
      /\ \A k \in new : k \in o.new \/ (k \in Needs(r) /\ stored[k] = 0 /\ outcome = "done")
      /\ outcome = "done" => \A k \in Needs(r) : stored[k] = 0 => k \in new
  BY <1>3, NeedsKeys DEF Missing, Transaction
<1>6. failed \in BOOLEAN
  OBVIOUS
<1>7. handlers' = [handlers EXCEPT ![h] = s]
  BY <1>1, <1>3, <1>4 DEF Request
<1> HIDE DEF new, failed
<1>8. /\ p \in Transaction /\ p.new = new /\ p.chunk = o.chunk /\ p.swept = o.swept
      /\ p.skipped = o.skipped
      /\ \A q \in Rows : p.out[q] = IF q = r THEN outcome ELSE o.out[q]
  BY <1>3, <1>5 DEF Transaction
<1> HIDE DEF p
<1>9. /\ s \in Request /\ s.pending = p /\ s.op = "execute" /\ s.step = "rows" /\ ~s.stale
  BY <1>2, <1>3, <1>6, <1>8 DEF Request, At
<1> HIDE DEF s, o
<1>10. \A g \in Handlers : handlers'[g] = IF g = h THEN s ELSE handlers[g]
  BY <1>3, <1>7
<1>11. RequestSound(s)
  BY <1>2, <1>3, <1>8, <1>9 DEF RequestSound, At, o
<1>12. ImpTypeOK'
  BY <1>2, <1>7, <1>9 DEF StoreInv, ImpTypeOK
<1>13. /\ \A g \in Handlers : Inserted(g)' = IF g = h THEN new ELSE Inserted(g)
       /\ \A g \in Handlers, q \in Rows :
             /\ Done(g, q)' => Done(g, q) \/ (g = h /\ q = r /\ outcome = "done")
             /\ Done(g, q) => Done(g, q)' /\ (g # h \/ q # r)
       /\ outcome = "done" => Done(h, r)'
  <2>1. \A g \in Handlers : Inserted(g)' = IF g = h THEN new ELSE Inserted(g)
    BY <1>8, <1>9, <1>10 DEF Inserted
  <2>2. /\ \A g \in Handlers : g # h => \A q \in Rows : Done(g, q)' <=> Done(g, q)
        /\ \A q \in Rows : Done(h, q)' <=> (IF q = r THEN outcome ELSE o.out[q]) = "done"
        /\ \A q \in Rows : Done(h, q) <=> o.out[q] = "done"
    BY <1>8, <1>9, <1>10 DEF Done, o
  <2>3. QED
    BY <1>2, <2>1, <2>2
<1>14. \A g \in Others(h) : Needs(r) \cap Inserted(g) = {}
  BY <1>2 DEF Waits, Inserted
<1>15. KeysInv'
  <2>1. ASSUME NEW g \in Handlers, NEW k \in Inserted(g)'
        PROVE  stored[k] = 0 /\ \A f \in Others(g) : k \notin Inserted(f)'
    <3>1. /\ \A f \in Handlers : \A j \in Inserted(f) :
                stored[j] = 0 /\ \A e \in Handlers : e # f => j \notin Inserted(e)
          /\ \A f \in Handlers : f # h => Inserted(f)' = Inserted(f)
          /\ \A j \in Inserted(h)' : j \in Inserted(h) \/ (j \in Needs(r) /\ stored[j] = 0)
      BY <1>3, <1>5, <1>13 DEF StoreInv, KeysInv, Others
    <3>2. \A f \in Handlers : f # h => \A j \in Needs(r) : j \notin Inserted(f)
      BY <1>14 DEF Others
    <3>3. QED
      BY <2>1, <3>1, <3>2 DEF Others
  <2>2. ASSUME NEW g \in Handlers, NEW q \in Rows, Done(g, q)'
        PROVE  \A k \in Needs(q) : stored[k] = 1 \/ k \in Inserted(g)'
    <3>1. CASE g = h /\ q = r
      <4>1. \A k \in Needs(r) : stored[k] \in Nat /\ stored[k] <= 1
        BY NeedsKeys DEF StoreInv, ImpTypeOK, StoredOnce
      <4>2. \A k \in Needs(r) : stored[k] = 0 \/ stored[k] = 1
        BY <4>1
      <4>3. outcome = "done" /\ Inserted(g)' = new
        BY <1>2, <1>13, <2>2, <3>1
      <4>4. QED
        BY <1>5, <3>1, <4>2, <4>3
    <3>2. CASE ~(g = h /\ q = r)
      <4>1. Done(g, q) /\ Inserted(g) \subseteq Inserted(g)'
        BY <1>3, <1>5, <1>13, <2>2, <3>2
      <4>2. QED
        BY <4>1 DEF StoreInv, KeysInv
    <3>3. QED
      BY <3>1, <3>2
  <2>3. \A q \in Rows : Needs(q)' = Needs(q)
    BY <1>2 DEF Needs
  <2>4. ASSUME NEW g \in Handlers, NEW k \in Inserted(g)'
        PROVE  \E q \in Rows : Done(g, q)' /\ k \in Needs(q)
    <3>1. CASE k \in Inserted(g)
      <4>1. PICK q \in Rows : Done(g, q) /\ k \in Needs(q)
        BY <3>1 DEF StoreInv, KeysInv
      <4>2. QED
        BY <1>13, <4>1
    <3>2. CASE k \notin Inserted(g)
      <4>1. g = h /\ k \in Needs(r) /\ outcome = "done"
        BY <1>3, <1>5, <1>13, <2>4, <3>2
      <4>2. QED
        BY <1>13, <4>1
    <3>3. QED
      BY <3>1, <3>2
  <2>5. QED
    BY <1>2, <2>1, <2>2, <2>3, <2>4 DEF KeysInv, Others
<1>16. StoredOnce' /\ DoneIsStored'
  BY <1>2 DEF StoreInv, StoredOnce, DoneIsStored, Needs
<1>17. QED
  BY <1>10, <1>11, <1>12, <1>15, <1>16 DEF StoreInv

-----------------------------------------------------------------------------
(* Commits.                                                                *)

Commits(h, s) ==
    /\ Commit(h) /\ kind' = kind
    /\ handlers' = [handlers EXCEPT ![h] = s] /\ s \in Request
    /\ RequestSound(s) /\ s.pending = Pending

LEMMA CommitSteps ==
    ASSUME StoreInv, NEW h \in Handlers, CommitChunk(h) \/ Finish(h)
    PROVE  \E s : Commits(h, s)
<1>1. CASE CommitChunk(h)
  <2> DEFINE s == [handlers[h] EXCEPT !.step = "select", !.pending = Pending]
  <2>1. /\ handlers[h] \in Request /\ RequestSound(handlers[h]) /\ At(h, "execute", "rows")
        /\ handlers \in [Handlers -> Request]
        /\ handlers[h].pending.chunk \subseteq Touched(h)
    BY <1>1 DEF CommitChunk, ChunkDone, StoreInv, ImpTypeOK
  <2>2. handlers' = [handlers EXCEPT ![h] = s]
    BY <1>1, <2>1 DEF CommitChunk, Request
  <2>3. /\ s \in Request /\ s.op = "execute" /\ s.step = "select" /\ s.pending = Pending
        /\ s.stale = handlers[h].stale
    BY <2>1, IdleSound DEF Request, At
  <2> HIDE DEF s
  <2>4. ~handlers[h].stale
    <3>1. handlers[h].pending.chunk # {} /\ Touched(h) # {}
      BY <2>1 DEF RequestSound, At
    <3>2. PICK r \in Rows : handlers[h].pending.out[r] # "none"
      BY <3>1 DEF Touched
    <3>3. [Pending EXCEPT !.chunk = handlers[h].pending.chunk].out[r] = "none"
      BY EmptyTransaction
    <3>4. QED
      BY <2>1, <3>2, <3>3 DEF RequestSound
  <2>5. RequestSound(s)
    BY <2>3, <2>4, EmptySound
  <2>6. Commits(h, s)
    BY <1>1, <2>1, <2>2, <2>3, <2>5 DEF Commits, CommitChunk
  <2>7. QED
    BY <2>6
<1>2. CASE Finish(h)
  <2>1. Commits(h, Idle)
    BY <1>2, IdleSound DEF Commits, Finish, Leave
  <2>2. QED
    BY <2>1
<1>3. QED
  BY <1>1, <1>2

LEMMA CommitStore ==
    ASSUME StoreInv, NEW h \in Handlers, NEW s, Commits(h, s)
    PROVE  /\ StoreInv'
           /\ \A g \in Handlers : handlers'[g] = IF g = h THEN s ELSE handlers[g]
           /\ \A k \in Keys : stored'[k] = IF k \in Inserted(h) THEN 1 ELSE stored[k]
           /\ \A r \in Rows : rows'[r] = IF r \in Touched(h) THEN handlers[h].pending.out[r]
                                                           ELSE rows[r]
<1>1. /\ handlers \in [Handlers -> Request] /\ handlers[h].pending \in Transaction
      /\ Inserted(h) \in SUBSET Keys /\ stored \in [Keys -> Nat]
      /\ \A k \in Keys : stored[k] <= 1
  BY DEF StoreInv, ImpTypeOK, Request, Transaction, Inserted, StoredOnce
<1>2. \A g \in Handlers : handlers'[g] = IF g = h THEN s ELSE handlers[g]
  BY <1>1 DEF Commits
<1>3. \A k \in Inserted(h) : stored[k] = 0 /\ \A g \in Handlers : g # h => k \notin Inserted(g)
  BY DEF StoreInv, KeysInv, Others
<1>4. \A k \in Keys : stored'[k] = IF k \in Inserted(h) THEN 1 ELSE stored[k]
  BY <1>1, <1>3 DEF Commits, Commit, Inserted
<1>5. \A r \in Rows : rows'[r] = IF r \in Touched(h) THEN handlers[h].pending.out[r] ELSE rows[r]
  BY DEF Commits, Commit
<1>6. ImpTypeOK'
  <2>1. handlers' \in [Handlers -> Request] /\ kind' \in AllKinds
    BY <1>1 DEF Commits, StoreInv, ImpTypeOK
  <2>2. rows' \in [Rows -> {"none", "valid", "invalid", "done", "failed"}]
    BY <1>1 DEF Commits, Commit, StoreInv, ImpTypeOK, Transaction, Touched
  <2>3. audit' \in SUBSET Rows
    BY <1>1 DEF Commits, Commit, StoreInv, ImpTypeOK, Transaction, Touched, Audited
  <2>4. stored' \in [Keys -> Nat]
    <3>1. \A k \in Keys : stored'[k] \in Nat
      BY <1>1, <1>4
    <3>2. QED
      BY <3>1 DEF Commits, Commit
  <2>5. QED
    BY <2>1, <2>2, <2>3, <2>4 DEF ImpTypeOK
<1>7. Inserted(h)' = {} /\ \A r \in Rows : ~Done(h, r)'
  <2>1. handlers'[h].pending = Pending
    BY <1>2 DEF Commits
  <2>2. QED
    BY <2>1, EmptyTransaction DEF Inserted, Done
<1>8. \A g \in Handlers : g # h => /\ Inserted(g)' = Inserted(g)
                                   /\ \A r \in Rows : Done(g, r)' <=> Done(g, r)
  BY <1>2 DEF Inserted, Done
<1>9. \A r \in Rows : Needs(r)' = Needs(r) /\ Needs(r) \subseteq Keys
  BY NeedsKeys DEF Commits, Needs
<1>10. KeysInv'
  <2>1. ASSUME NEW g \in Handlers, NEW k \in Inserted(g)'
        PROVE  stored'[k] = 0 /\ \A f \in Others(g) : k \notin Inserted(f)'
    <3>1. g # h /\ k \in Inserted(g)
      BY <1>7, <1>8, <2>1
    <3>2. stored[k] = 0 /\ k \in Keys /\ \A f \in Handlers : f # g => k \notin Inserted(f)
      BY <1>1, <3>1 DEF StoreInv, KeysInv, Others, ImpTypeOK, Request, Transaction, Inserted
    <3>3. QED
      BY <1>4, <1>7, <1>8, <3>1, <3>2 DEF Others
  <2>2. ASSUME NEW g \in Handlers, NEW r \in Rows, Done(g, r)'
        PROVE  \A k \in Needs(r) : stored'[k] = 1 \/ k \in Inserted(g)'
    <3>1. g # h /\ Done(g, r)
      BY <1>7, <1>8, <2>2
    <3>2. \A k \in Needs(r) : stored[k] = 1 \/ k \in Inserted(g)
      BY <3>1 DEF StoreInv, KeysInv
    <3>3. QED
      BY <1>4, <1>8, <1>9, <3>1, <3>2
  <2>3. ASSUME NEW g \in Handlers, NEW k \in Inserted(g)'
        PROVE  \E r \in Rows : Done(g, r)' /\ k \in Needs(r)
    <3>1. g # h /\ k \in Inserted(g)
      BY <1>7, <1>8, <2>3
    <3>2. PICK r \in Rows : Done(g, r) /\ k \in Needs(r)
      BY <3>1 DEF StoreInv, KeysInv
    <3>3. QED
      BY <1>8, <3>1, <3>2
  <2>4. QED
    BY <1>9, <2>1, <2>2, <2>3 DEF KeysInv, Others
<1>11. StoredOnce'
  BY <1>1, <1>4 DEF StoredOnce
<1>12. DoneIsStored'
  <2>1. ASSUME NEW r \in Rows, rows'[r] = "done"
        PROVE  \A k \in Needs(r) : stored'[k] = 1
    <3>1. CASE r \in Touched(h)
      <4>1. Done(h, r)
        BY <1>5, <2>1, <3>1 DEF Done
      <4>2. \A k \in Needs(r) : stored[k] = 1 \/ k \in Inserted(h)
        BY <4>1 DEF StoreInv, KeysInv
      <4>3. QED
        BY <1>4, <1>9, <4>2
    <3>2. CASE r \notin Touched(h)
      <4>1. \A k \in Needs(r) : stored[k] = 1
        BY <1>5, <2>1, <3>2 DEF StoreInv, DoneIsStored
      <4>2. QED
        BY <1>4, <1>9, <4>1
    <3>3. QED
      BY <3>1, <3>2
  <2>2. QED
    BY <1>9, <2>1 DEF DoneIsStored
<1>13. \A g \in Handlers : RequestSound(handlers'[g])
  BY <1>2 DEF StoreInv, Commits
<1>14. QED
  BY <1>2, <1>4, <1>5, <1>6, <1>10, <1>11, <1>12, <1>13 DEF StoreInv

-----------------------------------------------------------------------------
(* Every step.                                                             *)

LEMMA NextStore == StoreInv /\ [ImpNext]_impVars => StoreInv'
<1> SUFFICES ASSUME StoreInv, [ImpNext]_impVars PROVE StoreInv'
  OBVIOUS
<1>1. ASSUME NEW h \in Handlers, ExecuteStep(h) PROVE StoreInv'
  <2>1. CASE BeginExecute(h)
    BY <2>1, Beginning
  <2>2. CASE SweepAudit(h)
    BY <2>2, SweepAuditInv
  <2>3. CASE SelectChunk(h)
    BY <2>3, SelectChunkInv
  <2>4. ASSUME NEW r \in Rows, ExecuteRow(h, r) PROVE StoreInv'
    BY <2>4, ExecuteRowInv
  <2>5. CASE CommitChunk(h) \/ Finish(h)
    BY <2>5, CommitSteps, CommitStore
  <2>6. CASE Abandon(h)
    BY <2>6, Leaving
  <2>7. QED
    BY <1>1, <2>1, <2>2, <2>3, <2>4, <2>5, <2>6 DEF ExecuteStep
<1>2. ASSUME NEW h \in Handlers, StartValidate(h) \/ StartExecute(h) \/ StartCancel(h)
      PROVE  StoreInv'
  BY <1>2, Starting
<1>3. ASSUME NEW h \in Handlers,
             FailExecution(h) \/ Crash(h) \/ CommitCancel(h) \/ RefuseStudents(h) \/ RefuseFile(h)
      PROVE  StoreInv'
  BY <1>3, Leaving
<1>4. ASSUME NEW h \in Handlers, BeginValidate(h) PROVE StoreInv'
  BY <1>4, Beginning
<1>5. ASSUME NEW h \in Handlers, SweepMapping(h) PROVE StoreInv'
  BY <1>5, SweepMappingInv
<1>6. ASSUME NEW h \in Handlers, Stage(h) PROVE StoreInv'
  BY <1>6, StageInv
<1>7. ASSUME NEW r \in Rows, ReportRow(r) PROVE StoreInv'
  BY <1>7, ReportRowInv
<1>8. CASE UNCHANGED impVars
  BY <1>8 DEF impVars, StoreInv, ImpTypeOK, KeysInv, StoredOnce, DoneIsStored, Inserted, Done,
     Needs, Others
<1>9. QED
  BY <1>1, <1>2, <1>3, <1>4, <1>5, <1>6, <1>7, <1>8 DEF ImpNext

(* Whatever requests overlap, however many, and whichever rows name one    *)
(* record: no record is stored twice, a row that is reported done has all  *)
(* its records, and nothing is stored but for a row that is reported done. *)
THEOREM OutcomeIsTrueHolds == ImpSpec => []OutcomeIsTrue
<1>1. StoreInv => OutcomeIsTrue
  BY DEF StoreInv, KeysInv, Inserted, Done, OutcomeIsTrue, InsertedByDone
<1>2. QED
  BY <1>1, InitStore, NextStore, PTL DEF ImpSpec
=============================================================================
