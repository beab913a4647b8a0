------------------------ MODULE CommunicationProofs ------------------------
(***************************************************************************)
(* Proofs about RequestThread and Communication, for every set of users    *)
(* and roles and any number of overlapping calls.                          *)
(*                                                                         *)
(* The promises are proved of RequestThread, where calls happen one at a   *)
(* time, and carried over to Communication by the refinement.  That one    *)
(* rests on CommInv: a call whose version is still the current one holds   *)
(* a decision that its user could take right now, because nothing of the   *)
(* request changes without a new version.                                  *)
(***************************************************************************)
EXTENDS Communication, TLAPS

(* The decisions that users can take in the present state. *)
ReplyDecision(d) == \E u \in Users : CanReply(u) /\ d = ReplyBy(u)
StatusDecision(d) ==
    \E u \in Users, status \in RequestStatus : CanSet(u, status) /\ d = SettingBy(u, status)
AssignDecision(d) ==
    \E u \in Users, v \in Users : CanAssign(u, v) /\ d = AssignmentBy(u, v)
EscalateDecision(d) ==
    \E u \in Users, p \in Users \cup {None} : CanEscalate(u, p) /\ d = EscalationBy(u, p)
Decision(d) ==
    ReplyDecision(d) \/ StatusDecision(d) \/ AssignDecision(d) \/ EscalateDecision(d)

Decisions ==
    [op: {"none", "reply", "status", "assign", "escalate"},
     status: RequestStatus \cup {None}, assignee: Users \cup {None},
     joins: SUBSET Users, says: SenderRoles \cup {None}, heard: Nat]

ThreadInv ==
    /\ ThreadTypeOK
    /\ PeopleAreOnce
    /\ TurnIsTracked
    /\ ~Exists => messages = <<>>

CommInv ==
    /\ ThreadTypeOK
    /\ version \in Nat /\ (~Exists => version = 0)
    /\ handlers \in [Handlers -> [seen: Nat, writes: Decisions]]
    /\ \A h \in Handlers :
           /\ handlers[h].seen <= version
           /\ Busy(h) => Exists
           /\ Busy(h) /\ Fresh(handlers[h]) =>
                  \E d \in Decisions : Decision(d) /\ handlers[h].writes = d

-----------------------------------------------------------------------------
(* Statuses and decisions.                                                 *)

LEMMA StatusNames ==
    /\ RequestStatus = {"OPEN", "ACKNOWLEDGED", "IN_PROGRESS", "WAITING_FOR_PARENT",
                        "ESCALATED", "PRINCIPAL_REVIEW", "RESOLVED", "REOPENED"}
    /\ \A s \in RequestStatus : /\ Successors[s] \subseteq RequestStatus
                                /\ "OPEN" \notin Successors[s]
  BY DEF RequestStatus, Successors

LEMMA RoleNames ==
    ASSUME NEW u \in Users
    PROVE  SenderRole(u) \in SenderRoles
  BY DEF SenderRole, SenderRoles

LEMMA NothingIsADecision ==
    /\ Nothing \in Decisions
    /\ Nothing.status = None /\ Nothing.assignee = None
    /\ Nothing.joins = {} /\ Nothing.says = None
  BY DEF Nothing, Decisions

LEMMA ReplyFields ==
    ASSUME ThreadTypeOK, NEW u \in Users
    PROVE  LET d == ReplyBy(u)
           IN  /\ d \in Decisions /\ d.op = "reply" /\ d.assignee = None
               /\ d.joins = Newcomers({u}) /\ d.says = SenderRole(u)
               /\ d.status = IF Moves(u) THEN "IN_PROGRESS" ELSE None
<1>1. /\ Newcomers({u}) \subseteq Users /\ SenderRole(u) \in SenderRoles
      /\ "IN_PROGRESS" \in RequestStatus /\ Len(messages) \in Nat
  BY StatusNames, RoleNames DEF Newcomers, ThreadTypeOK
<1>2. QED
  BY <1>1, NothingIsADecision DEF ReplyBy, Decisions

LEMMA SettingFields ==
    ASSUME ThreadTypeOK, NEW u \in Users, NEW status \in RequestStatus
    PROVE  LET d == SettingBy(u, status)
           IN  /\ d \in Decisions /\ d.op = "status" /\ d.assignee = None
               /\ d.joins = {} /\ d.says = None /\ d.heard = Len(messages)
               /\ d.status = status
<1>1. Len(messages) \in Nat
  BY DEF ThreadTypeOK
<1>2. QED
  BY <1>1, NothingIsADecision DEF SettingBy, Decisions

LEMMA AssignmentFields ==
    ASSUME ThreadTypeOK, NEW u \in Users, NEW v \in Users
    PROVE  LET d == AssignmentBy(u, v)
           IN  /\ d \in Decisions /\ d.op = "assign" /\ d.assignee = v
               /\ d.joins = Newcomers({v}) /\ d.says = None /\ d.status = None
<1>1. Newcomers({v}) \subseteq Users /\ Len(messages) \in Nat
  BY DEF Newcomers, ThreadTypeOK
<1>2. QED
  BY <1>1, NothingIsADecision DEF AssignmentBy, Decisions

LEMMA EscalationFields ==
    ASSUME ThreadTypeOK, NEW u \in Users, NEW p \in Users \cup {None}
    PROVE  LET d == EscalationBy(u, p)
           IN  /\ d \in Decisions /\ d.op = "escalate" /\ d.assignee = p
               /\ d.joins = Newcomers({p} \ {None}) /\ d.says = None
               /\ d.status = "ESCALATED"
<1>1. /\ Newcomers({p} \ {None}) \subseteq Users
      /\ "ESCALATED" \in RequestStatus /\ Len(messages) \in Nat
  BY StatusNames DEF Newcomers, ThreadTypeOK
<1>2. QED
  BY <1>1, NothingIsADecision DEF EscalationBy, Decisions

LEMMA DecisionType ==
    ASSUME ThreadTypeOK, NEW d, Decision(d)
    PROVE  d \in Decisions /\ d.op # "none"
<1>1. CASE ReplyDecision(d)
  BY <1>1, ReplyFields DEF ReplyDecision
<1>2. CASE StatusDecision(d)
  BY <1>2, SettingFields DEF StatusDecision
<1>3. CASE AssignDecision(d)
  BY <1>3, AssignmentFields DEF AssignDecision
<1>4. CASE EscalateDecision(d)
  BY <1>4, EscalationFields DEF EscalateDecision
<1>5. QED
  BY <1>1, <1>2, <1>3, <1>4 DEF Decision

LEMMA DecideIsDecision == Decide <=> \E d : Decision(d) /\ Write(d)
  BY DEF Decide, Decision, ReplyDecision, StatusDecision, AssignDecision, EscalateDecision

(* Whatever is written, the request stays one and has its types. *)
LEMMA WriteKeepsTypes ==
    ASSUME ThreadTypeOK, Exists, NEW d \in Decisions, Write(d)
    PROVE  ThreadTypeOK' /\ Exists'
<1>1. request' \in [status: RequestStatus, creator: Users \cup {None},
                    assignee: Users \cup {None}]
  BY DEF ThreadTypeOK, Exists, Write, Decisions
<1>2. people' \in [Users -> Nat]
  BY DEF ThreadTypeOK, Write
<1>3. messages' \in Seq(SenderRoles) /\ asked' \in Nat
  BY DEF ThreadTypeOK, Write, Decisions
<1>4. QED
  BY <1>1, <1>2, <1>3, StatusNames DEF ThreadTypeOK, Exists

LEMMA DecisionNeedsRequest ==
    ASSUME NEW d, Decision(d)
    PROVE  Exists
  BY DEF Decision, ReplyDecision, StatusDecision, AssignDecision, EscalateDecision,
         CanReply, CanSet, CanAssign, CanEscalate

LEMMA CreateKeepsTypes ==
    ASSUME ThreadTypeOK, NEW u \in Users, NEW v \in Users \cup {None}, Create(u, v)
    PROVE  ThreadTypeOK' /\ Exists'
  BY StatusNames DEF ThreadTypeOK, Create, Exists

-----------------------------------------------------------------------------
(* One person at a time.                                                   *)

(* An operation that adds participants adds newcomers.                     *)
LEMMA WriteKeepsPeople ==
    ASSUME ThreadInv, NEW d, Decision(d), Write(d)
    PROVE  PeopleAreOnce'
<1> DEFINE new == d.assignee
<1>1. /\ d \in Decisions /\ Exists
      /\ d.joins \subseteq Newcomers(d.joins)
      /\ new # None => people[new] = 1 \/ new \in d.joins
  <2>0. Exists /\ ThreadTypeOK /\ d \in Decisions
    BY DecisionType, DecisionNeedsRequest DEF ThreadInv
  <2>1. CASE ReplyDecision(d)
    BY <2>0, <2>1, ReplyFields DEF ReplyDecision, Newcomers
  <2>2. CASE StatusDecision(d)
    BY <2>0, <2>2, SettingFields DEF StatusDecision, Newcomers
  <2>3. CASE AssignDecision(d)
    <3>1. PICK u \in Users, v \in Users : CanAssign(u, v) /\ d = AssignmentBy(u, v)
      BY <2>3 DEF AssignDecision
    <3>2. d.assignee = v /\ d.joins = Newcomers({v})
      BY <2>0, <3>1, AssignmentFields
    <3>0. people[v] \in {0, 1}
      BY <2>0, <3>1 DEF CanAssign, Known, ThreadTypeOK
    <3>3. QED
      BY <2>0, <3>0, <3>2 DEF Newcomers
  <2>4. CASE EscalateDecision(d)
    <3>1. PICK u \in Users, p \in Users \cup {None} :
              CanEscalate(u, p) /\ d = EscalationBy(u, p)
      BY <2>4 DEF EscalateDecision
    <3>2. d.assignee = p /\ d.joins = Newcomers({p} \ {None})
      BY <2>0, <3>1, EscalationFields
    <3>3. p # None => people[p] \in {0, 1}
      BY <2>0, <3>1 DEF CanEscalate, Known, ThreadTypeOK
    <3>4. QED
      BY <2>0, <3>2, <3>3 DEF Newcomers
  <2>5. QED
    BY <2>0, <2>1, <2>2, <2>3, <2>4 DEF Decision
<1>2. \A u \in Users : people'[u] = IF u \in d.joins THEN people[u] + 1 ELSE people[u]
  BY DEF Write
<1>3. \A u \in Users : people[u] <= 1 /\ people[u] \in Nat
                       /\ (u \in d.joins => people[u] = 0)
  BY <1>1 DEF ThreadInv, ThreadTypeOK, PeopleAreOnce, Newcomers
<1>4. \A u \in Users : people'[u] <= 1 /\ (people[u] = 1 => people'[u] = 1)
                       /\ (u \in d.joins => people'[u] = 1)
  BY <1>2, <1>3
<1>5. request'.creator = request.creator
      /\ request'.assignee = IF new = None THEN request.assignee ELSE new
  BY DEF ThreadInv, ThreadTypeOK, Write
<1>6. /\ request.creator \in Users \cup {None} /\ request.assignee \in Users \cup {None}
      /\ new \in Users \cup {None}
      /\ \A u \in {request.creator, request.assignee} \ {None} : people[u] = 1
  BY <1>1 DEF ThreadInv, ThreadTypeOK, PeopleAreOnce, Decisions
<1> HIDE DEF new
<1>7. \A u \in {request'.creator, request'.assignee} \ {None} : people'[u] = 1
  BY <1>1, <1>4, <1>5, <1>6
<1>8. QED
  BY <1>4, <1>7 DEF PeopleAreOnce

(* Replies that leave the status alone are those that the status expects. *)
LEMMA WriteKeepsTurn ==
    ASSUME ThreadInv, NEW d, Decision(d), Write(d)
    PROVE  TurnIsTracked'
<1>0. /\ Exists /\ ThreadTypeOK /\ d \in Decisions /\ TurnIsTracked
      /\ messages \in Seq(SenderRoles) /\ asked \in Nat
      /\ request.status \in RequestStatus
  BY DecisionType, DecisionNeedsRequest DEF ThreadInv, ThreadTypeOK, Exists
<1>1. /\ request'.status = IF d.status = None THEN request.status ELSE d.status
      /\ messages' = IF d.says = None THEN messages ELSE Append(messages, d.says)
      /\ asked' = IF d.op = "status" THEN d.heard ELSE asked
  BY <1>0 DEF ThreadTypeOK, Write
<1>2. CASE ReplyDecision(d)
  <2>1. PICK u \in Users : CanReply(u) /\ d = ReplyBy(u)
    BY <1>2 DEF ReplyDecision
  <2>2. /\ d.op = "reply" /\ d.says = SenderRole(u) /\ d.says \in SenderRoles
        /\ d.status = IF Moves(u) THEN "IN_PROGRESS" ELSE None
    BY <1>0, <2>1, ReplyFields, RoleNames
  <2>3. messages' = Append(messages, d.says) /\ asked' = asked
    BY <1>1, <2>2, ThreadAssumption
  <2>4. CASE Moves(u)
    <3>1. request'.status = "IN_PROGRESS"
      BY <1>1, <2>2, <2>4, StatusNames, ThreadAssumption
    <3>2. QED
      BY <3>1 DEF TurnIsTracked
  <2>5. CASE ~Moves(u)
    <3>1. request'.status = request.status
      BY <1>1, <2>2, <2>5
    <3>2. /\ request.status = "OPEN" => d.says = "PARENT"
          /\ request.status = "WAITING_FOR_PARENT" => d.says # "PARENT"
      BY <2>2, <2>5 DEF Moves
    <3>3. /\ Len(messages') = Len(messages) + 1 /\ Len(messages) \in Nat
          /\ \A i \in 1..Len(messages) : messages'[i] = messages[i]
          /\ messages'[Len(messages) + 1] = d.says
      BY <1>0, <2>2, <2>3
    <3>4. QED
      BY <1>0, <2>3, <3>1, <3>2, <3>3 DEF TurnIsTracked
  <2>6. QED
    BY <2>4, <2>5
<1>3. CASE StatusDecision(d)
  <2>1. PICK u \in Users, status \in RequestStatus :
            CanSet(u, status) /\ d = SettingBy(u, status)
    BY <1>3 DEF StatusDecision
  <2>2. d.op = "status" /\ d.says = None /\ d.heard = Len(messages) /\ d.status = status
    BY <1>0, <2>1, SettingFields
  <2>3. messages' = messages /\ asked' = Len(messages) /\ request'.status = status
    BY <1>1, <2>2, ThreadAssumption
  <2>4. status = "OPEN" => request.status = "OPEN"
    BY <1>0, <2>1, StatusNames DEF CanSet
  <2>5. Len(messages) \in Nat
    BY <1>0
  <2>6. QED
    BY <1>0, <2>3, <2>4, <2>5 DEF TurnIsTracked
<1>4. CASE AssignDecision(d)
  <2>0. PICK u \in Users, v \in Users : CanAssign(u, v) /\ d = AssignmentBy(u, v)
    BY <1>4 DEF AssignDecision
  <2>1. d.op = "assign" /\ d.says = None /\ d.status = None
    BY <1>0, <2>0, AssignmentFields
  <2>2. messages' = messages /\ asked' = asked /\ request'.status = request.status
    BY <1>1, <2>1
  <2>3. QED
    BY <1>0, <2>2 DEF TurnIsTracked
<1>5. CASE EscalateDecision(d)
  <2>0. PICK u \in Users, p \in Users \cup {None} :
            CanEscalate(u, p) /\ d = EscalationBy(u, p)
    BY <1>5 DEF EscalateDecision
  <2>1. d.status = "ESCALATED"
    BY <1>0, <2>0, EscalationFields
  <2>2. request'.status = "ESCALATED"
    BY <1>1, <2>1, StatusNames, ThreadAssumption
  <2>3. QED
    BY <2>2 DEF TurnIsTracked
<1>6. QED
  BY <1>2, <1>3, <1>4, <1>5 DEF Decision

LEMMA ThreadInvInit == ThreadInit => ThreadInv
  BY DEF ThreadInit, ThreadInv, ThreadTypeOK, PeopleAreOnce, TurnIsTracked, Exists

LEMMA ThreadInvStep == ThreadInv /\ [ThreadNext]_threadVars => ThreadInv'
<1> SUFFICES ASSUME ThreadInv, [ThreadNext]_threadVars
             PROVE  ThreadInv'
  OBVIOUS
<1>1. CASE \E u \in Users, v \in Users \cup {None} : Create(u, v)
  <2>1. PICK u \in Users, v \in Users \cup {None} : Create(u, v)
    BY <1>1
  <2>2. ThreadTypeOK' /\ Exists'
    BY <2>1, CreateKeepsTypes DEF ThreadInv
  <2>3. /\ request' = [status |-> "OPEN", creator |-> u, assignee |-> v]
        /\ people' = [x \in Users |-> IF x \in {u, v} THEN 1 ELSE 0]
        /\ messages' = <<>>
    BY <2>1 DEF Create, ThreadInv
  <2>4. PeopleAreOnce'
    BY <2>3 DEF PeopleAreOnce
  <2>5. TurnIsTracked'
    BY <2>3 DEF TurnIsTracked
  <2>6. QED
    BY <2>2, <2>4, <2>5 DEF ThreadInv
<1>2. CASE Decide
  <2>1. PICK d : Decision(d) /\ Write(d)
    BY <1>2, DecideIsDecision
  <2>2. ThreadTypeOK' /\ Exists'
    BY <2>1, DecisionType, DecisionNeedsRequest, WriteKeepsTypes DEF ThreadInv
  <2>3. QED
    BY <2>1, <2>2, WriteKeepsPeople, WriteKeepsTurn DEF ThreadInv
<1>3. CASE UNCHANGED threadVars
  BY <1>3 DEF threadVars, ThreadInv, ThreadTypeOK, PeopleAreOnce, TurnIsTracked, Exists
<1>4. QED
  BY <1>1, <1>2, <1>3 DEF ThreadNext

-----------------------------------------------------------------------------
(* Overlapping calls.                                                      *)

LEMMA DecisionUnchanged ==
    ASSUME UNCHANGED threadVars, NEW d
    PROVE  Decision(d) <=> Decision(d)'
<1>1. request' = request /\ people' = people /\ messages' = messages
  BY DEF threadVars
<1>2. Exists' = Exists /\ (\A u : Known(u)' = Known(u) /\ Moves(u)' = Moves(u))
      /\ \A U : Newcomers(U)' = Newcomers(U)
  BY <1>1 DEF Exists, Known, Moves, Newcomers
<1>3. ReplyDecision(d) <=> ReplyDecision(d)'
  BY <1>1, <1>2 DEF ReplyDecision, CanReply, ReplyBy
<1>4. StatusDecision(d) <=> StatusDecision(d)'
  BY <1>1, <1>2 DEF StatusDecision, CanSet, SettingBy
<1>5. AssignDecision(d) <=> AssignDecision(d)'
  BY <1>1, <1>2 DEF AssignDecision, CanAssign, AssignmentBy
<1>6. EscalateDecision(d) <=> EscalateDecision(d)'
  BY <1>1, <1>2 DEF EscalateDecision, CanEscalate, EscalationBy
<1>7. QED
  BY <1>3, <1>4, <1>5, <1>6 DEF Decision

(* A call that has just read holds a decision of its user. *)
LEMMA BeginKeeps ==
    ASSUME CommInv, NEW h \in Handlers, NEW d, Decision(d), Begin(h, d)
    PROVE  CommInv' /\ UNCHANGED threadVars
<1>1. d \in Decisions /\ Exists
  BY DecisionType, DecisionNeedsRequest DEF CommInv
<1>2. /\ handlers' = [handlers EXCEPT ![h] = [seen |-> version, writes |-> d]]
      /\ version' = version /\ UNCHANGED threadVars
  BY DEF Begin, threadVars
<1>3. ThreadTypeOK' /\ Exists'
  BY <1>1, <1>2 DEF CommInv, ThreadTypeOK, threadVars, Exists
<1>4. handlers' \in [Handlers -> [seen: Nat, writes: Decisions]]
  BY <1>1, <1>2 DEF CommInv
<1>5. ASSUME NEW x \in Handlers
      PROVE  /\ handlers'[x].seen <= version'
             /\ Busy(x)' /\ Fresh(handlers[x])' =>
                    \E e \in Decisions : Decision(e)' /\ handlers'[x].writes = e
  <2>1. CASE x = h
    <3>1. handlers'[x] = [seen |-> version, writes |-> d]
      BY <1>2, <2>1 DEF CommInv
    <3>2. Decision(d)'
      BY <1>2, DecisionUnchanged
    <3>3. QED
      BY <1>1, <1>2, <3>1, <3>2 DEF CommInv
  <2>2. CASE x # h
    <3>1. handlers'[x] = handlers[x]
      BY <1>2, <2>2 DEF CommInv
    <3>2. \A e \in Decisions : Decision(e) => Decision(e)'
      BY <1>2, DecisionUnchanged
    <3>3. QED
      BY <1>2, <3>1, <3>2 DEF CommInv, Busy, Fresh
  <2>3. QED
    BY <2>1, <2>2
<1>6. QED
  BY <1>2, <1>3, <1>4, <1>5 DEF CommInv

(* A call that ends without a commit leaves nothing. *)
LEMMA EndKeeps ==
    ASSUME CommInv, NEW h \in Handlers, Reject(h) \/ Break(h)
    PROVE  CommInv' /\ UNCHANGED threadVars
<1>1. /\ handlers' = [handlers EXCEPT ![h] = Idle]
      /\ version' = version /\ UNCHANGED threadVars
  BY DEF Reject, Break, threadVars
<1>2. ThreadTypeOK' /\ Exists' = Exists
  BY <1>1 DEF CommInv, ThreadTypeOK, threadVars, Exists
<1>3. /\ Idle.seen = 0 /\ Idle \in [seen: Nat, writes: Decisions]
      /\ handlers' \in [Handlers -> [seen: Nat, writes: Decisions]]
  BY <1>1, NothingIsADecision DEF CommInv, Idle
<1>4. ASSUME NEW x \in Handlers
      PROVE  /\ handlers'[x].seen <= version'
             /\ Busy(x)' => Exists'
             /\ Busy(x)' /\ Fresh(handlers[x])' =>
                    \E e \in Decisions : Decision(e)' /\ handlers'[x].writes = e
  <2>1. CASE x = h
    <3>1. handlers'[x] = Idle
      BY <1>1, <2>1 DEF CommInv
    <3>2. QED
      BY <1>1, <1>3, <3>1 DEF CommInv, Busy
  <2>2. CASE x # h
    <3>1. handlers'[x] = handlers[x]
      BY <1>1, <2>2 DEF CommInv
    <3>2. \A e \in Decisions : Decision(e) => Decision(e)'
      BY <1>1, DecisionUnchanged
    <3>3. QED
      BY <1>1, <1>2, <3>1, <3>2 DEF CommInv, Busy, Fresh
  <2>3. QED
    BY <2>1, <2>2
<1>5. QED
  BY <1>1, <1>2, <1>3, <1>4 DEF CommInv

(* Whoever moves the version leaves nobody with the current one. *)
LEMMA MovedKeeps ==
    ASSUME CommInv, ThreadTypeOK', Exists', version' = version + 1,
           handlers' \in [Handlers -> [seen: Nat, writes: Decisions]],
           \A x \in Handlers : handlers'[x] \in {handlers[x], Idle}
    PROVE  CommInv'
<1>1. ASSUME NEW x \in Handlers
      PROVE  handlers'[x].seen <= version /\ handlers'[x].seen # version'
  BY <1>1 DEF CommInv, Idle
<1>2. \A x \in Handlers : handlers'[x].seen <= version' /\ ~Fresh(handlers[x])'
  BY <1>1 DEF CommInv, Fresh
<1>3. version' \in Nat
  BY DEF CommInv
<1>4. QED
  BY <1>2, <1>3 DEF CommInv

LEMMA OpenKeeps ==
    ASSUME CommInv, NEW u \in Users, NEW v \in Users \cup {None}, Open(u, v)
    PROVE  CommInv' /\ Create(u, v)
<1>1. Create(u, v) /\ version = 0 /\ version' = version + 1 /\ handlers' = handlers
  BY DEF Open, Create, CommInv
<1>2. ThreadTypeOK' /\ Exists'
  BY <1>1, CreateKeepsTypes DEF CommInv
<1>3. QED
  BY <1>1, <1>2, MovedKeeps DEF CommInv

(* A commit is a decision that could be taken at that moment. *)
LEMMA CommitKeeps ==
    ASSUME CommInv, NEW h \in Handlers, Commit(h)
    PROVE  CommInv' /\ Decide
<1>1. PICK d \in Decisions : Decision(d) /\ handlers[h].writes = d
  BY DEF CommInv, Commit
<1>2. /\ Write(d) /\ version' = version + 1
      /\ handlers' = [handlers EXCEPT ![h] = Idle]
  BY <1>1 DEF Commit
<1>3. ThreadTypeOK' /\ Exists'
  BY <1>1, <1>2, DecisionNeedsRequest, WriteKeepsTypes DEF CommInv
<1>4. Idle \in [seen: Nat, writes: Decisions]
  BY NothingIsADecision DEF Idle
<1>5. /\ handlers' \in [Handlers -> [seen: Nat, writes: Decisions]]
      /\ \A x \in Handlers : handlers'[x] \in {handlers[x], Idle}
  BY <1>2, <1>4 DEF CommInv
<1>6. CommInv'
  BY <1>2, <1>3, <1>5, MovedKeeps
<1>7. QED
  BY <1>1, <1>2, <1>6, DecideIsDecision

LEMMA CommInvInit == CommInit => CommInv
<1> SUFFICES ASSUME CommInit PROVE CommInv
  OBVIOUS
<1>1. ThreadTypeOK
  BY DEF CommInit, ThreadInit, ThreadTypeOK
<1>2. Idle \in [seen: Nat, writes: Decisions] /\ Idle.seen = 0
  BY NothingIsADecision DEF Idle
<1>3. version = 0 /\ handlers = [h \in Handlers |-> Idle]
  BY DEF CommInit
<1>4. QED
  BY <1>1, <1>2, <1>3 DEF CommInv, Busy

LEMMA CommStep ==
    ASSUME CommInv, [CommNext]_commVars
    PROVE  CommInv' /\ [ThreadNext]_threadVars
<1>1. CASE \E u \in Users, v \in Users \cup {None} : Open(u, v)
  BY <1>1, OpenKeeps DEF ThreadNext
<1>2. CASE \E h \in Handlers, u \in Users : StartReply(h, u)
  <2>1. PICK h \in Handlers, u \in Users : StartReply(h, u)
    BY <1>2
  <2>2. Decision(ReplyBy(u)) /\ Begin(h, ReplyBy(u))
    BY <2>1 DEF StartReply, Decision, ReplyDecision
  <2>3. QED
    BY <2>2, BeginKeeps
<1>3. CASE \E h \in Handlers, u \in Users, status \in RequestStatus :
              StartStatus(h, u, status)
  <2>1. PICK h \in Handlers, u \in Users, status \in RequestStatus :
            StartStatus(h, u, status)
    BY <1>3
  <2>2. Decision(SettingBy(u, status)) /\ Begin(h, SettingBy(u, status))
    BY <2>1 DEF StartStatus, Decision, StatusDecision
  <2>3. QED
    BY <2>2, BeginKeeps
<1>4. CASE \E h \in Handlers, u \in Users, v \in Users : StartAssign(h, u, v)
  <2>1. PICK h \in Handlers, u \in Users, v \in Users : StartAssign(h, u, v)
    BY <1>4
  <2>2. Decision(AssignmentBy(u, v)) /\ Begin(h, AssignmentBy(u, v))
    BY <2>1 DEF StartAssign, Decision, AssignDecision
  <2>3. QED
    BY <2>2, BeginKeeps
<1>5. CASE \E h \in Handlers, u \in Users, p \in Users \cup {None} :
              StartEscalate(h, u, p)
  <2>1. PICK h \in Handlers, u \in Users, p \in Users \cup {None} :
            StartEscalate(h, u, p)
    BY <1>5
  <2>2. Decision(EscalationBy(u, p)) /\ Begin(h, EscalationBy(u, p))
    BY <2>1 DEF StartEscalate, Decision, EscalateDecision
  <2>3. QED
    BY <2>2, BeginKeeps
<1>6. CASE \E h \in Handlers : Commit(h)
  BY <1>6, CommitKeeps DEF ThreadNext
<1>7. CASE \E h \in Handlers : Reject(h) \/ Break(h)
  BY <1>7, EndKeeps
<1>8. CASE UNCHANGED commVars
  <2>1. UNCHANGED threadVars /\ version' = version /\ handlers' = handlers
    BY <1>8 DEF commVars, threadVars
  <2>2. \A d \in Decisions : Decision(d) => Decision(d)'
    BY <2>1, DecisionUnchanged
  <2>3. CommInv'
    BY <2>1, <2>2 DEF CommInv, ThreadTypeOK, threadVars, Exists, Busy, Fresh
  <2>4. QED
    BY <2>1, <2>3
<1>9. QED
  BY <1>1, <1>2, <1>3, <1>4, <1>5, <1>6, <1>7, <1>8, Zenon DEF CommNext

-----------------------------------------------------------------------------
(* A request, worked on by one person at a time, keeps its types. *)
THEOREM ThreadIsTyped == ThreadSpec => []ThreadTypeOK
<1>1. ThreadInv => ThreadTypeOK
  BY DEF ThreadInv
<1>2. QED
  BY <1>1, ThreadInvInit, ThreadInvStep, PTL DEF ThreadSpec

(* The invariants of a request that is worked on by one person at a time. *)
THEOREM ThreadIsSafe == ThreadSpec => [](PeopleAreOnce /\ TurnIsTracked)
<1>1. ThreadInv => PeopleAreOnce /\ TurnIsTracked
  BY DEF ThreadInv
<1>2. QED
  BY <1>1, ThreadInvInit, ThreadInvStep, PTL DEF ThreadSpec

(* Overlapping calls commit what calls would have done one at a time. *)
THEOREM CommunicationImplementsThread == CommSpec => ImplementsThread
<1>1. CommInit => ThreadInit
  BY DEF CommInit
<1>2. CommInv /\ [CommNext]_commVars => CommInv' /\ [ThreadNext]_threadVars
  BY CommStep
<1>3. QED
  BY <1>1, <1>2, CommInvInit, PTL DEF CommSpec, ThreadSpec, ImplementsThread

(* So nobody takes part in a request twice, however the calls overlap. *)
THEOREM PeopleStayOnce == CommSpec => []PeopleAreOnce
<1>1. CommSpec => ThreadSpec
  BY CommunicationImplementsThread DEF ImplementsThread
<1>2. QED
  BY <1>1, ThreadIsSafe, PTL

(* And its status tells whose turn it is. *)
THEOREM TurnStaysTracked == CommSpec => []TurnIsTracked
<1>1. CommSpec => ThreadSpec
  BY CommunicationImplementsThread DEF ImplementsThread
<1>2. QED
  BY <1>1, ThreadIsSafe, PTL
=============================================================================
