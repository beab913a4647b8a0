--------------------------- MODULE Communication ---------------------------
(***************************************************************************)
(* Communication requests (services/communication.py): overlapping calls   *)
(* that decide on what they have read of a request, its participants and   *)
(* its thread, and commit later.                                           *)
(*                                                                         *)
(* Participants and messages have neither a version nor a unique key.      *)
(* Every operation also writes the row of the request, if only updated_at, *)
(* and that row has a version: it is what keeps them apart.                *)
(***************************************************************************)
EXTENDS RequestThread

CONSTANTS
    Handlers,       \* requests to the server that run at the same time
    MaxVersion      \* bound: commits to the request

ASSUME CommunicationAssumption == MaxVersion \in Nat

VARIABLES
    version,        \* version_id_col of the row of the request
    handlers        \* what each handler is about to commit: `seen`, the
                    \* version it read, and `writes`, what it decided

commVars == <<request, people, messages, asked, version, handlers>>

Idle == [seen |-> 0, writes |-> Nothing]
Busy(h) == handlers[h] # Idle

CommInit ==
    /\ ThreadInit
    /\ version = 0
    /\ handlers = [h \in Handlers |-> Idle]

(* A request is created in one transaction that nobody else can see. *)
Open(u, v) ==
    /\ Create(u, v)
    /\ version' = 1
    /\ UNCHANGED handlers

(* The handler that starts is idle (CommNext). *)
Begin(h, decision) ==
    /\ version < MaxVersion
    /\ handlers' = [handlers EXCEPT ![h] = [seen |-> version, writes |-> decision]]
    /\ UNCHANGED <<request, people, messages, asked, version>>

StartReply(h, u) == CanReply(u) /\ Begin(h, ReplyBy(u))
StartStatus(h, u, status) == CanSet(u, status) /\ Begin(h, SettingBy(u, status))
StartAssign(h, u, v) == CanAssign(u, v) /\ Begin(h, AssignmentBy(u, v))
StartEscalate(h, u, p) == CanEscalate(u, p) /\ Begin(h, EscalationBy(u, p))

(* Slip: a reply that leaves the status alone does not touch the request. *)
FreshIfMoved(s) == version = s.seen \/ (s.writes.op = "reply" /\ s.writes.status = None)

(* Slip: the request has no version. *)
AnyVersion(s) == TRUE

Fresh(s) == version = s.seen

Commit(h) ==
    /\ Busy(h) /\ Fresh(handlers[h])
    /\ Write(handlers[h].writes)
    /\ version' = version + 1
    /\ handlers' = [handlers EXCEPT ![h] = Idle]

(* StaleDataError, which nobody catches: the transaction is rolled back.   *)
Reject(h) ==
    /\ Busy(h) /\ ~Fresh(handlers[h])
    /\ handlers' = [handlers EXCEPT ![h] = Idle]
    /\ UNCHANGED <<request, people, messages, asked, version>>

(* A database error, or the end of the process. *)
Break(h) ==
    /\ Busy(h)
    /\ handlers' = [handlers EXCEPT ![h] = Idle]
    /\ UNCHANGED <<request, people, messages, asked, version>>

CommNext ==
    \/ \E u \in Users, v \in Users \cup {None} : Open(u, v)
    \/ \E h \in {x \in Handlers : ~Busy(x)}, u \in Users :
        \/ StartReply(h, u)
        \/ \E status \in RequestStatus : StartStatus(h, u, status)
        \/ \E v \in Users : StartAssign(h, u, v)
        \/ \E p \in Users \cup {None} : StartEscalate(h, u, p)
    \/ \E h \in Handlers : Commit(h) \/ Reject(h) \/ Break(h)

CommSpec == CommInit /\ [][CommNext]_commVars

-----------------------------------------------------------------------------
(* However its calls overlap, a request is one that was worked on by one   *)
(* person at a time: what a call commits is what it would have decided on  *)
(* the status, the assignee, the participants and the thread it meets.     *)
ImplementsThread == ThreadSpec
=============================================================================
