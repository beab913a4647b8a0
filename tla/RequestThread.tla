--------------------------- MODULE RequestThread ---------------------------
(***************************************************************************)
(* One communication request between a family and the school, as its users *)
(* may understand it: replies, status changes, assignments and escalations *)
(* that happen one at a time (services/communication.py).  Communication   *)
(* overlaps them, and implements this module.                              *)
(*                                                                         *)
(* Which families and teachers are responsible for the student is left     *)
(* out: Users are those who are.                                           *)
(***************************************************************************)
EXTENDS Integers, Sequences

CONSTANTS
    Users,
    RolesOf,    \* the roles of each; "PRINCIPAL" stands for all administrators
    None

VARIABLES
    request,    \* its row: status, creator and assignee
    people,     \* the number of rows that make each user a participant
    messages,   \* the replies, each by the role of its sender
    asked       \* what had been said when somebody last set the status

threadVars == <<request, people, messages, asked>>

(* The state machine of update_status; the same status may be set again.   *)
Successors ==
    [OPEN               |-> {"ACKNOWLEDGED", "IN_PROGRESS", "RESOLVED"},
     ACKNOWLEDGED       |-> {"IN_PROGRESS", "RESOLVED"},
     IN_PROGRESS        |-> {"WAITING_FOR_PARENT", "RESOLVED", "ESCALATED"},
     WAITING_FOR_PARENT |-> {"IN_PROGRESS", "RESOLVED"},
     ESCALATED          |-> {"PRINCIPAL_REVIEW", "RESOLVED"},
     PRINCIPAL_REVIEW   |-> {"IN_PROGRESS", "RESOLVED"},
     RESOLVED           |-> {"REOPENED"},
     REOPENED           |-> {"IN_PROGRESS", "RESOLVED"}]

RequestStatus == DOMAIN Successors
SenderRoles == {"PARENT", "TEACHER", "STAFF"}

ASSUME ThreadAssumption ==
    /\ RolesOf \in [Users -> SUBSET {"PARENT", "TEACHER", "PRINCIPAL"}]
    /\ None \notin Users \cup RequestStatus \cup SenderRoles

Admin(u) == "PRINCIPAL" \in RolesOf[u]
Staff(u) == RolesOf[u] \cap {"PRINCIPAL", "TEACHER"} # {}
SenderRole(u) == IF "PARENT" \in RolesOf[u] THEN "PARENT"
                 ELSE IF "TEACHER" \in RolesOf[u] THEN "TEACHER" ELSE "STAFF"

ThreadInit ==
    /\ request = [status |-> "NONE", creator |-> None, assignee |-> None]
    /\ people = [u \in Users |-> 0]
    /\ messages = <<>>
    /\ asked = 0

Exists == request.status # "NONE"

(* Who is not a participant yet; the lookup fails on a user who is twice.  *)
Newcomers(U) == {u \in U : people[u] = 0}
Known(u) == people[u] <= 1

(* What an operation writes; None leaves an attribute as it is. *)
Nothing == [op |-> "none", status |-> None, assignee |-> None,
            joins |-> {}, says |-> None, heard |-> 0]

-----------------------------------------------------------------------------
(* The operations: who may, and what each decides on what it reads.        *)

(* reply_to_request.  An administrator who is no participant becomes one.  *)
CanReply(u) ==
    /\ Exists /\ Known(u)
    /\ people[u] = 1 \/ Admin(u)

(* An answer of the parent who is waited for, or the first of the school,  *)
(* takes the request into progress.                                        *)
Moves(u) ==
    \/ SenderRole(u) = "PARENT" /\ request.status = "WAITING_FOR_PARENT"
    \/ SenderRole(u) # "PARENT" /\ request.status = "OPEN"

ReplyBy(u) ==
    [Nothing EXCEPT !.op = "reply", !.says = SenderRole(u),
                    !.joins = Newcomers({u}), !.heard = Len(messages),
                    !.status = IF Moves(u) THEN "IN_PROGRESS" ELSE None]

(* update_status, also of the resolve and reopen endpoints: any teacher or *)
(* administrator, and the creator to resolve the request.                  *)
CanSet(u, status) ==
    /\ Exists
    /\ Staff(u) \/ (request.creator = u /\ status = "RESOLVED")
    /\ status \in {request.status} \cup Successors[request.status]

SettingBy(u, status) ==
    [Nothing EXCEPT !.op = "status", !.status = status,
                    !.heard = Len(messages)]

(* assign_request: an administrator, or the assignee, names another. *)
CanAssign(u, v) ==
    /\ Exists /\ Known(v)
    /\ Admin(u) \/ request.assignee = u

AssignmentBy(u, v) ==
    [Nothing EXCEPT !.op = "assign", !.assignee = v,
                    !.joins = Newcomers({v}), !.heard = Len(messages)]

(* escalate_request: a teacher who takes part hands a request in progress  *)
(* to a principal, if the school has one (p = None: it has not).           *)
CanEscalate(u, p) ==
    /\ Exists /\ people[u] = 1 /\ "TEACHER" \in RolesOf[u]
    /\ request.status = "IN_PROGRESS"
    /\ p # None => Admin(p) /\ Known(p)

EscalationBy(u, p) ==
    [Nothing EXCEPT !.op = "escalate", !.status = "ESCALATED",
                    !.assignee = p, !.joins = Newcomers({p} \ {None}),
                    !.heard = Len(messages)]

-----------------------------------------------------------------------------
Write(d) ==
    /\ request' = [request EXCEPT
                     !.status = IF d.status = None THEN @ ELSE d.status,
                     !.assignee = IF d.assignee = None THEN @ ELSE d.assignee]
    /\ people' = [u \in Users |-> IF u \in d.joins THEN people[u] + 1 ELSE people[u]]
    /\ messages' = IF d.says = None THEN messages ELSE Append(messages, d.says)
    /\ asked' = IF d.op = "status" THEN d.heard ELSE asked

(* create_request: its creator and the user it is addressed to, if there   *)
(* is one, take part.                                                      *)
Create(u, v) ==
    /\ ~Exists
    /\ request' = [status |-> "OPEN", creator |-> u, assignee |-> v]
    /\ people' = [x \in Users |-> IF x \in {u, v} THEN 1 ELSE 0]
    /\ UNCHANGED <<messages, asked>>

Decide ==
    \E u \in Users :
        \/ CanReply(u) /\ Write(ReplyBy(u))
        \/ \E status \in RequestStatus : CanSet(u, status) /\ Write(SettingBy(u, status))
        \/ \E v \in Users : CanAssign(u, v) /\ Write(AssignmentBy(u, v))
        \/ \E p \in Users \cup {None} : CanEscalate(u, p) /\ Write(EscalationBy(u, p))

ThreadNext ==
    \/ \E u \in Users, v \in Users \cup {None} : Create(u, v)
    \/ Decide

ThreadSpec == ThreadInit /\ [][ThreadNext]_threadVars

-----------------------------------------------------------------------------
ThreadTypeOK ==
    /\ request \in [status: RequestStatus \cup {"NONE"},
                    creator: Users \cup {None}, assignee: Users \cup {None}]
    /\ people \in [Users -> Nat]
    /\ messages \in Seq(SenderRoles)
    /\ asked \in Nat

(* Nobody is a participant of a request twice, although no unique key says *)
(* so: get_participant (repositories/communication.py) would refuse every  *)
(* later call of that user with a server error.  And whoever a request is  *)
(* assigned to can see it: the assignee and the creator are participants.  *)
PeopleAreOnce ==
    /\ \A u \in Users : people[u] <= 1
    /\ Exists => \A u \in {request.creator, request.assignee} \ {None} : people[u] = 1

(* The status tells whose turn it is.  An open request has no answer of    *)
(* the school.  A request that waits for the parent has no reply of the    *)
(* parent that was not there when the status was set: reply_to_request     *)
(* would have taken it back into progress, whenever it ran.                *)
TurnIsTracked ==
    /\ request.status = "OPEN" =>
           \A i \in 1..Len(messages) : messages[i] = "PARENT"
    /\ request.status = "WAITING_FOR_PARENT" =>
           \A i \in asked + 1 .. Len(messages) : messages[i] # "PARENT"
=============================================================================
