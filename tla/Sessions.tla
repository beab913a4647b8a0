------------------------------ MODULE Sessions ------------------------------
(***************************************************************************)
(* The account of one user and the refresh tokens of their devices:        *)
(* services/auth.py and RefreshTokenRepository, and who else writes the    *)
(* status of the account: services/identity_provisioning.py, teacher.py    *)
(* and guardian.py.                                                        *)
(*                                                                         *)
(* Users and tokens have version columns: a commit fails when a row that   *)
(* it updates has another version than the request has read.  The bulk     *)
(* update that revokes all tokens of a user takes no notice of versions,   *)
(* and may leave them as they are.                                         *)
(*                                                                         *)
(* Left out: the search for the user, rate limits, which are kept in the   *)
(* memory of one process, what a token contains, and the deletion of a     *)
(* school, after which no query finds its users.                           *)
(***************************************************************************)
EXTENDS Naturals

CONSTANTS
    Handlers,       \* requests that run at the same time
    MaxAttempts,    \* failed logins that lock the account, 5 in the code
    MaxTokens,      \* bound: tokens issued
    MaxVersion      \* bound: updates of the user

ASSUME SessionAssumption ==
    MaxAttempts \in Nat \ {0} /\ MaxTokens \in Nat /\ MaxVersion \in Nat

VARIABLES
    user,       \* the row of the user
    tokens,     \* the refresh tokens
    handlers,   \* what each running request holds
    answered,   \* failed logins answered since the counter was last cleared
    imposed     \* an administrator set the status since a login decided it

sesVars == <<user, tokens, handlers, answered, imposed>>

Tokens == 1..MaxTokens
NoToken == [state |-> "none", version |-> 0, parent |-> 0]

Statuses == {"ACTIVE", "INACTIVE", "LOCKED"}   \* SUSPENDED is as INACTIVE

(* wrong: whether the password was; fails: the counter that the commit     *)
(* will write; parent: the token that the next one replaces; status: what  *)
(* an administrator sets.                                                  *)
Idle == [op |-> "idle", version |-> 0, wrong |-> FALSE, fails |-> 0,
         status |-> "ACTIVE", token |-> 0, tokenVersion |-> 0, parent |-> 0]

SesInit ==
    /\ user = [status |-> "ACTIVE", fails |-> 0, lock |-> "none", reset |-> "none",
               version |-> 0]
    /\ tokens = [t \in Tokens |-> NoToken]
    /\ handlers = [h \in Handlers |-> Idle]
    /\ answered = 0 /\ imposed = FALSE

-----------------------------------------------------------------------------
(* Requests.                                                               *)

Begin(h, request) ==
    /\ handlers[h].op = "idle"
    /\ handlers' = [handlers EXCEPT ![h] = request]
    /\ UNCHANGED <<user, tokens, answered, imposed>>
WithUser(op) == [Idle EXCEPT !.op = op, !.version = user.version, !.fails = user.fails]
WithToken(op, t) == [Idle EXCEPT !.op = op, !.token = t,
                                 !.tokenVersion = tokens[t].version]

(* Slip: the user has no version column. *)
NoVersions(h) == user.version < MaxVersion

(* The bound keeps updates of the user finite. *)
Current(h) == user.version = handlers[h].version /\ user.version < MaxVersion

Leave(h) == handlers' = [handlers EXCEPT ![h] = Idle]
Stale(h) ==
    /\ handlers[h].op \in {"login", "password", "reset", "mailed", "confirm",
                           "unlock", "temporary", "status"}
    /\ ~Current(h)
    /\ Leave(h)
    /\ UNCHANGED <<user, tokens, answered, imposed>>

-----------------------------------------------------------------------------
(* Logging in: authenticate and authenticate_platform, create_tokens.      *)

LockIsOver == user.status = "LOCKED" /\ user.lock = "over"
StartLogin(h, wrong) ==
    /\ user.status = "ACTIVE" \/ LockIsOver
    /\ Begin(h, [WithUser("login") EXCEPT !.wrong = wrong,
                                          !.fails = IF LockIsOver THEN 0 ELSE @])

(* What changed since it was read is written: a request that found the     *)
(* account active leaves its status alone.                                 *)
WrongPassword(h) ==
    /\ handlers[h].op = "login" /\ handlers[h].wrong /\ Current(h)
    /\ LET fails  == handlers[h].fails + 1
           locked == fails >= MaxAttempts
       IN  /\ user' = [user EXCEPT !.fails = fails, !.version = @ + 1,
                         !.status = IF locked THEN "LOCKED"
                                    ELSE IF LockIsOver THEN "ACTIVE" ELSE @,
                         !.lock = IF locked THEN "on" ELSE IF LockIsOver THEN "none" ELSE @]
           /\ answered' = (IF LockIsOver THEN 0 ELSE answered) + 1
           /\ imposed' = FALSE
    /\ Leave(h)
    /\ UNCHANGED tokens

RightPassword(h) ==
    /\ handlers[h].op = "login" /\ ~handlers[h].wrong /\ Current(h)
    /\ user' = [user EXCEPT !.fails = 0, !.lock = "none", !.version = @ + 1,
                            !.status = IF LockIsOver THEN "ACTIVE" ELSE @]
    /\ answered' = 0 /\ imposed' = FALSE
    /\ handlers' = [handlers EXCEPT ![h] = [Idle EXCEPT !.op = "issue"]]
    /\ UNCHANGED tokens

IssueToken(h) ==
    /\ handlers[h].op = "issue"
    /\ \E t \in Tokens :
           /\ tokens[t] = NoToken /\ \A u \in 1..(t - 1) : tokens[u] # NoToken
           /\ tokens' = [tokens EXCEPT ![t] = [state |-> "live", version |-> 0,
                                               parent |-> handlers[h].parent]]
    /\ Leave(h)
    /\ UNCHANGED <<user, answered, imposed>>

LockTimePasses ==
    /\ user.lock = "on"
    /\ user' = [user EXCEPT !.lock = "over"]
    /\ UNCHANGED <<tokens, handlers, answered, imposed>>

(* unlock_account of a locked account, unlock_user of any, and the         *)
(* bootstrap of the super administrator with a new password.               *)
StartUnlock(h) == Begin(h, WithUser("unlock"))
CommitUnlock(h) ==
    /\ handlers[h].op = "unlock" /\ Current(h)
    /\ user' = [user EXCEPT !.status = "ACTIVE", !.fails = 0, !.lock = "none",
                            !.version = @ + 1]
    /\ answered' = 0 /\ imposed' = FALSE
    /\ Leave(h)
    /\ UNCHANGED tokens

(* A new password clears the counter and opens an account that is locked,  *)
(* not one that is inactive.                                               *)
Reopened(reset) ==
    LET locked == user.status = "LOCKED"
    IN  [user EXCEPT !.reset = reset, !.fails = 0, !.version = @ + 1,
                     !.status = IF locked THEN "ACTIVE" ELSE @,
                     !.lock = IF locked THEN "none" ELSE @]

(* reset_password of the identity service: a temporary password. *)
StartTemporary(h) == Begin(h, WithUser("temporary"))
TemporaryPassword(h) ==
    /\ handlers[h].op = "temporary" /\ Current(h)
    /\ user' = Reopened(user.reset)
    /\ answered' = 0 /\ imposed' = FALSE
    /\ Leave(h)
    /\ UNCHANGED tokens

(* Requests that set the status and nothing else of what a login reads:    *)
(* activate_user, provision_principal, bootstrap_super_admin, the return   *)
(* of a teacher or guardian: ACTIVE; deactivate_user, and their departure: *)
(* INACTIVE; update_user: any.                                             *)
StartStatus(h, status) == Begin(h, [WithUser("status") EXCEPT !.status = status])
SetStatus(h) ==
    /\ handlers[h].op = "status" /\ Current(h)
    /\ user' = [user EXCEPT !.status = handlers[h].status, !.version = @ + 1]
    /\ imposed' = TRUE
    /\ Leave(h)
    /\ UNCHANGED <<tokens, answered>>

-----------------------------------------------------------------------------
(* Refresh tokens: refresh_token_rotation, logout.                         *)

(* A token that was rotated or revoked before revokes all. *)
StartRotate(h, t) ==
    \/ /\ tokens[t].state = "live" /\ user.status = "ACTIVE"
       /\ Begin(h, WithToken("rotate", t))
    \/ /\ tokens[t].state = "revoked"
       /\ Begin(h, [Idle EXCEPT !.op = "reused"])
StartLogout(h, t) ==
    tokens[t].state \in {"live", "expired"} /\ Begin(h, WithToken("logout", t))

(* Slip: tokens have no version column. *)
RevokeBlindly(h) ==
    tokens' = [tokens EXCEPT ![handlers[h].token].state = "revoked"]

Revoke(h) ==
    LET t == handlers[h].token
    IN  /\ tokens[t].version = handlers[h].tokenVersion
        /\ tokens' = [tokens EXCEPT ![t].state = "revoked", ![t].version = @ + 1]

(* The token is revoked in one transaction, replaced in the next. *)
RotateToken(h) ==
    /\ handlers[h].op = "rotate"
    /\ Revoke(h)
    /\ handlers' = [handlers EXCEPT ![h] = [Idle EXCEPT !.op = "issue",
                                              !.parent = handlers[h].token]]
    /\ UNCHANGED <<user, answered, imposed>>
Logout(h) ==
    /\ handlers[h].op = "logout"
    /\ Revoke(h)
    /\ Leave(h)
    /\ UNCHANGED <<user, answered, imposed>>
StaleToken(h) ==
    /\ handlers[h].op \in {"rotate", "logout"}
    /\ tokens[handlers[h].token].version # handlers[h].tokenVersion
    /\ Leave(h)
    /\ UNCHANGED <<user, tokens, answered, imposed>>

(* revoke_all_for_user *)
RevokeAll ==
    \E count \in {0, 1} :
        tokens' = [t \in Tokens |-> IF tokens[t].state \in {"live", "expired"}
                                    THEN [tokens[t] EXCEPT !.state = "revoked",
                                                           !.version = @ + count]
                                    ELSE tokens[t]]
ReuseDetected(h) ==
    /\ handlers[h].op = "reused"
    /\ RevokeAll
    /\ Leave(h)
    /\ UNCHANGED <<user, answered, imposed>>

TokenExpires(t) ==
    /\ tokens[t].state = "live"
    /\ tokens' = [tokens EXCEPT ![t].state = "expired"]
    /\ UNCHANGED <<user, handlers, answered, imposed>>

-----------------------------------------------------------------------------
(* Passwords.                                                              *)

StartChange(h) == Begin(h, WithUser("password"))
ChangePassword(h) ==
    /\ handlers[h].op = "password" /\ Current(h)
    /\ user' = [user EXCEPT !.version = @ + 1]
    /\ Leave(h)
    /\ UNCHANGED <<tokens, answered, imposed>>

(* request_password_reset: if the mail cannot be sent, the request takes   *)
(* back what it has stored.                                                *)
StartReset(h) ==
    user.status \in {"ACTIVE", "LOCKED"} /\ Begin(h, WithUser("reset"))
StoreReset(h) ==
    /\ handlers[h].op = "reset" /\ Current(h)
    /\ user' = [user EXCEPT !.reset = "stored", !.version = @ + 1]
    /\ handlers' = [handlers EXCEPT ![h] = [Idle EXCEPT !.op = "mailed",
                                              !.version = user.version + 1]]
    /\ UNCHANGED <<tokens, answered, imposed>>
MailSent(h) ==
    /\ handlers[h].op = "mailed"
    /\ Leave(h)
    /\ UNCHANGED <<user, tokens, answered, imposed>>
MailFailed(h) ==
    /\ handlers[h].op = "mailed" /\ Current(h)
    /\ user' = [user EXCEPT !.reset = "none", !.version = @ + 1]
    /\ Leave(h)
    /\ UNCHANGED <<tokens, answered, imposed>>
ResetExpires ==
    /\ user.reset = "stored"
    /\ user' = [user EXCEPT !.reset = "none"]
    /\ UNCHANGED <<tokens, handlers, answered, imposed>>

(* confirm_password_reset: the commit that revokes the tokens takes the    *)
(* changes of the user along.                                              *)
StartConfirm(h) == user.reset = "stored" /\ Begin(h, WithUser("confirm"))
ConfirmReset(h) ==
    /\ handlers[h].op = "confirm" /\ Current(h)
    /\ user' = Reopened("none")
    /\ answered' = 0 /\ imposed' = FALSE
    /\ RevokeAll
    /\ Leave(h)

-----------------------------------------------------------------------------
SesNext ==
    \/ \E h \in Handlers :
          \/ \E wrong \in BOOLEAN : StartLogin(h, wrong)
          \/ WrongPassword(h) \/ RightPassword(h) \/ IssueToken(h)
          \/ StartUnlock(h) \/ CommitUnlock(h)
          \/ StartTemporary(h) \/ TemporaryPassword(h)
          \/ \E status \in Statuses : StartStatus(h, status)
          \/ SetStatus(h)
          \/ \E t \in Tokens : StartRotate(h, t) \/ StartLogout(h, t)
          \/ RotateToken(h) \/ Logout(h) \/ StaleToken(h) \/ ReuseDetected(h)
          \/ StartChange(h) \/ ChangePassword(h)
          \/ StartReset(h) \/ StoreReset(h) \/ MailSent(h) \/ MailFailed(h)
          \/ StartConfirm(h) \/ ConfirmReset(h)
          \/ Stale(h)
    \/ LockTimePasses \/ ResetExpires
    \/ \E t \in Tokens : TokenExpires(t)

SesSpec == SesInit /\ [][SesNext]_sesVars

-----------------------------------------------------------------------------
(* Correctness.                                                            *)

(* refresh_token_rotation: of several requests that present a token at     *)
(* once one obtains its successor; no token has two.                       *)
OneSuccessor ==
    \A t, u \in Tokens :
        t # u /\ tokens[t] # NoToken /\ tokens[u] # NoToken
        => tokens[t].parent # tokens[u].parent \/ tokens[t].parent = 0

(* authenticate: every failed login that was answered is counted until the *)
(* counter is cleared, whatever other requests commit in between, and      *)
(* exactly the accounts whose counter is full are locked, until somebody   *)
(* sets the status by hand; the next failed login restores it.             *)
AttemptsAreCounted ==
    /\ user.fails = answered
    /\ ~imposed => (user.status = "LOCKED" <=> user.fails >= MaxAttempts)
=============================================================================
