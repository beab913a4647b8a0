--------------------------- MODULE SessionsProofs ---------------------------
(***************************************************************************)
(* Proofs about Sessions, for every number of requests, tokens, attempts   *)
(* and updates.                                                            *)
(*                                                                         *)
(* Both promises rest on what a request may conclude from a version that   *)
(* has not changed.  Of the user: the account is still as open, and its    *)
(* counter as high, as the request found it.  Of a token: nobody rotated   *)
(* it since, although somebody may have revoked it without a new version.  *)
(***************************************************************************)
EXTENDS Sessions, TLAPS

UserRow == [status: Statuses, fails: Nat, lock: {"none", "on", "over"},
            reset: {"none", "stored"}, version: Nat]
TokenRow == [state: {"none", "live", "expired", "revoked"}, version: Nat,
             parent: {0} \cup Tokens]
Request == [op: {"idle", "login", "issue", "unlock", "rotate", "reused", "logout",
                 "password", "reset", "mailed", "confirm", "temporary", "status"},
            version: Nat, wrong: BOOLEAN, fails: Nat, status: Statuses,
            token: {0} \cup Tokens, tokenVersion: Nat, parent: {0} \cup Tokens]

SesTypeOK ==
    /\ user \in UserRow
    /\ tokens \in [Tokens -> TokenRow]
    /\ handlers \in [Handlers -> Request]
    /\ answered \in Nat /\ imposed \in BOOLEAN

(* What a login that has read the present version knows of the account. *)
Entitled(s) ==
    /\ user.status = "ACTIVE" \/ LockIsOver
    /\ s.fails = IF LockIsOver THEN 0 ELSE user.fails

UserInv ==
    /\ SesTypeOK
    /\ AttemptsAreCounted
    /\ \A h \in Handlers :
          handlers[h].op = "login" =>
              /\ handlers[h].version <= user.version
              /\ handlers[h].version = user.version => Entitled(handlers[h])

(* Tokens that were rotated: their successor is issued, or about to be. *)
Succeeded(t) == \E u \in Tokens : tokens[u].parent = t
Issuing(h, t) == handlers[h].op = "issue" /\ handlers[h].parent = t
Spent(t) == Succeeded(t) \/ \E h \in Handlers : Issuing(h, t)

Holds(h, t) == handlers[h].op \in {"rotate", "logout"} /\ handlers[h].token = t

TokenInv ==
    /\ SesTypeOK
    /\ \A t \in Tokens : tokens[t].state = "none" => tokens[t] = NoToken
    /\ \A t \in Tokens : Spent(t) => tokens[t].state = "revoked"
    /\ \A h \in Handlers : handlers[h].op \in {"rotate", "logout"} =>
          handlers[h].token \in Tokens
    /\ \A h \in Handlers, t \in Tokens : Holds(h, t) =>
          /\ tokens[t].state # "none"
          /\ handlers[h].tokenVersion <= tokens[t].version
          /\ Spent(t) => handlers[h].tokenVersion < tokens[t].version
    /\ \A t, u, v \in Tokens :
          u # v /\ tokens[u].parent = t => tokens[v].parent # t
    /\ \A h \in Handlers, t \in Tokens : Issuing(h, t) =>
          /\ ~Succeeded(t)
          /\ \A g \in Handlers \ {h} : ~Issuing(g, t)

-----------------------------------------------------------------------------
(* Types, action by action.                                                *)

StatusOf(status) == [WithUser("status") EXCEPT !.status = status]

LEMMA RequestTypes ==
    /\ Idle \in Request /\ NoToken \in TokenRow
    /\ \A op \in {"login", "unlock", "password", "reset", "confirm", "temporary", "status"} :
          SesTypeOK => WithUser(op) \in Request
    /\ \A status \in Statuses : SesTypeOK => StatusOf(status) \in Request
    /\ \A op \in {"rotate", "logout"}, t \in Tokens :
          SesTypeOK => WithToken(op, t) \in Request
  BY DEF Idle, NoToken, Request, TokenRow, WithUser, WithToken, StatusOf, Statuses,
     SesTypeOK, UserRow

LEMMA BeginTypes ==
    ASSUME SesTypeOK, NEW h \in Handlers, NEW request \in Request, Begin(h, request)
    PROVE  SesTypeOK'
  BY DEF SesTypeOK, Begin

LEMMA LeaveTypes ==
    ASSUME SesTypeOK, NEW h \in Handlers, Leave(h)
    PROVE  handlers' \in [Handlers -> Request]
  BY RequestTypes DEF SesTypeOK, Leave

(* Of a login, only the counter and the password differ from what it read. *)
LoginOf(wrong) == [WithUser("login") EXCEPT !.wrong = wrong,
                                            !.fails = IF LockIsOver THEN 0 ELSE @]
LEMMA LoginFields ==
    ASSUME SesTypeOK, NEW wrong \in BOOLEAN
    PROVE  /\ LoginOf(wrong) \in Request
           /\ LoginOf(wrong).op = "login" /\ LoginOf(wrong).version = user.version
           /\ LoginOf(wrong).fails = IF LockIsOver THEN 0 ELSE user.fails
  BY DEF LoginOf, WithUser, Idle, Request, Statuses, SesTypeOK, UserRow

LEMMA StartTypes ==
    ASSUME SesTypeOK, NEW h \in Handlers,
           \/ \E wrong \in BOOLEAN : StartLogin(h, wrong)
           \/ \E t \in Tokens : StartRotate(h, t) \/ StartLogout(h, t)
           \/ StartUnlock(h) \/ StartChange(h) \/ StartReset(h) \/ StartConfirm(h)
           \/ StartTemporary(h) \/ \E status \in Statuses : StartStatus(h, status)
    PROVE  SesTypeOK'
<1>1. CASE \E wrong \in BOOLEAN : StartLogin(h, wrong)
  BY <1>1, LoginFields, BeginTypes DEF StartLogin, LoginOf
<1>2. CASE \E t \in Tokens : StartRotate(h, t) \/ StartLogout(h, t)
  <2>1. [Idle EXCEPT !.op = "reused"] \in Request
    BY DEF Idle, Request, Statuses
  <2>2. QED
    BY <1>2, <2>1, RequestTypes, BeginTypes DEF StartRotate, StartLogout
<1>3. CASE \/ StartUnlock(h) \/ StartChange(h) \/ StartReset(h) \/ StartConfirm(h)
           \/ StartTemporary(h)
  BY <1>3, RequestTypes, BeginTypes DEF StartUnlock, StartChange, StartReset, StartConfirm,
     StartTemporary
<1>4. CASE \E status \in Statuses : StartStatus(h, status)
  BY <1>4, RequestTypes, BeginTypes DEF StartStatus, StatusOf
<1>5. QED
  BY <1>1, <1>2, <1>3, <1>4

(* A user keeps its type when these fields get values of theirs. *)
LEMMA UserUpdate ==
    ASSUME NEW u \in UserRow, NEW status \in Statuses, NEW fails \in Nat,
           NEW lock \in {"none", "on", "over"}, NEW reset \in {"none", "stored"}
    PROVE  /\ [u EXCEPT !.fails = fails, !.version = @ + 1, !.status = status,
                        !.lock = lock] \in UserRow
           /\ [u EXCEPT !.fails = fails, !.lock = lock, !.version = @ + 1,
                        !.status = status] \in UserRow
           /\ [u EXCEPT !.status = status, !.fails = fails, !.lock = lock,
                        !.version = @ + 1] \in UserRow
           /\ [u EXCEPT !.reset = reset, !.fails = fails, !.version = @ + 1,
                        !.status = status, !.lock = lock] \in UserRow
<1>1. u.version + 1 \in Nat
  BY DEF UserRow
<1>2. QED
  BY <1>1 DEF UserRow

LEMMA VersionUpdate ==
    ASSUME NEW u \in UserRow, NEW reset \in {"none", "stored"}
    PROVE  /\ [u EXCEPT !.version = @ + 1] \in UserRow
           /\ [u EXCEPT !.reset = reset, !.version = @ + 1] \in UserRow
<1>1. u.version + 1 \in Nat
  BY DEF UserRow
<1>2. QED
  BY <1>1 DEF UserRow

(* What a new password makes of the account. *)
LEMMA ReopenedUser ==
    ASSUME SesTypeOK, NEW reset \in {"none", "stored"}
    PROVE  /\ Reopened(reset) \in UserRow
           /\ Reopened(reset).fails = 0 /\ Reopened(reset).version = user.version + 1
           /\ Reopened(reset).status # "LOCKED"
<1> DEFINE status == IF user.status = "LOCKED" THEN "ACTIVE" ELSE user.status
           lock == IF user.status = "LOCKED" THEN "none" ELSE user.lock
<1>1. user \in UserRow /\ 0 \in Nat
  BY DEF SesTypeOK
<1>2. status \in Statuses /\ lock \in {"none", "on", "over"} /\ status # "LOCKED"
  BY <1>1 DEF UserRow, Statuses
<1>3. Reopened(reset) = [user EXCEPT !.reset = reset, !.fails = 0, !.version = @ + 1,
                                     !.status = status, !.lock = lock]
  BY DEF Reopened
<1> HIDE DEF status, lock
<1>4. [user EXCEPT !.reset = reset, !.fails = 0, !.version = @ + 1, !.status = status,
                   !.lock = lock] \in UserRow
  BY <1>1, <1>2, UserUpdate
<1>5. LET new == [user EXCEPT !.reset = reset, !.fails = 0, !.version = @ + 1,
                              !.status = status, !.lock = lock]
      IN  new.fails = 0 /\ new.version = user.version + 1 /\ new.status = status
  BY <1>1 DEF UserRow
<1>6. QED
  BY <1>2, <1>3, <1>4, <1>5

LEMMA UserTypes ==
    ASSUME SesTypeOK, NEW h \in Handlers,
           \/ WrongPassword(h) \/ RightPassword(h) \/ CommitUnlock(h)
           \/ ChangePassword(h) \/ StoreReset(h) \/ MailFailed(h)
           \/ TemporaryPassword(h) \/ SetStatus(h)
    PROVE  SesTypeOK'
<1>1. /\ handlers[h] \in Request /\ user \in UserRow /\ imposed \in BOOLEAN
      /\ user.version + 1 \in Nat /\ handlers[h].fails + 1 \in Nat
      /\ 0 \in Nat /\ answered \in Nat /\ answered + 1 \in Nat
      /\ tokens \in [Tokens -> TokenRow] /\ handlers \in [Handlers -> Request]
  BY DEF SesTypeOK, Request, UserRow
<1>2. CASE WrongPassword(h)
  <2>1. user' \in UserRow
    <3> DEFINE fails == handlers[h].fails + 1
               status == IF fails >= MaxAttempts THEN "LOCKED"
                         ELSE IF LockIsOver THEN "ACTIVE" ELSE user.status
               lock == IF fails >= MaxAttempts THEN "on"
                       ELSE IF LockIsOver THEN "none" ELSE user.lock
    <3>1. status \in Statuses /\ lock \in {"none", "on", "over"}
          /\ fails \in Nat
      BY <1>1 DEF UserRow, Statuses
    <3>2. user' = [user EXCEPT !.fails = fails, !.version = @ + 1, !.status = status,
                               !.lock = lock]
      BY <1>2 DEF WrongPassword
    <3> HIDE DEF fails, status, lock
    <3>3. QED
      BY <1>1, <3>1, <3>2, UserUpdate
  <2>2. answered' \in Nat /\ imposed' = FALSE
    <3>1. answered' = (IF LockIsOver THEN 0 ELSE answered) + 1 /\ imposed' = FALSE
      BY <1>2 DEF WrongPassword
    <3>2. (IF LockIsOver THEN 0 ELSE answered) + 1 \in Nat
      BY <1>1
    <3>3. QED
      BY <3>1, <3>2
  <2>3. tokens' = tokens /\ handlers' \in [Handlers -> Request]
    BY <1>2, LeaveTypes DEF WrongPassword
  <2>4. QED
    BY <1>1, <2>1, <2>2, <2>3 DEF SesTypeOK
<1>3. CASE RightPassword(h)
  <2> DEFINE status == IF LockIsOver THEN "ACTIVE" ELSE user.status
  <2>1. [Idle EXCEPT !.op = "issue"] \in Request
    BY DEF Idle, Request, Statuses
  <2>2. status \in Statuses
    BY <1>1 DEF UserRow, Statuses
  <2>3. user' = [user EXCEPT !.fails = 0, !.lock = "none", !.version = @ + 1,
                             !.status = status]
    BY <1>3 DEF RightPassword
  <2> HIDE DEF status
  <2>4. user' \in UserRow
    BY <1>1, <2>2, <2>3, UserUpdate
  <2>5. /\ answered' = 0 /\ tokens' = tokens /\ imposed' = FALSE
        /\ handlers' = [handlers EXCEPT ![h] = [Idle EXCEPT !.op = "issue"]]
    BY <1>3 DEF RightPassword
  <2>6. QED
    BY <1>1, <2>1, <2>4, <2>5 DEF SesTypeOK
<1>4. CASE CommitUnlock(h)
  <2>1. user' \in UserRow
    BY <1>1, <1>4, UserUpdate DEF CommitUnlock, Statuses
  <2>2. QED
    BY <1>1, <1>4, <2>1, LeaveTypes DEF CommitUnlock, SesTypeOK
<1>5. CASE ChangePassword(h)
  <2>1. user' \in UserRow
    BY <1>1, <1>5, VersionUpdate DEF ChangePassword
  <2>2. QED
    BY <1>1, <1>5, <2>1, LeaveTypes DEF ChangePassword, SesTypeOK
<1>6. CASE StoreReset(h)
  <2>1. [Idle EXCEPT !.op = "mailed", !.version = user.version + 1] \in Request
    BY <1>1 DEF Idle, Request, Statuses
  <2>2. user' \in UserRow
    BY <1>1, <1>6, VersionUpdate DEF StoreReset
  <2>3. /\ answered' = answered /\ tokens' = tokens /\ imposed' = imposed
        /\ handlers' = [handlers EXCEPT ![h] = [Idle EXCEPT !.op = "mailed",
                                                  !.version = user.version + 1]]
    BY <1>6 DEF StoreReset
  <2>4. QED
    BY <1>1, <2>1, <2>2, <2>3 DEF SesTypeOK
<1>7. CASE MailFailed(h)
  <2>1. user' \in UserRow
    BY <1>1, <1>7, VersionUpdate DEF MailFailed
  <2>2. QED
    BY <1>1, <1>7, <2>1, LeaveTypes DEF MailFailed, SesTypeOK
<1>8. CASE TemporaryPassword(h)
  <2>1. user' \in UserRow
    <3>1. user' = Reopened(user.reset) /\ user.reset \in {"none", "stored"}
      BY <1>1, <1>8 DEF TemporaryPassword, UserRow
    <3>2. QED
      BY <3>1, ReopenedUser
  <2>2. QED
    BY <1>1, <1>8, <2>1, LeaveTypes DEF TemporaryPassword, SesTypeOK
<1>9. CASE SetStatus(h)
  <2>1. user' \in UserRow
    <3> DEFINE status == handlers[h].status
    <3>1. status \in Statuses
      BY <1>1 DEF Request
    <3>2. user' = [user EXCEPT !.status = status, !.version = @ + 1]
      BY <1>9 DEF SetStatus
    <3> HIDE DEF status
    <3>3. QED
      BY <1>1, <3>1, <3>2 DEF UserRow
  <2>2. QED
    BY <1>1, <1>9, <2>1, LeaveTypes DEF SetStatus, SesTypeOK
<1>10. QED
  BY <1>2, <1>3, <1>4, <1>5, <1>6, <1>7, <1>8, <1>9

LEMMA RevokeTypes ==
    ASSUME SesTypeOK, NEW h \in Handlers, handlers[h].token \in Tokens, Revoke(h)
    PROVE  /\ tokens' \in [Tokens -> TokenRow]
           /\ \A t \in Tokens \ {handlers[h].token} : tokens'[t] = tokens[t]
           /\ LET t == handlers[h].token
              IN  /\ tokens[t].version = handlers[h].tokenVersion
                  /\ tokens'[t].state = "revoked" /\ tokens'[t].parent = tokens[t].parent
                  /\ tokens'[t].version = tokens[t].version + 1
<1> DEFINE t == handlers[h].token
           new == [tokens[t] EXCEPT !.state = "revoked", !.version = @ + 1]
<1>1. tokens[t] \in TokenRow /\ tokens[t].version + 1 \in Nat
  BY DEF SesTypeOK, TokenRow
<1>2. new \in TokenRow /\ new.state = "revoked" /\ new.parent = tokens[t].parent
      /\ new.version = tokens[t].version + 1
  BY <1>1 DEF TokenRow
<1>3. tokens' = [tokens EXCEPT ![t] = new] /\ tokens[t].version = handlers[h].tokenVersion
  BY DEF Revoke, SesTypeOK
<1> HIDE DEF new
<1>4. QED
  BY <1>2, <1>3 DEF SesTypeOK

LEMMA RevokeAllTypes ==
    ASSUME SesTypeOK, RevokeAll
    PROVE  /\ tokens' \in [Tokens -> TokenRow]
           /\ \A t \in Tokens :
                 /\ tokens'[t].parent = tokens[t].parent
                 /\ tokens[t].version <= tokens'[t].version
                 /\ tokens[t].state \in {"live", "expired"} =>
                       tokens'[t].state = "revoked"
                 /\ tokens[t].state \in {"none", "revoked"} => tokens'[t] = tokens[t]
<1>1. PICK count \in {0, 1} :
        tokens' = [t \in Tokens |-> IF tokens[t].state \in {"live", "expired"}
                                    THEN [tokens[t] EXCEPT !.state = "revoked",
                                                           !.version = @ + count]
                                    ELSE tokens[t]]
  BY DEF RevokeAll
<1>2. ASSUME NEW t \in Tokens
      PROVE  LET new == [tokens[t] EXCEPT !.state = "revoked", !.version = @ + count]
             IN  /\ new \in TokenRow /\ new.state = "revoked"
                 /\ new.parent = tokens[t].parent /\ tokens[t].version <= new.version
  <2>1. tokens[t] \in TokenRow /\ tokens[t].version + count \in Nat
        /\ tokens[t].version <= tokens[t].version + count
    BY DEF SesTypeOK, TokenRow
  <2>2. QED
    BY <2>1 DEF TokenRow
<1> DEFINE new(t) == [tokens[t] EXCEPT !.state = "revoked", !.version = @ + count]
<1>3. tokens' = [t \in Tokens |-> IF tokens[t].state \in {"live", "expired"}
                                  THEN new(t) ELSE tokens[t]]
  BY <1>1
<1>4. \A t \in Tokens : tokens[t] \in TokenRow /\ tokens[t].version <= tokens[t].version
  BY DEF SesTypeOK, TokenRow
<1> HIDE DEF new
<1>5. \A t \in Tokens : /\ new(t) \in TokenRow /\ new(t).state = "revoked"
                         /\ new(t).parent = tokens[t].parent
                         /\ tokens[t].version <= new(t).version
  BY <1>2 DEF new
<1>6. QED
  BY <1>3, <1>4, <1>5

LEMMA TokenTypes ==
    ASSUME SesTypeOK, NEW h \in Handlers,
           \/ IssueToken(h)
           \/ handlers[h].token \in Tokens /\ (RotateToken(h) \/ Logout(h))
           \/ ReuseDetected(h) \/ ConfirmReset(h)
    PROVE  SesTypeOK'
<1>1. /\ handlers[h] \in Request /\ user \in UserRow /\ answered \in Nat /\ 0 \in Nat
      /\ imposed \in BOOLEAN
      /\ tokens \in [Tokens -> TokenRow] /\ handlers \in [Handlers -> Request]
  BY DEF SesTypeOK
<1>2. CASE IssueToken(h)
  <2>1. PICK t \in Tokens :
          tokens' = [tokens EXCEPT ![t] = [state |-> "live", version |-> 0,
                                           parent |-> handlers[h].parent]]
    BY <1>2 DEF IssueToken
  <2>2. [state |-> "live", version |-> 0, parent |-> handlers[h].parent] \in TokenRow
    BY <1>1 DEF Request, TokenRow
  <2>3. tokens' \in [Tokens -> TokenRow]
    BY <1>1, <2>1, <2>2
  <2>4. QED
    BY <1>1, <1>2, <2>3, LeaveTypes DEF IssueToken, SesTypeOK
<1>3. CASE handlers[h].token \in Tokens /\ RotateToken(h)
  <2>1. [Idle EXCEPT !.op = "issue", !.parent = handlers[h].token] \in Request
    BY <1>3 DEF Idle, Request, Statuses
  <2>2. tokens' \in [Tokens -> TokenRow]
    BY <1>3, RevokeTypes DEF RotateToken
  <2>3. /\ user' = user /\ answered' = answered /\ imposed' = imposed
        /\ handlers' = [handlers EXCEPT ![h] = [Idle EXCEPT !.op = "issue",
                                                  !.parent = handlers[h].token]]
    BY <1>3 DEF RotateToken
  <2>4. QED
    BY <1>1, <2>1, <2>2, <2>3 DEF SesTypeOK
<1>4. CASE handlers[h].token \in Tokens /\ Logout(h)
  BY <1>1, <1>4, RevokeTypes, LeaveTypes DEF Logout, SesTypeOK
<1>5. CASE ReuseDetected(h)
  BY <1>1, <1>5, RevokeAllTypes, LeaveTypes DEF ReuseDetected, SesTypeOK
<1>6. CASE ConfirmReset(h)
  <2>1. user' \in UserRow
    BY <1>6, ReopenedUser DEF ConfirmReset
  <2>2. /\ answered' = 0 /\ imposed' = FALSE /\ RevokeAll /\ Leave(h)
    BY <1>6 DEF ConfirmReset
  <2>3. QED
    BY <1>1, <2>1, <2>2, RevokeAllTypes, LeaveTypes DEF SesTypeOK
<1>7. QED
  BY <1>2, <1>3, <1>4, <1>5, <1>6

(* Time, and requests that give up. *)
LEMMA OtherTypes ==
    ASSUME SesTypeOK,
           \/ LockTimePasses \/ ResetExpires \/ \E t \in Tokens : TokenExpires(t)
           \/ \E h \in Handlers : Stale(h) \/ StaleToken(h) \/ MailSent(h)
    PROVE  SesTypeOK'
<1>1. CASE LockTimePasses \/ ResetExpires
  BY <1>1 DEF LockTimePasses, ResetExpires, SesTypeOK, UserRow
<1>2. CASE \E t \in Tokens : TokenExpires(t)
  BY <1>2 DEF TokenExpires, SesTypeOK, TokenRow
<1>3. CASE \E h \in Handlers : Stale(h) \/ StaleToken(h) \/ MailSent(h)
  BY <1>3, LeaveTypes DEF Stale, StaleToken, MailSent, SesTypeOK
<1>4. QED
  BY <1>1, <1>2, <1>3

-----------------------------------------------------------------------------
(* The account.                                                            *)

(* A request other than a login joins or leaves, or a login leaves, while  *)
(* the user stays as it is.                                                *)
LEMMA UserKept ==
    ASSUME UserInv, SesTypeOK', user' = user, answered' = answered, imposed' = imposed,
           \A h \in Handlers : handlers'[h].op = "login" =>
              \/ handlers'[h] = handlers[h]
              \/ handlers'[h].version = user.version /\ Entitled(handlers'[h])
    PROVE  UserInv'
<1>1. LockIsOver' <=> LockIsOver
  BY DEF LockIsOver
<1>2. AttemptsAreCounted'
  BY DEF UserInv, AttemptsAreCounted
<1>3. user.version <= user.version
  BY DEF UserInv, SesTypeOK, UserRow
<1>4. ASSUME NEW h \in Handlers, handlers'[h].op = "login"
      PROVE  /\ handlers'[h].version <= user.version
             /\ handlers'[h].version = user.version =>
                   (user.status = "ACTIVE" \/ LockIsOver)
                   /\ handlers'[h].fails = IF LockIsOver THEN 0 ELSE user.fails
  BY <1>3, <1>4 DEF UserInv, Entitled
<1>5. QED
  BY <1>1, <1>2, <1>4 DEF UserInv, Entitled

(* A commit of the user: what was read before is out of date. *)
LEMMA UserMoved ==
    ASSUME UserInv, SesTypeOK', AttemptsAreCounted',
           user'.version = user.version + 1,
           \A h \in Handlers : handlers'[h].op = "login" => handlers'[h] = handlers[h]
    PROVE  UserInv'
<1>1. user.version \in Nat /\ \A h \in Handlers : handlers[h].version \in Nat
  BY DEF UserInv, SesTypeOK, UserRow, Request
<1>2. ASSUME NEW h \in Handlers, handlers'[h].op = "login"
      PROVE  handlers'[h].version <= user'.version /\ handlers'[h].version # user'.version
  BY <1>1, <1>2 DEF UserInv
<1>3. QED
  BY <1>2 DEF UserInv

LEMMA LoginStarts ==
    ASSUME UserInv, NEW h \in Handlers, NEW wrong \in BOOLEAN, StartLogin(h, wrong)
    PROVE  UserInv'
<1>1. SesTypeOK /\ SesTypeOK'
  BY StartTypes DEF UserInv
<1>2. /\ handlers' = [handlers EXCEPT ![h] = LoginOf(wrong)]
      /\ user' = user /\ answered' = answered /\ imposed' = imposed
      /\ user.status = "ACTIVE" \/ LockIsOver
  BY DEF StartLogin, Begin, LoginOf
<1>3. \A g \in Handlers : handlers'[g] = IF g = h THEN LoginOf(wrong) ELSE handlers[g]
  BY <1>1, <1>2 DEF SesTypeOK
<1>4. Entitled(LoginOf(wrong)) /\ LoginOf(wrong).version = user.version
  BY <1>1, <1>2, LoginFields DEF Entitled
<1>5. QED
  BY <1>1, <1>2, <1>3, <1>4, UserKept

LEMMA OtherHandlers ==
    ASSUME SesTypeOK, NEW h \in Handlers, NEW s, s.op # "login",
           handlers' = [handlers EXCEPT ![h] = s]
    PROVE  \A g \in Handlers : handlers'[g].op = "login" => handlers'[g] = handlers[g]
  BY DEF SesTypeOK

LEMMA IdleIsNoLogin ==
    /\ Idle.op # "login" /\ [Idle EXCEPT !.op = "issue"].op # "login"
    /\ [Idle EXCEPT !.op = "reused"].op # "login"
    /\ \A t : [Idle EXCEPT !.op = "issue", !.parent = t].op # "login"
    /\ \A n : [Idle EXCEPT !.op = "mailed", !.version = n].op # "login"
    /\ \A op \in {"unlock", "password", "reset", "confirm", "temporary"} :
          WithUser(op).op # "login"
    /\ \A status : StatusOf(status).op # "login"
    /\ \A op \in {"rotate", "logout"}, t \in Tokens : WithToken(op, t).op # "login"
  BY DEF Idle, WithUser, WithToken, StatusOf

LEMMA PasswordIsWrong ==
    ASSUME UserInv, NEW h \in Handlers, WrongPassword(h)
    PROVE  UserInv'
<1>1. SesTypeOK /\ SesTypeOK' /\ AttemptsAreCounted
  BY UserTypes DEF UserInv
<1>2. /\ handlers[h].op = "login" /\ handlers[h].version = user.version
      /\ handlers' = [handlers EXCEPT ![h] = Idle]
  BY DEF WrongPassword, Current, Leave
<1>3. Entitled(handlers[h])
  BY <1>2 DEF UserInv
<1>4. /\ user.fails \in Nat /\ user.status \in Statuses /\ answered \in Nat
      /\ MaxAttempts \in Nat \ {0} /\ user \in UserRow
  BY <1>1, SessionAssumption DEF SesTypeOK, UserRow
<1> DEFINE fails == handlers[h].fails + 1
           status == IF fails >= MaxAttempts THEN "LOCKED"
                     ELSE IF LockIsOver THEN "ACTIVE" ELSE user.status
<1>5. /\ user'.fails = fails /\ user'.status = status
      /\ user'.version = user.version + 1
      /\ answered' = (IF LockIsOver THEN 0 ELSE answered) + 1
  BY <1>4 DEF WrongPassword, UserRow
<1>6. fails = (IF LockIsOver THEN 0 ELSE answered) + 1
  BY <1>1, <1>3 DEF Entitled, AttemptsAreCounted
<1>7. ~(fails >= MaxAttempts) => status = "ACTIVE"
  BY <1>3 DEF Entitled
<1>8. AttemptsAreCounted'
  BY <1>5, <1>6, <1>7 DEF AttemptsAreCounted
<1>9. QED
  BY <1>1, <1>2, <1>5, <1>8, OtherHandlers, IdleIsNoLogin, UserMoved

(* The commits that clear the counter. *)
LEMMA PasswordIsRight ==
    ASSUME UserInv, NEW h \in Handlers, RightPassword(h)
    PROVE  UserInv'
<1>1. SesTypeOK /\ SesTypeOK'
  BY UserTypes DEF UserInv
<1>2. /\ handlers[h].op = "login" /\ handlers[h].version = user.version
      /\ handlers' = [handlers EXCEPT ![h] = [Idle EXCEPT !.op = "issue"]]
  BY DEF RightPassword, Current
<1>3. Entitled(handlers[h])
  BY <1>2 DEF UserInv
<1>4. MaxAttempts \in Nat \ {0} /\ user \in UserRow
  BY <1>1, SessionAssumption DEF SesTypeOK
<1>5. /\ user'.fails = 0 /\ user'.version = user.version + 1 /\ answered' = 0
      /\ user'.status = IF LockIsOver THEN "ACTIVE" ELSE user.status
  BY <1>4 DEF RightPassword, UserRow
<1>6. AttemptsAreCounted'
  BY <1>3, <1>4, <1>5 DEF AttemptsAreCounted, Entitled
<1>7. QED
  BY <1>1, <1>2, <1>5, <1>6, OtherHandlers, IdleIsNoLogin, UserMoved

LEMMA AccountIsReleased ==
    ASSUME UserInv, NEW h \in Handlers,
           CommitUnlock(h) \/ ConfirmReset(h) \/ TemporaryPassword(h)
    PROVE  UserInv'
<1>1. SesTypeOK /\ SesTypeOK'
  BY UserTypes, TokenTypes DEF UserInv
<1>2. MaxAttempts \in Nat \ {0} /\ user \in UserRow
  BY <1>1, SessionAssumption DEF SesTypeOK
<1>3. /\ user'.fails = 0 /\ user'.version = user.version + 1 /\ answered' = 0
      /\ user'.status # "LOCKED" /\ handlers' = [handlers EXCEPT ![h] = Idle]
  <2>1. CASE CommitUnlock(h)
    BY <1>2, <2>1 DEF CommitUnlock, UserRow, Leave
  <2>2. CASE ConfirmReset(h)
    BY <1>1, <2>2, ReopenedUser DEF ConfirmReset, Leave
  <2>3. CASE TemporaryPassword(h)
    <3>1. user.reset \in {"none", "stored"}
      BY <1>2 DEF UserRow
    <3>2. QED
      BY <1>1, <2>3, <3>1, ReopenedUser DEF TemporaryPassword, Leave
  <2>4. QED
    BY <2>1, <2>2, <2>3
<1>4. AttemptsAreCounted'
  BY <1>2, <1>3 DEF AttemptsAreCounted
<1>5. QED
  BY <1>1, <1>3, <1>4, OtherHandlers, IdleIsNoLogin, UserMoved

(* An administrator's status does not count as a login's. *)
LEMMA StatusIsSet ==
    ASSUME UserInv, NEW h \in Handlers, SetStatus(h)
    PROVE  UserInv'
<1>1. SesTypeOK /\ SesTypeOK' /\ AttemptsAreCounted
  BY UserTypes DEF UserInv
<1>2. user \in UserRow
  BY <1>1 DEF SesTypeOK
<1>3. /\ user'.fails = user.fails /\ user'.version = user.version + 1
      /\ answered' = answered /\ imposed' = TRUE
      /\ handlers' = [handlers EXCEPT ![h] = Idle]
  BY <1>2 DEF SetStatus, UserRow, Leave
<1>4. AttemptsAreCounted'
  BY <1>1, <1>3 DEF AttemptsAreCounted
<1>5. QED
  BY <1>1, <1>3, <1>4, OtherHandlers, IdleIsNoLogin, UserMoved

(* The commits that leave it as it is. *)
LEMMA AccountIsEdited ==
    ASSUME UserInv, NEW h \in Handlers,
           ChangePassword(h) \/ StoreReset(h) \/ MailFailed(h)
    PROVE  UserInv'
<1>1. SesTypeOK /\ SesTypeOK'
  BY UserTypes DEF UserInv
<1>2. user \in UserRow
  BY <1>1 DEF SesTypeOK
<1>3. /\ user'.fails = user.fails /\ user'.version = user.version + 1
      /\ user'.status = user.status /\ answered' = answered /\ imposed' = imposed
  BY <1>2 DEF ChangePassword, StoreReset, MailFailed, UserRow
<1>4. \/ handlers' = [handlers EXCEPT ![h] = Idle]
      \/ handlers' = [handlers EXCEPT ![h] = [Idle EXCEPT !.op = "mailed",
                                                !.version = user.version + 1]]
  BY DEF ChangePassword, StoreReset, MailFailed, Leave
<1>5. AttemptsAreCounted'
  BY <1>3 DEF AttemptsAreCounted, UserInv
<1>6. \A g \in Handlers : handlers'[g].op = "login" => handlers'[g] = handlers[g]
  BY <1>1, <1>4, OtherHandlers, IdleIsNoLogin
<1>7. QED
  BY <1>1, <1>3, <1>5, <1>6, UserMoved

(* An account that was found open stays so while its lock runs out. *)
LEMMA TimePasses ==
    ASSUME UserInv, LockTimePasses \/ ResetExpires
    PROVE  UserInv'
<1>1. SesTypeOK /\ SesTypeOK' /\ user \in UserRow
  BY OtherTypes DEF UserInv, SesTypeOK
<1>2. /\ user'.fails = user.fails /\ user'.status = user.status
      /\ user'.version = user.version /\ answered' = answered /\ imposed' = imposed
      /\ handlers' = handlers
      /\ user'.lock = user.lock \/ (user.lock = "on" /\ user'.lock = "over")
  BY <1>1 DEF LockTimePasses, ResetExpires, UserRow
<1>3. AttemptsAreCounted'
  BY <1>2 DEF AttemptsAreCounted, UserInv
<1>4. ASSUME NEW h \in Handlers, Entitled(handlers[h])
      PROVE  Entitled(handlers[h])'
  BY <1>2, <1>4 DEF Entitled, LockIsOver
<1>5. \A h \in Handlers : handlers'[h] = handlers[h]
  BY <1>2
<1>6. ASSUME NEW h \in Handlers, handlers'[h].op = "login"
      PROVE  /\ handlers'[h].version <= user'.version
             /\ handlers'[h].version = user'.version => Entitled(handlers[h])'
  BY <1>2, <1>4, <1>5, <1>6 DEF UserInv
<1>7. QED
  BY <1>1, <1>3, <1>6 DEF UserInv

(* Everything else leaves the user alone, and is no login. *)
LEMMA OthersLeaveTheUser ==
    ASSUME UserInv, SesTypeOK',
           \/ \E h \in Handlers :
                 \/ IssueToken(h) \/ RotateToken(h) \/ Logout(h) \/ ReuseDetected(h)
                 \/ Stale(h) \/ StaleToken(h) \/ MailSent(h)
                 \/ StartUnlock(h) \/ StartChange(h) \/ StartReset(h) \/ StartConfirm(h)
                 \/ StartTemporary(h) \/ \E status \in Statuses : StartStatus(h, status)
                 \/ \E t \in Tokens : StartRotate(h, t) \/ StartLogout(h, t)
           \/ \E t \in Tokens : TokenExpires(t)
    PROVE  UserInv'
<1>1. SesTypeOK
  BY DEF UserInv
<1>2. CASE \E t \in Tokens : TokenExpires(t)
  BY <1>1, <1>2, UserKept DEF TokenExpires
<1>3. ASSUME NEW h \in Handlers, NEW s, s.op # "login",
             handlers' = [handlers EXCEPT ![h] = s], user' = user, answered' = answered,
             imposed' = imposed
      PROVE  UserInv'
  BY <1>1, <1>3, OtherHandlers, UserKept
<1>4. ASSUME NEW h \in Handlers,
             \/ IssueToken(h) \/ Logout(h) \/ ReuseDetected(h)
             \/ Stale(h) \/ StaleToken(h) \/ MailSent(h)
      PROVE  UserInv'
  <2>1. /\ user' = user /\ answered' = answered /\ imposed' = imposed
        /\ handlers' = [handlers EXCEPT ![h] = Idle]
    BY <1>4 DEF IssueToken, Logout, ReuseDetected, Stale, StaleToken, MailSent, Leave
  <2>2. QED
    BY <1>3, <2>1, IdleIsNoLogin
<1>5. ASSUME NEW h \in Handlers, RotateToken(h)
      PROVE  UserInv'
  BY <1>3, <1>5, IdleIsNoLogin DEF RotateToken
<1>6. ASSUME NEW h \in Handlers,
             \/ StartUnlock(h) \/ StartChange(h) \/ StartReset(h) \/ StartConfirm(h)
             \/ StartTemporary(h) \/ \E status \in Statuses : StartStatus(h, status)
             \/ \E t \in Tokens : StartRotate(h, t) \/ StartLogout(h, t)
      PROVE  UserInv'
  <2>1. PICK s : s.op # "login" /\ Begin(h, s)
    BY <1>6, IdleIsNoLogin DEF StartUnlock, StartChange, StartReset, StartConfirm,
       StartTemporary, StartStatus, StatusOf, StartRotate, StartLogout
  <2>2. QED
    BY <1>3, <2>1 DEF Begin
<1>7. QED
  BY <1>2, <1>4, <1>5, <1>6

LEMMA UserInvKept ==
    ASSUME UserInv, TokenInv, [SesNext]_sesVars
    PROVE  UserInv'
<1>1. \A h \in Handlers : RotateToken(h) \/ Logout(h) => handlers[h].token \in Tokens
  BY DEF TokenInv, RotateToken, Logout
<1>2. CASE UNCHANGED sesVars
  <2>1. SesTypeOK'
    BY <1>2 DEF UserInv, SesTypeOK, sesVars
  <2>2. user' = user /\ answered' = answered /\ handlers' = handlers /\ imposed' = imposed
    BY <1>2 DEF sesVars
  <2>3. QED
    BY <2>1, <2>2, UserKept
<1>3. CASE LockTimePasses \/ ResetExpires
  BY <1>3, TimePasses
<1>4. CASE \E t \in Tokens : TokenExpires(t)
  BY <1>4, OtherTypes, OthersLeaveTheUser DEF UserInv
<1>5. ASSUME NEW h \in Handlers, \E wrong \in BOOLEAN : StartLogin(h, wrong)
      PROVE  UserInv'
  BY <1>5, LoginStarts
<1>6. ASSUME NEW h \in Handlers,
             \/ WrongPassword(h) \/ RightPassword(h) \/ CommitUnlock(h)
             \/ ConfirmReset(h) \/ ChangePassword(h) \/ StoreReset(h) \/ MailFailed(h)
             \/ TemporaryPassword(h) \/ SetStatus(h)
      PROVE  UserInv'
  BY <1>6, PasswordIsWrong, PasswordIsRight, AccountIsReleased, StatusIsSet, AccountIsEdited
<1>7. ASSUME NEW h \in Handlers,
             \/ IssueToken(h) \/ RotateToken(h) \/ Logout(h) \/ ReuseDetected(h)
      PROVE  UserInv'
  <2>1. SesTypeOK'
    BY <1>1, <1>7, TokenTypes DEF UserInv
  <2>2. QED
    BY <1>7, <2>1, OthersLeaveTheUser
<1>8. ASSUME NEW h \in Handlers,
             \/ StartUnlock(h) \/ StartChange(h) \/ StartReset(h) \/ StartConfirm(h)
             \/ StartTemporary(h) \/ \E status \in Statuses : StartStatus(h, status)
             \/ \E t \in Tokens : StartRotate(h, t) \/ StartLogout(h, t)
      PROVE  UserInv'
  <2>1. SesTypeOK'
    BY <1>8, StartTypes DEF UserInv
  <2>2. QED
    BY <1>8, <2>1, OthersLeaveTheUser
<1>9. ASSUME NEW h \in Handlers, Stale(h) \/ StaleToken(h) \/ MailSent(h)
      PROVE  UserInv'
  <2>1. SesTypeOK'
    BY <1>9, OtherTypes DEF UserInv
  <2>2. QED
    BY <1>9, <2>1, OthersLeaveTheUser
<1>10. QED
  BY <1>2, <1>3, <1>4, <1>5, <1>6, <1>7, <1>8, <1>9 DEF SesNext

-----------------------------------------------------------------------------
(* The tokens.                                                             *)

(* Tokens grow old: they keep their parents, and none becomes usable.      *)
Aged ==
    \A t \in Tokens :
        /\ tokens'[t].parent = tokens[t].parent
        /\ tokens[t].version <= tokens'[t].version
        /\ tokens[t].state = "revoked" => tokens'[t].state = "revoked"
        /\ tokens[t].state = "none" => tokens'[t] = tokens[t]
        /\ tokens[t].state # "none" => tokens'[t].state # "none"

LEMMA TokensAge ==
    ASSUME TokenInv, SesTypeOK', Aged,
           \A h \in Handlers : handlers'[h].op \in {"rotate", "logout", "issue"} =>
              \/ handlers'[h] = handlers[h]
              \/ handlers'[h].op = "issue" /\ handlers'[h].parent = 0
    PROVE  TokenInv'
<1>1. \A t \in Tokens : t # 0
  BY SessionAssumption DEF Tokens
<1>2. \A t \in Tokens : Succeeded(t)' <=> Succeeded(t)
  BY DEF Succeeded, Aged
<1>3. \A h \in Handlers, t \in Tokens : Issuing(h, t)' => Issuing(h, t)
  BY <1>1 DEF Issuing
<1>4. \A t \in Tokens : Spent(t)' => Spent(t)
  BY <1>2, <1>3 DEF Spent
<1>5. \A h \in Handlers, t \in Tokens : Holds(h, t)' => Holds(h, t) /\ handlers'[h] = handlers[h]
  BY DEF Holds
<1>6. \A t \in Tokens : tokens'[t].state = "none" => tokens'[t] = NoToken
  BY DEF TokenInv, Aged
<1>7. \A t \in Tokens : Spent(t)' => tokens'[t].state = "revoked"
  BY <1>4 DEF TokenInv, Aged
<1>8. \A h \in Handlers : handlers'[h].op \in {"rotate", "logout"} =>
          handlers'[h].token \in Tokens
  BY DEF TokenInv
<1>9. ASSUME NEW h \in Handlers, NEW t \in Tokens, Holds(h, t)'
      PROVE  /\ tokens'[t].state # "none"
             /\ handlers'[h].tokenVersion <= tokens'[t].version
             /\ Spent(t)' => handlers'[h].tokenVersion < tokens'[t].version
  <2>1. /\ Holds(h, t) /\ handlers'[h] = handlers[h]
        /\ tokens[t].version \in Nat /\ tokens'[t].version \in Nat
        /\ handlers[h].tokenVersion \in Nat
    BY <1>5, <1>9 DEF TokenInv, SesTypeOK, TokenRow, Request
  <2>2. tokens[t].version <= tokens'[t].version
    BY DEF Aged
  <2>3. /\ tokens[t].state # "none" /\ handlers[h].tokenVersion <= tokens[t].version
        /\ Spent(t) => handlers[h].tokenVersion < tokens[t].version
    BY <2>1 DEF TokenInv
  <2>4. tokens'[t].state # "none"
    BY <2>3 DEF Aged
  <2>5. QED
    BY <1>4, <2>1, <2>2, <2>3, <2>4
<1>10. \A t, u, v \in Tokens : u # v /\ tokens'[u].parent = t => tokens'[v].parent # t
  BY DEF TokenInv, Aged
<1>11. \A h \in Handlers, t \in Tokens : Issuing(h, t)' =>
          ~Succeeded(t)' /\ \A g \in Handlers \ {h} : ~Issuing(g, t)'
  BY <1>2, <1>3 DEF TokenInv
<1>12. QED
  BY <1>6, <1>7, <1>8, <1>9, <1>10, <1>11 DEF TokenInv

LEMMA NothingAges ==
    ASSUME SesTypeOK, tokens' = tokens
    PROVE  Aged
<1>1. \A t \in Tokens : tokens[t].version <= tokens[t].version
  BY DEF SesTypeOK, TokenRow
<1>2. QED
  BY <1>1 DEF Aged

(* What a request writes to its own record. *)
LEMMA OwnRecord ==
    ASSUME SesTypeOK, NEW h \in Handlers, NEW s,
           handlers' = [handlers EXCEPT ![h] = s]
    PROVE  \A g \in Handlers : handlers'[g] = IF g = h THEN s ELSE handlers[g]
  BY DEF SesTypeOK

LEMMA UsersLeaveTokens ==
    ASSUME TokenInv, SesTypeOK', NEW h \in Handlers,
           \/ \E wrong \in BOOLEAN : StartLogin(h, wrong)
           \/ WrongPassword(h) \/ RightPassword(h) \/ StartUnlock(h) \/ CommitUnlock(h)
           \/ StartChange(h) \/ ChangePassword(h) \/ StartConfirm(h)
           \/ StartReset(h) \/ StoreReset(h) \/ MailSent(h) \/ MailFailed(h)
           \/ Stale(h) \/ StaleToken(h)
           \/ StartTemporary(h) \/ TemporaryPassword(h)
           \/ SetStatus(h) \/ \E status \in Statuses : StartStatus(h, status)
    PROVE  TokenInv'
<1> DEFINE Harmless(s) == \/ s.op \notin {"rotate", "logout", "issue"}
                          \/ s.op = "issue" /\ s.parent = 0
<1>1. ASSUME NEW s, Harmless(s), Begin(h, s)
      PROVE  TokenInv'
  BY <1>1, OwnRecord, NothingAges, TokensAge DEF Begin, TokenInv
<1>2. ASSUME NEW s, Harmless(s), tokens' = tokens, handlers' = [handlers EXCEPT ![h] = s]
      PROVE  TokenInv'
  BY <1>2, OwnRecord, NothingAges, TokensAge DEF TokenInv
<1>3. /\ Harmless(Idle) /\ Harmless([Idle EXCEPT !.op = "issue"])
      /\ \A n : Harmless([Idle EXCEPT !.op = "mailed", !.version = n])
      /\ \A op \in {"unlock", "password", "reset", "confirm", "temporary"} :
            Harmless(WithUser(op))
      /\ \A status : Harmless(StatusOf(status))
  BY DEF Idle, WithUser, StatusOf
<1>4. \A wrong \in BOOLEAN : Harmless(LoginOf(wrong))
  BY LoginFields DEF TokenInv
<1> HIDE DEF Harmless
<1>5. CASE \E wrong \in BOOLEAN : StartLogin(h, wrong)
  BY <1>1, <1>4, <1>5 DEF StartLogin, LoginOf
<1>6. CASE \/ StartUnlock(h) \/ StartChange(h) \/ StartConfirm(h) \/ StartReset(h)
           \/ StartTemporary(h) \/ \E status \in Statuses : StartStatus(h, status)
  BY <1>1, <1>3, <1>6 DEF StartUnlock, StartChange, StartConfirm, StartReset,
     StartTemporary, StartStatus, StatusOf
<1>7. CASE \/ WrongPassword(h) \/ CommitUnlock(h) \/ ChangePassword(h)
           \/ MailSent(h) \/ MailFailed(h) \/ Stale(h) \/ StaleToken(h)
           \/ TemporaryPassword(h) \/ SetStatus(h)
  <2>1. tokens' = tokens /\ handlers' = [handlers EXCEPT ![h] = Idle]
    BY <1>7 DEF WrongPassword, CommitUnlock, ChangePassword, MailSent, MailFailed,
       TemporaryPassword, SetStatus, Stale, StaleToken, Leave
  <2>2. QED
    BY <1>2, <1>3, <2>1
<1>8. CASE RightPassword(h) \/ StoreReset(h)
  BY <1>2, <1>3, <1>8 DEF RightPassword, StoreReset
<1>9. QED
  BY <1>5, <1>6, <1>7, <1>8

(* A request that revokes what it finds, and the time that passes. *)
LEMMA RevokedAge ==
    ASSUME TokenInv, SesTypeOK',
           \/ \E h \in Handlers : Logout(h) \/ ReuseDetected(h) \/ ConfirmReset(h)
           \/ \E t \in Tokens : TokenExpires(t)
           \/ LockTimePasses \/ ResetExpires
    PROVE  TokenInv'
<1>1. SesTypeOK
  BY DEF TokenInv
<1>2. ASSUME NEW h \in Handlers, Logout(h)
      PROVE  TokenInv'
  <2> DEFINE t == handlers[h].token
  <2>1. t \in Tokens /\ Holds(h, t)
    BY <1>2 DEF Logout, TokenInv, Holds
  <2>2. tokens[t].state # "none" /\ tokens[t].version \in Nat
        /\ \A u \in Tokens : tokens[u].version <= tokens[u].version
    BY <1>1, <2>1 DEF TokenInv, SesTypeOK, TokenRow
  <2>3. /\ \A u \in Tokens \ {t} : tokens'[u] = tokens[u]
        /\ tokens'[t].state = "revoked" /\ tokens'[t].parent = tokens[t].parent
        /\ tokens'[t].version = tokens[t].version + 1
    BY <1>1, <1>2, <2>1, RevokeTypes DEF Logout
  <2>4. Aged
    BY <2>2, <2>3 DEF Aged
  <2>5. Idle.op = "idle" /\ handlers' = [handlers EXCEPT ![h] = Idle]
    BY <1>2 DEF Logout, Leave, Idle
  <2>6. QED
    BY <1>1, <2>4, <2>5, OwnRecord, TokensAge
<1>3. ASSUME NEW h \in Handlers, ReuseDetected(h) \/ ConfirmReset(h)
      PROVE  TokenInv'
  <2>1. RevokeAll /\ handlers' = [handlers EXCEPT ![h] = Idle] /\ Idle.op = "idle"
    BY <1>3 DEF ReuseDetected, ConfirmReset, Leave, Idle
  <2>2. \A t \in Tokens : tokens[t].state \in {"none", "live", "expired", "revoked"}
    BY <1>1 DEF SesTypeOK, TokenRow
  <2>3. Aged
    BY <1>1, <2>1, <2>2, RevokeAllTypes DEF Aged
  <2>4. QED
    BY <1>1, <2>1, <2>3, OwnRecord, TokensAge
<1>4. ASSUME NEW t \in Tokens, TokenExpires(t)
      PROVE  TokenInv'
  <2>1. \A u \in Tokens : tokens[u] \in TokenRow /\ tokens[u].version <= tokens[u].version
    BY <1>1 DEF SesTypeOK, TokenRow
  <2>2. Aged
    BY <1>1, <1>4, <2>1 DEF TokenExpires, Aged, SesTypeOK, TokenRow
  <2>3. QED
    BY <1>4, <2>2, TokensAge DEF TokenExpires
<1>5. CASE LockTimePasses \/ ResetExpires
  BY <1>1, <1>5, NothingAges, TokensAge DEF LockTimePasses, ResetExpires
<1>6. QED
  BY <1>2, <1>3, <1>4, <1>5

(* A token that a request may present was not rotated. *)
LEMMA PresentedIsUnspent ==
    ASSUME TokenInv, SesTypeOK', NEW h \in Handlers, NEW t \in Tokens,
           StartRotate(h, t) \/ StartLogout(h, t)
    PROVE  TokenInv'
<1>1. SesTypeOK
  BY DEF TokenInv
<1>2. CASE Begin(h, [Idle EXCEPT !.op = "reused"])
  <2>1. [Idle EXCEPT !.op = "reused"].op = "reused"
    BY DEF Idle
  <2>2. QED
    BY <1>1, <1>2, <2>1, OwnRecord, NothingAges, TokensAge DEF Begin
<1>3. ASSUME NEW op \in {"rotate", "logout"}, Begin(h, WithToken(op, t)),
             tokens[t].state \in {"live", "expired"}
      PROVE  TokenInv'
  <2> DEFINE s == WithToken(op, t)
  <2>1. s.op = op /\ s.token = t /\ s.tokenVersion = tokens[t].version
    BY DEF WithToken, Idle
  <2>2. tokens' = tokens /\ \A g \in Handlers : handlers'[g] = IF g = h THEN s ELSE handlers[g]
    BY <1>1, <1>3, OwnRecord DEF Begin
  <2> HIDE DEF s
  <2>3. \A u \in Tokens : Succeeded(u)' <=> Succeeded(u)
    BY <2>2 DEF Succeeded
  <2>4. \A g \in Handlers, u \in Tokens : Issuing(g, u)' => Issuing(g, u)
    BY <2>1, <2>2 DEF Issuing
  <2>5. \A u \in Tokens : Spent(u)' => Spent(u)
    BY <2>3, <2>4 DEF Spent
  <2>6. ~Spent(t) /\ tokens[t].version \in Nat
    BY <1>1, <1>3 DEF TokenInv, SesTypeOK, TokenRow
  <2>7. \A u \in Tokens : Spent(u)' => tokens'[u].state = "revoked"
    BY <2>2, <2>5 DEF TokenInv
  <2>8. ASSUME NEW g \in Handlers, NEW u \in Tokens, Holds(g, u)'
        PROVE  /\ tokens'[u].state # "none"
               /\ handlers'[g].tokenVersion <= tokens'[u].version
               /\ Spent(u)' => handlers'[g].tokenVersion < tokens'[u].version
    <3>1. CASE g = h
      BY <1>3, <2>1, <2>2, <2>5, <2>6, <2>8, <3>1 DEF Holds
    <3>2. CASE g # h
      BY <2>2, <2>5, <2>8, <3>2 DEF Holds, TokenInv
    <3>3. QED
      BY <3>1, <3>2
  <2>9. \A g \in Handlers : handlers'[g].op \in {"rotate", "logout"} =>
            handlers'[g].token \in Tokens
    BY <2>1, <2>2 DEF TokenInv
  <2>10. \A g \in Handlers, u \in Tokens : Issuing(g, u)' =>
            ~Succeeded(u)' /\ \A f \in Handlers \ {g} : ~Issuing(f, u)'
    BY <2>3, <2>4 DEF TokenInv
  <2>11. QED
    BY <2>2, <2>7, <2>8, <2>9, <2>10 DEF TokenInv
<1>4. QED
  BY <1>2, <1>3 DEF StartRotate, StartLogout

(* Of the requests that hold a token, the first that commits rotates it:   *)
(* the others have read a version that has passed.                         *)
LEMMA OneRotates ==
    ASSUME TokenInv, SesTypeOK', NEW h \in Handlers, RotateToken(h)
    PROVE  TokenInv'
<1> DEFINE t == handlers[h].token
           s == [Idle EXCEPT !.op = "issue", !.parent = t]
<1>1. SesTypeOK /\ t \in Tokens /\ Holds(h, t)
  BY DEF TokenInv, RotateToken, Holds
<1>2. s.op = "issue" /\ s.parent = t
  BY DEF Idle
<1>3. \A g \in Handlers : handlers'[g] = IF g = h THEN s ELSE handlers[g]
  <2>1. handlers' = [handlers EXCEPT ![h] = s]
    BY DEF RotateToken
  <2>2. QED
    BY <1>1, <2>1, OwnRecord
<1>4. /\ \A u \in Tokens \ {t} : tokens'[u] = tokens[u]
      /\ tokens[t].version = handlers[h].tokenVersion
      /\ tokens'[t].state = "revoked" /\ tokens'[t].parent = tokens[t].parent
      /\ tokens'[t].version = tokens[t].version + 1
  BY <1>1, RevokeTypes DEF RotateToken
<1>5. handlers[h].op = "rotate"
  BY DEF RotateToken
<1>6. tokens[t].version \in Nat /\ ~Spent(t)
  BY <1>1, <1>4 DEF TokenInv, SesTypeOK, TokenRow
<1> HIDE DEF s, t
<1>7. \A u \in Tokens : Succeeded(u)' <=> Succeeded(u)
  BY <1>4 DEF Succeeded
<1>8. \A g \in Handlers, u \in Tokens :
          Issuing(g, u)' <=> IF g = h THEN u = t ELSE Issuing(g, u)
  BY <1>2, <1>3 DEF Issuing
<1>9. \A u \in Tokens : Spent(u)' => u = t \/ Spent(u)
  BY <1>7, <1>8 DEF Spent
<1>10. \A u \in Tokens : tokens'[u].state = "none" => tokens'[u] = NoToken
  BY <1>4 DEF TokenInv
<1>11. \A u \in Tokens : Spent(u)' => tokens'[u].state = "revoked"
  BY <1>4, <1>9 DEF TokenInv
<1>12. \A g \in Handlers : handlers'[g].op \in {"rotate", "logout"} =>
          handlers'[g].token \in Tokens
  BY <1>2, <1>3 DEF TokenInv
<1>13. ASSUME NEW g \in Handlers, NEW u \in Tokens, Holds(g, u)'
       PROVE  /\ tokens'[u].state # "none"
              /\ handlers'[g].tokenVersion <= tokens'[u].version
              /\ Spent(u)' => handlers'[g].tokenVersion < tokens'[u].version
  <2>1. g # h /\ Holds(g, u) /\ handlers'[g] = handlers[g]
    BY <1>2, <1>3, <1>13 DEF Holds
  <2>2. /\ tokens[u].state # "none" /\ handlers[g].tokenVersion <= tokens[u].version
        /\ Spent(u) => handlers[g].tokenVersion < tokens[u].version
        /\ handlers[g].tokenVersion \in Nat
    BY <1>1, <2>1 DEF TokenInv, SesTypeOK, Request
  <2>3. CASE u = t
    BY <1>4, <1>6, <2>1, <2>2, <2>3
  <2>4. CASE u # t
    BY <1>4, <1>9, <2>1, <2>2, <2>4
  <2>5. QED
    BY <2>3, <2>4
<1>14. \A u, v, w \in Tokens : v # w /\ tokens'[v].parent = u => tokens'[w].parent # u
  BY <1>4 DEF TokenInv
<1>15. \A g \in Handlers, u \in Tokens : Issuing(g, u)' =>
          ~Succeeded(u)' /\ \A f \in Handlers \ {g} : ~Issuing(f, u)'
  BY <1>6, <1>7, <1>8 DEF TokenInv, Spent
<1>16. QED
  BY <1>10, <1>11, <1>12, <1>13, <1>14, <1>15 DEF TokenInv

(* The successor is issued by the one request that rotated its parent. *)
LEMMA OneIsIssued ==
    ASSUME TokenInv, SesTypeOK', NEW h \in Handlers, IssueToken(h)
    PROVE  TokenInv'
<1> DEFINE p == handlers[h].parent
<1>1. SesTypeOK /\ handlers[h].op = "issue" /\ Idle.op = "idle"
  BY DEF TokenInv, IssueToken, Idle
<1>2. PICK t \in Tokens :
        /\ tokens[t] = NoToken
        /\ tokens' = [tokens EXCEPT ![t] = [state |-> "live", version |-> 0, parent |-> p]]
  BY DEF IssueToken
<1>3. /\ \A u \in Tokens \ {t} : tokens'[u] = tokens[u]
      /\ tokens'[t].state = "live" /\ tokens'[t].parent = p
  BY <1>1, <1>2 DEF SesTypeOK
<1>4. tokens[t].state = "none" /\ tokens[t].parent = 0 /\ ~Spent(t)
  BY <1>2 DEF NoToken, TokenInv
<1>5. \A g \in Handlers : handlers'[g] = IF g = h THEN Idle ELSE handlers[g]
  <2>1. handlers' = [handlers EXCEPT ![h] = Idle]
    BY DEF IssueToken, Leave
  <2>2. QED
    BY <1>1, <2>1, OwnRecord
<1>6. \A u \in Tokens : u # 0
  BY SessionAssumption DEF Tokens
<1>7. \A u \in Tokens : u = p => Issuing(h, u) /\ Spent(u) /\ u # t
  BY <1>1, <1>4 DEF Issuing, Spent
<1> HIDE DEF p
<1>8. \A u \in Tokens : Succeeded(u)' => u = p \/ Succeeded(u)
  BY <1>3 DEF Succeeded
<1>9. \A g \in Handlers, u \in Tokens : Issuing(g, u)' => g # h /\ Issuing(g, u)
  BY <1>1, <1>5 DEF Issuing
<1>10. \A u \in Tokens : Spent(u)' => Spent(u) /\ u # t
  BY <1>4, <1>7, <1>8, <1>9 DEF Spent
<1>11. \A u \in Tokens : tokens'[u].state = "none" => tokens'[u] = NoToken
  BY <1>3 DEF TokenInv
<1>12. \A u \in Tokens : Spent(u)' => tokens'[u].state = "revoked"
  BY <1>3, <1>10 DEF TokenInv
<1>13. \A g \in Handlers : handlers'[g].op \in {"rotate", "logout"} =>
          handlers'[g].token \in Tokens
  BY <1>1, <1>5 DEF TokenInv
<1>14. ASSUME NEW g \in Handlers, NEW u \in Tokens, Holds(g, u)'
       PROVE  /\ tokens'[u].state # "none"
              /\ handlers'[g].tokenVersion <= tokens'[u].version
              /\ Spent(u)' => handlers'[g].tokenVersion < tokens'[u].version
  <2>1. Holds(g, u) /\ handlers'[g] = handlers[g]
    BY <1>1, <1>5, <1>14 DEF Holds
  <2>2. /\ tokens[u].state # "none" /\ handlers[g].tokenVersion <= tokens[u].version
        /\ Spent(u) => handlers[g].tokenVersion < tokens[u].version
    BY <2>1 DEF TokenInv
  <2>3. QED
    BY <1>3, <1>4, <1>10, <2>1, <2>2
<1>15. ASSUME NEW u \in Tokens, NEW v \in Tokens, NEW w \in Tokens, v # w,
              tokens'[v].parent = u
       PROVE  tokens'[w].parent # u
  <2>1. CASE u = p
    <3>1. ~Succeeded(u)
      BY <1>7, <2>1 DEF TokenInv
    <3>2. QED
      BY <1>3, <1>15, <3>1 DEF Succeeded
  <2>2. CASE u # p
    BY <1>3, <1>15, <2>2 DEF TokenInv
  <2>3. QED
    BY <2>1, <2>2
<1>16. ASSUME NEW g \in Handlers, NEW u \in Tokens, Issuing(g, u)'
       PROVE  ~Succeeded(u)' /\ \A f \in Handlers \ {g} : ~Issuing(f, u)'
  <2>1. g # h /\ Issuing(g, u) /\ ~Succeeded(u)
        /\ \A f \in Handlers \ {g} : ~Issuing(f, u)
    BY <1>9, <1>16 DEF TokenInv
  <2>2. u # p
    BY <1>7, <2>1
  <2>3. QED
    BY <1>8, <1>9, <2>1, <2>2
<1>17. QED
  BY <1>11, <1>12, <1>13, <1>14, <1>15, <1>16 DEF TokenInv

LEMMA TokenInvKept ==
    ASSUME TokenInv, [SesNext]_sesVars, SesTypeOK'
    PROVE  TokenInv'
<1>1. CASE UNCHANGED sesVars
  BY <1>1, NothingAges, TokensAge DEF sesVars, TokenInv
<1>2. CASE LockTimePasses \/ ResetExpires \/ \E t \in Tokens : TokenExpires(t)
  BY <1>2, RevokedAge
<1>3. ASSUME NEW h \in Handlers, NEW t \in Tokens, StartRotate(h, t) \/ StartLogout(h, t)
      PROVE  TokenInv'
  BY <1>3, PresentedIsUnspent
<1>4. ASSUME NEW h \in Handlers,
             \/ \E wrong \in BOOLEAN : StartLogin(h, wrong)
             \/ WrongPassword(h) \/ RightPassword(h) \/ StartUnlock(h) \/ CommitUnlock(h)
             \/ StartChange(h) \/ ChangePassword(h) \/ StartConfirm(h)
             \/ StartReset(h) \/ StoreReset(h) \/ MailSent(h) \/ MailFailed(h)
             \/ Stale(h) \/ StaleToken(h)
             \/ StartTemporary(h) \/ TemporaryPassword(h)
             \/ SetStatus(h) \/ \E status \in Statuses : StartStatus(h, status)
      PROVE  TokenInv'
  BY <1>4, UsersLeaveTokens
<1>5. ASSUME NEW h \in Handlers,
             \/ IssueToken(h) \/ RotateToken(h)
             \/ Logout(h) \/ ReuseDetected(h) \/ ConfirmReset(h)
      PROVE  TokenInv'
  BY <1>5, RevokedAge, OneRotates, OneIsIssued
<1>6. QED
  BY <1>1, <1>2, <1>3, <1>4, <1>5 DEF SesNext

-----------------------------------------------------------------------------
(* The theorems.                                                           *)

LEMMA InvInitially ==
    ASSUME SesInit
    PROVE  UserInv /\ TokenInv
<1>1. SesTypeOK
  BY RequestTypes DEF SesInit, SesTypeOK, UserRow, Statuses
<1>2. /\ \A h \in Handlers : handlers[h] = Idle
      /\ \A t \in Tokens : tokens[t] = NoToken /\ t # 0
  BY SessionAssumption DEF SesInit, Tokens
<1>3. AttemptsAreCounted
  BY SessionAssumption DEF SesInit, AttemptsAreCounted
<1>4. UserInv
  BY <1>1, <1>2, <1>3 DEF UserInv, Idle
<1>5. \A t \in Tokens : ~Spent(t)
  BY <1>2 DEF Spent, Succeeded, Issuing, Idle, NoToken
<1>6. TokenInv
  BY <1>1, <1>2, <1>5 DEF TokenInv, Holds, Issuing, Idle, NoToken
<1>7. QED
  BY <1>4, <1>6

(* Every reachable state has the types of SesTypeOK, every login that has  *)
(* read the present version of the account is entitled to its commit, and  *)
(* a request that may rotate a token holds one that nobody rotated yet.    *)
THEOREM SessionsInvariant == SesSpec => [](UserInv /\ TokenInv)
<1>1. ASSUME UserInv, TokenInv, [SesNext]_sesVars
      PROVE  UserInv' /\ TokenInv'
  <2>1. UserInv'
    BY <1>1, UserInvKept
  <2>2. SesTypeOK'
    BY <2>1 DEF UserInv
  <2>3. TokenInv'
    BY <1>1, <2>2, TokenInvKept
  <2>4. QED
    BY <2>1, <2>3
<1>2. QED
  BY InvInitially, <1>1, PTL DEF SesSpec

(* refresh_token_rotation: no token has two successors, however many       *)
(* requests present it at once.                                            *)
THEOREM OneSuccessorHolds == SesSpec => []OneSuccessor
<1>1. ASSUME TokenInv
      PROVE  OneSuccessor
  <2>1. \A t \in Tokens : tokens[t].parent \in {0} \cup Tokens
    BY <1>1 DEF TokenInv, SesTypeOK, TokenRow
  <2>2. QED
    BY <1>1, <2>1 DEF TokenInv, OneSuccessor
<1>2. QED
  BY <1>1, SessionsInvariant, PTL

(* authenticate: whatever commits in between, every answered failed login  *)
(* is counted, and a full counter and a locked account go together until   *)
(* somebody sets the status by hand.                                       *)
THEOREM AttemptsAreCountedHolds == SesSpec => []AttemptsAreCounted
<1>1. UserInv => AttemptsAreCounted
  BY DEF UserInv
<1>2. QED
  BY <1>1, SessionsInvariant, PTL
=============================================================================
