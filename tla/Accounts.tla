------------------------------ MODULE Accounts ------------------------------
(***************************************************************************)
(* AuthService and UsersService on one account: logins that fail or        *)
(* succeed, the lock after too many failures, the administrator's block,   *)
(* password recovery, and the sessions whose tokens are exchanged.         *)
(*                                                                         *)
(* Every operation on the account reads its row, hashes for a while, and   *)
(* saves the whole row: a save undoes what others saved in between.        *)
(* The audit messages, which nothing here reads back, are left out.        *)
(*                                                                         *)
(* Bound: a behaviour serves one work, that on the account, whose logins   *)
(* find the ids of sessions used up, or that on its sessions.              *)
(***************************************************************************)
EXTENDS Naturals, Sequences, FiniteSets, Requests

CONSTANTS
  Passwords,    \* passwords that are typed
  First,        \* the password of the account at first
  Threshold,    \* failedLoginLockThreshold
  LockTime,     \* accountLockMinutes
  SessionTime,  \* refreshExpiresIn
  TokenTime,    \* passwordResetTokenMinutes
  Works,        \* the works that are watched
  MaxTime,      \* bound: time at which the clock stops
  MaxAttempts,  \* bound: failed logins that are counted
  MaxTokens,    \* bound: recovery tokens that are sent
  MaxSessions   \* ids agd_auth_session can give out

ASSUME AccountsAssumption ==
  /\ First \in Passwords /\ Works \subseteq {"account", "sessions"}
  /\ Threshold \in Nat \ {0} /\ LockTime \in Nat /\ SessionTime \in Nat /\ TokenTime \in Nat
  /\ MaxTime \in Nat /\ MaxAttempts \in Nat /\ MaxTokens \in Nat /\ MaxSessions \in Nat

VARIABLES
  work,       \* the work of this behaviour
  clock,      \* Date.now()
  user,       \* the res_users row
  sessions,   \* agd_auth_session rows
  tokens,     \* recovery tokens given out
  stale,      \* history: a user was saved that had changed since it was read
  blocked,    \* history: the last administrator to be answered had blocked the account
  strikes,    \* history: failed logins recorded since the last that clears them
  lastStrike, \* history: when the last of them was recorded
  raced,      \* history: sessions that were revoked between a refresh's read and its save
  lost        \* history: sessions that a refresh revoked and then answered with an error

accountRows == <<user, sessions>>
histories   == <<stale, blocked, strikes, lastStrike, raced, lost>>
vars        == <<work, pc, ctx, clock, accountRows, tokens, histories>>

Ids     == 1..MaxSessions
UserRow == [active      : BOOLEAN,
            attempts    : 0..MaxAttempts,
            lockedUntil : 0..MaxTime + LockTime,
            password    : Passwords,
            token       : 0..MaxTokens,
            tokenUntil  : 0..MaxTime + TokenTime]
SessionRow ==
  [revoked : {"no", "refresh", "user"},   \* revokedAt, and what set it first
   until   : 0..MaxTime + SessionTime,
   parent  : {0} \cup Ids]                \* not a column: the session it was exchanged for

UserOps == {"login", "fail", "recover", "reset", "change", "block", "unblock"}
Context ==
  [op : UserOps, user : UserRow, password : Passwords, token : 0..MaxTokens, session : {0}] \cup
  [op : {"refresh", "revoke"}, session : Ids, seen : {"no", "refresh", "user"}]

TypeOK ==
  /\ work \in Works
  /\ clock \in 0..MaxTime
  /\ user \in UserRow
  /\ sessions \in Seq(SessionRow) /\ Len(sessions) <= MaxSessions
  /\ tokens \in 0..MaxTokens
  /\ stale \in BOOLEAN /\ blocked \in BOOLEAN
  /\ strikes \in 0..MaxAttempts /\ lastStrike \in 0..MaxTime
  /\ raced \subseteq Ids /\ lost \subseteq Ids
  /\ pc \in [Handlers -> {"idle", "saveUser", "saveRevoked", "findUser", "issue"}]
  /\ ctx \in [Handlers -> Context \cup {NoContext}]

Init ==
  /\ work \in Works
  /\ RequestsInit
  /\ clock = 0 /\ sessions = <<>> /\ tokens = 0
  /\ user = [active |-> TRUE, attempts |-> 0, lockedUntil |-> 0,
             password |-> First, token |-> 0, tokenUntil |-> 0]
  /\ stale = FALSE /\ blocked = FALSE /\ strikes = 0 /\ lastStrike = 0
  /\ raced = {} /\ lost = {}

Tick ==
  /\ clock < MaxTime
  /\ clock' = clock + 1
  /\ UNCHANGED <<pc, ctx, accountRows, tokens, histories>>

-----------------------------------------------------------------------------
(***************************************************************************)
(* What the operations on the account read and require                     *)
(***************************************************************************)
ReadUser(h, op, password, token) ==
  /\ Begin(h, "saveUser", [op |-> op, user |-> user, password |-> password,
                           token |-> token, session |-> 0])
  /\ UNCHANGED <<clock, accountRows, histories>>

\* Bound: the failures that are counted.
Login(h, password) ==
  /\ user.active /\ user.lockedUntil <= clock
  /\ \/ password = user.password /\ ReadUser(h, "login", password, 0)
     \/ password # user.password /\ user.attempts < MaxAttempts
        /\ ReadUser(h, "fail", password, 0)
  /\ UNCHANGED tokens

\* Whether the account is active makes no difference, here and below.
RecoverPassword(h) ==
  /\ tokens < MaxTokens
  /\ tokens' = tokens + 1
  /\ ReadUser(h, "recover", First, tokens + 1)

\* Only the token that was saved last matches.
ResetPassword(h, password) ==
  /\ user.token # 0 /\ user.tokenUntil >= clock
  /\ ReadUser(h, "reset", password, user.token) /\ UNCHANGED tokens

\* By whoever holds an access token, which no row revokes.
ChangePassword(h, current, password) ==
  /\ current = user.password
  /\ ReadUser(h, "change", password, 0) /\ UNCHANGED tokens

Block(h)   == ReadUser(h, "block", First, 0) /\ UNCHANGED tokens
Unblock(h) == ReadUser(h, "unblock", First, 0) /\ UNCHANGED tokens

-----------------------------------------------------------------------------
(***************************************************************************)
(* The row that they save                                                  *)
(***************************************************************************)
Cleared(row) == [row EXCEPT !.attempts = 0, !.lockedUntil = 0]

\* Mutant of LockDue: the lock comes one failure late.
LockDueLate(attempts) == attempts > Threshold

LockDue(attempts) == attempts >= Threshold

\* Mutant of Failed: a failure is counted by the login and by registerFailedLogin.
FailedTwice(row) ==
  [row EXCEPT !.attempts = @ + 2,
              !.lockedUntil = IF LockDue(row.attempts + 2) THEN clock + LockTime ELSE @]

\* registerFailedLogin
Failed(row) ==
  [row EXCEPT !.attempts = @ + 1,
              !.lockedUntil = IF LockDue(row.attempts + 1) THEN clock + LockTime ELSE @]

RowAfter(c) ==
  CASE c.op = "login"   -> Cleared(c.user)
    [] c.op = "fail"    -> Failed(c.user)
    [] c.op = "recover" -> [c.user EXCEPT !.token = c.token, !.tokenUntil = clock + TokenTime]
    [] c.op = "reset"   -> [Cleared(c.user) EXCEPT !.password = c.password, !.token = 0,
                                                   !.tokenUntil = 0]
    [] c.op = "change"  -> [c.user EXCEPT !.password = c.password]
    [] c.op = "block"   -> [c.user EXCEPT !.active = FALSE]
    [] c.op = "unblock" -> [Cleared(c.user) EXCEPT !.active = TRUE]

SaveUser(h) ==
  LET op == ctx[h].op
  IN /\ pc[h] = "saveUser"
     /\ user' = RowAfter(ctx[h])
     /\ IF op \in {"login", "change"} THEN Goto(h, "issue") /\ UNCHANGED ctx ELSE Leave(h)
     /\ stale' = (stale \/ user # ctx[h].user)
     /\ blocked' = IF op \in {"block", "unblock"} THEN op = "block" ELSE blocked
     /\ strikes' = IF op = "fail" THEN IF strikes < MaxAttempts THEN strikes + 1 ELSE strikes
                   ELSE IF op \in {"login", "reset", "unblock"} THEN 0 ELSE strikes
     /\ lastStrike' = IF op = "fail" THEN clock ELSE lastStrike
     /\ UNCHANGED <<clock, sessions, tokens, raced, lost>>

-----------------------------------------------------------------------------
(***************************************************************************)
(* Sessions                                                                *)
(***************************************************************************)
\* Mutant of Refresh: a token is exchanged as long as it has not expired.
RefreshAgain(h, s) ==
  /\ sessions[s].until >= clock
  /\ Begin(h, "saveRevoked", [op |-> "refresh", session |-> s, seen |-> sessions[s].revoked])
  /\ UNCHANGED <<clock, accountRows, tokens, histories>>

Refresh(h, s) ==
  /\ sessions[s].revoked = "no" /\ sessions[s].until >= clock
  /\ Begin(h, "saveRevoked", [op |-> "refresh", session |-> s, seen |-> sessions[s].revoked])
  /\ UNCHANGED <<clock, accountRows, tokens, histories>>

\* A session that was revoked may be again.
RevokeSession(h, s) ==
  /\ Begin(h, "saveRevoked", [op |-> "revoke", session |-> s, seen |-> sessions[s].revoked])
  /\ UNCHANGED <<clock, accountRows, tokens, histories>>

Revoked(s, by) == [sessions EXCEPT ![s].revoked = IF @ = "no" THEN by ELSE @]

SaveRevoked(h) ==
  LET s == ctx[h].session
  IN /\ pc[h] = "saveRevoked"
     /\ IF ctx[h].op = "refresh"
        THEN /\ sessions' = Revoked(s, "refresh")
             /\ raced' = IF sessions[s].revoked = ctx[h].seen THEN raced ELSE raced \cup {s}
             /\ Goto(h, "findUser") /\ UNCHANGED ctx
        ELSE sessions' = Revoked(s, "user") /\ Leave(h) /\ UNCHANGED raced
     /\ UNCHANGED <<clock, user, tokens, stale, blocked, strikes, lastStrike, lost>>

\* One UPDATE, which reads nothing first.
Logout(s) ==
  /\ sessions' = Revoked(s, "user")
  /\ UNCHANGED <<pc, ctx, clock, user, tokens, histories>>

FindUser(h) ==
  /\ pc[h] = "findUser"
  /\ user.active
  /\ Goto(h, "issue")
  /\ UNCHANGED <<ctx, clock, accountRows, tokens, histories>>

\* The handler throws or dies; what a refresh has revoked stays revoked.
Throw(h) ==
  /\ Leave(h)
  /\ lost' = IF pc[h] \in {"findUser", "issue"} /\ ctx[h].op = "refresh"
             THEN lost \cup {ctx[h].session} ELSE lost
  /\ UNCHANGED <<clock, accountRows, tokens, stale, blocked, strikes, lastStrike, raced>>

UserInactive(h) == pc[h] = "findUser" /\ ~user.active /\ Throw(h)

SessionIdsLeft == work = "sessions" /\ Len(sessions) < MaxSessions

\* issueTokenPair, after the refresh, the login or the new password.
Issue(h) ==
  /\ pc[h] = "issue"
  /\ SessionIdsLeft
  /\ sessions' = Append(sessions, [revoked |-> "no", until |-> clock + SessionTime,
                                   parent |-> ctx[h].session])
  /\ Leave(h)
  /\ UNCHANGED <<clock, user, tokens, histories>>

\* Bound: an insert into agd_auth_session after its last id throws.
SessionIdsUsedUp(h) == pc[h] = "issue" /\ ~SessionIdsLeft /\ Throw(h)

-----------------------------------------------------------------------------
StartAccount(h) ==
  /\ work = "account"
  /\ \/ RecoverPassword(h) \/ Block(h) \/ Unblock(h)
     \/ \E password \in Passwords : Login(h, password) \/ ResetPassword(h, password)
     \/ \E current, password \in Passwords : ChangePassword(h, current, password)

StartSession(h) ==
  /\ work = "sessions"
  /\ \/ Block(h) \/ Unblock(h) \/ Login(h, First)
     \/ \E s \in DOMAIN sessions : Refresh(h, s) \/ RevokeSession(h, s)

Continue(h) ==
  \/ SaveUser(h) \/ SaveRevoked(h) \/ FindUser(h) \/ UserInactive(h)
  \/ Issue(h) \/ SessionIdsUsedUp(h)

Die(h) == MayFail /\ ~Idle(h) /\ Throw(h)

Step ==
  \/ Tick
  \/ \E s \in DOMAIN sessions : Logout(s)
  \/ \E h \in Handlers : StartAccount(h) \/ StartSession(h) \/ Continue(h) \/ Die(h)

Next == Step /\ UNCHANGED work

Spec == Init /\ [][Next]_vars

-----------------------------------------------------------------------------
(***************************************************************************)
(* Properties                                                              *)
(***************************************************************************)
Successors(s) == {t \in DOMAIN sessions : sessions[t].parent = s}

\* Handlers that have revoked s and have not opened its successor.
Exchanging(s) == {h \in Serving("refresh") : ctx[h].session = s /\ pc[h] # "saveRevoked"}

\* refresh() rotates: a session that a refresh has revoked was exchanged for exactly one
\* other, or is being, or the request ended in an error; one that the user revoked was
\* exchanged for none; unless somebody revoked it between a refresh's read and its save.
OneSuccessorUnlessRaced ==
  \A s \in DOMAIN sessions \ raced :
    Cardinality(Successors(s)) + Cardinality(Exchanging(s)) + (IF s \in lost THEN 1 ELSE 0)
      = IF sessions[s].revoked = "refresh" THEN 1 ELSE 0

\* registerFailedLogin, block(), unblock(): an account that an administrator has blocked is
\* inactive until one unblocks it, and one that has failed as often as the threshold since
\* it was last cleared is locked for the whole lock time after the last failure, unless a
\* row was saved over a later one.
StandingHoldsUnlessStale ==
  ~stale =>
    /\ blocked => ~user.active
    /\ strikes >= Threshold => user.lockedUntil = lastStrike + LockTime
=============================================================================
