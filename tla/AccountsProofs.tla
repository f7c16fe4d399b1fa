--------------------------- MODULE AccountsProofs ---------------------------
(***************************************************************************)
(* Safety of Accounts, for any number of handlers, sessions, passwords and *)
(* failed logins: the standing of the account, and the successors of the   *)
(* sessions whose tokens are exchanged.                                    *)
(*                                                                         *)
(* A handler of a refresh saves a session that it once found not revoked;  *)
(* either it still is not, and the save starts the only exchange of the    *)
(* session, or the session is put into raced.  From then on the exchange   *)
(* belongs to that handler, which ends it by the successor or by an error  *)
(* (SessionInv).  A row that is saved as it was read counts its failures,  *)
(* which is why the counter of the row equals the strikes while nothing is *)
(* stale (StandingInv).                                                    *)
(***************************************************************************)
EXTENDS Accounts, FiniteSetTheorems, SequenceTheorems, TLAPS

USE RequestsAssumption, AccountsAssumption

-----------------------------------------------------------------------------
(***************************************************************************)
(* The inductive invariant                                                 *)
(***************************************************************************)
\* What a handler holds at each of its calls.  A refresh has found its session not yet
\* revoked; a failed login has found the failures it adds to below the bound.
ControlOf(h) ==
  /\ pc[h] = "idle" => ctx[h] = NoContext
  /\ pc[h] = "saveUser" => ctx[h].op \in UserOps
  /\ pc[h] = "saveRevoked" => ctx[h].op \in {"refresh", "revoke"}
  /\ pc[h] = "findUser" => ctx[h].op = "refresh"
  /\ pc[h] = "issue" => ctx[h].op \in {"login", "change", "refresh"}
  /\ ctx[h].op = "fail" => ctx[h].user.attempts < MaxAttempts
  /\ ctx[h].op \in {"refresh", "revoke"} => ctx[h].session \in DOMAIN sessions
  /\ ctx[h].op = "refresh" => ctx[h].seen = "no"

ControlInv == \A h \in Handlers : ControlOf(h)

\* The session s has no successor, and none is to come.
Unexchanged(s) == Successors(s) = {} /\ Exchanging(s) = {} /\ s \notin lost

\* The one thing that became of session s when a refresh revoked it.
Exchanged(s) ==
  \/ Successors(s) = {} /\ Exchanging(s) = {} /\ s \in lost
  \/ Successors(s) = {} /\ (\E h \in Handlers : Exchanging(s) = {h}) /\ s \notin lost
  \/ (\E t \in DOMAIN sessions : Successors(s) = {t}) /\ Exchanging(s) = {} /\ s \notin lost

OneOf(s) ==
  IF sessions[s].revoked = "refresh" THEN Exchanged(s) ELSE Unexchanged(s)

SessionInv ==
  /\ \A t \in DOMAIN sessions : sessions[t].parent \in {0} \cup DOMAIN sessions
  /\ lost \subseteq DOMAIN sessions
  /\ \A s \in DOMAIN sessions \ raced : OneOf(s)

\* As long as no save has undone another, the row counts the strikes.
StandingInv ==
  ~stale =>
    /\ blocked => ~user.active
    /\ user.attempts = strikes
    /\ strikes >= Threshold => user.lockedUntil = lastStrike + LockTime

IInv == TypeOK /\ ControlInv /\ SessionInv /\ StandingInv

-----------------------------------------------------------------------------
(***************************************************************************)
(* The steps of Next, one by one                                           *)
(***************************************************************************)
\* The handler reads the account and goes on to save it.
ReadsUser(h) ==
  /\ \E op \in UserOps, password \in Passwords, token \in 0..MaxTokens :
       /\ op = "fail" => user.attempts < MaxAttempts
       /\ ReadUser(h, op, password, token)
  /\ tokens' \in 0..MaxTokens

\* The handler reads a session and goes on to revoke it.
ReadsSession(h) == \E s \in DOMAIN sessions, op \in {"refresh", "revoke"} :
  /\ op = "refresh" => sessions[s].revoked = "no"
  /\ Begin(h, "saveRevoked", [op |-> op, session |-> s, seen |-> sessions[s].revoked])
  /\ UNCHANGED <<clock, accountRows, tokens, histories>>

Serve(h) ==
  \/ ReadsUser(h) \/ ReadsSession(h) \/ SaveUser(h) \/ SaveRevoked(h)
  \/ FindUser(h) \/ Issue(h) \/ (Throw(h) /\ pc[h] # "idle")

LEMMA AccountCases ==
  ASSUME TypeOK, NEW h \in Handlers, StartAccount(h)
  PROVE  ReadsUser(h)
<1>0. tokens \in 0..MaxTokens /\ user.token \in 0..MaxTokens /\ First \in Passwords
      /\ MaxTokens \in Nat
  BY DEF TypeOK, UserRow
<1>1. CASE RecoverPassword(h)
  BY <1>0, <1>1 DEF RecoverPassword, ReadsUser, UserOps
<1>2. CASE Block(h)
  BY <1>0, <1>2 DEF Block, ReadsUser, UserOps
<1>3. CASE Unblock(h)
  BY <1>0, <1>3 DEF Unblock, ReadsUser, UserOps
<1>4. ASSUME NEW password \in Passwords, Login(h, password) PROVE ReadsUser(h)
  BY <1>0, <1>4 DEF Login, ReadsUser, UserOps
<1>5. ASSUME NEW password \in Passwords, ResetPassword(h, password) PROVE ReadsUser(h)
  BY <1>0, <1>5 DEF ResetPassword, ReadsUser, UserOps
<1>6. ASSUME NEW current \in Passwords, NEW password \in Passwords,
             ChangePassword(h, current, password)
      PROVE  ReadsUser(h)
  BY <1>0, <1>6 DEF ChangePassword, ReadsUser, UserOps
<1> QED
  BY <1>1, <1>2, <1>3, <1>4, <1>5, <1>6 DEF StartAccount

LEMMA SessionCases ==
  ASSUME TypeOK, NEW h \in Handlers, StartSession(h)
  PROVE  ReadsUser(h) \/ ReadsSession(h)
<1>0. tokens \in 0..MaxTokens /\ First \in Passwords /\ MaxTokens \in Nat
  BY DEF TypeOK
<1>1. CASE Block(h)
  BY <1>0, <1>1 DEF Block, ReadsUser, UserOps
<1>2. CASE Unblock(h)
  BY <1>0, <1>2 DEF Unblock, ReadsUser, UserOps
<1>3. CASE Login(h, First)
  BY <1>0, <1>3 DEF Login, ReadsUser, UserOps
<1>4. ASSUME NEW s \in DOMAIN sessions, Refresh(h, s) PROVE ReadsSession(h)
  BY <1>4 DEF Refresh, ReadsSession
<1>5. ASSUME NEW s \in DOMAIN sessions, RevokeSession(h, s) PROVE ReadsSession(h)
  BY <1>5 DEF RevokeSession, ReadsSession
<1> QED
  BY <1>1, <1>2, <1>3, <1>4, <1>5 DEF StartSession

LEMMA NextCases ==
  ASSUME TypeOK, ControlInv, Next
  PROVE  /\ work' = work
         /\ \/ Tick
            \/ \E s \in DOMAIN sessions : Logout(s)
            \/ \E h \in Handlers : Serve(h)
<1>1. ASSUME NEW h \in Handlers, Continue(h) \/ Die(h) PROVE Serve(h)
  BY <1>1 DEF Continue, Die, Idle, UserInactive, SessionIdsUsedUp, Serve
<1> QED
  BY <1>1, AccountCases, SessionCases DEF Next, Step, Serve

-----------------------------------------------------------------------------
(***************************************************************************)
(* Type correctness                                                        *)
(***************************************************************************)
UserHeld    == [op : UserOps, user : UserRow, password : Passwords, token : 0..MaxTokens,
                session : {0}]
SessionHeld == [op : {"refresh", "revoke"}, session : Ids, seen : {"no", "refresh", "user"}]

\* What a handler holds, by the operation that it serves.
LEMMA Holds ==
  ASSUME TypeOK, NEW h \in Handlers
  PROVE  /\ ctx[h].op \in UserOps => ctx[h] \in UserHeld
         /\ ctx[h].op \in {"refresh", "revoke"} => ctx[h] \in SessionHeld
BY DEF TypeOK, Context, UserHeld, SessionHeld, UserOps, NoContext

LEMMA SessionRows ==
  ASSUME TypeOK
  PROVE  /\ DOMAIN sessions = 1..Len(sessions) /\ Len(sessions) \in Nat
         /\ DOMAIN sessions \subseteq Ids
         /\ \A s \in DOMAIN sessions : sessions[s] \in SessionRow
<1>1. sessions \in Seq(SessionRow) /\ Len(sessions) <= MaxSessions
  BY DEF TypeOK
<1>2. DOMAIN sessions = 1..Len(sessions) /\ Len(sessions) \in Nat
  BY <1>1, LenProperties
<1>3. \A s \in 1..Len(sessions) : sessions[s] \in SessionRow
  BY <1>1, ElementOfSeq
<1> QED
  BY <1>1, <1>2, <1>3 DEF Ids

\* Revoking changes nothing but who revoked the session first.
LEMMA RevokedRows ==
  ASSUME TypeOK, NEW s \in DOMAIN sessions, NEW by \in {"refresh", "user"},
         sessions' = Revoked(s, by)
  PROVE  /\ sessions' \in Seq(SessionRow) /\ Len(sessions') = Len(sessions)
         /\ DOMAIN sessions' = DOMAIN sessions
         /\ \A t \in DOMAIN sessions : sessions'[t].parent = sessions[t].parent
         /\ \A t \in DOMAIN sessions :
              sessions'[t].revoked = IF t = s /\ sessions[t].revoked = "no" THEN by
                                     ELSE sessions[t].revoked
<1>0. /\ sessions \in Seq(SessionRow) /\ s \in 1..Len(sessions) /\ sessions[s] \in SessionRow
      /\ DOMAIN sessions = 1..Len(sessions)
  BY SessionRows DEF TypeOK
<1>1. PICK row \in SessionRow :
        /\ sessions' = [sessions EXCEPT ![s] = row]
        /\ row.parent = sessions[s].parent
        /\ row.revoked = IF sessions[s].revoked = "no" THEN by ELSE sessions[s].revoked
  <2> DEFINE row == [sessions[s] EXCEPT !.revoked = IF @ = "no" THEN by ELSE @]
  <2>1. row \in SessionRow
    BY <1>0 DEF SessionRow
  <2>2. /\ row.parent = sessions[s].parent
        /\ row.revoked = IF sessions[s].revoked = "no" THEN by ELSE sessions[s].revoked
    BY <1>0 DEF SessionRow
  <2>3. sessions' = [sessions EXCEPT ![s] = row]
    BY DEF Revoked
  <2> HIDE DEF row
  <2> QED
    BY <2>1, <2>2, <2>3
<1>2. /\ sessions' \in Seq(SessionRow) /\ Len(sessions') = Len(sessions)
      /\ \A t \in 1..Len(sessions) : sessions'[t] = IF t = s THEN row ELSE sessions[t]
  BY <1>0, <1>1, ExceptSeq
<1>3. DOMAIN sessions' = DOMAIN sessions
  BY <1>0, <1>2, LenProperties
<1> QED
  BY <1>0, <1>1, <1>2, <1>3

\* The row that a handler saves.
LEMMA RowTypes ==
  ASSUME TypeOK, ControlInv, NEW h \in Handlers, pc[h] = "saveUser"
  PROVE  RowAfter(ctx[h]) \in UserRow
<1>0. /\ ctx[h].op \in UserOps /\ ctx[h] \in UserHeld
      /\ ctx[h].op = "fail" => ctx[h].user.attempts < MaxAttempts
  BY Holds DEF ControlInv, ControlOf
<1>1. PICK row \in UserRow : row = ctx[h].user
  BY <1>0 DEF UserHeld
<1>2. PICK password \in Passwords, token \in 0..MaxTokens :
        password = ctx[h].password /\ token = ctx[h].token
  BY <1>0 DEF UserHeld
<1>3. clock \in 0..MaxTime
  BY DEF TypeOK
<1>3a. /\ 0 \in 0..MaxAttempts /\ 0 \in 0..MaxTokens
       /\ 0 \in 0..(MaxTime + LockTime) /\ 0 \in 0..(MaxTime + TokenTime)
  OBVIOUS
<1>4. Cleared(row) \in UserRow
  BY <1>3a DEF Cleared, UserRow
<1>5. row.attempts < MaxAttempts => Failed(row) \in UserRow
  <2> SUFFICES ASSUME row.attempts < MaxAttempts PROVE Failed(row) \in UserRow
    OBVIOUS
  <2>1. row.attempts + 1 \in 0..MaxAttempts /\ clock + LockTime \in 0..(MaxTime + LockTime)
    BY <1>3 DEF UserRow
  <2> QED
    BY <2>1 DEF Failed, UserRow
<1>6. [row EXCEPT !.token = token, !.tokenUntil = clock + TokenTime] \in UserRow
  <2>1. clock + TokenTime \in 0..(MaxTime + TokenTime)
    BY <1>3
  <2> QED
    BY <2>1 DEF UserRow
<1>7. [Cleared(row) EXCEPT !.password = password, !.token = 0, !.tokenUntil = 0] \in UserRow
  BY <1>3a, <1>4 DEF UserRow
<1>8. /\ [row EXCEPT !.password = password] \in UserRow
      /\ [row EXCEPT !.active = FALSE] \in UserRow
      /\ [Cleared(row) EXCEPT !.active = TRUE] \in UserRow
  BY <1>4 DEF UserRow
<1> QED
  BY <1>0, <1>1, <1>2, <1>4, <1>5, <1>6, <1>7, <1>8 DEF RowAfter, UserOps

\* A new session.
LEMMA IssuedRows ==
  ASSUME TypeOK, ControlInv, NEW h \in Handlers, Issue(h)
  PROVE  /\ sessions' \in Seq(SessionRow) /\ Len(sessions') = Len(sessions) + 1
         /\ Len(sessions') <= MaxSessions
         /\ DOMAIN sessions' = DOMAIN sessions \cup {Len(sessions) + 1}
         /\ \A t \in DOMAIN sessions : sessions'[t] = sessions[t]
         /\ sessions'[Len(sessions) + 1].revoked = "no"
         /\ sessions'[Len(sessions) + 1].parent = ctx[h].session
         /\ ctx[h].session \in {0} \cup DOMAIN sessions
<1>1. ctx[h].session \in {0} \cup DOMAIN sessions
  <2>1. ctx[h].op \in {"login", "change", "refresh"}
    BY DEF Issue, ControlInv, ControlOf
  <2>2. CASE ctx[h].op = "refresh"
    BY <2>2 DEF ControlInv, ControlOf
  <2>3. CASE ctx[h].op \in {"login", "change"}
    BY <2>3, Holds DEF UserOps, UserHeld
  <2> QED
    BY <2>1, <2>2, <2>3
<1>2. clock + SessionTime \in 0..(MaxTime + SessionTime)
  BY DEF TypeOK
<1> DEFINE row == [revoked |-> "no", until |-> clock + SessionTime, parent |-> ctx[h].session]
<1>3. row \in SessionRow
  BY <1>1, <1>2, SessionRows DEF SessionRow
<1>4. row.revoked = "no" /\ row.parent = ctx[h].session
  OBVIOUS
<1>5. sessions' = Append(sessions, row) /\ Len(sessions) < MaxSessions
  BY DEF Issue, SessionIdsLeft
<1>6. sessions \in Seq(SessionRow) /\ DOMAIN sessions = 1..Len(sessions) /\ Len(sessions) \in Nat
  BY SessionRows DEF TypeOK
<1> HIDE DEF row
<1>7. /\ sessions' \in Seq(SessionRow) /\ Len(sessions') = Len(sessions) + 1
      /\ \A t \in 1..Len(sessions) : sessions'[t] = sessions[t]
      /\ sessions'[Len(sessions) + 1] = row
  BY <1>3, <1>5, <1>6, AppendProperties
<1>8. DOMAIN sessions' = 1..(Len(sessions) + 1)
  BY <1>7, LenProperties
<1> QED
  BY <1>1, <1>4, <1>5, <1>6, <1>7, <1>8

LEMMA TypeStep == TypeOK /\ ControlInv /\ [Next]_vars => TypeOK'
<1> SUFFICES ASSUME TypeOK, ControlInv, [Next]_vars PROVE TypeOK'
  OBVIOUS
<1> USE DEF accountRows, histories
<1>0. /\ pc \in [Handlers -> {"idle", "saveUser", "saveRevoked", "findUser", "issue"}]
      /\ ctx \in [Handlers -> Context \cup {NoContext}]
      /\ user \in UserRow /\ tokens \in 0..MaxTokens /\ clock \in 0..MaxTime
      /\ strikes \in 0..MaxAttempts /\ lastStrike \in 0..MaxTime
      /\ raced \subseteq Ids /\ lost \subseteq Ids
      /\ sessions \in Seq(SessionRow) /\ Len(sessions) <= MaxSessions
  BY DEF TypeOK
<1>1. CASE UNCHANGED vars
  BY <1>1 DEF TypeOK, vars
<1>2. CASE work' = work /\ Tick
  <2>1. clock' \in 0..MaxTime
    BY <1>0, <1>2 DEF Tick
  <2> QED
    BY <1>2, <2>1 DEF TypeOK, Tick
<1>3. ASSUME work' = work, NEW s \in DOMAIN sessions, Logout(s) PROVE TypeOK'
  BY <1>3, RevokedRows DEF TypeOK, Logout
<1>4. ASSUME work' = work, NEW h \in Handlers, ReadsUser(h) PROVE TypeOK'
  <2>1. PICK op \in UserOps, password \in Passwords, token \in 0..MaxTokens :
          ReadUser(h, op, password, token)
    BY <1>4 DEF ReadsUser
  <2>2. [op |-> op, user |-> user, password |-> password, token |-> token, session |-> 0]
          \in Context
    BY <1>0 DEF Context
  <2>3. /\ pc' = [pc EXCEPT ![h] = "saveUser"]
        /\ \E c \in Context : ctx' = [ctx EXCEPT ![h] = c]
        /\ UNCHANGED <<clock, accountRows, histories>>
    BY <2>1, <2>2 DEF ReadUser, Begin, Goto, Keep
  <2>4. /\ pc' \in [Handlers -> {"idle", "saveUser", "saveRevoked", "findUser", "issue"}]
        /\ ctx' \in [Handlers -> Context \cup {NoContext}]
    BY <1>0, <2>3
  <2>5. tokens' \in 0..MaxTokens
    BY <1>4 DEF ReadsUser
  <2> QED
    BY <1>4, <2>3, <2>4, <2>5 DEF TypeOK
<1>5. ASSUME work' = work, NEW h \in Handlers, ReadsSession(h) PROVE TypeOK'
  <2>1. PICK s \in DOMAIN sessions, op \in {"refresh", "revoke"} :
          /\ Begin(h, "saveRevoked", [op |-> op, session |-> s, seen |-> sessions[s].revoked])
          /\ UNCHANGED <<clock, accountRows, tokens, histories>>
    BY <1>5 DEF ReadsSession
  <2>2. s \in Ids /\ sessions[s] \in SessionRow
    BY SessionRows
  <2>3. [op |-> op, session |-> s, seen |-> sessions[s].revoked] \in Context
    BY <2>2 DEF Context, SessionRow
  <2>4. /\ pc' = [pc EXCEPT ![h] = "saveRevoked"]
        /\ \E c \in Context : ctx' = [ctx EXCEPT ![h] = c]
    BY <2>1, <2>3 DEF Begin, Goto, Keep
  <2>5. /\ pc' \in [Handlers -> {"idle", "saveUser", "saveRevoked", "findUser", "issue"}]
        /\ ctx' \in [Handlers -> Context \cup {NoContext}]
    BY <1>0, <2>4
  <2> QED
    BY <1>5, <2>1, <2>5 DEF TypeOK
<1>6. ASSUME work' = work, NEW h \in Handlers, SaveUser(h) PROVE TypeOK'
  <2>1. user' \in UserRow
    BY <1>6, RowTypes DEF SaveUser
  <2>2. /\ pc' \in [Handlers -> {"idle", "saveUser", "saveRevoked", "findUser", "issue"}]
        /\ ctx' \in [Handlers -> Context \cup {NoContext}]
    BY <1>0, <1>6 DEF SaveUser, Goto, Leave, Keep
  <2>3. /\ strikes' \in 0..MaxAttempts /\ lastStrike' \in 0..MaxTime
        /\ stale' \in BOOLEAN /\ blocked' \in BOOLEAN
    <3>1. strikes' \in {strikes, 0} \/ (strikes < MaxAttempts /\ strikes' = strikes + 1)
      BY <1>6 DEF SaveUser
    <3>2. lastStrike' \in {clock, lastStrike}
      BY <1>6 DEF SaveUser
    <3>3. stale' \in BOOLEAN /\ blocked' \in BOOLEAN
      BY <1>6 DEF SaveUser, TypeOK
    <3> QED
      BY <1>0, <3>1, <3>2, <3>3
  <2>4. UNCHANGED <<clock, sessions, tokens, raced, lost>>
    BY <1>6 DEF SaveUser
  <2> QED
    BY <1>6, <2>1, <2>2, <2>3, <2>4 DEF TypeOK
<1>7. ASSUME work' = work, NEW h \in Handlers, SaveRevoked(h) PROVE TypeOK'
  <2>1. ctx[h].session \in DOMAIN sessions /\ ctx[h].session \in Ids
    BY <1>7, SessionRows DEF SaveRevoked, ControlInv, ControlOf
  <2>2. \E by \in {"refresh", "user"} : sessions' = Revoked(ctx[h].session, by)
    BY <1>7 DEF SaveRevoked
  <2>3. sessions' \in Seq(SessionRow) /\ Len(sessions') <= MaxSessions
    BY <1>0, <2>1, <2>2, RevokedRows
  <2>4. /\ pc' \in [Handlers -> {"idle", "saveUser", "saveRevoked", "findUser", "issue"}]
        /\ ctx' \in [Handlers -> Context \cup {NoContext}]
    BY <1>0, <1>7 DEF SaveRevoked, Goto, Leave, Keep
  <2>5. raced' \subseteq Ids
    BY <1>0, <1>7, <2>1 DEF SaveRevoked
  <2>6. UNCHANGED <<clock, user, tokens, stale, blocked, strikes, lastStrike, lost>>
    BY <1>7 DEF SaveRevoked
  <2> QED
    BY <1>7, <2>3, <2>4, <2>5, <2>6 DEF TypeOK
<1>8. ASSUME work' = work, NEW h \in Handlers, FindUser(h) PROVE TypeOK'
  <2>1. pc' \in [Handlers -> {"idle", "saveUser", "saveRevoked", "findUser", "issue"}]
    BY <1>0, <1>8 DEF FindUser, Goto
  <2> QED
    BY <1>8, <2>1 DEF TypeOK, FindUser
<1>9. ASSUME work' = work, NEW h \in Handlers, Issue(h) PROVE TypeOK'
  <2>1. sessions' \in Seq(SessionRow) /\ Len(sessions') <= MaxSessions
    BY <1>9, IssuedRows
  <2>2. /\ pc' \in [Handlers -> {"idle", "saveUser", "saveRevoked", "findUser", "issue"}]
        /\ ctx' \in [Handlers -> Context \cup {NoContext}]
    BY <1>0, <1>9 DEF Issue, Goto, Leave, Keep
  <2> QED
    BY <1>9, <2>1, <2>2 DEF TypeOK, Issue
<1>10. ASSUME work' = work, NEW h \in Handlers, Throw(h), pc[h] # "idle" PROVE TypeOK'
  <2>1. /\ pc' \in [Handlers -> {"idle", "saveUser", "saveRevoked", "findUser", "issue"}]
        /\ ctx' \in [Handlers -> Context \cup {NoContext}]
    BY <1>0, <1>10 DEF Throw, Goto, Leave, Keep
  <2>2. lost' \subseteq Ids
    <3>1. ctx[h].op = "refresh" => ctx[h].session \in Ids
      BY Holds DEF SessionHeld
    <3> QED
      BY <1>0, <1>10, <3>1 DEF Throw
  <2> QED
    BY <1>10, <2>1, <2>2 DEF TypeOK, Throw
<1> QED
  BY <1>1, <1>2, <1>3, <1>4, <1>5, <1>6, <1>7, <1>8, <1>9, <1>10, NextCases DEF Serve

LEMMA OthersWait ==
  ASSUME TypeOK, NEW h \in Handlers, Serve(h), NEW g \in Handlers, g # h
  PROVE  pc'[g] = pc[g] /\ ctx'[g] = ctx[g]
<1>0. /\ pc \in [Handlers -> {"idle", "saveUser", "saveRevoked", "findUser", "issue"}]
      /\ ctx \in [Handlers -> Context \cup {NoContext}]
  BY DEF TypeOK
<1>1. \A call, c : Goto(h, call) => pc'[g] = pc[g]
  BY <1>0 DEF Goto
<1>2. \A c : Keep(h, c) => ctx'[g] = ctx[g]
  BY <1>0 DEF Keep
<1> QED
  BY <1>1, <1>2
  DEF Serve, ReadsUser, ReadUser, ReadsSession, Begin, SaveUser, SaveRevoked, FindUser, Issue,
      Throw, Leave

LEMMA SessionsStay ==
  ASSUME TypeOK, ControlInv, NEW h \in Handlers, Serve(h)
  PROVE  DOMAIN sessions \subseteq DOMAIN sessions'
<1>1. CASE SaveRevoked(h)
  <2>1. ctx[h].session \in DOMAIN sessions
    BY <1>1 DEF SaveRevoked, ControlInv, ControlOf
  <2>2. \E by \in {"refresh", "user"} : sessions' = Revoked(ctx[h].session, by)
    BY <1>1 DEF SaveRevoked
  <2> QED
    BY <2>1, <2>2, RevokedRows
<1>2. CASE Issue(h)
  BY <1>2, IssuedRows
<1>3. CASE ~SaveRevoked(h) /\ ~Issue(h)
  BY <1>3 DEF Serve, ReadsUser, ReadUser, ReadsSession, SaveUser, FindUser, Throw, accountRows
<1> QED
  BY <1>1, <1>2, <1>3

LEMMA ControlStep == TypeOK /\ ControlInv /\ [Next]_vars => ControlInv'
<1> SUFFICES ASSUME TypeOK, ControlInv, [Next]_vars PROVE ControlInv'
  OBVIOUS
<1>1. CASE UNCHANGED vars
  BY <1>1 DEF ControlInv, ControlOf, vars, accountRows
<1>2. CASE Tick
  BY <1>2 DEF ControlInv, ControlOf, Tick, accountRows
<1>3. ASSUME NEW s \in DOMAIN sessions, Logout(s) PROVE ControlInv'
  <2>1. DOMAIN sessions' = DOMAIN sessions
    BY <1>3, RevokedRows DEF Logout
  <2> QED
    BY <1>3, <2>1 DEF ControlInv, ControlOf, Logout
<1>4. ASSUME NEW h \in Handlers, Serve(h) PROVE ControlInv'
  <2>0. /\ pc \in [Handlers -> {"idle", "saveUser", "saveRevoked", "findUser", "issue"}]
        /\ ctx \in [Handlers -> Context \cup {NoContext}]
        /\ ControlOf(h) /\ DOMAIN sessions \subseteq DOMAIN sessions'
    BY <1>4, SessionsStay DEF TypeOK, ControlInv
  <2>1. ASSUME NEW g \in Handlers, g # h PROVE ControlOf(g)'
    BY <1>4, <2>0, <2>1, OthersWait DEF ControlInv, ControlOf
  <2>2. ControlOf(h)'
    <3> USE DEF Goto, Keep
    <3>1. CASE ReadsUser(h)
      <4>1. PICK op \in UserOps, password \in Passwords, token \in 0..MaxTokens :
              /\ op = "fail" => user.attempts < MaxAttempts
              /\ ReadUser(h, op, password, token)
        BY <3>1 DEF ReadsUser
      <4>2. /\ pc'[h] = "saveUser"
            /\ ctx'[h] = [op |-> op, user |-> user, password |-> password, token |-> token,
                          session |-> 0]
        BY <2>0, <4>1 DEF ReadUser, Begin
      <4>3. ctx'[h].op = op /\ ctx'[h].user = user
        BY <4>2
      <4> QED
        BY <4>1, <4>2, <4>3 DEF ControlOf, UserOps
    <3>2. CASE ReadsSession(h)
      <4>1. PICK s \in DOMAIN sessions, op \in {"refresh", "revoke"} :
              /\ op = "refresh" => sessions[s].revoked = "no"
              /\ Begin(h, "saveRevoked", [op |-> op, session |-> s, seen |-> sessions[s].revoked])
        BY <3>2 DEF ReadsSession
      <4>2. /\ pc'[h] = "saveRevoked"
            /\ ctx'[h] = [op |-> op, session |-> s, seen |-> sessions[s].revoked]
        BY <2>0, <4>1 DEF Begin
      <4> QED
        BY <2>0, <4>1, <4>2 DEF ControlOf, UserOps
    <3>3. CASE SaveUser(h)
      BY <2>0, <3>3 DEF SaveUser, Leave, ControlOf, NoContext, UserOps
    <3>4. CASE SaveRevoked(h)
      BY <2>0, <3>4 DEF SaveRevoked, Leave, ControlOf, NoContext
    <3>5. CASE FindUser(h)
      BY <2>0, <3>5 DEF FindUser, ControlOf
    <3>6. CASE Issue(h) \/ Throw(h)
      BY <2>0, <3>6 DEF Issue, Throw, Leave, ControlOf, NoContext
    <3> QED
      BY <1>4, <3>1, <3>2, <3>3, <3>4, <3>5, <3>6 DEF Serve
  <2> QED
    BY <2>1, <2>2 DEF ControlInv
<1> QED
  BY <1>1, <1>2, <1>3, <1>4, NextCases

LEMMA InitTypeControl == Init => TypeOK /\ ControlInv
<1> SUFFICES ASSUME Init PROVE TypeOK /\ ControlInv
  OBVIOUS
<1>1. /\ 0 \in 0..MaxAttempts /\ 0 \in 0..MaxTokens /\ 0 \in 0..MaxTime
      /\ 0 \in 0..(MaxTime + LockTime) /\ 0 \in 0..(MaxTime + TokenTime)
  OBVIOUS
<1>2. user \in UserRow
  BY <1>1 DEF Init, UserRow
<1>3. sessions \in Seq(SessionRow) /\ Len(sessions) <= MaxSessions
  BY EmptySeq DEF Init
<1>4. /\ pc \in [Handlers -> {"idle", "saveUser", "saveRevoked", "findUser", "issue"}]
      /\ ctx \in [Handlers -> Context \cup {NoContext}]
  BY DEF Init, RequestsInit
<1>5. TypeOK
  BY <1>1, <1>2, <1>3, <1>4 DEF Init, TypeOK
<1>6. ControlInv
  BY DEF Init, RequestsInit, ControlInv, ControlOf, NoContext
<1> QED
  BY <1>5, <1>6

\* Type correctness, for any number of handlers, sessions and passwords: every row that
\* is saved, the stale ones included, is a row of its table.
THEOREM TypeCorrect == Spec => []TypeOK
<1>1. TypeOK /\ ControlInv /\ [Next]_vars => (TypeOK /\ ControlInv)'
  BY TypeStep, ControlStep
<1> QED
  BY <1>1, InitTypeControl, PTL DEF Spec

-----------------------------------------------------------------------------
(***************************************************************************)
(* The standing of the account                                             *)
(***************************************************************************)
\* A row that is saved as it was read keeps what it says of the blocks and the strikes.
LEMMA FreshSave ==
  ASSUME TypeOK, ControlInv, StandingInv, NEW h \in Handlers, SaveUser(h), ~stale'
  PROVE  StandingInv'
<1>0. /\ ctx[h].op \in UserOps /\ ctx[h] \in UserHeld /\ user \in UserRow
      /\ clock \in 0..MaxTime /\ strikes \in 0..MaxAttempts
      /\ ctx[h].op = "fail" => ctx[h].user.attempts < MaxAttempts
  BY Holds DEF SaveUser, ControlInv, ControlOf, TypeOK
<1>1. /\ ctx[h].user = user /\ user' = RowAfter(ctx[h])
      /\ blocked => ~user.active
      /\ user.attempts = strikes
      /\ strikes >= Threshold => user.lockedUntil = lastStrike + LockTime
  BY DEF SaveUser, StandingInv
<1>2. PICK row : row = ctx[h].user /\ row = user /\ row \in UserRow
  BY <1>0, <1>1
<1>3. /\ Cleared(row).attempts = 0 /\ Cleared(row).active = row.active
      /\ Cleared(row) \in [active : BOOLEAN, attempts : {0}, lockedUntil : {0},
                           password : Passwords, token : 0..MaxTokens,
                           tokenUntil : 0..(MaxTime + TokenTime)]
  BY <1>2 DEF Cleared, UserRow
<1>4. CASE ctx[h].op = "login"
  <2>1. user' = Cleared(row) /\ strikes' = 0 /\ blocked' = blocked
    BY <1>1, <1>2, <1>4 DEF RowAfter, SaveUser
  <2> QED
    BY <1>1, <1>2, <1>3, <2>1 DEF StandingInv
<1>5. CASE ctx[h].op = "fail"
  <2>1. user' = Failed(row) /\ blocked' = blocked /\ lastStrike' = clock
        /\ strikes' = IF strikes < MaxAttempts THEN strikes + 1 ELSE strikes
    BY <1>1, <1>2, <1>5 DEF RowAfter, SaveUser
  <2>2. /\ Failed(row).active = row.active /\ Failed(row).attempts = row.attempts + 1
        /\ Failed(row).lockedUntil = IF LockDue(row.attempts + 1) THEN clock + LockTime
                                     ELSE row.lockedUntil
    BY <1>2 DEF Failed, UserRow
  <2>3. strikes' = row.attempts + 1
    BY <1>0, <1>1, <1>2, <1>5, <2>1
  <2> QED
    BY <1>1, <1>2, <2>1, <2>2, <2>3 DEF StandingInv, LockDue
<1>6. CASE ctx[h].op = "recover"
  <2>1. /\ user' = [row EXCEPT !.token = ctx[h].token, !.tokenUntil = clock + TokenTime]
        /\ UNCHANGED <<strikes, blocked, lastStrike>>
    BY <1>1, <1>2, <1>6 DEF RowAfter, SaveUser
  <2>2. /\ user'.active = row.active /\ user'.attempts = row.attempts
        /\ user'.lockedUntil = row.lockedUntil
    BY <1>2, <2>1 DEF UserRow
  <2> QED
    BY <1>1, <1>2, <2>1, <2>2 DEF StandingInv
<1>7. CASE ctx[h].op = "reset"
  <2>1. /\ user' = [Cleared(row) EXCEPT !.password = ctx[h].password, !.token = 0,
                                        !.tokenUntil = 0]
        /\ strikes' = 0 /\ blocked' = blocked
    BY <1>1, <1>2, <1>7 DEF RowAfter, SaveUser
  <2>2. user'.active = row.active /\ user'.attempts = 0
    BY <1>3, <2>1
  <2> QED
    BY <1>1, <1>2, <2>1, <2>2 DEF StandingInv
<1>8. CASE ctx[h].op = "change"
  <2>1. /\ user' = [row EXCEPT !.password = ctx[h].password]
        /\ UNCHANGED <<strikes, blocked, lastStrike>>
    BY <1>1, <1>2, <1>8 DEF RowAfter, SaveUser
  <2>2. /\ user'.active = row.active /\ user'.attempts = row.attempts
        /\ user'.lockedUntil = row.lockedUntil
    BY <1>2, <2>1 DEF UserRow
  <2> QED
    BY <1>1, <1>2, <2>1, <2>2 DEF StandingInv
<1>9. CASE ctx[h].op = "block"
  <2>1. /\ user' = [row EXCEPT !.active = FALSE]
        /\ UNCHANGED <<strikes, lastStrike>>
    BY <1>1, <1>2, <1>9 DEF RowAfter, SaveUser
  <2>2. /\ ~user'.active /\ user'.attempts = row.attempts
        /\ user'.lockedUntil = row.lockedUntil
    BY <1>2, <2>1 DEF UserRow
  <2> QED
    BY <1>1, <1>2, <2>1, <2>2 DEF StandingInv
<1>10. CASE ctx[h].op = "unblock"
  <2>1. /\ user' = [Cleared(row) EXCEPT !.active = TRUE]
        /\ strikes' = 0 /\ ~blocked'
    BY <1>1, <1>2, <1>10 DEF RowAfter, SaveUser
  <2>2. user'.attempts = 0
    BY <1>3, <2>1
  <2> QED
    BY <2>1, <2>2 DEF StandingInv
<1> QED
  BY <1>0, <1>4, <1>5, <1>6, <1>7, <1>8, <1>9, <1>10 DEF UserOps

LEMMA StandingStep == TypeOK /\ ControlInv /\ StandingInv /\ [Next]_vars => StandingInv'
<1> SUFFICES ASSUME TypeOK, ControlInv, StandingInv, [Next]_vars PROVE StandingInv'
  OBVIOUS
<1>1. ASSUME UNCHANGED <<user, stale, blocked, strikes, lastStrike>> PROVE StandingInv'
  BY <1>1 DEF StandingInv
<1>2. ASSUME NEW h \in Handlers, SaveUser(h) PROVE StandingInv'
  BY <1>2, FreshSave DEF StandingInv
<1>3. ASSUME NEW h \in Handlers, Serve(h), ~SaveUser(h)
      PROVE  UNCHANGED <<user, stale, blocked, strikes, lastStrike>>
  BY <1>3 DEF Serve, ReadsUser, ReadUser, ReadsSession, SaveRevoked, FindUser, Issue, Throw,
              accountRows, histories
<1>4. ASSUME Tick \/ \E s \in DOMAIN sessions : Logout(s)
      PROVE  UNCHANGED <<user, stale, blocked, strikes, lastStrike>>
  BY <1>4 DEF Tick, Logout, accountRows, histories
<1>5. CASE UNCHANGED vars
  BY <1>1, <1>5 DEF vars, accountRows, histories
<1> QED
  BY <1>1, <1>2, <1>3, <1>4, <1>5, NextCases

-----------------------------------------------------------------------------
(***************************************************************************)
(* The successors of a session                                             *)
(***************************************************************************)
\* h has revoked the session s and has not opened its successor.
Exchanges(h, s) == ctx[h].op = "refresh" /\ ctx[h].session = s /\ pc[h] # "saveRevoked"

LEMMA ExchangingIs ==
  ASSUME NEW s PROVE Exchanging(s) = {h \in Handlers : Exchanges(h, s)}
BY DEF Exchanging, Serving, Exchanges

LEMMA SuccessorsKept ==
  ASSUME NEW s, DOMAIN sessions' = DOMAIN sessions,
         \A t \in DOMAIN sessions : sessions'[t].parent = sessions[t].parent
  PROVE  Successors(s)' = Successors(s)
BY DEF Successors

\* A step of h changes no more than whether h itself exchanges a session.
LEMMA ExchangingMoves ==
  ASSUME TypeOK, NEW h \in Handlers, Serve(h), NEW s
  PROVE  /\ Exchanging(s)' \ {h} = Exchanging(s) \ {h}
         /\ h \in Exchanging(s) <=> Exchanges(h, s)
         /\ h \in Exchanging(s)' <=> Exchanges(h, s)'
<1>1. \A g \in Handlers : g # h => (Exchanges(g, s)' <=> Exchanges(g, s))
  BY OthersWait DEF Exchanges
<1>2. Exchanging(s)' = {g \in Handlers : Exchanges(g, s)'}
  BY DEF Exchanging, Serving, Exchanges
<1> QED
  BY <1>1, <1>2, ExchangingIs

\* What is true of a session stays true while nothing of the kind happens to it.
LEMMA OneOfKept ==
  ASSUME NEW s \in DOMAIN sessions, OneOf(s),
         Successors(s)' = Successors(s), Exchanging(s)' = Exchanging(s),
         s \in lost' <=> s \in lost,
         sessions'[s].revoked = "refresh" <=> sessions[s].revoked = "refresh",
         DOMAIN sessions \subseteq DOMAIN sessions'
  PROVE  OneOf(s)'
<1>1. Unexchanged(s) => Unexchanged(s)'
  BY DEF Unexchanged
<1>2. Exchanged(s) => Exchanged(s)'
  BY DEF Exchanged
<1> QED
  BY <1>1, <1>2 DEF OneOf

LEMMA SessionsUntouched ==
  ASSUME SessionInv, UNCHANGED <<sessions, lost, raced>>,
         \A s \in DOMAIN sessions : Exchanging(s)' = Exchanging(s)
  PROVE  SessionInv'
<1>1. ASSUME NEW s \in DOMAIN sessions, s \notin raced PROVE OneOf(s)'
  BY <1>1, OneOfKept, SuccessorsKept DEF SessionInv
<1> QED
  BY <1>1 DEF SessionInv

\* The user or the administrator revokes a session that no refresh has revoked.
LEMMA RevokesAsUser ==
  ASSUME TypeOK, SessionInv, NEW q \in DOMAIN sessions, sessions' = Revoked(q, "user"),
         UNCHANGED <<lost, raced>>, \A s \in DOMAIN sessions : Exchanging(s)' = Exchanging(s)
  PROVE  SessionInv'
<1>1. /\ DOMAIN sessions' = DOMAIN sessions
      /\ \A t \in DOMAIN sessions : sessions'[t].parent = sessions[t].parent
      /\ \A t \in DOMAIN sessions :
           sessions'[t].revoked = "refresh" <=> sessions[t].revoked = "refresh"
  BY RevokedRows
<1>2. ASSUME NEW s \in DOMAIN sessions, s \notin raced PROVE OneOf(s)'
  BY <1>1, <1>2, OneOfKept, SuccessorsKept DEF SessionInv
<1> QED
  BY <1>1, <1>2 DEF SessionInv

\* A step at which its handler exchanges no session, before or after.
LEMMA ExchangesNone ==
  ASSUME TypeOK, ControlInv, NEW h \in Handlers, Serve(h), NEW s,
         Exchanges(h, s)' <=> Exchanges(h, s)
  PROVE  Exchanging(s)' = Exchanging(s)
BY ExchangingMoves

\* A refresh that finds its session revoked since it read it has raced with another.
LEMMA SavesRefresh ==
  ASSUME TypeOK, ControlInv, SessionInv, NEW h \in Handlers, SaveRevoked(h),
         ctx[h].op = "refresh"
  PROVE  SessionInv'
<1> PICK q : q = ctx[h].session
  OBVIOUS
<1>0. /\ Serve(h) /\ q \in DOMAIN sessions /\ ctx[h].seen = "no" /\ pc[h] = "saveRevoked"
      /\ sessions' = Revoked(q, "refresh") /\ ctx' = ctx /\ UNCHANGED lost
      /\ raced' = IF sessions[q].revoked = "no" THEN raced ELSE raced \cup {q}
  BY DEF Serve, SaveRevoked, ControlInv, ControlOf
<1>1. pc'[h] = "findUser"
  BY DEF SaveRevoked, Goto, TypeOK
<1>2. /\ DOMAIN sessions' = DOMAIN sessions
      /\ \A t \in DOMAIN sessions : sessions'[t].parent = sessions[t].parent
      /\ \A t \in DOMAIN sessions :
           sessions'[t].revoked = IF t = q /\ sessions[t].revoked = "no" THEN "refresh"
                                  ELSE sessions[t].revoked
  BY <1>0, RevokedRows
<1>3. \A s : /\ ~Exchanges(h, s)
             /\ Exchanges(h, s)' <=> s = q
  BY <1>0, <1>1 DEF Exchanges
<1>4. ASSUME NEW s \in DOMAIN sessions, s \notin raced', s # q PROVE OneOf(s)'
  <2>1. Exchanging(s)' = Exchanging(s)
    BY <1>0, <1>3, <1>4, ExchangesNone
  <2> QED
    BY <1>0, <1>2, <1>4, <2>1, OneOfKept, SuccessorsKept DEF SessionInv
<1>5. ASSUME q \notin raced' PROVE OneOf(q)'
  <2>1. sessions[q].revoked = "no" /\ q \notin raced
    BY <1>0, <1>5
  <2>2. Unexchanged(q)
    BY <1>0, <2>1 DEF SessionInv, OneOf
  <2>3. Exchanging(q)' = {h}
    BY <1>0, <1>3, <2>2, ExchangingMoves DEF Unexchanged
  <2>4. Successors(q)' = {} /\ q \notin lost'
    BY <1>0, <1>2, <2>2, SuccessorsKept DEF Unexchanged
  <2>5. Exchanged(q)'
    BY <2>3, <2>4 DEF Exchanged
  <2>6. sessions'[q].revoked = "refresh"
    BY <1>0, <1>2, <2>1
  <2> QED
    BY <2>5, <2>6 DEF OneOf
<1> QED
  BY <1>0, <1>2, <1>4, <1>5 DEF SessionInv

LEMMA SavesRevoke ==
  ASSUME TypeOK, ControlInv, SessionInv, NEW h \in Handlers, SaveRevoked(h),
         ctx[h].op # "refresh"
  PROVE  SessionInv'
<1>1. /\ Serve(h) /\ ctx[h].session \in DOMAIN sessions
      /\ sessions' = Revoked(ctx[h].session, "user") /\ UNCHANGED <<lost, raced>>
  BY DEF Serve, SaveRevoked, ControlInv, ControlOf
<1>2. ctx'[h] = NoContext
  BY DEF SaveRevoked, Leave, Keep, TypeOK
<1>3. \A s \in DOMAIN sessions : Exchanging(s)' = Exchanging(s)
  BY <1>1, <1>2, ExchangesNone DEF Exchanges, NoContext
<1> QED
  BY <1>1, <1>3, RevokesAsUser

\* A handler that leaves the exchange of a session takes itself out of it.
LEMMA LeavesExchange ==
  ASSUME TypeOK, SessionInv, NEW h \in Handlers, Serve(h), ctx'[h] = NoContext,
         NEW q \in DOMAIN sessions \ raced, Exchanges(h, q)
  PROVE  /\ sessions[q].revoked = "refresh"
         /\ Successors(q) = {} /\ Exchanging(q)' = {} /\ q \notin lost
<1>1. h \in Exchanging(q) /\ h \notin Exchanging(q)'
  BY ExchangingMoves DEF Exchanges, NoContext
<1>2. sessions[q].revoked = "refresh" /\ Exchanged(q)
  BY <1>1 DEF SessionInv, OneOf, Unexchanged
<1>3. Successors(q) = {} /\ Exchanging(q) = {h} /\ q \notin lost
  BY <1>1, <1>2 DEF Exchanged
<1> QED
  BY <1>1, <1>2, <1>3, ExchangingMoves

LEMMA ThrowSession ==
  ASSUME TypeOK, ControlInv, SessionInv, NEW h \in Handlers, Throw(h), pc[h] # "idle"
  PROVE  SessionInv'
<1>0. /\ Serve(h) /\ UNCHANGED <<sessions, raced>>
      /\ lost' = IF pc[h] \in {"findUser", "issue"} /\ ctx[h].op = "refresh"
                 THEN lost \cup {ctx[h].session} ELSE lost
      /\ ctx'[h] = NoContext
  BY DEF Serve, Throw, accountRows, Leave, Keep, TypeOK
<1>1. pc[h] \in {"saveUser", "saveRevoked", "findUser", "issue"}
  BY DEF TypeOK
<1>2. pc[h] = "saveUser" => ctx[h].op # "refresh"
  BY DEF ControlInv, ControlOf, UserOps
<1>3. \A s : ~Exchanges(h, s)'
  BY <1>0 DEF Exchanges, NoContext
<1>4. \A s : s \in lost' <=> s \in lost \/ Exchanges(h, s)
  BY <1>0, <1>1, <1>2 DEF Exchanges
<1>5. \A s : Exchanges(h, s) => s \in DOMAIN sessions
  BY DEF Exchanges, ControlInv, ControlOf
<1>6. ASSUME NEW s \in DOMAIN sessions, s \notin raced, ~Exchanges(h, s) PROVE OneOf(s)'
  <2>1. Exchanging(s)' = Exchanging(s)
    BY <1>0, <1>3, <1>6, ExchangesNone
  <2> QED
    BY <1>0, <1>4, <1>6, <2>1, OneOfKept, SuccessorsKept DEF SessionInv
<1>7. ASSUME NEW s \in DOMAIN sessions, s \notin raced, Exchanges(h, s) PROVE OneOf(s)'
  <2>1. /\ sessions[s].revoked = "refresh"
        /\ Successors(s) = {} /\ Exchanging(s)' = {}
    BY <1>0, <1>7, LeavesExchange
  <2>2. Successors(s)' = {} /\ s \in lost'
    BY <1>0, <1>4, <1>7, <2>1, SuccessorsKept
  <2> QED
    BY <1>0, <2>1, <2>2 DEF OneOf, Exchanged
<1>8. lost' \subseteq DOMAIN sessions
  BY <1>4, <1>5 DEF SessionInv
<1> QED
  BY <1>0, <1>6, <1>7, <1>8 DEF SessionInv

LEMMA IssueSession ==
  ASSUME TypeOK, ControlInv, SessionInv, NEW h \in Handlers, Issue(h)
  PROVE  SessionInv'
<1> PICK n, q : n = Len(sessions) + 1 /\ q = ctx[h].session
  OBVIOUS
<1>0. /\ Serve(h) /\ UNCHANGED <<lost, raced>> /\ pc[h] = "issue" /\ ctx'[h] = NoContext
  BY DEF Serve, Issue, histories, Leave, Keep, TypeOK
<1>1. /\ DOMAIN sessions' = DOMAIN sessions \cup {n}
      /\ \A t \in DOMAIN sessions : sessions'[t] = sessions[t]
      /\ sessions'[n].revoked = "no" /\ sessions'[n].parent = q
      /\ q \in {0} \cup DOMAIN sessions
  BY IssuedRows
<1>2. n \notin DOMAIN sessions /\ n # 0 /\ 0 \notin DOMAIN sessions
  BY SessionRows
<1>3. q # 0 => ctx[h].op = "refresh"
  BY <1>0, Holds DEF ControlInv, ControlOf, UserOps, UserHeld
<1>3a. ctx[h].op = "refresh" => q \in DOMAIN sessions
  BY DEF ControlInv, ControlOf
<1>4. \A s : ~Exchanges(h, s)'
  BY <1>0 DEF Exchanges, NoContext
<1>5. \A s \in DOMAIN sessions : Exchanges(h, s) <=> s = q
  BY <1>0, <1>2, <1>3 DEF Exchanges
<1>6. \A s : Successors(s)' = Successors(s) \cup (IF s = q THEN {n} ELSE {})
  BY <1>1, <1>2 DEF Successors
<1>6a. \A s : Exchanges(h, s) => s \in DOMAIN sessions
  BY DEF Exchanges, ControlInv, ControlOf
<1>7. ASSUME NEW s \in DOMAIN sessions, s \notin raced, s # q PROVE OneOf(s)'
  <2>1. Exchanging(s)' = Exchanging(s)
    BY <1>0, <1>4, <1>5, <1>7, ExchangesNone
  <2>2. Successors(s)' = Successors(s)
    BY <1>6, <1>7
  <2> QED
    BY <1>0, <1>1, <1>7, <2>1, <2>2, OneOfKept DEF SessionInv
<1>8. ASSUME q \in DOMAIN sessions, q \notin raced PROVE OneOf(q)'
  <2>1. /\ sessions[q].revoked = "refresh"
        /\ Successors(q) = {} /\ Exchanging(q)' = {} /\ q \notin lost
    BY <1>0, <1>5, <1>8, LeavesExchange
  <2>2. Successors(q)' = {n} /\ n \in DOMAIN sessions'
    BY <1>1, <1>6, <2>1
  <2>3. Exchanged(q)'
    BY <1>0, <2>1, <2>2 DEF Exchanged
  <2> QED
    BY <1>1, <1>8, <2>1, <2>3 DEF OneOf
<1>9. OneOf(n)'
  <2>1. Successors(n) = {}
    BY <1>2 DEF Successors, SessionInv
  <2>2. Successors(n)' = {}
    BY <1>1, <1>2, <1>6, <2>1
  <2>3. \A g \in Handlers : ~Exchanges(g, n)
    BY <1>2 DEF Exchanges, ControlInv, ControlOf
  <2>4. Exchanging(n)' = {}
    <3>1. Exchanging(n) = {}
      BY <2>3, ExchangingIs
    <3> QED
      BY <1>0, <1>4, <3>1, ExchangingMoves
  <2>5. n \notin lost'
    BY <1>0, <1>2 DEF SessionInv
  <2> QED
    BY <1>1, <2>2, <2>4, <2>5 DEF OneOf, Unexchanged
<1> QED
  BY <1>0, <1>1, <1>7, <1>8, <1>9 DEF SessionInv

LEMMA SessionStep == TypeOK /\ ControlInv /\ SessionInv /\ [Next]_vars => SessionInv'
<1> SUFFICES ASSUME TypeOK, ControlInv, SessionInv, [Next]_vars PROVE SessionInv'
  OBVIOUS
<1>0. /\ pc \in [Handlers -> {"idle", "saveUser", "saveRevoked", "findUser", "issue"}]
      /\ ctx \in [Handlers -> Context \cup {NoContext}]
      /\ \A h \in Handlers : pc[h] = "idle" => ctx[h] = NoContext
  BY DEF TypeOK, ControlInv, ControlOf
<1>1. ASSUME UNCHANGED <<pc, ctx>>
      PROVE  \A s \in DOMAIN sessions : Exchanging(s)' = Exchanging(s)
  BY <1>1 DEF Exchanging, Serving
<1>2. CASE Tick \/ UNCHANGED vars
  BY <1>1, <1>2, SessionsUntouched DEF Tick, vars, accountRows, histories
<1>3. ASSUME NEW q \in DOMAIN sessions, Logout(q) PROVE SessionInv'
  BY <1>1, <1>3, RevokesAsUser DEF Logout, histories
<1>4. ASSUME NEW h \in Handlers, ReadsUser(h) PROVE SessionInv'
  <2>1. PICK op \in UserOps, password \in Passwords, token \in 0..MaxTokens :
          ReadUser(h, op, password, token)
    BY <1>4 DEF ReadsUser
  <2>2. /\ ctx[h] = NoContext /\ UNCHANGED <<sessions, lost, raced>>
        /\ ctx'[h] = [op |-> op, user |-> user, password |-> password, token |-> token,
                      session |-> 0]
    BY <1>0, <2>1 DEF ReadUser, Begin, Idle, Keep, accountRows, histories
  <2>3. \A s : ~Exchanges(h, s) /\ ~Exchanges(h, s)'
    BY <2>2 DEF Exchanges, NoContext, UserOps
  <2> QED
    BY <1>4, <2>2, <2>3, ExchangesNone, SessionsUntouched DEF Serve
<1>5. ASSUME NEW h \in Handlers, ReadsSession(h) PROVE SessionInv'
  <2>1. /\ ctx[h] = NoContext /\ pc'[h] = "saveRevoked" /\ UNCHANGED <<sessions, lost, raced>>
    BY <1>0, <1>5 DEF ReadsSession, Begin, Idle, Goto, accountRows, histories
  <2>2. \A s : ~Exchanges(h, s) /\ ~Exchanges(h, s)'
    BY <2>1 DEF Exchanges, NoContext
  <2> QED
    BY <1>5, <2>1, <2>2, ExchangesNone, SessionsUntouched DEF Serve
<1>6. ASSUME NEW h \in Handlers, SaveUser(h) PROVE SessionInv'
  <2>1. /\ ctx[h].op \in UserOps /\ UNCHANGED <<sessions, lost, raced>>
        /\ ctx'[h] = ctx[h] \/ ctx'[h] = NoContext
    BY <1>0, <1>6 DEF SaveUser, Leave, Keep, ControlInv, ControlOf
  <2>2. \A s : ~Exchanges(h, s) /\ ~Exchanges(h, s)'
    BY <2>1 DEF Exchanges, NoContext, UserOps
  <2> QED
    BY <1>6, <2>1, <2>2, ExchangesNone, SessionsUntouched DEF Serve
<1>7. ASSUME NEW h \in Handlers, FindUser(h) PROVE SessionInv'
  <2>1. /\ pc[h] = "findUser" /\ pc'[h] = "issue" /\ ctx' = ctx
        /\ UNCHANGED <<sessions, lost, raced>>
    BY <1>0, <1>7 DEF FindUser, Goto, accountRows, histories
  <2>2. \A s : Exchanges(h, s)' <=> Exchanges(h, s)
    BY <2>1 DEF Exchanges
  <2> QED
    BY <1>7, <2>1, <2>2, ExchangesNone, SessionsUntouched DEF Serve
<1> QED
  BY <1>2, <1>3, <1>4, <1>5, <1>6, <1>7, SavesRefresh, SavesRevoke, IssueSession, ThrowSession,
     NextCases DEF Serve

-----------------------------------------------------------------------------
(***************************************************************************)
(* The invariant, and what follows from it                                 *)
(***************************************************************************)
LEMMA InitIInv == Init => IInv
<1> SUFFICES ASSUME Init PROVE IInv
  OBVIOUS
<1>1. DOMAIN sessions = {}
  BY DEF Init
<1>2. SessionInv
  BY <1>1 DEF Init, SessionInv
<1>3. StandingInv
  BY DEF Init, StandingInv
<1> QED
  BY <1>2, <1>3, InitTypeControl DEF IInv

LEMMA StepIInv == IInv /\ [Next]_vars => IInv'
BY TypeStep, ControlStep, SessionStep, StandingStep DEF IInv

\* Every call finds its handler as the calls before it have left it, every session has
\* what its revocation owes it, and the row counts the strikes.
THEOREM Invariance == Spec => []IInv
BY InitIInv, StepIInv, PTL DEF Spec

\* For any number of requests at the same time: while no row was saved over a later one,
\* a blocked account is inactive, and one that failed often enough is locked for the whole
\* lock time after its last failure.
THEOREM StandingHeld == Spec => []StandingHoldsUnlessStale
<1>1. IInv => StandingHoldsUnlessStale
  BY DEF IInv, StandingInv, StandingHoldsUnlessStale
<1> QED
  BY <1>1, Invariance, PTL

\* For any number of refreshes at the same time: a session that a refresh has revoked has
\* one successor, or one on its way, or was lost with its request, and any other session
\* has none, unless somebody revoked it between a refresh's read and its save.
THEOREM OneSuccessor == Spec => []OneSuccessorUnlessRaced
<1>1. \A x : Cardinality({x}) = 1
  BY FS_Singleton
<1>2. Cardinality({}) = 0
  BY FS_EmptySet
<1>3. ASSUME IInv, NEW s \in DOMAIN sessions, s \notin raced
      PROVE  Cardinality(Successors(s)) + Cardinality(Exchanging(s))
               + (IF s \in lost THEN 1 ELSE 0)
             = IF sessions[s].revoked = "refresh" THEN 1 ELSE 0
  <2>1. OneOf(s)
    BY <1>3 DEF IInv, SessionInv
  <2>2. ASSUME Unexchanged(s)
        PROVE  Cardinality(Successors(s)) = 0 /\ Cardinality(Exchanging(s)) = 0
               /\ s \notin lost
    BY <1>2, <2>2 DEF Unexchanged
  <2>3. ASSUME Exchanged(s)
        PROVE  \/ /\ Cardinality(Successors(s)) = 0 /\ Cardinality(Exchanging(s)) = 0
                  /\ s \in lost
               \/ /\ Cardinality(Successors(s)) = 0 /\ Cardinality(Exchanging(s)) = 1
                  /\ s \notin lost
               \/ /\ Cardinality(Successors(s)) = 1 /\ Cardinality(Exchanging(s)) = 0
                  /\ s \notin lost
    BY <1>1, <1>2, <2>3 DEF Exchanged
  <2> QED
    BY <2>1, <2>2, <2>3 DEF OneOf
<1>4. IInv => OneSuccessorUnlessRaced
  BY <1>3 DEF OneSuccessorUnlessRaced
<1> QED
  BY <1>4, Invariance, PTL
=============================================================================
