------------------------------- MODULE Accounts -------------------------------
(***************************************************************************)
(* Accounts and sessions: registration, login, the rotation of refresh     *)
(* tokens, authentication of requests, the operator's commands (init-admin, *)
(* set-role, set-status) and the clean-up by age.                           *)
(*                                                                         *)
(* A request reads, then writes in another transaction, with the clock of   *)
(* its beginning; the operator's commands hold the admin advisory lock.     *)
(* LoginThrottle is what a login passes before it reads the user.           *)
(***************************************************************************)
EXTENDS Integers, FiniteSets

CONSTANTS Users,        \* usernames; a user is named by the only account with it
          Requests,     \* requests in flight
          Commands,     \* operator commands in flight
          SessionTTL,   \* auth.session_ttl
          Retention,    \* SessionRetention
          MaxSessions,  \* bound on the logins
          MaxTokens,    \* bound on the tokens of a session
          MaxVersion,   \* bound on the writes of a user
          MaxTime,      \* bound on the clock
          MaxInFlight   \* bound on the requests and commands under way at once

(* A username is at most 32 characters, so there are finitely many.         *)
ASSUME AccountsAssumption ==
  /\ IsFiniteSet(Users)
  /\ SessionTTL \in Nat \ {0} /\ Retention \in Nat
  /\ MaxSessions \in Nat \ {0} /\ MaxTokens \in Nat \ {0}
  /\ MaxVersion \in Nat \ {0} /\ MaxTime \in Nat /\ MaxInFlight \in Nat

VARIABLES users,     \* velis.users
          sessions,  \* velis.auth_sessions
          opened,    \* the sessions ever inserted
          tokens,    \* velis.refresh_tokens
          requests,  \* HTTP requests in flight
          commands,  \* CLI transactions in flight
          now        \* the clock

vars == <<users, sessions, opened, tokens, requests, commands, now>>

Roles    == {"user", "admin"}
Statuses == {"active", "disabled"}
Reasons  == {"logout", "disabled", "role_changed", "replay"}

(* Version 0 is no row.                                                    *)
User   == [role : Roles, status : Statuses, version : 0..MaxVersion]
NoUser == [role |-> "user", status |-> "active", version |-> 0]

SessionIds == 1..MaxSessions

(* revoked is revoke_reason, "none" for NULL; at is revoked_at.            *)
Session == [user : Users, expires : Nat, revoked : Reasons \cup {"none"}, at : Nat]

(* A refresh token is the serial-th of its session and expires with it.    *)
Token == [session : SessionIds, serial : 1..MaxTokens, consumed : BOOLEAN]

Exists(u)   == users[u].version > 0
IsActive(u) == Exists(u) /\ users[u].status = "active"
ActiveAdmins == {u \in Users : IsActive(u) /\ users[u].role = "admin"}

Known == DOMAIN sessions
Live(s, t)  == sessions[s].revoked = "none" /\ t < sessions[s].expires
TokensOf(s) == {t \in tokens : t.session = s}

Nobody == "nobody"

(* phase "acting": the handler runs with an Identity, version is of the    *)
(* user it read; "rotated": the old token is consumed, the user unread.    *)
Request == [phase : {"idle", "login", "refresh", "rotated", "session", "acting"},
            user : Users \cup {Nobody}, token : Token, session : 0..MaxSessions,
            version : 0..MaxVersion, at : 0..MaxTime]

NoToken == [session |-> 1, serial |-> 1, consumed |-> FALSE]
Idle == [phase |-> "idle", user |-> Nobody, token |-> NoToken, session |-> 0,
         version |-> 0, at |-> 0]

Command == [op : {"idle", "init", "role", "status"}, user : Users \cup {Nobody},
            row : User, admins : 0..Cardinality(Users), at : 0..MaxTime]
NoCommand == [op |-> "idle", user |-> Nobody, row |-> NoUser, admins |-> 0, at |-> 0]

Room == Cardinality({r \in Requests : requests[r] # Idle})
          + Cardinality({c \in Commands : commands[c] # NoCommand}) < MaxInFlight

-----------------------------------------------------------------------------
(* Register, Login.                                                        *)

Create(u, role) ==
  /\ ~Exists(u)
  /\ users' = [users EXCEPT ![u] = [role |-> role, status |-> "active", version |-> 1]]

Register(u) ==
  /\ Create(u, "user")
  /\ UNCHANGED <<sessions, opened, tokens, requests, commands, now>>

Begin(r, request) ==
  /\ requests[r] = Idle /\ Room
  /\ requests' = [requests EXCEPT ![r] = request]
Finish(r)         == requests' = [requests EXCEPT ![r] = Idle]

(* The password matched and the user is active; otherwise nothing is left. *)
Login(r, u) ==
  /\ IsActive(u)
  /\ Begin(r, [Idle EXCEPT !.phase = "login", !.user = u, !.at = now])
  /\ UNCHANGED <<users, sessions, opened, tokens, commands, now>>

StartSession(r) ==
  LET q == requests[r]
      s == opened + 1
  IN  /\ q.phase = "login" /\ opened < MaxSessions
      /\ opened' = s
      /\ sessions' = [x \in Known \cup {s} |->
           IF x = s THEN [user |-> q.user, expires |-> q.at + SessionTTL,
                          revoked |-> "none", at |-> 0]
           ELSE sessions[x]]
      /\ tokens' = tokens \cup {[session |-> s, serial |-> 1, consumed |-> FALSE]}
      /\ Finish(r)
      /\ UNCHANGED <<users, commands, now>>

-----------------------------------------------------------------------------
(* Refresh, Logout.                                                        *)

(* Any token ever sent out may be presented, consumed or not.               *)
Refresh(r, t) ==
  /\ Begin(r, [Idle EXCEPT !.phase = "refresh", !.token = t, !.at = now])
  /\ UNCHANGED <<users, sessions, opened, tokens, commands, now>>

(* WHERE revoked_at IS NULL: the first reason stays.                        *)
Revoked(which, reason, at) ==
  [s \in Known |->
    IF s \in which /\ sessions[s].revoked = "none"
    THEN [sessions[s] EXCEPT !.revoked = reason, !.at = at] ELSE sessions[s]]

Successor(t) == [t EXCEPT !.serial = t.serial + 1, !.consumed = FALSE]
SameToken(t, x) == x.session = t.session /\ x.serial = t.serial
Stored(t) == {x \in tokens : SameToken(t, x)}

(* Mutant: whether the token is consumed is read before the lock.           *)
OutcomeUnlocked(q) ==
  IF Stored(q.token) = {} THEN "unknown"
  ELSE IF ~Live(q.token.session, q.at) THEN "invalid"
  ELSE IF q.token.consumed THEN "replay"
  ELSE "rotated"

(* Mutant: a token of a revoked session is still exchanged.                 *)
OutcomeRevoked(q) ==
  IF Stored(q.token) = {} THEN "unknown"
  ELSE IF ~(q.at < sessions[q.token.session].expires) THEN "invalid"
  ELSE IF \E x \in Stored(q.token) : x.consumed THEN "replay"
  ELSE "rotated"

(* What Rotate finds under the lock of the session, then of the token.      *)
Outcome(q) ==
  IF Stored(q.token) = {} THEN "unknown"
  ELSE IF ~Live(q.token.session, q.at) THEN "invalid"
  ELSE IF \E x \in Stored(q.token) : x.consumed THEN "replay"
  ELSE "rotated"

Rotate(r) ==
  LET q == requests[r]
      t == q.token
      outcome == Outcome(q)
  IN  /\ q.phase = "refresh"
      /\ outcome = "rotated" => t.serial < MaxTokens
      /\ sessions' = IF outcome = "replay"
                     THEN Revoked({t.session}, "replay", q.at) ELSE sessions
      /\ tokens' = IF outcome = "rotated"
                   THEN (tokens \ Stored(t)) \cup {[t EXCEPT !.consumed = TRUE], Successor(t)}
                   ELSE tokens
      /\ requests' = [requests EXCEPT ![r] =
           IF outcome = "rotated"
           THEN [q EXCEPT !.phase = "rotated", !.session = t.session] ELSE Idle]
      /\ UNCHANGED <<users, opened, commands, now>>

(* The user is read after the rotation: active or not, the request ends.    *)
RefreshUser(r) ==
  /\ requests[r].phase = "rotated"
  /\ Finish(r)
  /\ UNCHANGED <<users, sessions, opened, tokens, commands, now>>

Logout(t) ==
  /\ sessions' = Revoked({t.session}, "logout", now)
  /\ sessions' # sessions
  /\ UNCHANGED <<users, opened, tokens, requests, commands, now>>

-----------------------------------------------------------------------------
(* Authenticate and a handler that acts for the identity.                   *)

AuthSession(r, s) ==
  /\ Live(s, now)
  /\ Begin(r, [Idle EXCEPT !.phase = "session", !.session = s,
                           !.user = sessions[s].user])
  /\ UNCHANGED <<users, sessions, opened, tokens, commands, now>>

AuthUser(r) ==
  LET q == requests[r]
  IN  /\ q.phase = "session"
      /\ requests' = [requests EXCEPT ![r] =
           IF IsActive(q.user)
           THEN [q EXCEPT !.phase = "acting", !.version = users[q.user].version]
           ELSE Idle]
      /\ UNCHANGED <<users, sessions, opened, tokens, commands, now>>

Current(q) == users[q.user].version = q.version

(* The row is not locked by a command; ErrVersionConflict leaves it as it is. *)
UpdateNickname(r) ==
  LET q == requests[r]
  IN  /\ q.phase = "acting"
      /\ \A c \in Commands : commands[c].op \in {"role", "status"} => commands[c].user # q.user
      /\ Current(q) => users[q.user].version < MaxVersion
      /\ users' = IF Current(q)
                  THEN [users EXCEPT ![q.user].version = users[q.user].version + 1]
                  ELSE users
      /\ Finish(r)
      /\ UNCHANGED <<sessions, opened, tokens, commands, now>>

Respond(r) ==
  /\ requests[r].phase = "acting"
  /\ Finish(r)
  /\ UNCHANGED <<users, sessions, opened, tokens, commands, now>>

-----------------------------------------------------------------------------
(* The operator's commands, each one transaction.                           *)

(* Mutant: set-role and set-status only lock the row of their user.         *)
LockUserOnly(op, u) ==
  \A c \in Commands : commands[c].op # "idle" =>
    "init" \notin {op, commands[c].op} /\ commands[c].user # u

(* LockAdminScope and LockUser: any command waits for every other.          *)
LockAdminScope(op, u) == \A c \in Commands : commands[c].op = "idle"

Read(c, op, u) ==
  /\ commands[c].op = "idle" /\ LockAdminScope(op, u) /\ Room
  /\ commands' = [commands EXCEPT ![c] =
       [op |-> op, user |-> u, row |-> users[u],
        admins |-> Cardinality(ActiveAdmins), at |-> now]]
  /\ UNCHANGED <<users, sessions, opened, tokens, requests, now>>

InitAdmin(c, u) == Read(c, "init", u)
SetRole(c, u)   == Exists(u) /\ Read(c, "role", u)
SetStatus(c, u) == Exists(u) /\ Read(c, "status", u)

Flipped(values, value) == CHOOSE v \in values : v # value

(* Mutant: the target is counted among the admins that remain.              *)
AdminRemainsCounted(k) ==
  k.row.role = "admin" /\ k.row.status = "active" => k.admins >= 1

(* ensureAdminRemains, CheckLastAdmin.                                      *)
AdminRemains(k) ==
  k.row.role = "admin" /\ k.row.status = "active" => k.admins - 1 >= 1

Leave(c) == commands' = [commands EXCEPT ![c] = NoCommand]

Refuse(c) ==
  LET k == commands[c]
  IN  /\ k.op # "idle"
      /\ IF k.op = "init" THEN k.admins > 0 \/ Exists(k.user) ELSE ~AdminRemains(k)
      /\ Leave(c)
      /\ UNCHANGED <<users, sessions, opened, tokens, requests, now>>

CommitInit(c) ==
  LET k == commands[c]
  IN  /\ k.op = "init" /\ k.admins = 0
      /\ Create(k.user, "admin")
      /\ Leave(c)
      /\ UNCHANGED <<sessions, opened, tokens, requests, now>>

CommitRole(c) ==
  LET k == commands[c]
      u == k.user
  IN  /\ k.op = "role" /\ AdminRemains(k) /\ users[u].version < MaxVersion
      /\ users' = [users EXCEPT ![u].role = Flipped(Roles, k.row.role),
                                ![u].version = users[u].version + 1]
      /\ sessions' = Revoked({s \in Known : sessions[s].user = u}, "role_changed", k.at)
      /\ Leave(c)
      /\ UNCHANGED <<opened, tokens, requests, now>>

CommitStatus(c) ==
  LET k == commands[c]
      u == k.user
      next == Flipped(Statuses, k.row.status)
  IN  /\ k.op = "status" /\ AdminRemains(k) /\ users[u].version < MaxVersion
      /\ users' = [users EXCEPT ![u].status = next,
                                ![u].version = users[u].version + 1]
      /\ sessions' = IF next = "disabled"
                     THEN Revoked({s \in Known : sessions[s].user = u}, "disabled", k.at)
                     ELSE sessions
      /\ Leave(c)
      /\ UNCHANGED <<opened, tokens, requests, now>>

-----------------------------------------------------------------------------
(* CleanupService.Run, a row at a time: a batch may end anywhere.           *)

(* Mutant: the age of a token is taken from its consumption.                *)
StaleConsumed(t) == t.consumed

StaleSession(s) ==
  LET end == IF sessions[s].revoked = "none" THEN sessions[s].expires ELSE sessions[s].at
  IN  end < now - Retention
StaleToken(t) == sessions[t.session].expires < now - Retention

(* Mutant: the deletion of a session leaves its tokens.                     *)
CascadeNothing(s) == {}

(* ON DELETE CASCADE.                                                       *)
Cascade(s) == TokensOf(s)

CleanSession(s) ==
  /\ StaleSession(s)
  /\ sessions' = [x \in Known \ {s} |-> sessions[x]]
  /\ tokens' = tokens \ Cascade(s)
  /\ UNCHANGED <<users, opened, requests, commands, now>>

CleanToken(t) ==
  /\ StaleToken(t)
  /\ tokens' = tokens \ {t}
  /\ UNCHANGED <<users, sessions, opened, requests, commands, now>>

Tick ==
  /\ now < MaxTime
  /\ now' = now + 1
  /\ UNCHANGED <<users, sessions, opened, tokens, requests, commands>>

-----------------------------------------------------------------------------
Init ==
  /\ users = [u \in Users |-> NoUser]
  /\ sessions = [s \in {} |-> {}]
  /\ opened = 0 /\ tokens = {} /\ now = 0
  /\ requests = [r \in Requests |-> Idle]
  /\ commands = [c \in Commands |-> NoCommand]

RequestStep(r) ==
  \/ \E u \in Users : Login(r, u)
  \/ StartSession(r)
  \/ \E t \in tokens : Refresh(r, t)
  \/ Rotate(r) \/ RefreshUser(r)
  \/ \E s \in Known : AuthSession(r, s)
  \/ AuthUser(r) \/ UpdateNickname(r) \/ Respond(r)

CommandStep(c) ==
  \/ \E u \in Users : InitAdmin(c, u) \/ SetRole(c, u) \/ SetStatus(c, u)
  \/ Refuse(c) \/ CommitInit(c) \/ CommitRole(c) \/ CommitStatus(c)

Next ==
  \/ \E u \in Users : Register(u)
  \/ \E r \in Requests : RequestStep(r)
  \/ \E t \in tokens : Logout(t) \/ CleanToken(t)
  \/ \E c \in Commands : CommandStep(c)
  \/ \E s \in Known : CleanSession(s)
  \/ Tick

Spec == Init /\ [][Next]_vars
-----------------------------------------------------------------------------
(* Properties.                                                             *)

TypeOK ==
  /\ users \in [Users -> User]
  /\ Known \subseteq 1..opened /\ opened \in 0..MaxSessions
  /\ \A s \in Known : sessions[s] \in Session
  /\ tokens \subseteq Token
  /\ requests \in [Requests -> Request]
  /\ commands \in [Commands -> Command]
  /\ now \in 0..MaxTime
  /\ \A t \in tokens : t.session \in Known

(* A session that can still be refreshed has every token it was ever given, *)
(* the last of them and no other unconsumed: the client can go on, and a     *)
(* token used before is recognised however long ago that was.               *)
TokenChain ==
  \A s \in Known : now < sessions[s].expires =>
    LET n == Cardinality(TokensOf(s))
    IN  TokensOf(s) = {[session |-> s, serial |-> i, consumed |-> i < n] : i \in 1..n}

(* Of the requests that race with one token at most one gets its successor, *)
(* whichever reads the token first.                                         *)
OneSuccessor ==
  \A r, q \in Requests :
    /\ requests[r].phase = "rotated" /\ requests[q].phase = "rotated"
    /\ SameToken(requests[r].token, requests[q].token)
    => r = q

(* The tokens of a session form one chain, of which one at most is left to  *)
(* present. (Rotate, DeleteExpiredRefreshTokens.)                           *)
OneChain == TokenChain /\ OneSuccessor

(* A revocation is final: the session is given no token any more, whatever   *)
(* request was under way, and it keeps its first reason until its deletion. *)
RevokedIsFinal ==
  [][\A s \in Known : sessions[s].revoked # "none" =>
       /\ {t \in tokens' : t.session = s} \subseteq tokens
       /\ s \in DOMAIN sessions' => sessions'[s] = sessions[s]]_vars

(* Once there is an active admin there always is one, although two commands *)
(* that each leave one admin may run at once.                               *)
AdminStays == [][ActiveAdmins # {} => ActiveAdmins' # {}]_vars

(* init-admin makes the first admin only: without a promotion or a           *)
(* re-enabling, an admin appears only where there is none.                  *)
OnlyFirstAdmin ==
  [][\A u \in Users : ~Exists(u) /\ u \in ActiveAdmins' => ActiveAdmins = {}]_vars

(* What operators decide holds: the last active administrator stays, only   *)
(* the first one comes from nowhere, and a revoked session never comes back. *)
(* (ensureAdminRemains, InitAdmin, Rotate.)                                 *)
DecisionsHold == AdminStays /\ OnlyFirstAdmin /\ RevokedIsFinal
=============================================================================
