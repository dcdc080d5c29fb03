---------------------------- MODULE Access_proofs -----------------------------
(***************************************************************************)
(* Proofs about what the server keeps of a person, for every finite set of  *)
(* usernames, every number of requests, commands and logins in flight, and  *)
(* every bound.  Of accounts: the unconsumed token of a session is the last *)
(* of it, so that the one request that finds it unconsumed ends every       *)
(* other; and the commands exclude each other, so that what one of them     *)
(* counted is still so when it commits.  Of the throttle: a full window is  *)
(* blocked to its end.                                                      *)
(***************************************************************************)
EXTENDS Access, Sequences, FiniteSetTheorems, TLAPS

-----------------------------------------------------------------------------
(* The parts of the inductive invariant.                                   *)

(* The first n tokens of a session, all consumed but the last.             *)
Chain(s, n) == {[session |-> s, serial |-> i, consumed |-> i < n] : i \in 1..n}

Chains == \A s \in Known : now < sessions[s].expires => \E n \in Nat : TokensOf(s) = Chain(s, n)

(* Whatever the clean-up took away, no token follows an unconsumed one.    *)
LastUnconsumed ==
  \A x, y \in tokens :
    x.session = y.session /\ ~x.consumed => y = x \/ y.serial < x.serial

(* Who has exchanged a token leaves no unconsumed one up to it behind.     *)
Spent(q) ==
  /\ q.token.session <= opened
  /\ \A x \in tokens :
       x.session = q.token.session /\ x.serial <= q.token.serial => x.consumed

RotatedSpent == \A r \in Requests : requests[r].phase = "rotated" => Spent(requests[r])

(* A request that knows a user acts for one that exists.                   *)
KnowsUser(q) ==
  /\ q.phase \in {"login", "session", "acting"} => q.user \in Users
  /\ q.phase = "acting" => q.version # 0

RequestsKnow == \A r \in Requests : KnowsUser(requests[r])

(* One command runs at a time, and what it has read is so until it ends.    *)
CommandsAlone ==
  /\ \A c, d \in Commands : commands[c].op # "idle" /\ commands[d].op # "idle" => c = d
  /\ \A c \in Commands : commands[c].op # "idle" =>
       commands[c].user \in Users /\ commands[c].admins = Cardinality(ActiveAdmins)
  /\ \A c \in Commands : commands[c].op \in {"role", "status"} =>
       Exists(commands[c].user) /\ commands[c].row = users[commands[c].user]

IInv ==
  /\ TypeOK /\ Chains /\ LastUnconsumed /\ RotatedSpent /\ OneSuccessor
  /\ RequestsKnow /\ CommandsAlone

-----------------------------------------------------------------------------
(* The operators.                                                          *)

LEMMA ConstantTypes ==
  /\ SessionTTL \in Nat /\ Retention \in Nat /\ MaxSessions \in Nat /\ MaxSessions >= 1
  /\ MaxTokens \in Nat /\ MaxTokens >= 1 /\ MaxVersion \in Nat /\ MaxVersion >= 1
  /\ MaxTime \in Nat /\ IsFiniteSet(Users) /\ Cardinality(Users) \in Nat
  BY AccountsAssumption, FS_CardinalityType

LEMMA RestTypes ==
  /\ NoUser \in User /\ NoUser.version = 0 /\ NoUser.role = "user"
  /\ Idle \in Request /\ Idle.phase = "idle"
  /\ NoCommand \in Command /\ NoCommand.op = "idle"
  <1>1. NoUser \in User /\ NoUser.version = 0 /\ NoUser.role = "user"
    BY ConstantTypes DEF NoUser, User, Roles, Statuses
  <1>2. NoToken \in Token
    BY ConstantTypes DEF NoToken, Token, SessionIds
  <1>3. Idle \in Request /\ Idle.phase = "idle"
    BY <1>2, ConstantTypes DEF Idle, Request
  <1>4. NoCommand \in Command /\ NoCommand.op = "idle"
    BY <1>1, ConstantTypes DEF NoCommand, Command
  <1> QED BY <1>1, <1>3, <1>4

LEMMA ChainCardinality ==
  ASSUME NEW s, NEW n \in Nat
  PROVE  Cardinality(Chain(s, n)) = n
  <1> DEFINE f == [i \in 1..n |-> [session |-> s, serial |-> i, consumed |-> i < n]]
  <1>1. f \in [1..n -> Chain(s, n)]
    BY DEF Chain
  <1>2. \A i, j \in 1..n : f[i] = f[j] => i = j
    <2> SUFFICES ASSUME NEW i \in 1..n, NEW j \in 1..n, f[i] = f[j]
                 PROVE  i = j
      OBVIOUS
    <2>1. f[i].serial = i /\ f[j].serial = j
      OBVIOUS
    <2> QED BY <2>1
  <1>3. \A x \in Chain(s, n) : \E i \in 1..n : f[i] = x
    BY DEF Chain
  <1> HIDE DEF f
  <1>4. ExistsBijection(1..n, Chain(s, n))
    BY <1>1, <1>2, <1>3 DEF ExistsBijection, Bijection, Injection, IsInjective, Surjection
  <1> QED BY <1>4, FS_CountingElements

(* A revocation changes no session but to revoke it.                       *)
LEMMA RevokedSessions ==
  ASSUME TypeOK, NEW which, NEW reason \in Reasons, NEW at \in Nat, NEW s \in Known
  PROVE  /\ Revoked(which, reason, at)[s] \in Session
         /\ Revoked(which, reason, at)[s].expires = sessions[s].expires
         /\ Revoked(which, reason, at)[s].user = sessions[s].user
         /\ sessions[s].revoked # "none" => Revoked(which, reason, at)[s] = sessions[s]
  BY DEF TypeOK, Revoked, Session

LEMMA FlippedTypes ==
  /\ \A role \in Roles : Flipped(Roles, role) \in Roles
  /\ \A status \in Statuses : Flipped(Statuses, status) \in Statuses
  <1>1. \A role \in Roles : \E v \in Roles : v # role
    BY DEF Roles
  <1>2. \A status \in Statuses : \E v \in Statuses : v # status
    BY DEF Statuses
  <1> QED BY <1>1, <1>2 DEF Flipped

LEMMA AdminsFinite == IsFiniteSet(ActiveAdmins) /\ Cardinality(ActiveAdmins) \in 0..Cardinality(Users)
  <1>1. ActiveAdmins \in SUBSET Users
    BY DEF ActiveAdmins
  <1>2. IsFiniteSet(ActiveAdmins) /\ Cardinality(ActiveAdmins) <= Cardinality(Users)
    BY <1>1, ConstantTypes, FS_Subset
  <1> QED BY <1>2, ConstantTypes, FS_CardinalityType

-----------------------------------------------------------------------------
(* Every step keeps the invariant.                                         *)

(* A step that at most revokes sessions and moves requests on.             *)
LEMMA TokensKeep ==
  ASSUME IInv, UNCHANGED <<opened, tokens, now>>,
         Known' = Known, \A s \in Known : sessions'[s].expires = sessions[s].expires,
         \A r \in Requests : requests'[r] = requests[r] \/ requests'[r].phase # "rotated"
  PROVE  Chains' /\ LastUnconsumed' /\ RotatedSpent' /\ OneSuccessor'
  <1>1. Chains' /\ LastUnconsumed'
    BY DEF IInv, Chains, TokensOf, LastUnconsumed
  <1>2. RotatedSpent' /\ OneSuccessor'
    BY DEF IInv, RotatedSpent, Spent, OneSuccessor, SameToken
  <1> QED BY <1>1, <1>2

(* A request begins, goes on or ends, and nothing else happens.            *)
LEMMA AskKeeps ==
  ASSUME IInv, NEW r \in Requests, NEW q \in Request, q.phase # "rotated", KnowsUser(q),
         requests' = [requests EXCEPT ![r] = q],
         UNCHANGED <<users, sessions, opened, tokens, commands, now>>
  PROVE  IInv'
  <1>1. \A p \in Requests : requests'[p] = IF p = r THEN q ELSE requests[p]
    BY DEF IInv, TypeOK
  <1>2. TypeOK'
    BY DEF IInv, TypeOK, Known
  <1>3. Chains' /\ LastUnconsumed' /\ RotatedSpent' /\ OneSuccessor'
    BY <1>1, TokensKeep DEF Known
  <1>4. RequestsKnow'
    BY <1>1 DEF IInv, RequestsKnow
  <1>5. CommandsAlone'
    BY DEF IInv, CommandsAlone, ActiveAdmins, IsActive, Exists
  <1> QED BY <1>2, <1>3, <1>4, <1>5 DEF IInv

LEMMA BeginKeeps ==
  ASSUME IInv, NEW r \in Requests,
         \/ \E u \in Users : Login(r, u)
         \/ \E t \in tokens : Refresh(r, t)
         \/ \E s \in Known : AuthSession(r, s)
  PROVE  IInv'
  <1>1. Idle \in Request /\ Idle.phase = "idle" /\ now \in 0..MaxTime
    BY RestTypes DEF IInv, TypeOK
  <1>2. ASSUME NEW u \in Users, Login(r, u)
        PROVE  IInv'
    <2> DEFINE q == [Idle EXCEPT !.phase = "login", !.user = u, !.at = now]
    <2>1. q \in Request /\ q.phase = "login" /\ q.user = u
      BY <1>1 DEF Request
    <2>2. /\ requests' = [requests EXCEPT ![r] = q]
          /\ UNCHANGED <<users, sessions, opened, tokens, commands, now>>
      BY <1>2 DEF Login, Begin
    <2> HIDE DEF q
    <2> QED BY <2>1, <2>2, AskKeeps DEF KnowsUser
  <1>3. ASSUME NEW t \in tokens, Refresh(r, t)
        PROVE  IInv'
    <2> DEFINE q == [Idle EXCEPT !.phase = "refresh", !.token = t, !.at = now]
    <2>1. q \in Request /\ q.phase = "refresh"
      BY <1>1 DEF Request, IInv, TypeOK
    <2>2. /\ requests' = [requests EXCEPT ![r] = q]
          /\ UNCHANGED <<users, sessions, opened, tokens, commands, now>>
      BY <1>3 DEF Refresh, Begin
    <2> HIDE DEF q
    <2> QED BY <2>1, <2>2, AskKeeps DEF KnowsUser
  <1>4. ASSUME NEW s \in Known, AuthSession(r, s)
        PROVE  IInv'
    <2> DEFINE q == [Idle EXCEPT !.phase = "session", !.session = s, !.user = sessions[s].user]
    <2>1. sessions[s].user \in Users /\ s \in 0..MaxSessions
      BY ConstantTypes DEF IInv, TypeOK, Session
    <2>2. q \in Request /\ q.phase = "session" /\ q.user \in Users
      BY <1>1, <2>1 DEF Request
    <2>3. /\ requests' = [requests EXCEPT ![r] = q]
          /\ UNCHANGED <<users, sessions, opened, tokens, commands, now>>
      BY <1>4 DEF AuthSession, Begin
    <2> HIDE DEF q
    <2> QED BY <2>2, <2>3, AskKeeps DEF KnowsUser
  <1> QED BY <1>2, <1>3, <1>4

LEMMA GoOnKeeps ==
  ASSUME IInv, NEW r \in Requests, AuthUser(r) \/ RefreshUser(r) \/ Respond(r)
  PROVE  IInv'
  <1>1. Idle \in Request /\ Idle.phase = "idle" /\ requests[r] \in Request
    BY RestTypes DEF IInv, TypeOK
  <1>2. CASE requests' = [requests EXCEPT ![r] = Idle]
    <2>1. UNCHANGED <<users, sessions, opened, tokens, commands, now>>
      BY DEF AuthUser, RefreshUser, Respond
    <2> QED BY <1>1, <1>2, <2>1, AskKeeps DEF KnowsUser
  <1>3. CASE AuthUser(r) /\ IsActive(requests[r].user)
    <2> DEFINE u == requests[r].user
               q == [requests[r] EXCEPT !.phase = "acting", !.version = users[u].version]
    <2>1. u \in Users
      BY <1>3 DEF AuthUser, IInv, RequestsKnow, KnowsUser
    <2>2. users[u].version \in 0..MaxVersion /\ users[u].version # 0
      BY <1>3, <2>1 DEF IInv, TypeOK, User, IsActive, Exists
    <2>3. q \in Request /\ q.phase = "acting" /\ q.user \in Users /\ q.version # 0
      BY <1>1, <2>1, <2>2 DEF Request
    <2>4. /\ requests' = [requests EXCEPT ![r] = q]
          /\ UNCHANGED <<users, sessions, opened, tokens, commands, now>>
      BY <1>3 DEF AuthUser
    <2> HIDE DEF q
    <2> QED BY <2>3, <2>4, AskKeeps DEF KnowsUser
  <1> QED BY <1>2, <1>3 DEF AuthUser, RefreshUser, Respond, Finish

LEMMA StartKeeps ==
  ASSUME IInv, NEW r \in Requests, StartSession(r)
  PROVE  IInv'
  <1>0. PICK s : s = opened + 1
    OBVIOUS
  <1> DEFINE q == requests[r]
             row == [user |-> q.user, expires |-> q.at + SessionTTL, revoked |-> "none", at |-> 0]
             t == [session |-> s, serial |-> 1, consumed |-> FALSE]
  <1>1. /\ q \in Request /\ q.user \in Users /\ opened \in Nat /\ s \in 1..MaxSessions
        /\ s \notin Known /\ \A x \in tokens : x.session # s /\ x.session \in Known
        /\ \A x \in Known : x \in 1..opened
    BY <1>0, ConstantTypes DEF IInv, TypeOK, StartSession, RequestsKnow, KnowsUser, Known
  <1>2. row \in Session
    BY <1>1, ConstantTypes DEF Request, Session
  <1>3. t \in Token /\ t.session = s /\ t.serial = 1 /\ ~t.consumed
    BY <1>1, ConstantTypes DEF Token, SessionIds
  <1>4. /\ opened' = s /\ Known' = Known \cup {s}
        /\ sessions'[s] = row /\ \A x \in Known : sessions'[x] = sessions[x]
        /\ tokens' = tokens \cup {t}
        /\ requests' = [requests EXCEPT ![r] = Idle]
        /\ UNCHANGED <<users, commands, now>>
    BY <1>0, <1>1 DEF StartSession, Finish, Known
  <1>5. \A p \in Requests : requests'[p] = IF p = r THEN Idle ELSE requests[p]
    BY <1>4 DEF IInv, TypeOK
  <1> HIDE DEF row
  <1>6. TypeOK'
    <2>1. requests' \in [Requests -> Request]
      BY <1>4, RestTypes DEF IInv, TypeOK
    <2>2. \A x \in Known' : sessions'[x] \in Session /\ x \in 1..opened'
      BY <1>0, <1>1, <1>2, <1>4 DEF IInv, TypeOK
    <2>3. tokens' \subseteq Token /\ \A x \in tokens' : x.session \in Known'
      BY <1>1, <1>3, <1>4 DEF IInv, TypeOK
    <2>4. opened' \in 0..MaxSessions
      BY <1>1, <1>4
    <2> QED BY <1>4, <2>1, <2>2, <2>3, <2>4 DEF IInv, TypeOK
  <1> HIDE DEF t
  <1>7. Chains'
    <2>1. TokensOf(s)' = Chain(s, 1)
      <3>1. TokensOf(s)' = {t}
        BY <1>1, <1>3, <1>4 DEF TokensOf
      <3>2. Chain(s, 1) = {[session |-> s, serial |-> 1, consumed |-> 1 < 1]}
        BY DEF Chain
      <3>3. t = [session |-> s, serial |-> 1, consumed |-> 1 < 1]
        <4>1. (1 < 1) = FALSE
          OBVIOUS
        <4> QED BY <4>1, Zenon DEF t
      <3> QED BY <3>1, <3>2, <3>3
    <2>2. \A x \in Known : TokensOf(x)' = TokensOf(x)
      BY <1>1, <1>3, <1>4 DEF TokensOf
    <2> QED BY <1>4, <2>1, <2>2 DEF IInv, Chains
  <1>8. LastUnconsumed'
    BY <1>1, <1>3, <1>4 DEF IInv, LastUnconsumed
  <1>9. RotatedSpent'
    <2>1. opened < s
      BY <1>0, <1>1
    <2>2. \A p \in Requests : requests[p].token.session \in Nat
      BY ConstantTypes DEF IInv, TypeOK, Request, Token, SessionIds
    <2> QED BY <1>1, <1>3, <1>4, <1>5, <2>1, <2>2, RestTypes DEF IInv, RotatedSpent, Spent
  <1>10. OneSuccessor'
    BY <1>5, RestTypes DEF IInv, OneSuccessor, SameToken
  <1>11. RequestsKnow'
    BY <1>5, RestTypes DEF IInv, RequestsKnow, KnowsUser
  <1>12. CommandsAlone'
    BY <1>4 DEF IInv, CommandsAlone, ActiveAdmins, IsActive, Exists
  <1> QED BY <1>6, <1>7, <1>8, <1>9, <1>10, <1>11, <1>12 DEF IInv

LEMMA ChainMembers ==
  ASSUME NEW s, NEW n \in Nat, NEW z
  PROVE  z \in Chain(s, n) <=> /\ z \in [session : {s}, serial : 1..n, consumed : BOOLEAN]
                               /\ z.consumed <=> z.serial < n
  <1>1. ASSUME z \in Chain(s, n)
        PROVE  /\ z \in [session : {s}, serial : 1..n, consumed : BOOLEAN]
               /\ z.consumed <=> z.serial < n
    <2>1. PICK i \in 1..n : z = [session |-> s, serial |-> i, consumed |-> i < n]
      BY <1>1 DEF Chain
    <2>2. z.session = s /\ z.serial = i /\ z.consumed = (i < n)
      BY <2>1
    <2>3. z \in [session : {s}, serial : 1..n, consumed : BOOLEAN]
      BY <2>1
    <2> QED BY <2>2, <2>3
  <1>2. ASSUME z \in [session : {s}, serial : 1..n, consumed : BOOLEAN], z.consumed <=> z.serial < n
        PROVE  z \in Chain(s, n)
    <2>1. z = [session |-> z.session, serial |-> z.serial, consumed |-> z.consumed]
          /\ z.session = s /\ z.serial \in 1..n /\ z.consumed \in BOOLEAN
      BY <1>2
    <2>2. z.consumed = (z.serial < n)
      BY <1>2, <2>1
    <2>3. z = [session |-> s, serial |-> z.serial, consumed |-> z.serial < n]
      BY <2>1, <2>2, Zenon
    <2> QED BY <2>1, <2>3 DEF Chain
  <1> QED BY <1>1, <1>2

(* The token a request finds unconsumed is the only one of its place, and  *)
(* the last of its session.                                                *)
LEMMA StoredOnce ==
  ASSUME IInv, NEW t \in Token, NEW x \in Stored(t), \A y \in Stored(t) : ~y.consumed
  PROVE  /\ Stored(t) = {x} /\ x \in tokens /\ ~x.consumed
         /\ x.session = t.session /\ x.serial = t.serial
         /\ \A y \in tokens : y.session = t.session /\ y # x => y.serial < t.serial /\ y.consumed
  <1>1. \A y \in tokens : y \in Token /\ y.serial \in Nat
    BY ConstantTypes DEF IInv, TypeOK, Token
  <1>2. x \in tokens /\ ~x.consumed /\ x.session = t.session /\ x.serial = t.serial
    BY DEF Stored, SameToken
  <1>3. \A y \in tokens : y.session = t.session /\ y # x => y.serial < t.serial
    BY <1>2 DEF IInv, LastUnconsumed
  <1>4. \A y \in tokens : y.session = t.session /\ y # x => y.consumed
    <2> SUFFICES ASSUME NEW y \in tokens, y.session = t.session, y # x, ~y.consumed
                 PROVE  FALSE
      OBVIOUS
    <2>1. x.serial < y.serial
      BY <1>2 DEF IInv, LastUnconsumed
    <2> QED BY <1>1, <1>2, <1>3, <2>1
  <1>5. \A y \in Stored(t) : y = x
    <2> SUFFICES ASSUME NEW y \in Stored(t), y # x PROVE FALSE
      OBVIOUS
    <2>1. y \in tokens /\ y.session = t.session /\ y.serial = t.serial
      BY DEF Stored, SameToken
    <2> QED BY <1>1, <1>3, <2>1
  <1> QED BY <1>2, <1>3, <1>4, <1>5

LEMMA ExchangeKeeps ==
  ASSUME IInv, NEW r \in Requests, Rotate(r), Outcome(requests[r]) = "rotated"
  PROVE  IInv'
  <1>1. PICK q \in Request : q = requests[r]
    BY DEF IInv, TypeOK
  <1>2. PICK t \in Token : t = q.token
    BY DEF Request
  <1> DEFINE old == [t EXCEPT !.consumed = TRUE]
             new == Successor(t)
             p == [q EXCEPT !.phase = "rotated", !.session = t.session]
  <1>3. /\ Stored(t) # {} /\ \A y \in Stored(t) : ~y.consumed
        /\ t.serial < MaxTokens
        /\ tokens' = (tokens \ Stored(t)) \cup {old, new}
        /\ requests' = [requests EXCEPT ![r] = p]
        /\ UNCHANGED <<users, sessions, opened, commands, now>>
    BY <1>1, <1>2 DEF Rotate, Outcome
  <1>4. PICK x \in Stored(t) : TRUE
    BY <1>3
  <1>5. /\ Stored(t) = {x} /\ x \in tokens /\ ~x.consumed
        /\ x.session = t.session /\ x.serial = t.serial
        /\ \A y \in tokens : y.session = t.session /\ y # x => y.serial < t.serial /\ y.consumed
    BY <1>3, <1>4, StoredOnce
  <1>6. t.serial \in 1..MaxTokens /\ t.session \in SessionIds /\ t.session \in Known /\ t.session \in Nat
    BY <1>5, ConstantTypes DEF Token, SessionIds, IInv, TypeOK
  <1>7. old \in Token /\ old.session = t.session /\ old.serial = t.serial /\ old.consumed = TRUE
    BY DEF Token
  <1>8. new \in Token /\ new.session = t.session /\ new.serial = t.serial + 1 /\ new.consumed = FALSE
    <2>1. PICK k \in 1..MaxTokens : k = t.serial + 1
      BY <1>3, <1>6, ConstantTypes
    <2>2. new = [t EXCEPT !.serial = k, !.consumed = FALSE]
      BY <2>1 DEF Successor
    <2>3. new \in Token /\ new.session = t.session /\ new.serial = k /\ new.consumed = FALSE
      BY <2>2 DEF Token
    <2> QED BY <2>1, <2>3
  <1>9. p \in Request /\ p.phase = "rotated" /\ p.token = t
    <2>1. t.session \in 0..MaxSessions
      BY <1>6, ConstantTypes DEF SessionIds
    <2>2. PICK k \in 0..MaxSessions : k = t.session
      BY <2>1
    <2>3. p = [q EXCEPT !.phase = "rotated", !.session = k]
      BY <2>2
    <2> HIDE DEF p
    <2> QED BY <1>2, <2>3 DEF Request
  <1> HIDE DEF old, new, p
  <1>10. \A a \in Requests : requests'[a] = IF a = r THEN p ELSE requests[a]
    BY <1>3 DEF IInv, TypeOK
  <1>11. tokens' = (tokens \ {x}) \cup {old, new}
    BY <1>3, <1>5
  <1>12. \A y \in tokens : y \in Token /\ y.serial \in Nat /\ y.consumed \in BOOLEAN
    BY ConstantTypes DEF IInv, TypeOK, Token
  <1>13. TypeOK'
    BY <1>3, <1>6, <1>7, <1>8, <1>9, <1>11 DEF IInv, TypeOK, Known
  <1>14. Chains'
    <2> SUFFICES ASSUME NEW s \in Known, now < sessions[s].expires
                 PROVE  \E n \in Nat : TokensOf(s)' = Chain(s, n)
      BY <1>3 DEF Chains, Known
    <2>1. PICK n \in Nat : TokensOf(s) = Chain(s, n)
      BY DEF IInv, Chains
    <2>2. CASE s # t.session
      BY <1>5, <1>7, <1>8, <1>11, <2>1, <2>2 DEF TokensOf
    <2>3. CASE s = t.session
      <3>1. x \in Chain(s, n)
        BY <1>5, <2>1, <2>3 DEF TokensOf
      <3>2. n = t.serial
        BY <1>5, <3>1, ChainMembers
      <3>3. \A z : z \in TokensOf(s) <=> /\ z \in [session : {s}, serial : 1..n, consumed : BOOLEAN]
                                         /\ z.consumed <=> z.serial < n
        BY <2>1, ChainMembers
      <3>4. ASSUME NEW z
            PROVE  z \in TokensOf(s)' <=>
                     /\ z \in [session : {s}, serial : 1..(n + 1), consumed : BOOLEAN]
                     /\ z.consumed <=> z.serial < n + 1
        <4>1. z \in TokensOf(s)' <=> (z \in TokensOf(s) /\ z # x) \/ z = old \/ z = new
          BY <1>5, <1>7, <1>8, <1>11, <2>3 DEF TokensOf
        <4>2. z = x <=> /\ z \in [session : {s}, serial : 1..n, consumed : BOOLEAN]
                        /\ z.serial = n /\ z.consumed = FALSE
          BY <1>5, <1>12, <2>3, <3>2, <3>3, <3>1, ChainMembers
        <4>3. z = old <=> /\ z \in [session : {s}, serial : 1..n, consumed : BOOLEAN]
                          /\ z.serial = n /\ z.consumed = TRUE
          BY <1>6, <1>7, <2>3, <3>2 DEF Token
        <4>4. z = new <=> /\ z \in [session : {s}, serial : 1..(n + 1), consumed : BOOLEAN]
                          /\ z.serial = n + 1 /\ z.consumed = FALSE
          BY <1>6, <1>8, <2>3, <3>2 DEF Token
        <4> QED BY <3>3, <4>1, <4>2, <4>3, <4>4
      <3>5. n + 1 \in Nat
        OBVIOUS
      <3> QED BY <3>4, <3>5, ChainMembers
    <2> QED BY <2>2, <2>3
  <1>15. LastUnconsumed'
    BY <1>5, <1>6, <1>7, <1>8, <1>11, <1>12 DEF IInv, LastUnconsumed
  <1>16. \A a \in Requests : a # r /\ requests[a].phase = "rotated" =>
           ~(requests[a].token.session = t.session /\ t.serial <= requests[a].token.serial)
    BY <1>5 DEF IInv, RotatedSpent, Spent
  <1>17. \A a \in Requests : requests[a].token.serial \in Nat
    BY ConstantTypes DEF IInv, TypeOK, Request, Token
  <1>18. RotatedSpent'
    <2> SUFFICES ASSUME NEW a \in Requests, requests'[a].phase = "rotated"
                 PROVE  Spent(requests[a])'
      BY DEF RotatedSpent
    <2>1. CASE a = r
      BY <1>3, <1>5, <1>6, <1>7, <1>8, <1>9, <1>10, <1>11, <2>1, ConstantTypes DEF Spent, IInv, TypeOK
    <2>2. CASE a # r
      <3>1. requests'[a] = requests[a] /\ Spent(requests[a])
        BY <1>10, <2>2 DEF IInv, RotatedSpent
      <3>2. ~(new.session = requests[a].token.session /\ new.serial <= requests[a].token.serial)
        BY <1>6, <1>8, <1>10, <1>16, <1>17, <2>2
      <3> QED BY <1>3, <1>7, <1>11, <3>1, <3>2 DEF Spent
    <2> QED BY <2>1, <2>2
  <1>19. OneSuccessor'
    BY <1>6, <1>9, <1>10, <1>16, <1>17 DEF IInv, OneSuccessor, SameToken
  <1>20. RequestsKnow'
    BY <1>9, <1>10 DEF IInv, RequestsKnow, KnowsUser
  <1>21. CommandsAlone'
    BY <1>3 DEF IInv, CommandsAlone, ActiveAdmins, IsActive, Exists
  <1> QED BY <1>13, <1>14, <1>15, <1>18, <1>19, <1>20, <1>21 DEF IInv

LEMMA RotateKeeps ==
  ASSUME IInv, NEW r \in Requests, Rotate(r)
  PROVE  IInv'
  <1> DEFINE q == requests[r]
  <1>1. Idle \in Request /\ Idle.phase = "idle" /\ q \in Request
    BY RestTypes DEF IInv, TypeOK
  <1>2. CASE Outcome(q) = "rotated"
    BY <1>2, ExchangeKeeps
  <1>3. CASE Outcome(q) = "replay"
    <2>1. /\ sessions' = Revoked({q.token.session}, "replay", q.at)
          /\ requests' = [requests EXCEPT ![r] = Idle]
          /\ UNCHANGED <<users, opened, tokens, commands, now>>
      BY <1>3 DEF Rotate
    <2>2. q.at \in Nat
      BY <1>1, ConstantTypes DEF Request
    <2>3. Known' = Known
      BY <2>1 DEF Revoked, Known
    <2>4. \A s \in Known : sessions'[s] \in Session /\ sessions'[s].expires = sessions[s].expires
      BY <2>1, <2>2, RevokedSessions, SMTT(30) DEF IInv, Reasons
    <2>5. \A p \in Requests : requests'[p] = IF p = r THEN Idle ELSE requests[p]
      BY <2>1 DEF IInv, TypeOK
    <2>6. TypeOK'
      BY <1>1, <2>1, <2>3, <2>4 DEF IInv, TypeOK
    <2>7. Chains' /\ LastUnconsumed' /\ RotatedSpent' /\ OneSuccessor'
      BY <1>1, <2>1, <2>3, <2>4, <2>5, TokensKeep
    <2>8. RequestsKnow'
      BY <1>1, <2>5 DEF IInv, RequestsKnow, KnowsUser
    <2>9. CommandsAlone'
      BY <2>1 DEF IInv, CommandsAlone, ActiveAdmins, IsActive, Exists
    <2> QED BY <2>6, <2>7, <2>8, <2>9 DEF IInv
  <1>4. CASE Outcome(q) \notin {"rotated", "replay"}
    <2>1. /\ requests' = [requests EXCEPT ![r] = Idle]
          /\ UNCHANGED <<users, sessions, opened, tokens, commands, now>>
      BY <1>4 DEF Rotate
    <2> QED BY <1>1, <2>1, AskKeeps DEF KnowsUser
  <1> QED BY <1>2, <1>3, <1>4

LEMMA LogoutKeeps ==
  ASSUME IInv, NEW t \in tokens, Logout(t)
  PROVE  IInv'
  <1>1. /\ sessions' = Revoked({t.session}, "logout", now)
        /\ UNCHANGED <<users, opened, tokens, requests, commands, now>>
    BY DEF Logout
  <1>2. Known' = Known
    BY <1>1 DEF Revoked, Known
  <1>3. \A s \in Known : sessions'[s] \in Session /\ sessions'[s].expires = sessions[s].expires
    <2>1. now \in Nat
      BY ConstantTypes DEF IInv, TypeOK
    <2> QED BY <1>1, <2>1, RevokedSessions DEF IInv, Reasons
  <1>4. TypeOK'
    BY <1>1, <1>2, <1>3 DEF IInv, TypeOK
  <1>5. Chains' /\ LastUnconsumed' /\ RotatedSpent' /\ OneSuccessor'
    BY <1>1, <1>2, <1>3, TokensKeep
  <1>6. RequestsKnow' /\ CommandsAlone'
    BY <1>1 DEF IInv, RequestsKnow, KnowsUser, CommandsAlone, ActiveAdmins, IsActive, Exists
  <1> QED BY <1>4, <1>5, <1>6 DEF IInv

(* A write of the row of one user, by a registration or a handler, that    *)
(* makes nobody an administrator and waits for the commands on the row.     *)
LEMMA RowKeeps ==
  ASSUME IInv, NEW u \in Users, NEW row \in User, users' = [users EXCEPT ![u] = row],
         IF Exists(u)
         THEN row.version # 0 /\ row.role = users[u].role /\ row.status = users[u].status
         ELSE row.role # "admin",
         \A c \in Commands : commands[c].op \in {"role", "status"} => commands[c].user # u,
         UNCHANGED <<sessions, opened, tokens, commands, now>>,
         \A r \in Requests : requests'[r] = requests[r] \/ requests'[r] = Idle,
         requests' \in [Requests -> Request]
  PROVE  IInv' /\ ActiveAdmins' = ActiveAdmins
  <1>1. \A v \in Users : users'[v] = IF v = u THEN row ELSE users[v]
    BY DEF IInv, TypeOK
  <1>2. \A v \in Users : users[v].version \in Nat /\ row.version \in Nat
    BY ConstantTypes DEF IInv, TypeOK, User
  <1>3. TypeOK'
    BY DEF IInv, TypeOK, Known
  <1>4. Chains' /\ LastUnconsumed' /\ RotatedSpent' /\ OneSuccessor'
    BY RestTypes, TokensKeep DEF Known
  <1>5. RequestsKnow'
    BY RestTypes DEF IInv, RequestsKnow, KnowsUser
  <1>6. ActiveAdmins' = ActiveAdmins
    BY <1>1, <1>2 DEF ActiveAdmins, IsActive, Exists
  <1>7. CommandsAlone'
    BY <1>1, <1>6 DEF IInv, CommandsAlone, Exists
  <1> QED BY <1>3, <1>4, <1>5, <1>6, <1>7 DEF IInv

LEMMA RegisterKeeps ==
  ASSUME IInv, NEW u \in Users, Register(u)
  PROVE  IInv' /\ ActiveAdmins' = ActiveAdmins
  <1> DEFINE row == [role |-> "user", status |-> "active", version |-> 1]
  <1>1. row \in User /\ row.role = "user"
    BY ConstantTypes DEF User, Roles, Statuses
  <1>2. /\ ~Exists(u) /\ users' = [users EXCEPT ![u] = row]
        /\ UNCHANGED <<sessions, opened, tokens, requests, commands, now>>
    BY DEF Register, Create
  <1>3. \A c \in Commands : commands[c].op \in {"role", "status"} => commands[c].user # u
    BY <1>2 DEF IInv, CommandsAlone
  <1>4. requests' \in [Requests -> Request]
    BY <1>2 DEF IInv, TypeOK
  <1> HIDE DEF row
  <1> QED BY <1>1, <1>2, <1>3, <1>4, RowKeeps

LEMMA NicknameKeeps ==
  ASSUME IInv, NEW r \in Requests, UpdateNickname(r)
  PROVE  IInv' /\ ActiveAdmins' = ActiveAdmins
  <1>1. PICK u \in Users : u = requests[r].user
    BY DEF UpdateNickname, IInv, RequestsKnow, KnowsUser
  <1>2. /\ requests' = [requests EXCEPT ![r] = Idle]
        /\ UNCHANGED <<sessions, opened, tokens, commands, now>>
        /\ \A c \in Commands : commands[c].op \in {"role", "status"} => commands[c].user # u
    BY <1>1 DEF UpdateNickname, Finish
  <1>3. /\ requests' \in [Requests -> Request]
        /\ \A p \in Requests : requests'[p] = requests[p] \/ requests'[p] = Idle
    BY <1>2, RestTypes DEF IInv, TypeOK
  <1>4. users[u] \in User
    BY DEF IInv, TypeOK
  <1>5. CASE Current(requests[r])
    <2>1. users[u].version # 0 /\ users[u].version < MaxVersion
          /\ users' = [users EXCEPT ![u].version = users[u].version + 1]
      BY <1>1, <1>5 DEF UpdateNickname, Current, IInv, RequestsKnow, KnowsUser
    <2>2. PICK k \in 0..MaxVersion : k = users[u].version + 1 /\ k # 0
      BY <1>4, <2>1, ConstantTypes DEF User
    <2> DEFINE row == [users[u] EXCEPT !.version = k]
    <2>3. row \in User /\ row.version = k /\ row.role = users[u].role /\ row.status = users[u].status
      BY <1>4 DEF User
    <2>4. users' = [users EXCEPT ![u] = row]
      BY <2>1, <2>2 DEF IInv, TypeOK
    <2>5. Exists(u)
      BY <1>4, <2>1, ConstantTypes DEF Exists, User
    <2> HIDE DEF row
    <2> QED BY <1>2, <1>3, <2>2, <2>3, <2>4, <2>5, RowKeeps
  <1>6. CASE ~Current(requests[r])
    <2>1. UNCHANGED <<users, sessions, opened, tokens, commands, now>>
      BY <1>2, <1>6 DEF UpdateNickname
    <2>2. ActiveAdmins' = ActiveAdmins
      BY <2>1 DEF ActiveAdmins, IsActive, Exists
    <2> QED BY <1>2, <2>1, <2>2, RestTypes, AskKeeps DEF KnowsUser
  <1> QED BY <1>5, <1>6

LEMMA ReadKeeps ==
  ASSUME IInv, NEW c \in Commands, NEW op \in {"init", "role", "status"}, NEW u \in Users,
         op # "init" => Exists(u), Read(c, op, u)
  PROVE  IInv'
  <1> DEFINE k == [op |-> op, user |-> u, row |-> users[u],
                   admins |-> Cardinality(ActiveAdmins), at |-> now]
  <1>1. /\ commands' = [commands EXCEPT ![c] = k]
        /\ \A d \in Commands : commands[d].op = "idle"
        /\ UNCHANGED <<users, sessions, opened, tokens, requests, now>>
    BY DEF Read, LockAdminScope
  <1>2. k \in Command /\ k.user = u /\ k.op = op /\ k.row = users[u]
        /\ k.admins = Cardinality(ActiveAdmins)
    BY AdminsFinite DEF Command, IInv, TypeOK
  <1> HIDE DEF k
  <1>3. \A d \in Commands : commands'[d] = IF d = c THEN k ELSE commands[d]
    BY <1>1 DEF IInv, TypeOK
  <1>4. ActiveAdmins' = ActiveAdmins /\ \A v \in Users : Exists(v)' = Exists(v)
    BY <1>1 DEF ActiveAdmins, IsActive, Exists
  <1>5. TypeOK'
    BY <1>1, <1>2 DEF IInv, TypeOK, Known
  <1>6. Chains' /\ LastUnconsumed' /\ RotatedSpent' /\ OneSuccessor'
    BY <1>1, TokensKeep DEF Known
  <1>7. RequestsKnow'
    BY <1>1 DEF IInv, RequestsKnow
  <1>8. CommandsAlone'
    BY <1>1, <1>2, <1>3, <1>4 DEF CommandsAlone
  <1> QED BY <1>5, <1>6, <1>7, <1>8 DEF IInv

(* A command that ends, having written at most one user and his sessions.  *)
LEMMA CommandEnds ==
  ASSUME IInv, NEW c \in Commands, commands[c].op # "idle", Leave(c),
         users' \in [Users -> User],
         UNCHANGED <<opened, tokens, requests, now>>,
         \/ UNCHANGED sessions
         \/ \E which : \E reason \in Reasons, at \in Nat : sessions' = Revoked(which, reason, at)
  PROVE  IInv'
  <1>1. Known' = Known
    BY DEF Revoked, Known
  <1>2. \A s \in Known : sessions'[s] \in Session /\ sessions'[s].expires = sessions[s].expires
    <2>1. CASE UNCHANGED sessions
      BY <2>1 DEF IInv, TypeOK
    <2>2. ASSUME NEW which, NEW reason \in Reasons, NEW at \in Nat,
                 sessions' = Revoked(which, reason, at)
          PROVE  \A s \in Known : sessions'[s] \in Session /\ sessions'[s].expires = sessions[s].expires
      BY <2>2, RevokedSessions DEF IInv
    <2> QED BY <2>1, <2>2
  <1>3. \A d \in Commands : commands'[d].op = "idle"
    <2>1. \A d \in Commands : commands'[d] = IF d = c THEN NoCommand ELSE commands[d]
      BY DEF Leave, IInv, TypeOK
    <2> QED BY <2>1, RestTypes DEF IInv, CommandsAlone
  <1>4. TypeOK'
    <2>1. commands' \in [Commands -> Command]
      BY RestTypes DEF Leave, IInv, TypeOK
    <2> QED BY <1>1, <1>2, <2>1 DEF IInv, TypeOK
  <1>5. Chains' /\ LastUnconsumed' /\ RotatedSpent' /\ OneSuccessor'
    BY <1>1, <1>2, TokensKeep
  <1>6. RequestsKnow'
    BY DEF IInv, RequestsKnow
  <1>7. CommandsAlone'
    BY <1>3 DEF CommandsAlone
  <1> QED BY <1>4, <1>5, <1>6, <1>7 DEF IInv

(* What the operator wants of administrators.                              *)
AdminsStep ==
  /\ ActiveAdmins # {} => ActiveAdmins' # {}
  /\ \A u \in Users : ~Exists(u) /\ u \in ActiveAdmins' => ActiveAdmins = {}

(* Whoever demotes or disables an administrator leaves another one.        *)
LEMMA AnotherRemains ==
  ASSUME IInv, NEW c \in Commands, commands[c].op \in {"role", "status"}, AdminRemains(commands[c]),
         commands[c].user \in ActiveAdmins
  PROVE  \E v \in ActiveAdmins : v # commands[c].user
  <1> DEFINE k == commands[c]
  <1>1. k.admins = Cardinality(ActiveAdmins) /\ k.row = users[k.user]
    BY DEF IInv, CommandsAlone
  <1>2. k.admins - 1 >= 1
    BY <1>1 DEF AdminRemains, ActiveAdmins, IsActive
  <1> SUFFICES ASSUME \A v \in ActiveAdmins : v = k.user
               PROVE  FALSE
    OBVIOUS
  <1>3. ActiveAdmins = {k.user}
    OBVIOUS
  <1>4. Cardinality(ActiveAdmins) = 1
    BY <1>3, FS_Singleton
  <1> QED BY <1>1, <1>2, <1>4

(* A row written by a command that leaves another administrator, if its     *)
(* user is one.                                                            *)
LEMMA DemotionStep ==
  ASSUME IInv, NEW c \in Commands, commands[c].op \in {"role", "status"}, AdminRemains(commands[c]),
         \A v \in Users : v # commands[c].user => users'[v] = users[v]
  PROVE  AdminsStep
  <1> DEFINE u == commands[c].user
  <1>1. \A v \in Users : v # u => (v \in ActiveAdmins' <=> v \in ActiveAdmins)
    BY DEF ActiveAdmins, IsActive, Exists
  <1>2. Exists(u) /\ ActiveAdmins \subseteq Users
    BY DEF IInv, CommandsAlone, ActiveAdmins
  <1>3. \A v \in ActiveAdmins : Exists(v)
    BY DEF ActiveAdmins, IsActive
  <1>4. ActiveAdmins # {} => \E v \in ActiveAdmins : v # u
    BY AnotherRemains
  <1> QED BY <1>1, <1>2, <1>3, <1>4 DEF AdminsStep

LEMMA CommandKeeps ==
  ASSUME IInv, NEW c \in Commands, CommandStep(c)
  PROVE  IInv' /\ AdminsStep
  <1> DEFINE k == commands[c]
             u == k.user
  <1>1. k \in Command /\ k.at \in Nat /\ users \in [Users -> User]
    BY ConstantTypes DEF IInv, TypeOK, Command
  <1>2. CASE users' = users /\ IInv'
    <2>1. ActiveAdmins' = ActiveAdmins /\ \A v \in ActiveAdmins : Exists(v)
      BY <1>2 DEF ActiveAdmins, IsActive, Exists
    <2> QED BY <1>2, <2>1 DEF AdminsStep
  <1>3. ASSUME NEW v \in Users, InitAdmin(c, v) \/ SetRole(c, v) \/ SetStatus(c, v)
        PROVE  IInv' /\ AdminsStep
    <2>1. IInv'
      BY <1>3, ReadKeeps DEF InitAdmin, SetRole, SetStatus
    <2> QED BY <1>2, <1>3, <2>1 DEF InitAdmin, SetRole, SetStatus, Read
  <1>4. CASE Refuse(c)
    <2>1. IInv'
      BY <1>1, <1>4, CommandEnds DEF Refuse
    <2> QED BY <1>2, <1>4, <2>1 DEF Refuse
  <1>5. CASE CommitInit(c)
    <2> DEFINE row == [role |-> "admin", status |-> "active", version |-> 1]
    <2>1. /\ u \in Users /\ ~Exists(u) /\ users' = [users EXCEPT ![u] = row]
          /\ k.admins = 0 /\ k.op = "init" /\ Leave(c)
          /\ UNCHANGED <<sessions, opened, tokens, requests, now>>
      BY <1>5 DEF CommitInit, Create, IInv, CommandsAlone
    <2>2. row \in User /\ row.status = "active" /\ row.role = "admin" /\ row.version > 0
      BY ConstantTypes DEF User, Roles, Statuses
    <2> HIDE DEF row
    <2>3. users' \in [Users -> User] /\ users'[u] = row
      BY <1>1, <2>1, <2>2
    <2>4. IInv'
      BY <2>1, <2>3, CommandEnds
    <2>5. Cardinality(ActiveAdmins) = 0
      BY <2>1 DEF IInv, CommandsAlone
    <2>6. ActiveAdmins = {}
      BY <2>5, AdminsFinite, FS_EmptySet
    <2> QED BY <2>4, <2>6 DEF AdminsStep
  <1>6. ASSUME k.op \in {"role", "status"}, AdminRemains(k), Leave(c),
               NEW row \in User, users' = [users EXCEPT ![u] = row],
               UNCHANGED <<opened, tokens, requests, now>>,
               \/ UNCHANGED sessions
               \/ \E which : \E reason \in Reasons : sessions' = Revoked(which, reason, k.at)
        PROVE  IInv' /\ AdminsStep
    <2>1. u \in Users
      BY <1>6 DEF IInv, CommandsAlone
    <2>2. users' \in [Users -> User] /\ \A v \in Users : v # u => users'[v] = users[v]
      BY <1>1, <1>6, <2>1
    <2>3. IInv'
      BY <1>1, <1>6, <2>2, CommandEnds
    <2> QED BY <1>6, <2>2, <2>3, DemotionStep
  <1>7. CASE CommitRole(c)
    <2>1. u \in Users /\ users[u] \in User /\ k.row \in User /\ users[u].version < MaxVersion
      BY <1>1, <1>7 DEF CommitRole, IInv, CommandsAlone, Command
    <2>2. PICK n \in 0..MaxVersion : n = users[u].version + 1
      BY <2>1, ConstantTypes DEF User
    <2>3. PICK role \in Roles : role = Flipped(Roles, k.row.role)
      BY <2>1, FlippedTypes DEF User
    <2> DEFINE row == [users[u] EXCEPT !.role = role, !.version = n]
    <2>4. row \in User
      BY <2>1 DEF User
    <2>5. users' = [users EXCEPT ![u] = row]
      BY <1>1, <1>7, <2>1, <2>2, <2>3 DEF CommitRole
    <2> HIDE DEF row
    <2> QED BY <1>6, <1>7, <2>4, <2>5 DEF CommitRole, Reasons
  <1>8. CASE CommitStatus(c)
    <2>1. u \in Users /\ users[u] \in User /\ k.row \in User /\ users[u].version < MaxVersion
      BY <1>1, <1>8 DEF CommitStatus, IInv, CommandsAlone, Command
    <2>2. PICK n \in 0..MaxVersion : n = users[u].version + 1
      BY <2>1, ConstantTypes DEF User
    <2>3. PICK status \in Statuses : status = Flipped(Statuses, k.row.status)
      BY <2>1, FlippedTypes DEF User
    <2> DEFINE row == [users[u] EXCEPT !.status = status, !.version = n]
    <2>4. row \in User
      BY <2>1 DEF User
    <2>5. users' = [users EXCEPT ![u] = row]
      BY <1>1, <1>8, <2>1, <2>2, <2>3 DEF CommitStatus
    <2> HIDE DEF row
    <2> QED BY <1>6, <1>8, <2>4, <2>5 DEF CommitStatus, Reasons
  <1> QED BY <1>3, <1>4, <1>5, <1>7, <1>8 DEF CommandStep

LEMMA CleanKeeps ==
  ASSUME IInv, \/ \E s \in Known : CleanSession(s)
               \/ \E t \in tokens : CleanToken(t)
  PROVE  IInv'
  <1>1. now \in Nat /\ Retention \in Nat /\ \A s \in Known : sessions[s].expires \in Nat
    BY ConstantTypes DEF IInv, TypeOK, Session
  <1>2. ASSUME tokens' \subseteq tokens, Known' \subseteq Known,
               \A x \in Known' : sessions'[x] = sessions[x],
               \A x \in tokens' : x.session \in Known',
               \A x \in Known' : now < sessions[x].expires => TokensOf(x)' = TokensOf(x),
               UNCHANGED <<users, opened, requests, commands, now>>
        PROVE  IInv'
    <2>1. TypeOK'
      BY <1>2 DEF IInv, TypeOK
    <2>2. Chains'
      BY <1>2 DEF IInv, Chains
    <2>3. LastUnconsumed' /\ RotatedSpent' /\ OneSuccessor'
      BY <1>2 DEF IInv, LastUnconsumed, RotatedSpent, Spent, OneSuccessor, SameToken
    <2>4. RequestsKnow' /\ CommandsAlone'
      BY <1>2 DEF IInv, RequestsKnow, CommandsAlone, ActiveAdmins, IsActive, Exists
    <2> QED BY <2>1, <2>2, <2>3, <2>4 DEF IInv
  <1>3. ASSUME NEW s \in Known, CleanSession(s)
        PROVE  IInv'
    <2>1. /\ tokens' = tokens \ TokensOf(s) /\ Known' = Known \ {s}
          /\ \A x \in Known' : sessions'[x] = sessions[x]
          /\ UNCHANGED <<users, opened, requests, commands, now>>
      BY <1>3 DEF CleanSession, Cascade, Known
    <2>2. \A x \in tokens' : x.session \in Known'
      BY <2>1 DEF TokensOf, IInv, TypeOK
    <2>3. \A x \in Known' : TokensOf(x)' = TokensOf(x)
      BY <2>1 DEF TokensOf
    <2> QED BY <1>2, <2>1, <2>2, <2>3
  <1>4. ASSUME NEW t \in tokens, CleanToken(t)
        PROVE  IInv'
    <2>1. /\ tokens' = tokens \ {t} /\ Known' = Known
          /\ \A x \in Known' : sessions'[x] = sessions[x]
          /\ UNCHANGED <<users, opened, requests, commands, now>>
      BY <1>4 DEF CleanToken, Known
    <2>2. t.session \in Known /\ ~(now < sessions[t.session].expires)
      <3>1. t.session \in Known /\ sessions[t.session].expires < now - Retention
        BY <1>4 DEF CleanToken, StaleToken, IInv, TypeOK
      <3> QED BY <1>1, <3>1
    <2>3. \A x \in Known' : now < sessions[x].expires => TokensOf(x)' = TokensOf(x)
      BY <2>1, <2>2 DEF TokensOf
    <2>4. \A x \in tokens' : x.session \in Known'
      BY <2>1 DEF IInv, TypeOK
    <2> QED BY <1>2, <2>1, <2>3, <2>4
  <1> QED BY <1>3, <1>4

LEMMA TickKeeps ==
  ASSUME IInv, Tick
  PROVE  IInv'
  <1>1. /\ now \in Nat /\ now' = now + 1 /\ now' \in 0..MaxTime
        /\ \A s \in Known : sessions[s].expires \in Nat
        /\ UNCHANGED <<users, sessions, opened, tokens, requests, commands>>
    BY ConstantTypes DEF Tick, IInv, TypeOK, Session
  <1>2. TypeOK'
    BY <1>1 DEF IInv, TypeOK, Known
  <1>3. Chains'
    BY <1>1 DEF IInv, Chains, TokensOf, Known
  <1>4. LastUnconsumed' /\ RotatedSpent' /\ OneSuccessor'
    BY <1>1 DEF IInv, LastUnconsumed, RotatedSpent, Spent, OneSuccessor, SameToken
  <1>5. RequestsKnow' /\ CommandsAlone'
    BY <1>1 DEF IInv, RequestsKnow, KnowsUser, CommandsAlone, ActiveAdmins, IsActive, Exists
  <1> QED BY <1>2, <1>3, <1>4, <1>5 DEF IInv

LEMMA RequestKeeps ==
  ASSUME IInv, NEW r \in Requests, RequestStep(r)
  PROVE  IInv' /\ ActiveAdmins' = ActiveAdmins
  <1>1. CASE UpdateNickname(r)
    BY <1>1, NicknameKeeps
  <1>2. CASE users' = users /\ IInv'
    BY <1>2 DEF ActiveAdmins, IsActive, Exists
  <1>3. CASE ~UpdateNickname(r)
    <2>1. users' = users
      BY <1>3 DEF RequestStep, Login, StartSession, Refresh, Rotate, RefreshUser, AuthSession,
                  AuthUser, Respond
    <2>2. IInv'
      BY <1>3, BeginKeeps, GoOnKeeps, StartKeeps, RotateKeeps DEF RequestStep
    <2> QED BY <1>2, <2>1, <2>2, SMTT(30)
  <1> QED BY <1>1, <1>3

LEMMA StepKeeps ==
  ASSUME IInv, [Next]_vars
  PROVE  IInv' /\ AdminsStep
  <1>1. CASE IInv' /\ ActiveAdmins' = ActiveAdmins
    <2>1. \A u \in ActiveAdmins : Exists(u)
      BY DEF ActiveAdmins, IsActive
    <2> QED BY <1>1, <2>1 DEF AdminsStep
  <1>2. CASE UNCHANGED vars
    <2>1. IInv'
      BY <1>2 DEF vars, IInv, TypeOK, Known, Chains, TokensOf, LastUnconsumed, RotatedSpent, Spent,
                  OneSuccessor, SameToken, RequestsKnow, KnowsUser, CommandsAlone, ActiveAdmins,
                  IsActive, Exists
    <2> QED BY <1>1, <1>2, <2>1 DEF vars, ActiveAdmins, IsActive, Exists
  <1>3. ASSUME NEW u \in Users, Register(u)
        PROVE  IInv' /\ AdminsStep
    BY <1>1, <1>3, RegisterKeeps
  <1>4. ASSUME NEW r \in Requests, RequestStep(r)
        PROVE  IInv' /\ AdminsStep
    BY <1>1, <1>4, RequestKeeps
  <1>5. ASSUME NEW c \in Commands, CommandStep(c)
        PROVE  IInv' /\ AdminsStep
    BY <1>5, CommandKeeps
  <1>6. CASE \/ \E t \in tokens : Logout(t) \/ CleanToken(t)
             \/ \E s \in Known : CleanSession(s)
             \/ Tick
    <2>1. IInv'
      BY <1>6, LogoutKeeps, CleanKeeps, TickKeeps
    <2>2. users' = users
      BY <1>6 DEF Logout, CleanToken, CleanSession, Tick
    <2> QED BY <1>1, <2>1, <2>2 DEF ActiveAdmins, IsActive, Exists
  <1> QED BY <1>2, <1>3, <1>4, <1>5, <1>6 DEF Next

(* A session that is revoked gets no token and is not written again.       *)
LEMMA RevokedStep ==
  ASSUME IInv, [Next]_vars, NEW s \in Known, sessions[s].revoked # "none"
  PROVE  /\ {t \in tokens' : t.session = s} \subseteq tokens
         /\ s \in Known' => sessions'[s] = sessions[s]
  <1>1. CASE tokens' \subseteq tokens /\ (s \in Known' => sessions'[s] = sessions[s])
    BY <1>1
  <1>2. ASSUME NEW which, NEW reason \in Reasons, NEW at \in Nat, sessions' = Revoked(which, reason, at)
        PROVE  sessions'[s] = sessions[s]
    BY <1>2, RevokedSessions DEF IInv
  <1>3. ASSUME NEW r \in Requests, RequestStep(r)
        PROVE  /\ {t \in tokens' : t.session = s} \subseteq tokens
               /\ s \in Known' => sessions'[s] = sessions[s]
    <2>1. CASE StartSession(r)
      <3>1. PICK n : n = opened + 1
        OBVIOUS
      <3>2. s # n
        BY <3>1 DEF IInv, TypeOK
      <3>3. /\ \A x \in Known : sessions'[x] = sessions[x]
            /\ tokens' = tokens \cup {[session |-> n, serial |-> 1, consumed |-> FALSE]}
        BY <2>1, <3>1, ConstantTypes DEF StartSession, Known, IInv, TypeOK
      <3> QED BY <3>2, <3>3
    <2>2. CASE Rotate(r)
      <3>1. requests[r] \in Request
        BY DEF IInv, TypeOK
      <3>2. CASE Outcome(requests[r]) = "rotated"
        <4>1. PICK t \in Token : t = requests[r].token
          BY <3>1 DEF Request
        <4>2. t.session # s
          BY <3>2, <4>1 DEF Outcome, Live
        <4>3. /\ tokens' = (tokens \ Stored(t)) \cup {[t EXCEPT !.consumed = TRUE], Successor(t)}
              /\ sessions' = sessions
          BY <2>2, <3>2, <4>1 DEF Rotate
        <4>4. [t EXCEPT !.consumed = TRUE].session # s /\ Successor(t).session # s
          BY <4>2 DEF Token, Successor
        <4> QED BY <4>3, <4>4
      <3>3. CASE Outcome(requests[r]) = "replay"
        <4>1. tokens' = tokens /\ requests[r].at \in Nat
              /\ sessions' = Revoked({requests[r].token.session}, "replay", requests[r].at)
          BY <2>2, <3>1, <3>3, ConstantTypes DEF Rotate, Request
        <4> QED BY <1>2, <4>1, SMTT(30) DEF Reasons
      <3>4. CASE Outcome(requests[r]) \notin {"rotated", "replay"}
        BY <2>2, <3>4 DEF Rotate
      <3> QED BY <3>2, <3>3, <3>4
    <2>3. CASE ~StartSession(r) /\ ~Rotate(r)
      BY <1>1, <1>3, <2>3 DEF RequestStep, Login, Refresh, RefreshUser, AuthSession,
                              AuthUser, Respond, UpdateNickname
    <2> QED BY <2>1, <2>2, <2>3
  <1>4. ASSUME NEW c \in Commands, CommandStep(c)
        PROVE  /\ {t \in tokens' : t.session = s} \subseteq tokens
               /\ s \in Known' => sessions'[s] = sessions[s]
    <2>1. commands[c].at \in Nat
      BY ConstantTypes DEF IInv, TypeOK, Command
    <2>2. CASE UNCHANGED <<sessions, tokens>>
      BY <2>2
    <2>3. ASSUME tokens' = tokens,
                 \E which : \E reason \in Reasons : sessions' = Revoked(which, reason, commands[c].at)
          PROVE  /\ {t \in tokens' : t.session = s} \subseteq tokens
                 /\ s \in Known' => sessions'[s] = sessions[s]
      BY <1>2, <2>1, <2>3
    <2>4. CASE CommitRole(c) \/ CommitStatus(c)
      BY <2>2, <2>3, <2>4 DEF CommitRole, CommitStatus, Reasons
    <2>5. CASE ~CommitRole(c) /\ ~CommitStatus(c)
      BY <1>4, <2>2, <2>5 DEF CommandStep, InitAdmin, SetRole, SetStatus, Read, Refuse, CommitInit
    <2> QED BY <2>4, <2>5
  <1>5. ASSUME NEW t \in tokens, Logout(t)
        PROVE  /\ {x \in tokens' : x.session = s} \subseteq tokens
               /\ s \in Known' => sessions'[s] = sessions[s]
    <2>1. now \in Nat
      BY ConstantTypes DEF IInv, TypeOK
    <2> QED BY <1>2, <1>5, <2>1 DEF Logout, Reasons
  <1>6. CASE \/ UNCHANGED vars \/ Tick
             \/ \E u \in Users : Register(u)
             \/ \E t \in tokens : CleanToken(t)
             \/ \E x \in Known : CleanSession(x)
    BY <1>1, <1>6 DEF vars, Tick, Register, CleanToken, CleanSession, Known
  <1> QED BY <1>3, <1>4, <1>5, <1>6 DEF Next

LEMMA InitHolds == Init => IInv
  <1> SUFFICES ASSUME Init PROVE IInv
    OBVIOUS
  <1>1. Known = {} /\ tokens = {} /\ now = 0 /\ opened = 0
        /\ \A c \in Commands : commands[c].op = "idle"
        /\ \A r \in Requests : requests[r].phase = "idle"
    BY RestTypes DEF Init, Known
  <1>2. TypeOK
    BY <1>1, RestTypes, ConstantTypes DEF Init, TypeOK
  <1>3. Chains /\ LastUnconsumed /\ CommandsAlone
    BY <1>1 DEF Chains, LastUnconsumed, CommandsAlone
  <1>4. RotatedSpent /\ OneSuccessor /\ RequestsKnow
    <2>1. \A r \in Requests : requests[r].phase = "idle"
      BY RestTypes DEF Init
    <2> QED BY <2>1 DEF RotatedSpent, OneSuccessor, RequestsKnow, KnowsUser
  <1> QED BY <1>2, <1>3, <1>4 DEF IInv

-----------------------------------------------------------------------------
(* The theorems.                                                           *)

(* Every reachable state is one of the inductive invariant.                *)
THEOREM Invariance == Spec => []IInv
  <1>1. IInv /\ [Next]_vars => IInv'
    BY StepKeeps
  <1> QED BY <1>1, InitHolds, PTL DEF Spec

(* Rows, tokens, requests and commands are of their types, and no token is *)
(* left without its session.                                               *)
THEOREM TypeCorrect == Spec => []TypeOK
  <1>1. IInv => TypeOK
    BY DEF IInv
  <1> QED BY <1>1, Invariance, PTL

(* The tokens of a session that can be refreshed are one chain, and of the *)
(* requests that race with one token at most one gets its successor.       *)
THEOREM TokensChain == Spec => []OneChain
  <1>1. IInv => OneChain
    <2> SUFFICES ASSUME IInv, NEW s \in Known, now < sessions[s].expires
                 PROVE  LET n == Cardinality(TokensOf(s))
                        IN  TokensOf(s) = {[session |-> s, serial |-> i, consumed |-> i < n] : i \in 1..n}
      BY DEF IInv, OneChain, TokenChain
    <2>1. PICK n \in Nat : TokensOf(s) = Chain(s, n)
      BY DEF IInv, Chains
    <2>2. Cardinality(TokensOf(s)) = n
      BY <2>1, ChainCardinality
    <2> QED BY <2>1, <2>2 DEF Chain
  <1> QED BY <1>1, Invariance, PTL

(* The last active administrator stays, init-admin makes the first one     *)
(* only, and a revoked session never comes back.                           *)
THEOREM OperatorsDecide == Spec => DecisionsHold
  <1> DEFINE Stays == ActiveAdmins # {} => ActiveAdmins' # {}
             First == \A u \in Users : ~Exists(u) /\ u \in ActiveAdmins' => ActiveAdmins = {}
             Final == \A s \in Known : sessions[s].revoked # "none" =>
                        /\ {t \in tokens' : t.session = s} \subseteq tokens
                        /\ s \in DOMAIN sessions' => sessions'[s] = sessions[s]
  <1>1. IInv /\ [Next]_vars => [Stays]_vars /\ [First]_vars
    BY StepKeeps DEF AdminsStep
  <1>2. IInv /\ [Next]_vars => [Final]_vars
    BY RevokedStep DEF Known
  <1>3. Spec => [][Stays]_vars
    BY <1>1, Invariance, PTL DEF Spec
  <1>4. Spec => [][First]_vars
    BY <1>1, Invariance, PTL DEF Spec
  <1>5. Spec => RevokedIsFinal
    BY <1>2, Invariance, PTL DEF Spec, RevokedIsFinal
  <1>6. Spec => AdminStays
    BY <1>3 DEF AdminStays
  <1>7. Spec => OnlyFirstAdmin
    BY <1>4 DEF OnlyFirstAdmin
  <1> QED BY <1>5, <1>6, <1>7 DEF DecisionsHold

-----------------------------------------------------------------------------
(***************************************************************************)
(* The throttle of failed logins.  A horizon that is full is blocked to its *)
(* end for every login that may still be recorded in it, however late.      *)
(***************************************************************************)
(* The failures of a key in the stretch of the horizon that ends at t.     *)
Within(k, t) == {f \in recorded : f.key = k /\ f.at \in t - T!Horizon(k) + 1 .. t}

(* A login takes no longer than the bound on it.                           *)
Punctual ==
  \A r \in Logins : logins[r].phase # "idle" =>
    logins[r].at <= minute /\ minute - MaxLogin <= logins[r].at

(* What the clean-up has taken is older than the retention.                *)
Retained == \A f \in recorded \ failures : f.at < minute - FailureRetention

FullIsBlocked ==
  \A k \in T!Keys, t \in 0..MaxMinute, y \in 0..MaxMinute :
    /\ T!Limit(k) <= Cardinality(Within(k, t))
    /\ y \in t - T!Horizon(k) + 1 .. t /\ minute - MaxLogin <= y
    => y < blocks[k]

WithinLimit ==
  \A k \in T!Keys, t \in 0..MaxMinute : Cardinality(Within(k, t)) <= T!Limit(k)

ThrottleInv ==
  /\ T!TypeOK /\ IsFiniteSet(recorded) /\ Punctual /\ Retained
  /\ FullIsBlocked /\ WithinLimit /\ T!AddressNotChosen

(* The instance has a name of its own for each operator of FiniteSets.     *)
LEMMA SameCardinality == ASSUME NEW S PROVE T!Cardinality(S) = Cardinality(S)
  BY Zenon DEF T!Cardinality, Cardinality

(* Of two integers Min takes one, and none is less.                        *)
LEMMA LesserOfTwo ==
  ASSUME NEW a \in Int, NEW b \in Int
  PROVE  T!Min({a, b}) \in {a, b} /\ T!Min({a, b}) <= a /\ T!Min({a, b}) <= b
  <1>1. CASE a <= b
    <2>1. \A y \in {a, b} : a <= y
      BY <1>1
    <2> QED
      BY <2>1 DEF T!Min
  <1>2. CASE b <= a
    <2>1. \A y \in {a, b} : b <= y
      BY <1>2
    <2> QED
      BY <2>1 DEF T!Min
  <1> QED
    BY <1>1, <1>2

(* The horizon is covered by the window, the retention and the block.      *)
LEMMA ThrottleBounds ==
  /\ FailureRetention \in Nat /\ BlockRetention \in Nat /\ MaxLogin \in Nat /\ MaxMinute \in Nat
  /\ BlockDuration \in Nat \ {0} /\ MaxLogin <= BlockRetention
  /\ Names # {} /\ Peers # {} /\ Proxies \subseteq Peers
  /\ \A k : /\ T!Limit(k) \in Nat \ {0} /\ T!Window(k) \in Nat \ {0}
            /\ T!Kept(k) \in Int /\ T!Kept(k) <= T!Window(k)
            /\ T!Kept(k) <= FailureRetention - MaxLogin
            /\ T!Horizon(k) \in Int /\ T!Horizon(k) <= T!Kept(k)
            /\ T!Horizon(k) <= BlockDuration
  <1>1. T!ThrottleAssumption
    BY AccessAssumption DEF AccessAssumption
  <1>2. /\ AccountLimit \in Nat \ {0} /\ IPLimit \in Nat \ {0}
        /\ AccountWindow \in Nat \ {0} /\ IPWindow \in Nat \ {0} /\ BlockDuration \in Nat \ {0}
        /\ FailureRetention \in Nat /\ BlockRetention \in Nat /\ MaxLogin \in Nat
        /\ MaxMinute \in Nat
    BY <1>1 DEF T!ThrottleAssumption
  <1>3. MaxLogin <= BlockRetention /\ Names # {} /\ Peers # {} /\ Proxies \subseteq Peers
    BY <1>1 DEF T!ThrottleAssumption
  <1>4. \A k : T!Limit(k) \in Nat \ {0} /\ T!Window(k) \in Nat \ {0}
    BY <1>2 DEF T!Limit, T!Window
  <1>5. ASSUME NEW k
        PROVE  /\ T!Kept(k) \in Int /\ T!Kept(k) <= T!Window(k)
               /\ T!Kept(k) <= FailureRetention - MaxLogin
    <2>1. T!Window(k) \in Int /\ FailureRetention - MaxLogin \in Int
      BY <1>2, <1>4
    <2> QED
      BY <2>1, LesserOfTwo DEF T!Kept
  <1>6. ASSUME NEW k
        PROVE  /\ T!Horizon(k) \in Int /\ T!Horizon(k) <= T!Kept(k)
               /\ T!Horizon(k) <= BlockDuration
    <2>1. T!Kept(k) \in Int /\ BlockDuration \in Int
      BY <1>2, <1>5
    <2> QED
      BY <2>1, LesserOfTwo DEF T!Horizon
  <1> QED
    BY <1>2, <1>3, <1>4, <1>5, <1>6

LEMMA FailureFields ==
  ASSUME NEW f \in T!Failure
  PROVE  f.key \in T!Keys /\ f.at \in 0..MaxMinute /\ f.login \in Logins
  BY DEF T!Failure

LEMMA LoginFields ==
  ASSUME NEW l \in T!Login
  PROVE  /\ l.phase \in {"idle", "verify", "account", "ip"} /\ l.account \in Names
         /\ l.ip \in Peers /\ l.owner \in Peers /\ l.at \in 0..MaxMinute
  BY DEF T!Login

LEMMA NoLoginIsLogin == T!NoLogin \in T!Login /\ T!NoLogin.phase = "idle"
  BY ThrottleBounds DEF T!NoLogin, T!Login

LEMMA LoginInPhase ==
  ASSUME NEW l \in T!Login, NEW p \in {"idle", "verify", "account", "ip"}
  PROVE  LET m == [l EXCEPT !.phase = p] IN
         /\ m \in T!Login /\ m.phase = p /\ m.account = l.account /\ m.ip = l.ip
         /\ m.owner = l.owner /\ m.at = l.at
  BY DEF T!Login

(* A window holds a finite part of what was recorded.                      *)
LEMMA WithinFinite ==
  ASSUME IsFiniteSet(recorded), NEW k, NEW t
  PROVE  IsFiniteSet(Within(k, t)) /\ Cardinality(Within(k, t)) \in Nat
  <1>1. Within(k, t) \subseteq recorded
    BY DEF Within
  <1>2. IsFiniteSet(Within(k, t))
    BY <1>1, FS_Subset
  <1> QED
    BY <1>2, FS_CardinalityType

(***************************************************************************)
(* RecordFailure.                                                          *)
(***************************************************************************)
(* A failure of a login that meets no block: the row is new, it counts in   *)
(* every window around it, and the window it fills up is blocked.          *)
LEMMA RecordKeeps ==
  ASSUME ThrottleInv, NEW r \in Logins, NEW k \in T!Keys, T!Record(r, k),
         logins[r].phase # "idle"
  PROVE  /\ failures' \subseteq recorded' /\ recorded' \subseteq T!Failure
         /\ IsFiniteSet(recorded') /\ blocks' \in [T!Keys -> 0..MaxMinute + BlockDuration]
         /\ minute' = minute /\ Retained' /\ FullIsBlocked' /\ WithinLimit'
  <1> DEFINE x == logins[r].at
             row == [key |-> k, at |-> x, login |-> r]
             rows == failures \cup {row}
  <1>1. /\ failures \subseteq recorded /\ recorded \subseteq T!Failure
        /\ blocks \in [T!Keys -> 0..MaxMinute + BlockDuration] /\ IsFiniteSet(recorded)
        /\ minute \in 0..MaxMinute
    BY DEF ThrottleInv, T!TypeOK
  <1>2. x \in 0..MaxMinute /\ x <= minute /\ minute - MaxLogin <= x
    BY LoginFields DEF ThrottleInv, T!TypeOK, Punctual
  <1>3. /\ T!Limit(k) \in Nat \ {0} /\ T!Window(k) \in Nat \ {0}
        /\ T!Horizon(k) \in Int /\ T!Horizon(k) <= T!Window(k)
        /\ T!Horizon(k) <= BlockDuration /\ T!Horizon(k) + MaxLogin <= FailureRetention
        /\ FailureRetention \in Nat /\ MaxLogin \in Nat /\ MaxMinute \in Nat
        /\ BlockDuration \in Nat
    BY ThrottleBounds
  <1>4. minute' = minute
    BY DEF T!Record
  <1>5. CASE T!BlockedAt(k, x)
    <2>1. failures' = failures /\ blocks' = blocks
      BY <1>5 DEF T!Record, T!Failed
    <2>2. recorded' = recorded
      BY <2>1 DEF T!Record
    <2> QED
      BY <1>1, <1>4, <2>1, <2>2
      DEF ThrottleInv, Retained, FullIsBlocked, WithinLimit, Within
  <1>6. CASE ~T!BlockedAt(k, x)
    <2>1. /\ failures' = rows
          /\ blocks' = IF T!Counted(rows, k, x) < T!Limit(k) \/ blocks[k] > x THEN blocks
                       ELSE [blocks EXCEPT ![k] = T!BlockedUntil(x)]
      BY <1>6 DEF T!Record, T!Failed
    <2>2. row \notin recorded /\ row \in T!Failure
      BY <1>2 DEF T!Record, T!Fresh, T!Failure
    <2>3. recorded' = recorded \cup {row}
      BY <1>1, <2>1, <2>2 DEF T!Record
    <2>4. row.key = k /\ row.at = x
      OBVIOUS
    <2>5. blocks[k] \in 0..MaxMinute + BlockDuration /\ blocks[k] <= x
      BY <1>1, <1>2, <1>6 DEF T!BlockedAt
    <2> HIDE DEF row, x
    <2>6. IsFiniteSet(recorded') /\ IsFiniteSet(rows)
      <3>1. IsFiniteSet(recorded')
        BY <1>1, <2>3, FS_AddElement
      <3> QED
        BY <1>1, <3>1, <2>3, FS_Subset
    <2>7. Retained'
      BY <1>4, <2>1, <2>3 DEF ThrottleInv, Retained
    <2>8. ASSUME NEW t \in 0..MaxMinute, x \in t - T!Horizon(k) + 1 .. t
          PROVE  /\ Within(k, t)' = Within(k, t) \cup {row}
                 /\ Cardinality(Within(k, t)') <= T!Limit(k)
      <3>1. Within(k, t)' = Within(k, t) \cup {row}
        BY <2>3, <2>4, <2>8 DEF Within, T!Window, T!Kept, T!Horizon
      <3>2. Cardinality(Within(k, t)) < T!Limit(k)
        BY <1>1, <1>2, <1>3, <2>5, <2>8, WithinFinite DEF ThrottleInv, FullIsBlocked
      <3>3. Cardinality(Within(k, t) \cup {row}) <= Cardinality(Within(k, t)) + 1
        <4>1. IsFiniteSet(Within(k, t)) /\ Cardinality(Within(k, t)) \in Nat
          BY <1>1, WithinFinite
        <4>2. Cardinality(Within(k, t) \cup {row}) =
                IF row \in Within(k, t) THEN Cardinality(Within(k, t))
                                        ELSE Cardinality(Within(k, t)) + 1
          BY <4>1, FS_AddElement
        <4> QED
          BY <4>1, <4>2
      <3>4. Cardinality(Within(k, t) \cup {row}) \in Nat
        BY <1>1, WithinFinite, FS_AddElement, FS_CardinalityType
      <3> QED
        BY <1>1, <1>3, <3>1, <3>2, <3>3, <3>4, WithinFinite
    <2>9. ASSUME NEW j \in T!Keys, NEW t \in 0..MaxMinute,
                 j # k \/ x \notin t - T!Horizon(k) + 1 .. t
          PROVE  Within(j, t)' = Within(j, t)
      BY <2>3, <2>4, <2>9 DEF Within, T!Window, T!Kept, T!Horizon
    <2>10. WithinLimit'
      <3> SUFFICES ASSUME NEW j \in T!Keys, NEW t \in 0..MaxMinute
                   PROVE  Cardinality(Within(j, t)') <= T!Limit(j)
        BY DEF WithinLimit, T!Keys, T!Limit
      <3> QED
        BY <2>8, <2>9 DEF ThrottleInv, WithinLimit
    <2>11. ASSUME NEW t \in 0..MaxMinute, x \in t - T!Horizon(k) + 1 .. t,
                  T!Limit(k) <= Cardinality(Within(k, t)')
           PROVE  T!Limit(k) <= T!Counted(rows, k, x)
      <3> DEFINE counted == {f \in rows : f.key = k /\ f.at > x - T!Window(k)}
      <3>1. Within(k, t)' \subseteq counted
        <4> SUFFICES ASSUME NEW f \in Within(k, t), f # row PROVE f \in counted
          BY <1>2, <1>3, <2>4, <2>8, <2>11
        <4>1. /\ f \in recorded /\ f.key = k /\ f.at \in t - T!Horizon(k) + 1 .. t
              /\ f.at \in 0..MaxMinute
          BY <1>1, FailureFields DEF Within
        <4>2. f.at > x - T!Horizon(k) /\ f.at > x - T!Window(k)
          <5>1. x <= t /\ t - T!Horizon(k) < f.at
            BY <1>2, <1>3, <2>11, <4>1
          <5> QED
            BY <1>2, <1>3, <4>1, <5>1
        <4>3. ~(f.at < minute - FailureRetention)
          BY <1>1, <1>2, <1>3, <4>1, <4>2
        <4>4. f \in failures
          BY <4>1, <4>3 DEF ThrottleInv, Retained
        <4> QED
          BY <4>1, <4>2, <4>4
      <3>2. IsFiniteSet(counted)
        BY <2>6, FS_Subset
      <3>3. /\ Cardinality(Within(k, t)') <= Cardinality(counted)
            /\ Cardinality(Within(k, t)') \in Nat /\ Cardinality(counted) \in Nat
        BY <3>1, <3>2, FS_Subset, FS_CardinalityType
      <3>4. T!Counted(rows, k, x) = Cardinality(counted)
        BY SameCardinality DEF T!Counted, T!Younger
      <3> QED
        BY <1>3, <2>11, <3>3, <3>4
    <2>12. /\ blocks' \in [T!Keys -> 0..MaxMinute + BlockDuration]
           /\ \A j \in T!Keys : blocks[j] <= blocks'[j]
           /\ T!Limit(k) <= T!Counted(rows, k, x) => blocks'[k] = x + BlockDuration
      <3>1. PICK until \in 0..MaxMinute + BlockDuration : until = x + BlockDuration
        BY <1>2, <1>3
      <3>2. CASE blocks' = blocks /\ T!Counted(rows, k, x) < T!Limit(k)
        <4>1. T!Counted(rows, k, x) \in Nat
          BY <2>6, FS_Subset, FS_CardinalityType, SameCardinality DEF T!Counted, T!Younger
        <4> QED
          BY <1>1, <1>3, <3>2, <4>1
      <3>3. CASE blocks' = [blocks EXCEPT ![k] = until]
        BY <1>1, <1>2, <1>3, <2>5, <3>1, <3>3
      <3>4. ~(blocks[k] > x)
        BY <1>2, <2>5
      <3>5. blocks' = IF T!Counted(rows, k, x) < T!Limit(k) THEN blocks
                      ELSE [blocks EXCEPT ![k] = until]
        BY <2>1, <3>1, <3>4 DEF T!BlockedUntil
      <3> QED
        BY <3>2, <3>3, <3>5
    <2>13. FullIsBlocked'
      <3> SUFFICES ASSUME NEW j \in T!Keys, NEW t \in 0..MaxMinute, NEW y \in 0..MaxMinute,
                          T!Limit(j) <= Cardinality(Within(j, t)'),
                          y \in t - T!Horizon(j) + 1 .. t, minute - MaxLogin <= y
                   PROVE  y < blocks'[j]
        BY <1>4 DEF FullIsBlocked, T!Keys, T!Limit, T!Window, T!Kept, T!Horizon
      <3>1. CASE j = k /\ x \in t - T!Horizon(k) + 1 .. t
        BY <1>2, <1>3, <2>11, <2>12, <3>1
      <3>2. CASE j # k \/ x \notin t - T!Horizon(k) + 1 .. t
        <4>1. y < blocks[j]
          BY <2>9, <3>2 DEF ThrottleInv, FullIsBlocked
        <4> QED
          BY <1>1, <2>12, <4>1
      <3> QED
        BY <3>1, <3>2
    <2> QED
      BY <1>1, <1>4, <2>1, <2>2, <2>3, <2>6, <2>7, <2>10, <2>12, <2>13
  <1> QED
    BY <1>5, <1>6

(* What stands right of the client in a header are trusted proxies only:    *)
(* the client is the last stranger in it.                                   *)
LEMMA LastStranger ==
  ASSUME NEW x \in Proxies, NEW n \in Nat, NEW m \in 1..n, NEW forwarded,
         DOMAIN forwarded = 1..n, forwarded # <<>>, ~T!Malformed(forwarded),
         forwarded[m] \notin Proxies,
         \A i \in 1..n : i > m => forwarded[i] \in Proxies
  PROVE  T!ClientIP(x, forwarded) = forwarded[m]
  <1> DEFINE strangers == {i \in DOMAIN forwarded : forwarded[i] \notin Proxies}
  <1>1. m \in strangers /\ \A i \in strangers : i \in 1..n /\ m >= i
    OBVIOUS
  <1>2. T!ClientIP(x, forwarded) = forwarded[T!Max(strangers)]
    BY <1>1 DEF T!ClientIP
  <1>3. T!Max(strangers) = m
    <2>1. ASSUME NEW i \in strangers, \A y \in strangers : i >= y PROVE i = m
      BY <1>1, <2>1
    <2> HIDE DEF strangers
    <2> QED
      BY <1>1, <2>1 DEF T!Max
  <1> QED
    BY <1>2, <1>3

(* A client ends every header behind a trusted proxy, and comes from no     *)
(* trusted proxy itself: nothing it writes is looked at.                    *)
LEMMA OwnAddress ==
  ASSUME NEW client \in Peers \ Proxies, NEW call \in T!CallsOf(client)
  PROVE  /\ T!ClientIP(call.peer, call.forwarded) = T!Owner(client, call)
         /\ T!Owner(client, call) \in Peers
  <1>1. ASSUME NEW h \in T!Headers PROVE h \in Seq(T!Parts)
    <2>1. CASE h = <<>>
      BY <2>1
    <2>2. ASSUME NEW a \in T!Parts, h = <<a>> PROVE h \in Seq(T!Parts)
      BY <2>2
    <2>3. ASSUME NEW a \in T!Parts, NEW b \in T!Parts, h = <<a, b>> PROVE h \in Seq(T!Parts)
      BY <2>3
    <2>4. \/ h = <<>>
          \/ \E a \in T!Parts : h = <<a>>
          \/ \E a, b \in T!Parts : h = <<a, b>>
      BY DEF T!Headers
    <2> QED
      BY <2>1, <2>2, <2>3, <2>4
  <1>2. CASE T!Malformed(call.forwarded)
    <2>1. T!ClientIP(call.peer, call.forwarded) = call.peer /\ T!Owner(client, call) = call.peer
      BY <1>2 DEF T!ClientIP, T!Owner
    <2>2. call.peer \in Proxies \cup {client}
      BY DEF T!CallsOf
    <2> QED
      BY <2>1, <2>2, ThrottleBounds
  <1>3. CASE ~T!Malformed(call.forwarded)
    <2>1. T!Owner(client, call) = client
      BY <1>3 DEF T!Owner
    <2>2. CASE call.peer = client
      BY <2>1, <2>2 DEF T!ClientIP
    <2>3. ASSUME NEW x \in Proxies, NEW h \in T!Headers,
                 call = [peer |-> x, forwarded |-> Append(h, client)]
          PROVE  T!ClientIP(call.peer, call.forwarded) = client
      <3> DEFINE n == Len(h) + 1
      <3>1. /\ call.peer = x /\ n \in Nat /\ n \in 1..n /\ DOMAIN call.forwarded = 1..n
            /\ call.forwarded # <<>> /\ call.forwarded[n] = client
        BY <1>1, <2>3 DEF T!Parts
      <3> HIDE DEF n
      <3> QED
        BY <1>3, <3>1, LastStranger
    <2>4. ASSUME NEW x \in Proxies, NEW y \in Proxies, NEW h \in T!Headers,
                 call = [peer |-> x, forwarded |-> Append(Append(h, client), y)]
          PROVE  T!ClientIP(call.peer, call.forwarded) = client
      <3> DEFINE m == Len(h) + 1
                 n == Len(h) + 2
      <3>1. h \in Seq(T!Parts \cup {client, y}) /\ Len(h) \in Nat
        BY <1>1
      <3>2. Append(h, client) \in Seq(T!Parts \cup {client, y}) /\ Len(Append(h, client)) = m
            /\ Append(h, client)[m] = client
        BY <3>1
      <3>3. /\ call.peer = x /\ n \in Nat /\ m \in 1..n /\ DOMAIN call.forwarded = 1..n
            /\ call.forwarded # <<>> /\ call.forwarded[m] = client /\ call.forwarded[n] = y
            /\ \A i \in 1..n : i > m => i = n
        BY <2>4, <3>1, <3>2
      <3> HIDE DEF m, n
      <3> QED
        BY <1>3, <3>3, LastStranger
    <2>5. \/ call.peer = client
          \/ \E x \in Proxies, h \in T!Headers :
               call = [peer |-> x, forwarded |-> Append(h, client)]
          \/ \E x \in Proxies, y \in Proxies, h \in T!Headers :
               call = [peer |-> x, forwarded |-> Append(Append(h, client), y)]
      BY DEF T!CallsOf
    <2> QED
      BY <2>1, <2>2, <2>3, <2>4, <2>5
  <1> QED
    BY <1>2, <1>3

-----------------------------------------------------------------------------
LEMMA ThrottleInit == T!Init => ThrottleInv
  <1> SUFFICES ASSUME T!Init PROVE ThrottleInv
    OBVIOUS
  <1> USE ThrottleBounds
  <1>1. T!TypeOK
    <2>1. blocks \in [T!Keys -> 0..MaxMinute + BlockDuration]
      BY DEF T!Init
    <2>2. logins \in [Logins -> T!Login]
      BY NoLoginIsLogin DEF T!Init
    <2> QED
      BY <2>1, <2>2 DEF T!Init, T!TypeOK
  <1>2. Punctual /\ Retained /\ T!AddressNotChosen
    BY NoLoginIsLogin DEF T!Init, Punctual, Retained, T!AddressNotChosen
  <1>3. IsFiniteSet(recorded) /\ \A k, t : Within(k, t) = {}
    BY FS_EmptySet DEF T!Init, Within
  <1>4. FullIsBlocked /\ WithinLimit
    <2>1. \A k, t : Cardinality(Within(k, t)) = 0
      BY <1>3, FS_EmptySet
    <2>2. \A k, t : 0 <= T!Limit(k) /\ ~(T!Limit(k) <= 0)
      OBVIOUS
    <2> QED
      BY <2>1, <2>2 DEF FullIsBlocked, WithinLimit
  <1> QED
    BY <1>1, <1>2, <1>3, <1>4 DEF ThrottleInv

(* A login moves on and leaves failures and blocks as they are.            *)
LEMMA LoginMoves ==
  ASSUME ThrottleInv, NEW r \in Logins, NEW l \in T!Login,
         logins' = [logins EXCEPT ![r] = l],
         l.phase # "idle" => /\ l.ip = l.owner /\ l.at <= minute /\ minute - MaxLogin <= l.at
  PROVE  /\ logins' \in [Logins -> T!Login] /\ T!AddressNotChosen'
         /\ minute' = minute => Punctual'
  <1>1. logins \in [Logins -> T!Login]
    BY DEF ThrottleInv, T!TypeOK
  <1>2. /\ logins' \in [Logins -> T!Login] /\ logins'[r] = l
        /\ \A q \in Logins : q # r => logins'[q] = logins[q]
    BY <1>1
  <1> QED
    BY <1>2 DEF ThrottleInv, T!AddressNotChosen, Punctual

LEMMA LoginSteps ==
  ASSUME ThrottleInv, NEW r \in Logins, T!LoginStep(r)
  PROVE  ThrottleInv'
  <1>1. /\ T!TypeOK /\ IsFiniteSet(recorded) /\ Retained /\ FullIsBlocked /\ WithinLimit
        /\ Punctual /\ T!AddressNotChosen
    BY DEF ThrottleInv
  <1>2. PICK q \in T!Login : q = logins[r]
    BY <1>1 DEF T!TypeOK
  <1>3. /\ q.phase # "idle" => /\ q.ip = q.owner /\ q.at <= minute /\ minute - MaxLogin <= q.at
        /\ minute \in 0..MaxMinute
    BY <1>1, <1>2 DEF Punctual, T!AddressNotChosen, T!TypeOK
  <1>4. ASSUME NEW l \in T!Login, logins' = [logins EXCEPT ![r] = l],
               l.phase # "idle" => /\ l.ip = l.owner /\ l.at <= minute
                                   /\ minute - MaxLogin <= l.at,
               UNCHANGED <<failures, blocks, recorded, minute>>
        PROVE  ThrottleInv'
    <2>1. logins' \in [Logins -> T!Login] /\ T!AddressNotChosen' /\ Punctual'
      BY <1>4, LoginMoves
    <2>2. Retained' /\ FullIsBlocked' /\ WithinLimit'
      BY <1>1, <1>4
      DEF Retained, FullIsBlocked, WithinLimit, Within, T!Keys, T!Limit, T!Window, T!Kept,
          T!Horizon
    <2> QED
      BY <1>1, <1>4, <2>1, <2>2 DEF ThrottleInv, T!TypeOK
  <1>5. ASSUME NEW a \in Names, NEW client \in Peers \ Proxies,
               NEW call \in T!CallsOf(client), T!Begin(r, a, client, call)
        PROVE  ThrottleInv'
    <2> DEFINE p == T!ClientIP(call.peer, call.forwarded)
               o == T!Owner(client, call)
               l == [phase |-> "verify", account |-> a, ip |-> p, owner |-> o, at |-> minute]
    <2>1. p = o /\ o \in Peers
      BY OwnAddress
    <2>2. l \in T!Login /\ l.ip = l.owner /\ l.at = minute
      BY <1>3, <2>1 DEF T!Login
    <2>3. /\ logins' = [logins EXCEPT ![r] = l]
          /\ UNCHANGED <<failures, blocks, recorded, minute>>
      BY <1>5 DEF T!Begin
    <2>4. minute <= minute /\ minute - MaxLogin <= minute
      BY <1>3, ThrottleBounds
    <2> HIDE DEF l
    <2> QED
      BY <1>4, <2>2, <2>3, <2>4
  <1>6. CASE T!Reject(r)
    <2> DEFINE l == [q EXCEPT !.phase = "account"]
    <2>1. /\ l \in T!Login /\ l.phase = "account" /\ l.ip = q.ip /\ l.owner = q.owner
          /\ l.at = q.at
      BY DEF T!Login
    <2>2. /\ logins' = [logins EXCEPT ![r] = l] /\ q.phase = "verify"
          /\ UNCHANGED <<failures, blocks, recorded, minute>>
      BY <1>1, <1>2, <1>6 DEF T!Reject, T!TypeOK
    <2> HIDE DEF l
    <2> QED
      BY <1>3, <1>4, <2>1, <2>2
  <1>7. CASE T!Accept(r) \/ T!Interrupted(r)
    BY <1>4, <1>7, NoLoginIsLogin DEF T!Accept, T!Interrupted
  <1>8. ASSUME NEW k \in T!Keys, T!Record(r, k), q.phase # "idle", NEW l \in T!Login,
               logins' = [logins EXCEPT ![r] = l],
               l.phase # "idle" => l.ip = q.ip /\ l.owner = q.owner /\ l.at = q.at
        PROVE  ThrottleInv'
    <2>1. /\ failures' \subseteq recorded' /\ recorded' \subseteq T!Failure
          /\ IsFiniteSet(recorded') /\ blocks' \in [T!Keys -> 0..MaxMinute + BlockDuration]
          /\ minute' = minute /\ Retained' /\ FullIsBlocked' /\ WithinLimit'
      BY <1>2, <1>8, RecordKeeps
    <2>2. logins' \in [Logins -> T!Login] /\ T!AddressNotChosen' /\ Punctual'
      BY <1>3, <1>8, <2>1, LoginMoves
    <2> QED
      BY <1>3, <2>1, <2>2 DEF ThrottleInv, T!TypeOK
  <1>9. CASE T!RecordAccount(r)
    <2> DEFINE l == [q EXCEPT !.phase = "ip"]
    <2>1. l \in T!Login /\ l.ip = q.ip /\ l.owner = q.owner /\ l.at = q.at
      BY DEF T!Login
    <2>2. /\ logins' = [logins EXCEPT ![r] = l] /\ q.phase = "account"
          /\ T!Record(r, q.account) /\ q.account \in T!Keys
      BY <1>1, <1>2, <1>9, LoginFields DEF T!RecordAccount, T!TypeOK, T!Keys
    <2> HIDE DEF l
    <2> QED
      BY <1>8, <2>1, <2>2
  <1>10. CASE T!RecordIP(r)
    <2>1. /\ logins' = [logins EXCEPT ![r] = T!NoLogin] /\ q.phase = "ip"
          /\ T!Record(r, q.ip) /\ q.ip \in T!Keys
      BY <1>2, <1>10, LoginFields DEF T!RecordIP, T!Keys
    <2> QED
      BY <1>8, <2>1, NoLoginIsLogin
  <1> QED
    BY <1>5, <1>6, <1>7, <1>9, <1>10 DEF T!LoginStep

LEMMA CleanFailureStep ==
  ASSUME ThrottleInv, NEW f \in failures, T!CleanFailure(f)
  PROVE  ThrottleInv'
  <1>1. UNCHANGED <<blocks, recorded, logins, minute>> /\ failures' = failures \ {f}
    BY DEF T!CleanFailure
  <1>2. T!TypeOK' /\ Punctual' /\ T!AddressNotChosen'
    BY <1>1 DEF ThrottleInv, T!TypeOK, Punctual, T!AddressNotChosen
  <1>3. Retained'
    BY <1>1 DEF ThrottleInv, Retained, T!CleanFailure, T!StaleFailure
  <1>4. FullIsBlocked' /\ WithinLimit' /\ IsFiniteSet(recorded)'
    BY <1>1
    DEF ThrottleInv, FullIsBlocked, WithinLimit, Within, T!Keys, T!Limit, T!Window, T!Kept,
        T!Horizon
  <1> QED
    BY <1>2, <1>3, <1>4 DEF ThrottleInv

(* A block that is cleaned up was over for every login under way.          *)
LEMMA CleanBlockStep ==
  ASSUME ThrottleInv, NEW k \in T!Keys, T!CleanBlock(k)
  PROVE  ThrottleInv'
  <1>1. /\ UNCHANGED <<failures, recorded, logins, minute>>
        /\ blocks' = [blocks EXCEPT ![k] = 0] /\ blocks[k] < minute - BlockRetention
    BY DEF T!CleanBlock
  <1>2. blocks \in [T!Keys -> 0..MaxMinute + BlockDuration] /\ minute \in 0..MaxMinute
    BY DEF ThrottleInv, T!TypeOK
  <1>3. 0 \in 0..MaxMinute + BlockDuration
    BY ThrottleBounds
  <1>4. /\ blocks' \in [T!Keys -> 0..MaxMinute + BlockDuration] /\ blocks'[k] = 0
        /\ \A j \in T!Keys : j # k => blocks'[j] = blocks[j]
    BY <1>1, <1>2, <1>3
  <1>5. /\ T!TypeOK' /\ Punctual' /\ T!AddressNotChosen' /\ Retained' /\ WithinLimit'
        /\ IsFiniteSet(recorded)'
    BY <1>1, <1>4
    DEF ThrottleInv, T!TypeOK, Punctual, T!AddressNotChosen, Retained, WithinLimit, Within,
        T!Keys, T!Limit, T!Window, T!Kept, T!Horizon
  <1>6. FullIsBlocked'
    <2> SUFFICES ASSUME NEW j \in T!Keys, NEW t \in 0..MaxMinute, NEW y \in 0..MaxMinute,
                        T!Limit(j) <= Cardinality(Within(j, t)),
                        y \in t - T!Horizon(j) + 1 .. t, minute - MaxLogin <= y
                 PROVE  y < blocks'[j]
      BY <1>1 DEF FullIsBlocked, Within, T!Keys, T!Limit, T!Window, T!Kept, T!Horizon
    <2>1. y < blocks[j]
      BY DEF ThrottleInv, FullIsBlocked
    <2>2. j # k
      BY <1>1, <1>2, <2>1, ThrottleBounds
    <2> QED
      BY <1>4, <2>1, <2>2
  <1> QED
    BY <1>5, <1>6 DEF ThrottleInv

LEMMA MinutePasses ==
  ASSUME ThrottleInv, T!Tick
  PROVE  ThrottleInv'
  <1>1. UNCHANGED <<failures, recorded, logins, blocks>> /\ minute' = minute + 1
    BY DEF T!Tick
  <1>2. minute \in 0..MaxMinute /\ minute' \in 0..MaxMinute
    BY <1>1, ThrottleBounds DEF ThrottleInv, T!TypeOK, T!Tick
  <1>3. T!TypeOK' /\ T!AddressNotChosen' /\ WithinLimit' /\ IsFiniteSet(recorded)'
    BY <1>1, <1>2
    DEF ThrottleInv, T!TypeOK, T!AddressNotChosen, WithinLimit, Within, T!Keys, T!Limit,
        T!Window, T!Kept, T!Horizon
  <1>4. Punctual'
    <2> SUFFICES ASSUME NEW r \in Logins, logins'[r].phase # "idle"
                 PROVE  logins'[r].at <= minute' /\ minute' - MaxLogin <= logins'[r].at
      BY DEF Punctual
    <2>1. logins[r].at \in 0..MaxMinute
      BY LoginFields DEF ThrottleInv, T!TypeOK
    <2>2. logins[r].at <= minute /\ minute - logins[r].at < MaxLogin
      BY <1>1 DEF ThrottleInv, Punctual, T!Tick
    <2> QED
      BY <1>1, <1>2, <2>1, <2>2, ThrottleBounds
  <1>5. Retained'
    <2> SUFFICES ASSUME NEW f \in recorded' \ failures'
                 PROVE  f.at < minute' - FailureRetention
      BY DEF Retained
    <2>1. f.at \in 0..MaxMinute /\ f.at < minute - FailureRetention
      BY <1>1, FailureFields DEF ThrottleInv, T!TypeOK, Retained
    <2> QED
      BY <1>1, <1>2, <2>1, ThrottleBounds
  <1>6. FullIsBlocked'
    <2>1. \A k, u : Within(k, u)' = Within(k, u)
      BY <1>1 DEF Within, T!Window, T!Kept, T!Horizon
    <2>2. \A y \in 0..MaxMinute : minute' - MaxLogin <= y => minute - MaxLogin <= y
      BY <1>1, <1>2, ThrottleBounds
    <2> QED
      BY <1>1, <2>1, <2>2
      DEF ThrottleInv, FullIsBlocked, T!Keys, T!Limit, T!Window, T!Kept, T!Horizon
  <1> QED
    BY <1>3, <1>4, <1>5, <1>6 DEF ThrottleInv

LEMMA ThrottleStep == ThrottleInv /\ [T!Next]_T!vars => ThrottleInv'
  <1> SUFFICES ASSUME ThrottleInv, [T!Next]_T!vars PROVE ThrottleInv'
    OBVIOUS
  <1>1. CASE UNCHANGED T!vars
    BY <1>1
    DEF T!vars, ThrottleInv, T!TypeOK, Punctual, Retained, FullIsBlocked, WithinLimit, Within,
        T!AddressNotChosen, T!Keys, T!Limit, T!Window, T!Kept, T!Horizon
  <1> QED
    BY <1>1, LoginSteps, CleanFailureStep, CleanBlockStep, MinutePasses DEF T!Next

(* What the clean-up took is not among the failures a login may still count *)
(* that the retention keeps.                                                *)
LEMMA YoungerAlike ==
  ASSUME ThrottleInv, NEW k \in T!Keys, NEW at \in 0..MaxMinute, minute - MaxLogin <= at
  PROVE  T!Younger(failures, k, at, T!Kept(k)) = T!Younger(recorded, k, at, T!Kept(k))
  <1>1. ASSUME NEW f \in recorded, f.key = k, f.at > at - T!Kept(k) PROVE f \in failures
    <2>1. f.at \in 0..MaxMinute /\ minute \in 0..MaxMinute
      BY FailureFields DEF ThrottleInv, T!TypeOK
    <2>2. ~(f.at < minute - FailureRetention)
      <3>1. /\ T!Kept(k) \in Int /\ T!Kept(k) <= FailureRetention - MaxLogin
            /\ MaxLogin \in Nat /\ FailureRetention \in Nat
        BY ThrottleBounds
      <3> QED
        BY <1>1, <2>1, <3>1
    <2> QED
      BY <2>2 DEF ThrottleInv, Retained
  <1> QED
    BY <1>1 DEF ThrottleInv, T!TypeOK, T!Younger

-----------------------------------------------------------------------------
(* No stretch as long as the horizon holds more failures of a key than its  *)
(* limit, although logins pass the check of the blocks together and are     *)
(* recorded late; the clean-up deletes none that a login counts, short of   *)
(* the retention; and failures count under the own address of the client,   *)
(* or under its proxy's if the header is malformed. (RecordFailure,         *)
(* DeleteStaleFailures, DeleteExpiredBlocks, resolveClientIP.)              *)
THEOREM FailuresAreCounted == AllSpec => []FailuresCounted
  <1>1. AllInit => ThrottleInv
    BY ThrottleInit DEF AllInit
  <1>2. ThrottleInv /\ [AllNext]_all => ThrottleInv'
    <2>1. [AllNext]_all => [T!Next]_T!vars
      BY DEF AllNext, all, T!vars, throttling
    <2> QED
      BY <2>1, ThrottleStep
  <1>3. ThrottleInv => FailuresCounted
    <2> SUFFICES ASSUME ThrottleInv PROVE FailuresCounted
      OBVIOUS
    <2>1. T!FailuresWithinLimit
      BY SameCardinality DEF ThrottleInv, WithinLimit, Within, T!FailuresWithinLimit
    <2>2. T!CleanupUnseen
      <3> SUFFICES ASSUME NEW k \in T!Keys,
                          NEW at \in {minute} \cup
                            {logins[r].at : r \in {q \in Logins : logins[q].phase # "idle"}}
                   PROVE  T!Younger(failures, k, at, T!Kept(k)) =
                            T!Younger(recorded, k, at, T!Kept(k))
        BY DEF T!CleanupUnseen
      <3>1. at \in 0..MaxMinute /\ minute - MaxLogin <= at
        <4>1. minute \in 0..MaxMinute /\ MaxLogin \in Nat /\ logins \in [Logins -> T!Login]
          BY ThrottleBounds DEF ThrottleInv, T!TypeOK
        <4>2. CASE at = minute
          BY <4>1, <4>2
        <4>3. ASSUME NEW r \in Logins, logins[r].phase # "idle", at = logins[r].at
              PROVE  at \in 0..MaxMinute /\ minute - MaxLogin <= at
          BY <4>1, <4>3, LoginFields DEF ThrottleInv, Punctual
        <4> QED
          BY <4>2, <4>3
      <3> QED
        BY <3>1, YoungerAlike
    <2> QED
      BY <2>1, <2>2 DEF ThrottleInv, FailuresCounted
  <1> QED
    BY <1>1, <1>2, <1>3, PTL DEF AllSpec

(* What accounts, sessions, tokens, requests and commands hold, and what    *)
(* failures, blocks and logins do, keeps its type and its bounds when they  *)
(* run together. (account, login_throttle.go.)                              *)
THEOREM AllTypesHold == AllSpec => []AllTypesOK
  <1>1. AllInit => IInv /\ ThrottleInv
    BY InitHolds, ThrottleInit DEF AllInit
  <1>2. IInv /\ ThrottleInv /\ [AllNext]_all => IInv' /\ ThrottleInv'
    <2>1. [AllNext]_all => [Next]_vars /\ [T!Next]_T!vars
      BY DEF AllNext, all, T!vars, throttling
    <2> QED
      BY <2>1, StepKeeps, ThrottleStep
  <1>3. IInv /\ ThrottleInv => AllTypesOK
    BY DEF IInv, ThrottleInv, AllTypesOK
  <1> QED
    BY <1>1, <1>2, <1>3, PTL DEF AllSpec
=============================================================================
