----------------------------- MODULE LoginThrottle -----------------------------
(***************************************************************************)
(* The throttle of failed logins, counted by account and by client address *)
(* over a rolling window, and the deletion of old failures and blocks.      *)
(*                                                                         *)
(* Login reads the blocks, then verifies the password outside any           *)
(* transaction, then records a failure for the account and for the address, *)
(* one transaction each, with the clock of its beginning: failures arrive   *)
(* late and out of order.                                                  *)
(***************************************************************************)
EXTENDS Integers, FiniteSets, Sequences, FiniteSetsExt

CONSTANTS Accounts,        \* normalised usernames, with a row in users or not
          Peers,           \* addresses a login can come from
          Proxies,         \* those of them in trusted_proxy_cidrs
          Requests,        \* logins in flight
          AccountLimit, IPLimit, AccountWindow, IPWindow, BlockDuration,
          FailureRetention, BlockRetention,
          MaxLogin,        \* bound on the time a login takes until it is recorded
          MaxTime          \* bound on the clock

(* What ThrottlePolicy.Validate and validateThrottleConfig require.  The     *)
(* last conjunct bounds the time a login takes, not the configuration:      *)
(* BlockRetention is the constant of 24 hours.                              *)
ThrottleAssumption ==
  /\ Accounts # {} /\ Peers # {} /\ Proxies \subseteq Peers
  /\ {AccountLimit, IPLimit, AccountWindow, IPWindow, BlockDuration} \subseteq Nat \ {0}
  /\ AccountLimit <= IPLimit /\ AccountWindow <= IPWindow
  /\ {FailureRetention, BlockRetention, MaxLogin, MaxTime} \subseteq Nat
  /\ MaxLogin <= BlockRetention

VARIABLES failures,  \* velis.login_failure_events
          blocks,    \* velis.login_blocks, blocked_until by key, 0 for no row
          recorded,  \* the failures ever recorded
          logins,    \* calls of Login
          now        \* the clock

vars == <<failures, blocks, recorded, logins, now>>

(* The keys are HMACs; Accounts and Peers are disjoint.                     *)
Keys == Accounts \cup Peers
Limit(k)  == IF k \in Peers THEN IPLimit ELSE AccountLimit
Window(k) == IF k \in Peers THEN IPWindow ELSE AccountWindow

(* A row by its key, its time and the login that failed.                    *)
Failure == [key : Keys, at : 0..MaxTime, login : Requests]

(* No step reads owner: it is what ip has to be, see AddressNotChosen.       *)
Login == [phase : {"idle", "verify", "account", "ip"},
          account : Accounts, ip : Peers, owner : Peers, at : 0..MaxTime]
NoLogin ==
  LET somewhere == CHOOSE p \in Peers : TRUE
  IN  [phase |-> "idle", account |-> CHOOSE a \in Accounts : TRUE,
       ip |-> somewhere, owner |-> somewhere, at |-> 0]

Younger(rows, k, at, age) == {f \in rows : f.key = k /\ f.at > at - age}

Counted(rows, k, at) == Cardinality(Younger(rows, k, at, Window(k)))

-----------------------------------------------------------------------------
(* X-Forwarded-For is a sequence of addresses and of parts that are none.    *)
Malformed(forwarded) == \E i \in DOMAIN forwarded : forwarded[i] = "garbage"

(* Mutant: the first address of the header is taken.                        *)
ClientIPFirst(peer, forwarded) ==
  IF peer \notin Proxies \/ forwarded = <<>> \/ Malformed(forwarded) THEN peer ELSE forwarded[1]

(* resolveClientIP: the header counts only behind a trusted proxy, from the  *)
(* right, and only if every part of it is an address.                       *)
ClientIP(peer, forwarded) ==
  LET strangers == {i \in DOMAIN forwarded : forwarded[i] \notin Proxies}
  IN  IF peer \notin Proxies \/ forwarded = <<>> \/ Malformed(forwarded) THEN peer
      ELSE IF strangers = {} THEN forwarded[1]
      ELSE forwarded[Max(strangers)]

(* What a client writes into the header itself.                              *)
Parts   == Peers \cup {"garbage"}
Headers == {<<>>} \cup {<<p>> : p \in Parts} \cup {<<p, q>> : p, q \in Parts}

(* The TCP peer and the header with which a call of the client arrives:      *)
(* directly, or through one or two trusted proxies, each of which ends the   *)
(* header with the address that called it.  (nginx.conf replaces the whole   *)
(* header: the case of an empty one.)                                        *)
CallsOf(client) ==
  {[peer |-> client, forwarded |-> h] : h \in Headers}
    \cup {[peer |-> x, forwarded |-> Append(h, client)] : x \in Proxies, h \in Headers}
    \cup {[peer |-> x, forwarded |-> Append(Append(h, client), y)] :
             x \in Proxies, y \in Proxies, h \in Headers}

(* Whose failures those of a call are: the client's; with a malformed header, *)
(* which tells nothing of the client, those of whoever handed the call over. *)
Owner(client, call) == IF Malformed(call.forwarded) THEN call.peer ELSE client

-----------------------------------------------------------------------------
BlockedAt(k, at) == blocks[k] > at

(* activeThrottle: a login that meets a block leaves nothing.               *)
Begin(r, a, client, call) ==
  LET p == ClientIP(call.peer, call.forwarded)
  IN  /\ logins[r].phase = "idle"
      /\ ~BlockedAt(a, now) /\ ~BlockedAt(p, now)
      /\ logins' = [logins EXCEPT ![r] =
           [phase |-> "verify", account |-> a, ip |-> p, owner |-> Owner(client, call),
            at |-> now]]
      /\ UNCHANGED <<failures, blocks, recorded, now>>

(* No user, a wrong password, a disabled account: one path.                 *)
Reject(r) ==
  /\ logins[r].phase = "verify"
  /\ logins' = [logins EXCEPT ![r].phase = "account"]
  /\ UNCHANGED <<failures, blocks, recorded, now>>

Accept(r) ==
  /\ logins[r].phase = "verify"
  /\ logins' = [logins EXCEPT ![r] = NoLogin]
  /\ UNCHANGED <<failures, blocks, recorded, now>>

(* Mutant: the block lasts as long again.                                   *)
BlockedUntilTwice(at) == at + 2 * BlockDuration

BlockedUntil(at) == at + BlockDuration

(* Mutant: the failures of the window are counted before the insert.        *)
FailedCountedFirst(r, k, at) ==
  IF BlockedAt(k, at) THEN UNCHANGED <<failures, blocks>>
  ELSE /\ failures' = failures \cup {[key |-> k, at |-> at, login |-> r]}
       /\ blocks' = IF Counted(failures, k, at) < Limit(k) THEN blocks
                    ELSE [blocks EXCEPT ![k] = BlockedUntil(at)]

(* RecordFailure, under the advisory lock of the key.  The upsert replaces   *)
(* a block only if that has ended by the time of the failure.               *)
Failed(r, k, at) ==
  IF BlockedAt(k, at) THEN UNCHANGED <<failures, blocks>>
  ELSE LET rows == failures \cup {[key |-> k, at |-> at, login |-> r]}
       IN  /\ failures' = rows
           /\ blocks' = IF Counted(rows, k, at) < Limit(k) \/ blocks[k] > at THEN blocks
                        ELSE [blocks EXCEPT ![k] = BlockedUntil(at)]

(* A login makes one row at a time and key: Requests bounds the burst.       *)
Fresh(r, k, at) == ~\E f \in recorded : f.key = k /\ f.at = at /\ f.login = r

Record(r, k) ==
  /\ Fresh(r, k, logins[r].at)
  /\ Failed(r, k, logins[r].at)
  /\ recorded' = recorded \cup (failures' \ failures)
  /\ UNCHANGED now

RecordAccount(r) ==
  /\ logins[r].phase = "account"
  /\ Record(r, logins[r].account)
  /\ logins' = [logins EXCEPT ![r].phase = "ip"]

RecordIP(r) ==
  /\ logins[r].phase = "ip"
  /\ Record(r, logins[r].ip)
  /\ logins' = [logins EXCEPT ![r] = NoLogin]

(* The second transaction fails, or the process ends before it.              *)
Interrupted(r) ==
  /\ logins[r].phase \in {"account", "ip"}
  /\ logins' = [logins EXCEPT ![r] = NoLogin]
  /\ UNCHANGED <<failures, blocks, recorded, now>>

-----------------------------------------------------------------------------
(* Mutant: a failure is kept for its own minute only.                       *)
StaleAtOnce(f) == f.at < now

StaleFailure(f) == f.at < now - FailureRetention

CleanFailure(f) ==
  /\ StaleFailure(f)
  /\ failures' = failures \ {f}
  /\ UNCHANGED <<blocks, recorded, logins, now>>

CleanBlock(k) ==
  /\ blocks[k] # 0 /\ blocks[k] < now - BlockRetention
  /\ blocks' = [blocks EXCEPT ![k] = 0]
  /\ UNCHANGED <<failures, recorded, logins, now>>

Tick ==
  /\ now < MaxTime
  /\ \A r \in Requests : logins[r].phase # "idle" => now - logins[r].at < MaxLogin
  /\ now' = now + 1
  /\ UNCHANGED <<failures, blocks, recorded, logins>>

-----------------------------------------------------------------------------
Init ==
  /\ failures = {} /\ recorded = {}
  /\ blocks = [k \in Keys |-> 0]
  /\ logins = [r \in Requests |-> NoLogin]
  /\ now = 0

LoginStep(r) ==
  \/ \E a \in Accounts, client \in Peers \ Proxies :
       \E call \in CallsOf(client) : Begin(r, a, client, call)
  \/ Reject(r) \/ Accept(r)
  \/ RecordAccount(r) \/ RecordIP(r) \/ Interrupted(r)

Next ==
  \/ \E r \in Requests : LoginStep(r)
  \/ \E f \in failures : CleanFailure(f)
  \/ \E k \in Keys : CleanBlock(k)
  \/ Tick

Spec == Init /\ [][Next]_vars

-----------------------------------------------------------------------------
(* Properties.                                                             *)

TypeOK ==
  /\ failures \subseteq recorded /\ recorded \subseteq Failure
  /\ blocks \in [Keys -> 0..MaxTime + BlockDuration]
  /\ logins \in [Requests -> Login]
  /\ now \in 0..MaxTime

(* The part of a window whose failures are kept for whoever still counts it, *)
(* and the part that a block covers as well: both are the whole window for   *)
(* the defaults, and no code requires that.                                 *)
Kept(k)    == Min({Window(k), FailureRetention - MaxLogin})
Horizon(k) == Min({Kept(k), BlockDuration})

(* No stretch of time as long as the window, or as what the retention and    *)
(* the block leave of it, holds more failures of a key than its limit,       *)
(* although every login in flight has passed the check of the blocks.        *)
FailuresWithinLimit ==
  \A k \in Keys, t \in 0..MaxTime :
    Cardinality({f \in recorded : f.key = k /\ f.at \in t - Horizon(k) + 1 .. t}) <= Limit(k)

(* Of the failures that a login under way or to come counts, the clean-up    *)
(* deletes none but those of a window longer than the retention.             *)
CleanupUnseen ==
  \A k \in Keys, at \in {now} \cup {logins[r].at : r \in {q \in Requests : logins[q].phase # "idle"}} :
    Younger(failures, k, at, Kept(k)) = Younger(recorded, k, at, Kept(k))

(* Whatever a client writes into the header, its failures are counted under  *)
(* its own address, or, if that header is malformed, under the address of    *)
(* the proxy it called through: never under an address of its choice.        *)
AddressNotChosen ==
  \A r \in Requests : logins[r].phase # "idle" => logins[r].ip = logins[r].owner
=============================================================================
