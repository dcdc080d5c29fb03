--------------------------- MODULE ArticlePipeline ---------------------------
(***************************************************************************)
(* From a committed article change to its enrichment task.                *)
(*                                                                         *)
(*   article + outbox --Relay--> RabbitMQ queue --Projector--> async_tasks *)
(*        (one tx)                 |      ^                (one tx with    *)
(*                                 v      |                 consumed_events)*)
(*                           dead-letter queue (replayed by an operator)   *)
(*                                                                         *)
(* Every article write appends its event to the outbox in the same        *)
(* transaction.  Relay processes claim rows under a lease fenced by a     *)
(* token, publish them and confirm them; any number of relay processes    *)
(* run, so their goroutines are anonymous workers here.  The broker may   *)
(* hold several copies of an event, in any order, may redeliver them, and *)
(* dead-letters a copy rejected DeliveryLimit times.  The projector       *)
(* records each event id once and brings the task of the article in line  *)
(* with the article as it is NOW, not as the event describes it.          *)
(***************************************************************************)
EXTENDS ArticleFact

CONSTANTS EventIds,       \* the event ids (UUIDs) that can be drawn
          MaxFaults,      \* bound on crashes, timeouts and transient errors
          DeliveryLimit,  \* the queue's delivery-limit policy
          Legacy          \* articles published before the outbox existed

ASSUME PipelineAssumption ==
  /\ MaxFaults \in Nat
  /\ DeliveryLimit \in Nat
  /\ Legacy \subseteq Articles

VARIABLES article,   \* velis.articles joined with the current revision
          outbox,    \* velis.outbox_events, one row per event id
          workers,   \* relay goroutines between Claim and Confirm/Fail
          msgs,      \* the copies held by the broker (queue and DLQ)
          consumed,  \* velis.consumed_events of the projector
          task,      \* velis.async_tasks, one per article
          faults     \* the faults so far

vars == <<article, outbox, workers, msgs, consumed, task, faults>>

EventTypes == {"published", "revised", "offlined", "deleted"}

(* token is the lease token of the row, numbered by the claim that drew   *)
(* it; 0 is NULL.  due stands for next_attempt_at <= now, expired for      *)
(* lease_expires_at <= now.                                                *)
OutboxRow == [state : {"pending", "published", "deleted"}, article : Articles,
              type : EventTypes, ver : Nat, attempts : Nat, token : Nat,
              expired : BOOLEAN, due : BOOLEAN, copies : Nat]

FreeRow == [state |-> "free"]

Worker == [event : EventIds, token : Nat, phase : {"publish", "confirm", "fail"}]

(* "projected": the transaction committed, the ack is not sent yet;        *)
(* "replaying" and "replayed": taken from the DLQ by the operator's        *)
(* replay, before and after the confirm of the new copy.                   *)
Places == {"ready", "unacked", "projected", "dead", "replaying", "replayed"}
Message == [event : EventIds, copy : Nat, place : Places, tries : Nat]

(* "pending" stands for every status that is not canceled: what the        *)
(* enrichment executor does to the task in between is in Enrichment.       *)
Task == [status : {"none", "pending", "canceled"}, gen : Nat, rev : Nat, observed : Nat]

NoTask == [status |-> "none", gen |-> 0, rev |-> 0, observed |-> 0]

Appended(e)   == outbox[e].state # "free"
EventsOf(a)   == {e \in EventIds : Appended(e) /\ outbox[e].article = a}
Fault         == faults < MaxFaults /\ faults' = faults + 1

-----------------------------------------------------------------------------
(* The article transaction.                                                *)

NewRow(a, type, ver) ==
  [state |-> "pending", article |-> a, type |-> type, ver |-> ver, attempts |-> 0,
   token |-> 0, expired |-> FALSE, due |-> TRUE, copies |-> 0]

AppendEvent(a, type, ver) ==
  IF type = "none" THEN UNCHANGED outbox
  ELSE \E e \in EventIds : ~Appended(e) /\ outbox' = [outbox EXCEPT ![e] = NewRow(a, type, ver)]

(* The row and its event commit together.                                  *)
Commit(a, after, type) ==
  /\ Writable(article[a])
  /\ article' = [article EXCEPT ![a] = after]
  /\ AppendEvent(a, type, after.ver)
  /\ UNCHANGED <<workers, msgs, consumed, task, faults>>

UserWrite(a, after, contentChanged) ==
  Commit(a, after, TransitionEvent(article[a], after, contentChanged))

Create(a, status) ==
  /\ a \notin RssArticles
  /\ article[a].status = "absent"
  /\ UserWrite(a, FirstRow(status), TRUE)

Update(a) ==
  /\ a \notin RssArticles
  /\ MayUpdateByAuthor(article[a])
  /\ UserWrite(a, Revised(article[a]), TRUE)

Publish(a) ==
  /\ a \notin RssArticles
  /\ MayPublish(article[a])
  /\ UserWrite(a, WithState(article[a], "published", "none"), FALSE)

Offline(a) ==
  /\ a \notin RssArticles
  /\ MayOffline(article[a])
  /\ UserWrite(a, WithState(article[a], "offline", "author"), FALSE)

Delete(a) ==
  /\ a \notin RssArticles
  /\ MayDelete(article[a])
  /\ UserWrite(a, WithState(article[a], "deleted", "none"), FALSE)

AdminOffline(a) ==
  /\ MayOffline(article[a])
  /\ UserWrite(a, WithState(article[a], "offline", "admin"), FALSE)

AdminRestore(a) ==
  /\ MayRestore(article[a])
  /\ UserWrite(a, WithState(article[a], "published", "none"), FALSE)

(* A new item, or a known item whose content hash changed.                 *)
Ingest(a) ==
  /\ a \in RssArticles
  /\ LET before == article[a]
         after  == IF before.status = "absent" THEN FirstRow("published") ELSE Revised(before)
     IN  Commit(a, after, IngestEvent(before))

(* Mutant: the anti-join with the outbox is left out.                      *)
BackfillBlindly(a) ==
  /\ article[a].status = "published"
  /\ task[a].status = "none"
  /\ AppendEvent(a, "published", article[a].ver)
  /\ UNCHANGED <<article, workers, msgs, consumed, task, faults>>

(* Backfill gives a published article without event or task its first     *)
(* event; a cleaned-up outbox row no longer counts as an event.            *)
Backfill(a) ==
  /\ article[a].status = "published"
  /\ \A e \in EventsOf(a) : outbox[e].state = "deleted"
  /\ task[a].status = "none"
  /\ AppendEvent(a, "published", article[a].ver)
  /\ UNCHANGED <<article, workers, msgs, consumed, task, faults>>

ArticleNext ==
  \E a \in Articles :
    \/ \E status \in {"draft", "published"} : Create(a, status)
    \/ Update(a) \/ Publish(a) \/ Offline(a) \/ Delete(a)
    \/ AdminOffline(a) \/ AdminRestore(a)
    \/ Ingest(a)
    \/ Backfill(a)

-----------------------------------------------------------------------------
(* The relay.  Claim takes a due, unpublished row without a live lease    *)
(* (FOR UPDATE SKIP LOCKED) and draws a fresh token.                       *)

(* Mutant: an expired lease is never taken over.                           *)
ClaimableOnce(row) == row.state = "pending" /\ row.due /\ row.token = 0

Claimable(row) ==
  /\ row.state = "pending"
  /\ row.due
  /\ row.token = 0 \/ row.expired

Claim(e) ==
  /\ Claimable(outbox[e])
  /\ LET token == outbox[e].attempts + 1
     IN  /\ outbox' = [outbox EXCEPT ![e].attempts = token, ![e].token = token,
                                     ![e].expired = FALSE]
         /\ workers' = workers \cup {[event |-> e, token |-> token, phase |-> "publish"]}
  /\ UNCHANGED <<article, msgs, consumed, task, faults>>

Step(w, phase) == workers' = (workers \ {w}) \cup {[w EXCEPT !.phase = phase]}

(* The broker stores one more persistent copy of e.                        *)
Enqueue(e) ==
  LET n == outbox[e].copies + 1
  IN  /\ msgs' = msgs \cup {[event |-> e, copy |-> n, place |-> "ready", tries |-> 0]}
      /\ outbox' = [outbox EXCEPT ![e].copies = n]

(* Publish: a confirm was received; or the confirm timed out or the       *)
(* channel broke with the copy stored; or the broker never took the copy. *)
PublishConfirmed(w) ==
  /\ w.phase = "publish"
  /\ Enqueue(w.event)
  /\ Step(w, "confirm")
  /\ UNCHANGED <<article, consumed, task, faults>>

PublishUnknown(w) ==
  /\ w.phase = "publish" /\ Fault
  /\ Enqueue(w.event)
  /\ Step(w, "fail")
  /\ UNCHANGED <<article, consumed, task>>

(* Mutant: an error of Publish is swallowed.                               *)
PublishIgnored(w) ==
  /\ w.phase = "publish" /\ Fault
  /\ Step(w, "confirm")
  /\ UNCHANGED <<article, outbox, msgs, consumed, task>>

PublishRefused(w) ==
  /\ w.phase = "publish" /\ Fault
  /\ Step(w, "fail")
  /\ UNCHANGED <<article, outbox, msgs, consumed, task>>

(* Mutant: the UPDATE does not compare the token.                          *)
HoldsUnfenced(w) == outbox[w.event].state = "pending"

(* Confirm and Fail write only while the row still carries the worker's   *)
(* token; otherwise they are fenced off and change nothing.                *)
Holds(w) == outbox[w.event].token = w.token /\ outbox[w.event].state = "pending"

Release(row) == [row EXCEPT !.token = 0, !.expired = FALSE]

Confirm(w) ==
  /\ w.phase = "confirm"
  /\ outbox' = IF Holds(w)
               THEN [outbox EXCEPT ![w.event] = [Release(@) EXCEPT !.state = "published"]]
               ELSE outbox
  /\ workers' = workers \ {w}
  /\ UNCHANGED <<article, msgs, consumed, task, faults>>

Fail(w) ==
  /\ w.phase = "fail"
  /\ outbox' = IF Holds(w)
               THEN [outbox EXCEPT ![w.event] = [Release(@) EXCEPT !.due = FALSE]]
               ELSE outbox
  /\ workers' = workers \ {w}
  /\ UNCHANGED <<article, msgs, consumed, task, faults>>

BackoffElapsed(e) ==
  /\ outbox[e].state = "pending" /\ ~outbox[e].due
  /\ outbox' = [outbox EXCEPT ![e].due = TRUE]
  /\ UNCHANGED <<article, workers, msgs, consumed, task, faults>>

(* A relay process dies, or its confirm write fails: the goroutine is gone *)
(* and its lease stays.                                                    *)
RelayCrash(w) ==
  /\ Fault
  /\ workers' = workers \ {w}
  /\ UNCHANGED <<article, outbox, msgs, consumed, task>>

HasHolder(e) == \E w \in workers : w.event = e /\ w.token = outbox[e].token

Leased(e) == Appended(e) /\ outbox[e].token # 0 /\ ~outbox[e].expired

ExpireLease(e) ==
  /\ Leased(e)
  /\ outbox' = [outbox EXCEPT ![e].expired = TRUE]
  /\ UNCHANGED <<article, workers, msgs, consumed, task>>

LeaseExpires(e) == ~HasHolder(e) /\ ExpireLease(e) /\ UNCHANGED faults

(* The lease runs out under a slow worker, which goes on regardless.       *)
LeaseOutlived(e) == HasHolder(e) /\ ExpireLease(e) /\ Fault

(* Mutant: the clean-up makes the event id available again.                *)
CleanupForgets(e) ==
  /\ outbox[e].state = "published"
  /\ outbox' = [outbox EXCEPT ![e] = FreeRow]
  /\ UNCHANGED <<article, workers, msgs, consumed, task, faults>>

(* DeletePublishedBefore, the retention clean-up.                          *)
CleanupOutbox(e) ==
  /\ outbox[e].state = "published"
  /\ outbox' = [outbox EXCEPT ![e].state = "deleted"]
  /\ UNCHANGED <<article, workers, msgs, consumed, task, faults>>

RelayNext ==
  \/ \E e \in EventIds : \/ Claim(e) \/ BackoffElapsed(e)
                         \/ LeaseExpires(e) \/ LeaseOutlived(e) \/ CleanupOutbox(e)
  \/ \E w \in workers : \/ PublishConfirmed(w) \/ PublishUnknown(w) \/ PublishRefused(w)
                        \/ Confirm(w) \/ Fail(w) \/ RelayCrash(w)

-----------------------------------------------------------------------------
(* The queue and the projector.  The broker is external: it keeps a copy  *)
(* until it is acked and redelivers or dead-letters a rejected one.        *)

Move(m, place) == msgs' = (msgs \ {m}) \cup {[m EXCEPT !.place = place]}

Deliver(m) ==
  /\ m.place = "ready"
  /\ Move(m, "unacked")
  /\ UNCHANGED <<article, outbox, workers, consumed, task, faults>>

(* Mutants of Projected: a restored article does not get its task back;   *)
(* the observed version is not raised; a cancel keeps the generation.      *)
ProjectedByRevision(t, row) ==
  IF Public(row) /\ t.status = "canceled" /\ t.rev = row.rev
  THEN t
  ELSE [status |-> IF Public(row) THEN "pending" ELSE IF t.status = "none" THEN "none" ELSE "canceled",
        gen |-> t.gen + 1, rev |-> row.rev, observed |-> row.ver]

ProjectedUnobserved(t, row) ==
  LET want == IF Public(row) THEN "pending" ELSE "canceled"
  IN  IF \/ t.status = "none" /\ ~Public(row)
         \/ t.status = want /\ t.rev = row.rev
      THEN t
      ELSE [status |-> want, gen |-> t.gen + 1, rev |-> row.rev, observed |-> row.ver]

ProjectedSameGeneration(t, row) ==
  IF ~Public(row) /\ t.status = "none" THEN t
  ELSE [status |-> IF Public(row) THEN "pending" ELSE "canceled",
        gen |-> IF Public(row) THEN t.gen + 1 ELSE t.gen, rev |-> row.rev, observed |-> row.ver]

(* What Project does to the task of an article whose row it has locked.   *)
Projected(t, row) ==
  LET changed(status) ==
        [status |-> status, gen |-> t.gen + 1, rev |-> row.rev, observed |-> row.ver]
      seen == [t EXCEPT !.observed = IF @ < row.ver THEN row.ver ELSE @]
  IN  IF Public(row)
      THEN IF t.status # "pending" \/ t.rev # row.rev THEN changed("pending") ELSE seen
      ELSE CASE t.status = "none"     -> t
             [] t.status = "pending"  -> changed("canceled")
             [] t.status = "canceled" -> seen

(* Mutant: the task follows what the event says, not the current article.  *)
ProjectByEvent(m) ==
  /\ m.place = "unacked" /\ m.event \notin consumed
  /\ Move(m, "projected")
  /\ LET a == outbox[m.event].article
         told == IF outbox[m.event].type \in {"published", "revised"} THEN "published" ELSE "offline"
     IN  /\ consumed' = consumed \cup {m.event}
         /\ task' = [task EXCEPT ![a] = Projected(@, [article[a] EXCEPT !.status = told])]
  /\ UNCHANGED <<article, outbox, workers, faults>>

(* The projector's transaction: consumed_events, then the article row     *)
(* lock, then the task; a known event id changes nothing.                  *)
Project(m) ==
  /\ m.place = "unacked"
  /\ Move(m, "projected")
  /\ LET a == outbox[m.event].article
     IN  IF m.event \in consumed
         THEN UNCHANGED <<consumed, task>>
         ELSE /\ consumed' = consumed \cup {m.event}
              /\ task' = [task EXCEPT ![a] = Projected(@, article[a])]
  /\ UNCHANGED <<article, outbox, workers, faults>>

Ack(m) ==
  /\ m.place = "projected"
  /\ msgs' = msgs \ {m}
  /\ UNCHANGED <<article, outbox, workers, consumed, task, faults>>

(* The copy comes back after a failed delivery that the queue counts.      *)
Returned(m) ==
  [m EXCEPT !.tries = @ + 1, !.place = IF m.tries < DeliveryLimit THEN "ready" ELSE "dead"]

(* The transaction rolled back on an error of this message: Reject(true). *)
ProjectError(m) ==
  /\ m.place = "unacked" /\ Fault
  /\ msgs' = (msgs \ {m}) \cup {Returned(m)}
  /\ UNCHANGED <<article, outbox, workers, consumed, task>>

(* PostgreSQL is down or the consumer dies: the connection closes and the *)
(* broker requeues what was not acked, counting the delivery or not.       *)
ConsumerLost(m) ==
  /\ m.place \in {"unacked", "projected"} /\ Fault
  /\ msgs' \in {(msgs \ {m}) \cup {Returned(m)},
                (msgs \ {m}) \cup {[m EXCEPT !.place = "ready"]}}
  /\ UNCHANGED <<article, outbox, workers, consumed, task>>

ConsumerNext ==
  \E m \in msgs : Deliver(m) \/ Project(m) \/ Ack(m) \/ ProjectError(m) \/ ConsumerLost(m)

-----------------------------------------------------------------------------
(* The operator's replay of the dead-letter queue.                         *)

ReplayGet(m) ==
  /\ m.place = "dead"
  /\ Move(m, "replaying")
  /\ UNCHANGED <<article, outbox, workers, consumed, task, faults>>

(* The new copy enters the queue; m itself moves on.                       *)
Republish(m, place) ==
  LET e == m.event
      n == outbox[e].copies + 1
  IN  /\ msgs' = (msgs \ {m}) \cup {[m EXCEPT !.place = place],
                      [event |-> e, copy |-> n, place |-> "ready", tries |-> 0]}
      /\ outbox' = [outbox EXCEPT ![e].copies = n]

ReplayConfirmed(m) ==
  /\ m.place = "replaying"
  /\ Republish(m, "replayed")
  /\ UNCHANGED <<article, workers, consumed, task, faults>>

(* No confirm: Nack(true), whether the broker stored the new copy or not.  *)
ReplayUnconfirmed(m) ==
  /\ m.place = "replaying" /\ Fault
  /\ \/ Republish(m, "dead")
     \/ Move(m, "dead") /\ UNCHANGED outbox
  /\ UNCHANGED <<article, workers, consumed, task>>

ReplayAck(m) ==
  /\ m.place = "replayed"
  /\ msgs' = msgs \ {m}
  /\ UNCHANGED <<article, outbox, workers, consumed, task, faults>>

ReplayLost(m) ==
  /\ m.place \in {"replaying", "replayed"} /\ Fault
  /\ Move(m, "dead")
  /\ UNCHANGED <<article, outbox, workers, consumed, task>>

ReplayNext ==
  \E m \in msgs : \/ ReplayGet(m) \/ ReplayConfirmed(m) \/ ReplayUnconfirmed(m)
                 \/ ReplayAck(m) \/ ReplayLost(m)

-----------------------------------------------------------------------------
Init ==
  /\ article = [a \in Articles |-> IF a \in Legacy THEN FirstRow("published") ELSE AbsentArticle]
  /\ outbox = [e \in EventIds |-> FreeRow]
  /\ workers = {}
  /\ msgs = {}
  /\ consumed = {}
  /\ task = [a \in Articles |-> NoTask]
  /\ faults = 0

Next == ArticleNext \/ RelayNext \/ ConsumerNext \/ ReplayNext

Spec == Init /\ [][Next]_vars

(* The relay scans on a ticker and the supervisor restarts it after an    *)
(* error; the broker delivers while a consumer is connected; a replay once *)
(* started runs on or dies.  Nothing is assumed of writers, of the         *)
(* retention clean-up, or that an operator ever replays anything.          *)
RelayStep(e) ==
  \/ Claim(e) \/ BackoffElapsed(e) \/ LeaseExpires(e)
  \/ \E w \in workers : w.event = e /\ (PublishConfirmed(w) \/ Confirm(w) \/ Fail(w))

ConsumerStep(e) == \E m \in msgs : m.event = e /\ (Deliver(m) \/ Project(m) \/ Ack(m))

ReplayStep(e) == \E m \in msgs : m.event = e /\ (ReplayConfirmed(m) \/ ReplayAck(m))

Fairness ==
  \A e \in EventIds :
     WF_vars(RelayStep(e)) /\ WF_vars(ConsumerStep(e)) /\ WF_vars(ReplayStep(e))

FairSpec == Spec /\ Fairness

-----------------------------------------------------------------------------
(* Properties.                                                             *)

TypeOK ==
  /\ article \in [Articles -> ArticleRow]
  /\ outbox \in [EventIds -> OutboxRow \cup {FreeRow}]
  /\ workers \subseteq Worker
  /\ msgs \subseteq Message
  /\ consumed \subseteq EventIds
  /\ task \in [Articles -> Task]
  /\ faults \in 0..MaxFaults
  /\ \A w \in workers : Appended(w.event)
  /\ \A m \in msgs : Appended(m.event)
  /\ \A e \in consumed : Appended(e)

Unconsumed(e) == Appended(e) /\ e \notin consumed

(* A copy of e is in the broker and will be offered again.                 *)
HasCopy(e) == \E m \in msgs : m.event = e /\ m.place \in {"ready", "unacked", "dead", "replaying"}

(* No crash, lease expiry, lost confirm, redelivery, dead-lettering,      *)
(* replay or clean-up loses an event: until the projector has recorded it, *)
(* the outbox still owes it or the broker holds a copy of it.              *)
NoEventLost ==
  \A e \in EventIds : Unconsumed(e) => outbox[e].state = "pending" \/ HasCopy(e)

(* The task is the one the article calls for.                              *)
Reflects(t, row) ==
  IF Public(row) THEN t.status = "pending" /\ t.rev = row.rev
                 ELSE t.status # "pending"

(* Duplicated, reordered and late events cannot leave a wrong task: once  *)
(* the projector has seen all the events of an article, its task is the    *)
(* one the current article calls for, whatever the order of arrival.       *)
TaskReflectsFact ==
  \A a \in Articles :
     EventsOf(a) # {} /\ EventsOf(a) \subseteq consumed => Reflects(task[a], article[a])

(* A task was never derived from an article older than an event the       *)
(* projector has acknowledged for it.                                      *)
ObservedCoversConsumed ==
  \A e \in consumed :
     LET t == task[outbox[e].article]
     IN  t.status # "none" => t.observed >= outbox[e].ver

(* A row leaves the pending state, or gives up its lease, only by the     *)
(* worker that holds the newest token: a worker whose lease was taken over *)
(* can neither confirm nor postpone the event.                             *)
OnlyHolderSettles ==
  [][\A e \in EventIds :
       Appended(e) /\ outbox[e].token # 0 /\ outbox'[e].token = 0
         => \E w \in workers \ workers' : w.event = e /\ w.token = outbox[e].attempts]_vars

(* The generation of a task never goes back, and it grows whenever the    *)
(* work the task stands for changes, so an executor that finished an older *)
(* generation can tell.                                                    *)
GenerationFences ==
  [][\A a \in Articles :
       /\ task'[a].gen >= task[a].gen
       /\ (task'[a].status # task[a].status \/ task'[a].rev # task[a].rev)
             => task'[a].gen > task[a].gen]_vars

(* The unique key (event_type, aggregate, version) of the outbox never    *)
(* rejects a write: no two kept rows describe the same article version,    *)
(* even when Backfill runs beside the writers.                             *)
OneEventPerVersion ==
  \A e, f \in EventIds :
     /\ Appended(e) /\ outbox[e].state # "deleted"
     /\ Appended(f) /\ outbox[f].state # "deleted"
     /\ outbox[e].article = outbox[f].article /\ outbox[e].ver = outbox[f].ver
     => e = f

(* Every appended event is consumed or ends in the dead-letter queue,     *)
(* where only an operator moves it on.                                     *)
EventDelivered ==
  \A e \in EventIds :
     Appended(e) ~> (e \in consumed \/ \E m \in msgs : m.event = e /\ m.place = "dead")

(* The pipeline implements TaskConvergence: seen from the article and the *)
(* task alone, every step is a change of one article, an announcement or a *)
(* look at the current article, and no look acts on anything older.        *)
Abstract == INSTANCE TaskConvergence
              WITH owed    <- {a \in Articles : EventsOf(a) \ consumed # {}},
                   tracked <- {a \in Articles : EventsOf(a) # {}}

ImplementsTaskConvergence == Abstract!Spec

(* The reliable-article-async spec: editing an article that is not public *)
(* writes no integration event.                                            *)
PrivateEditIsSilent ==
  [][\A a \in Articles :
       (/\ article'[a].rev > article[a].rev
        /\ article[a].status \in {"draft", "offline"}
        /\ article'[a].status = article[a].status)
          => EventsOf(a)' = EventsOf(a)]_vars
=============================================================================
