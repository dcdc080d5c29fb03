-------------------------- MODULE SearchProjection --------------------------
(***************************************************************************)
(* The search projection: from the article fact to the documents of the   *)
(* physical OpenSearch indexes.                                            *)
(*                                                                         *)
(* Every write of an article and every change of its selected AI result   *)
(* advances the slot of the article in the same transaction.  Executors   *)
(* claim slots under a lease, read the current fact without a lock, send  *)
(* one Bulk request and write the answers back, each fenced by generation, *)
(* lease token and index.  A request whose answer was lost may still be    *)
(* applied at any later time.  An operator may reopen failed deliveries.   *)
(*                                                                         *)
(* Every index of Indexes is active; how the set changes is IndexRebuild.  *)
(***************************************************************************)
EXTENDS ProjectionSlot

CONSTANTS Indexes,  \* the active physical indexes
          Budgets   \* the bounds a behaviour may have

(* The bounds of one behaviour: the versions an article reaches, the AI    *)
(* results selected for it, and the faults: items that were not applied,   *)
(* crashes and outlived leases.                                            *)
Budget == [writes : Nat, selections : Nat, faults : Nat]

ASSUME ProjectionAssumption == Budgets \subseteq Budget

VARIABLES article,    \* velis.articles
          selection,  \* velis.ai_current_selections
          job,        \* velis.search_projection_jobs
          delivery,   \* velis.search_projection_deliveries
          doc,        \* the documents of each index
          wire,       \* requests that were sent and whose answer was lost
          workers,    \* executors between Claim and the last Complete
          retry,      \* the transaction of "search retry", when one is open
          budget      \* the bounds of this behaviour; faults counts down

vars == <<article, selection, job, delivery, doc, wire, workers, retry, budget>>

Request == [article : Articles, index : Indexes, gen : Nat, target : Target]

(* plan: the indexes still to be sent or written back; outcome: the answer *)
(* of the Bulk request for each of them.                                    *)
Worker == [article : Articles, gen : Nat, token : Nat, target : Target,
           plan : SUBSET Indexes, phase : {"read", "replan", "bulk", "write"},
           outcome : [Indexes -> Outcomes]]

NoRetry == [open |-> FALSE]
Retry   == [open : {TRUE}, article : Articles, picked : SUBSET Indexes, reopens : BOOLEAN]

NoOutcome == [i \in Indexes |-> "unknown"]

Fault == budget.faults > 0 /\ budget' = [budget EXCEPT !.faults = @ - 1]

(* The delivery rows of a that an open "search retry" has locked.          *)
Locked(a) == IF retry.open /\ retry.article = a THEN retry.picked ELSE {}

-----------------------------------------------------------------------------
(* advanceSearchProjectionTarget, called inside the transaction that       *)
(* writes the fact: an equal target changes nothing.                       *)
Advance(a, target) ==
  IF job[a].target = target
  THEN UNCHANGED <<job, delivery>>
  ELSE /\ Locked(a) = {}
       /\ job' = [job EXCEPT ![a] = Advanced(@, target)]
       /\ delivery' = [delivery EXCEPT ![a] = [i \in Indexes |-> Owed(job[a].gen + 1)]]

WriteArticle(a) ==
  \E after \in NextRows(a, article[a]) :
    /\ after.ver <= budget.writes
    /\ article' = [article EXCEPT ![a] = after]
    /\ Advance(a, TargetOf(after, selection[a]))
    /\ UNCHANGED <<selection, doc, wire, workers, retry, budget>>

(* Mutant: the transaction of the AI result does not advance the slot.     *)
SelectSilently(a) ==
  /\ Public(article[a])
  /\ selection[a].n < budget.selections
  /\ selection' = [selection EXCEPT ![a] = [rev |-> article[a].rev, n |-> @.n + 1]]
  /\ UNCHANGED <<article, job, delivery, doc, wire, workers, retry, budget>>

(* SaveGeneration and SaveEmbedding, for a published article: a new result *)
(* becomes the selected one of the current revision.                       *)
SelectResult(a) ==
  /\ Public(article[a])
  /\ selection[a].n < budget.selections
  /\ LET chosen == [rev |-> article[a].rev, n |-> selection[a].n + 1]
     IN  /\ selection' = [selection EXCEPT ![a] = chosen]
         /\ Advance(a, TargetOf(article[a], chosen))
  /\ UNCHANGED <<article, doc, wire, workers, retry, budget>>

-----------------------------------------------------------------------------
(* The executor.                                                           *)

Unfinished(a) == {i \in Indexes : ~Converged(delivery[a][i], job[a].gen)}

(* Mutant: a slot whose executor died is never taken over.                 *)
ClaimableOnce(a) == job[a].status \in {"pending", "retry_wait"} /\ Unfinished(a) # {}

(* A settled slot is due at once, see Settled.                             *)
Claimable(a) ==
  /\ \/ job[a].status \in {"pending", "retry_wait"}
     \/ job[a].status = "running" /\ job[a].expired
  /\ Unfinished(a) # {}

Claim(a) ==
  /\ Claimable(a)
  /\ job' = [job EXCEPT ![a] = Claimed(@)]
  /\ delivery' = [delivery EXCEPT ![a] =
       [i \in Indexes |-> IF @[i].req = job[a].gen /\ @[i].status \in {"pending", "retry_wait", "running"}
                          THEN Attempted(@[i]) ELSE @[i]]]
  /\ workers' = workers \cup
       {[article |-> a, gen |-> job[a].gen, token |-> job[a].claims + 1, target |-> job[a].target,
         plan |-> Unfinished(a), phase |-> "read", outcome |-> NoOutcome]}
  /\ UNCHANGED <<article, selection, doc, wire, retry, budget>>

Become(w, v) == workers' = (workers \ {w}) \cup {v}

(* Current: the fact is read outside any transaction; a fact that differs  *)
(* from the claimed target is not sent.                                    *)
ReadCurrent(w) ==
  /\ w.phase = "read"
  /\ LET same == TargetOf(article[w.article], selection[w.article]) = w.target
     IN  Become(w, [w EXCEPT !.phase = IF same THEN "bulk" ELSE "replan"])
  /\ UNCHANGED <<article, selection, job, delivery, doc, wire, retry, budget>>

ReplanStale(w) ==
  /\ w.phase = "replan"
  /\ Advance(w.article, TargetOf(article[w.article], selection[w.article]))
  /\ workers' = workers \ {w}
  /\ UNCHANGED <<article, selection, doc, wire, retry, budget>>

RequestOf(w, i) == [article |-> w.article, index |-> i, gen |-> w.gen, target |-> w.target]

(* One Bulk request and its answer.  Each item is applied (or refused as   *)
(* older, which counts as applied), rejected for good or for now, or its   *)
(* answer is lost and the request is still on the way.                     *)
Bulk(w) ==
  /\ w.phase = "bulk"
  /\ \E answer \in [w.plan -> Outcomes] :
       /\ IF \A i \in w.plan : answer[i] = "applied" THEN UNCHANGED budget ELSE Fault
       /\ doc' = [i \in Indexes |->
                    IF i \in w.plan /\ answer[i] = "applied"
                    THEN [doc[i] EXCEPT ![w.article] = Put(@, w.gen, w.target)]
                    ELSE doc[i]]
       /\ wire' = wire \cup {RequestOf(w, i) : i \in {j \in w.plan : answer[j] = "unknown"}}
       /\ Become(w, [w EXCEPT !.phase = "write",
                              !.outcome = [i \in Indexes |-> IF i \in w.plan THEN answer[i] ELSE "unknown"]])
  /\ UNCHANGED <<article, selection, job, delivery, retry>>

(* Mutant: the write-back is fenced by the generation only, not by the     *)
(* lease.                                                                  *)
HoldsAnyLease(w) == job[w.article].gen = w.gen /\ job[w.article].status = "running"

(* The write-back of one item is fenced by generation, token, state and    *)
(* lease time of the slot and by the generation of the delivery.           *)
Holds(w) ==
  LET j == job[w.article]
  IN  j.gen = w.gen /\ j.token = w.token /\ j.status = "running" /\ ~j.expired

WrittenBack(d, outcome) ==
  LET status == NextDeliveryStatus(outcome, d.attempt)
  IN  [status |-> status, req |-> d.req, attempt |-> d.attempt]

WriteBack(a, i, outcome) ==
  LET ds == [delivery[a] EXCEPT ![i] = WrittenBack(@, outcome)]
  IN  /\ delivery' = [delivery EXCEPT ![a] = ds]
      /\ job' = [job EXCEPT ![a] = Settled(@, ds)]

Complete(w, i) ==
  /\ w.phase = "write" /\ i \in w.plan
  /\ IF Holds(w) /\ delivery[w.article][i].req = w.gen
     THEN /\ i \notin Locked(w.article)
          /\ WriteBack(w.article, i, w.outcome[i])
     ELSE UNCHANGED <<job, delivery>>
  /\ IF w.plan = {i} THEN workers' = workers \ {w}
     ELSE Become(w, [w EXCEPT !.plan = @ \ {i}])
  /\ UNCHANGED <<article, selection, doc, wire, retry, budget>>

(* The process dies, or PostgreSQL fails it; any part of its request may   *)
(* have left before.                                                       *)
WorkerLost(w) ==
  /\ Fault
  /\ workers' = workers \ {w}
  /\ IF w.phase = "bulk"
     THEN \E sent \in SUBSET w.plan : wire' = wire \cup {RequestOf(w, i) : i \in sent}
     ELSE UNCHANGED wire
  /\ UNCHANGED <<article, selection, job, delivery, doc, retry>>

HasHolder(a) == \E w \in workers : w.article = a /\ w.token = job[a].token

ExpireLease(a) ==
  /\ job[a].status = "running" /\ ~job[a].expired
  /\ job' = [job EXCEPT ![a].expired = TRUE]
  /\ UNCHANGED <<article, selection, delivery, doc, wire, workers, retry>>

LeaseExpires(a)  == ~HasHolder(a) /\ ExpireLease(a) /\ UNCHANGED budget

LeaseOutlived(a) == HasHolder(a) /\ ExpireLease(a) /\ Fault

-----------------------------------------------------------------------------
(* OpenSearch applies a request whose answer was lost, or never does.      *)
Land(m) ==
  /\ doc' = [doc EXCEPT ![m.index][m.article] = Put(@, m.gen, m.target)]
  /\ wire' = wire \ {m}
  /\ UNCHANGED <<article, selection, job, delivery, workers, retry, budget>>

Drop(m) ==
  /\ wire' = wire \ {m}
  /\ UNCHANGED <<article, selection, job, delivery, doc, workers, retry, budget>>

-----------------------------------------------------------------------------
(* Mutant: every delivery of the generation is picked, whatever its state. *)
ReactivateAll(a) ==
  /\ ~retry.open
  /\ \E picked \in SUBSET {i \in Indexes : delivery[a][i].req = job[a].gen} :
       /\ picked # {}
       /\ retry' = [open |-> TRUE, article |-> a, picked |-> picked,
                    reopens |-> job[a].status = "failed" /\ job[a].token = 0]
  /\ UNCHANGED <<article, selection, job, delivery, doc, wire, workers, budget>>

(* "search retry", one statement under READ COMMITTED: the slots are read  *)
(* from the snapshot of the statement, the failed deliveries are locked    *)
(* (FOR UPDATE OF d SKIP LOCKED LIMIT), and at the end only the slots that *)
(* were failed and unleased in the snapshot, and still are, are reopened.  *)
ReactivateBegin(a) ==
  /\ ~retry.open
  /\ \E picked \in SUBSET {i \in Indexes : delivery[a][i].status = "failed"
                                        /\ delivery[a][i].req = job[a].gen} :
       /\ picked # {}
       /\ retry' = [open |-> TRUE, article |-> a, picked |-> picked,
                    reopens |-> job[a].status = "failed" /\ job[a].token = 0]
  /\ UNCHANGED <<article, selection, job, delivery, doc, wire, workers, budget>>

Reopened(j) == [status |-> "pending", gen |-> j.gen, target |-> j.target,
                claims |-> j.claims, token |-> j.token, expired |-> j.expired]

ReactivateCommit ==
  /\ retry.open
  /\ LET a == retry.article
     IN  /\ delivery' = [delivery EXCEPT ![a] =
              [i \in Indexes |-> IF i \in retry.picked THEN Owed(@[i].req) ELSE @[i]]]
         /\ job' = IF retry.reopens /\ job[a].status = "failed" /\ job[a].token = 0
                   THEN [job EXCEPT ![a] = Reopened(@)] ELSE job
  /\ retry' = NoRetry
  /\ UNCHANGED <<article, selection, doc, wire, workers, budget>>

(* The transaction is rolled back.                                         *)
ReactivateAbort ==
  /\ retry.open
  /\ retry' = NoRetry
  /\ UNCHANGED <<article, selection, job, delivery, doc, wire, workers, budget>>

-----------------------------------------------------------------------------
Init ==
  /\ article = [a \in Articles |-> AbsentArticle]
  /\ selection = [a \in Articles |-> NoSelection]
  /\ job = [a \in Articles |-> NoJob]
  /\ delivery = [a \in Articles |-> [i \in Indexes |-> NoDelivery]]
  /\ doc = [i \in Indexes |-> [a \in Articles |-> NoDoc]]
  /\ wire = {}
  /\ workers = {}
  /\ retry = NoRetry
  /\ budget \in Budgets

Next ==
  \/ \E a \in Articles : \/ WriteArticle(a) \/ SelectResult(a)
                         \/ Claim(a) \/ LeaseExpires(a) \/ LeaseOutlived(a)
                         \/ ReactivateBegin(a)
  \/ \E w \in workers : \/ ReadCurrent(w) \/ ReplanStale(w) \/ Bulk(w) \/ WorkerLost(w)
                        \/ \E i \in Indexes : Complete(w, i)
  \/ \E m \in wire : Land(m) \/ Drop(m)
  \/ ReactivateCommit \/ ReactivateAbort

Spec == Init /\ [][Next]_vars

(* The executor polls on a ticker; a worker runs on or dies; an open       *)
(* transaction ends.  Nothing is assumed of writers or operators, nor that *)
(* a request whose answer was lost ever lands.                             *)
ExecutorStep(a) ==
  \/ Claim(a) \/ LeaseExpires(a)
  \/ \E w \in workers : /\ w.article = a
                        /\ \/ ReadCurrent(w) \/ ReplanStale(w) \/ Bulk(w)
                           \/ \E i \in Indexes : Complete(w, i)

Fairness ==
  /\ \A a \in Articles : WF_vars(ExecutorStep(a))
  /\ WF_vars(ReactivateCommit \/ ReactivateAbort)

FairSpec == Spec /\ Fairness

-----------------------------------------------------------------------------
(* Properties.                                                             *)

TypeOK ==
  /\ article \in [Articles -> ArticleRow]
  /\ selection \in [Articles -> Selection]
  /\ job \in [Articles -> Job]
  /\ delivery \in [Articles -> [Indexes -> Delivery]]
  /\ doc \in [Indexes -> [Articles -> Doc]]
  /\ wire \subseteq Request
  /\ workers \subseteq Worker
  /\ retry \in Retry \cup {NoRetry}
  /\ budget \in Budget

Shows(i, a) ==
  doc[i][a] = [gen |-> job[a].gen, target |-> TargetOf(article[a], selection[a])]

(* A delivery is marked succeeded only while its index shows the article  *)
(* as it is now, and a slot only when that holds of all indexes: neither a *)
(* lost answer, a version conflict taken for success, a request landing    *)
(* late nor a worker that outlived its lease can fake it.                  *)
SucceededIsCurrent ==
  \A a \in Articles :
    /\ \A i \in Indexes : delivery[a][i].status = "succeeded" => Shows(i, a)
    /\ job[a].status = "succeeded" => \A i \in Indexes : Shows(i, a)

(* A document never goes back to an older generation or to an older fact, *)
(* and what it shows under one generation never changes.                   *)
IndexNeverRegresses ==
  [][\A i \in Indexes, a \in Articles :
       LET old == doc[i][a]
           new == doc'[i][a]
       IN  /\ new.gen >= old.gen /\ new.target.ver >= old.target.ver
           /\ new.gen = old.gen => new = old]_vars

(* A delivery that succeeded is not undone for the same generation, not   *)
(* even by a worker whose lease was taken over.                            *)
SuccessIsFinal ==
  [][\A a \in Articles, i \in Indexes :
       delivery[a][i].status = "succeeded" /\ job'[a].gen = job[a].gen
         => delivery'[a][i].status = "succeeded"]_vars

(* Every slot settles: crashes, lost answers and expired leases only delay *)
(* it, and a slot ends succeeded or failed unless its target changes on.   *)
SlotSettles ==
  \A a \in Articles :
    job[a].status \in {"pending", "running", "retry_wait"}
      ~> job[a].status \in {"succeeded", "failed"}

(* A delivery that may be tried again belongs to a slot that will be      *)
(* claimed: the permanent failure of one index does not stop the others.   *)
FailureIsIsolated ==
  \A a \in Articles :
    (\E i \in Indexes : delivery[a][i].status = "retry_wait") => job[a].status # "failed"
=============================================================================
