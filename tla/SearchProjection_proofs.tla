----------------------- MODULE SearchProjection_proofs -----------------------
(***************************************************************************)
(* Proofs about SearchProjection, for every set of articles and indexes   *)
(* and every bound.  The argument rests on stamps: a document, a request, *)
(* an executor and the slot itself each carry a generation and a target.   *)
(***************************************************************************)
EXTENDS SearchProjection, TLAPS

-----------------------------------------------------------------------------
(* The operators.                                                          *)

(* A write leaves an existing row, of the next version.                    *)
LEMMA RowsWritten ==
  ASSUME NEW a \in Articles, NEW row \in ArticleRow, NEW after \in NextRows(a, row)
  PROVE  /\ after \in ArticleRow /\ after.status # "absent" /\ after.ver >= 1
         /\ row.status # "absent" => after.ver = row.ver + 1
  BY DEF NextRows, ArticleWrite, AuthorWrite, AdminWrite, FeedWrite, ArticleRow, Statuses, Reasons,
         FirstRow, Revised, WithState, MayUpdateByAuthor, MayPublish, MayOffline, MayDelete,
         MayRestore, MayReviseByFeed

(* The target of a row has the version of the row.                         *)
LEMMA TargetTypes ==
  ASSUME NEW row \in ArticleRow, NEW s \in Selection
  PROVE  TargetOf(row, s) \in Target /\ TargetOf(row, s).ver = row.ver
  BY DEF TargetOf, ArticleRow, Selection, Target

(* Only an applied item makes its delivery succeed.                        *)
LEMMA OutcomeStatus ==
  ASSUME NEW outcome \in Outcomes, NEW attempt \in Nat
  PROVE  /\ NextDeliveryStatus(outcome, attempt) \in JobStatuses
         /\ NextDeliveryStatus(outcome, attempt) = "succeeded" <=> outcome = "applied"
  BY SlotAssumption DEF NextDeliveryStatus, Outcomes, JobStatuses

(* A slot succeeds only with all its deliveries.                           *)
LEMMA SlotStatus ==
  ASSUME NEW gen, NEW ds
  PROVE  /\ ConvergedStatus(gen, ds) \in JobStatuses
         /\ ConvergedStatus(gen, ds) = "succeeded" => \A i \in DOMAIN ds : ds[i].status = "succeeded"
  BY DEF ConvergedStatus, JobStatuses, Converged

(* external_gte: what a document becomes is no older than either.          *)
LEMMA PutDoc ==
  ASSUME NEW d \in Doc, NEW gen \in Nat, NEW target \in Target
  PROVE  /\ Put(d, gen, target) \in Doc
         /\ Put(d, gen, target) \in {d, [gen |-> gen, target |-> target]}
         /\ Put(d, gen, target).gen >= gen /\ Put(d, gen, target).gen >= d.gen
  BY DEF Put, Doc

-----------------------------------------------------------------------------
(* Types.                                                                  *)

(* The slot and its deliveries after advanceSearchProjectionTarget.        *)
LEMMA AdvanceStep ==
  ASSUME TypeOK, NEW a \in Articles, NEW target \in Target, Advance(a, target)
  PROVE  /\ job' \in [Articles -> Job] /\ delivery' \in [Articles -> [Indexes -> Delivery]]
         /\ \A b \in Articles \ {a} : job'[b] = job[b] /\ delivery'[b] = delivery[b]
         /\ job'[a].target = target
         /\ \/ job[a].target = target /\ UNCHANGED <<job, delivery>>
            \/ /\ Locked(a) = {}
               /\ job'[a] = Advanced(job[a], target)
               /\ \A i \in Indexes : delivery'[a][i] = Owed(job[a].gen + 1)
  <1>1. Advanced(job[a], target) \in Job /\ Owed(job[a].gen + 1) \in Delivery
    BY DEF TypeOK, Job, Advanced, Owed, Delivery, JobStatuses
  <1>2. CASE job[a].target = target
    BY <1>2 DEF Advance, TypeOK
  <1>3. CASE job[a].target # target
    <2>1. /\ job' = [job EXCEPT ![a] = Advanced(job[a], target)]
          /\ delivery' = [delivery EXCEPT ![a] = [i \in Indexes |-> Owed(job[a].gen + 1)]]
          /\ Locked(a) = {}
      BY <1>3 DEF Advance
    <2>2. Advanced(job[a], target).target = target
      BY DEF Advanced
    <2> QED BY <1>1, <2>1, <2>2 DEF TypeOK
  <1> QED BY <1>2, <1>3

(* A write of the fact keeps the types.                                    *)
LEMMA FactType ==
  ASSUME TypeOK, NEW a \in Articles, WriteArticle(a) \/ SelectResult(a)
  PROVE  TypeOK'
  <1>1. CASE WriteArticle(a)
    <2>1. PICK after \in NextRows(a, article[a]) :
            /\ article' = [article EXCEPT ![a] = after]
            /\ Advance(a, TargetOf(after, selection[a]))
            /\ UNCHANGED <<selection, doc, wire, workers, retry, budget>>
      BY <1>1 DEF WriteArticle
    <2>2. after \in ArticleRow /\ TargetOf(after, selection[a]) \in Target
      BY RowsWritten, TargetTypes DEF TypeOK
    <2> QED BY <2>1, <2>2, AdvanceStep DEF TypeOK
  <1>2. CASE SelectResult(a)
    <2> DEFINE chosen == [rev |-> article[a].rev, n |-> selection[a].n + 1]
    <2>1. chosen \in Selection
      BY DEF TypeOK, ArticleRow, Selection
    <2>2. TargetOf(article[a], chosen) \in Target
      BY <2>1, TargetTypes DEF TypeOK
    <2>3. selection' = [selection EXCEPT ![a] = chosen] /\ Advance(a, TargetOf(article[a], chosen))
      BY <1>2 DEF SelectResult
    <2> HIDE DEF chosen
    <2> QED BY <1>2, <2>1, <2>2, <2>3, AdvanceStep DEF SelectResult, TypeOK
  <1> QED BY <1>1, <1>2

(* A claim keeps the types.                                                *)
LEMMA ClaimType ==
  ASSUME TypeOK, NEW a \in Articles, Claim(a)
  PROVE  TypeOK'
  <1>1. Claimed(job[a]) \in Job
    BY DEF TypeOK, Job, Claimed, JobStatuses
  <1>2. \A i \in Indexes : Attempted(delivery[a][i]) \in Delivery
    BY DEF TypeOK, Delivery, Attempted, JobStatuses
  <1>3. [article |-> a, gen |-> job[a].gen, token |-> job[a].claims + 1, target |-> job[a].target,
         plan |-> Unfinished(a), phase |-> "read", outcome |-> NoOutcome] \in Worker
    BY DEF TypeOK, Job, Worker, Unfinished, NoOutcome, Outcomes
  <1>4. job' \in [Articles -> Job]
    BY <1>1 DEF Claim, TypeOK
  <1>5. delivery' \in [Articles -> [Indexes -> Delivery]]
    BY <1>2 DEF Claim, TypeOK
  <1>6. workers' \subseteq Worker
    BY <1>3 DEF Claim, TypeOK
  <1> QED BY <1>4, <1>5, <1>6 DEF Claim, TypeOK

(* What an executor sends is a request.                                    *)
LEMMA RequestType ==
  ASSUME NEW w \in Worker, NEW i \in Indexes
  PROVE  RequestOf(w, i) \in Request
  BY DEF RequestOf, Request, Worker

(* An executor up to its answer keeps the types.                           *)
LEMMA ExecutorType ==
  ASSUME TypeOK, NEW w \in workers,
         ReadCurrent(w) \/ ReplanStale(w) \/ Bulk(w) \/ WorkerLost(w)
  PROVE  TypeOK'
  <1>1. w \in Worker /\ w.article \in Articles /\ w.plan \subseteq Indexes
    BY DEF TypeOK, Worker
  <1>2. CASE ReadCurrent(w)
    <2>1. \A p \in {"bulk", "replan"} : [w EXCEPT !.phase = p] \in Worker
      BY <1>1 DEF Worker
    <2> QED BY <1>2, <2>1 DEF ReadCurrent, Become, TypeOK
  <1>3. CASE ReplanStale(w)
    <2>1. TargetOf(article[w.article], selection[w.article]) \in Target
      BY <1>1, TargetTypes DEF TypeOK
    <2> QED BY <1>1, <1>3, <2>1, AdvanceStep DEF ReplanStale, TypeOK
  <1>4. CASE Bulk(w)
    <2>1. PICK answer \in [w.plan -> Outcomes] :
            /\ UNCHANGED budget \/ Fault
            /\ doc' = [i \in Indexes |->
                         IF i \in w.plan /\ answer[i] = "applied"
                         THEN [doc[i] EXCEPT ![w.article] = Put(@, w.gen, w.target)]
                         ELSE doc[i]]
            /\ wire' = wire \cup {RequestOf(w, i) : i \in {j \in w.plan : answer[j] = "unknown"}}
            /\ Become(w, [w EXCEPT !.phase = "write",
                           !.outcome = [i \in Indexes |-> IF i \in w.plan THEN answer[i] ELSE "unknown"]])
      BY <1>4 DEF Bulk
    <2>2. \A i \in Indexes : Put(doc[i][w.article], w.gen, w.target) \in Doc
      BY <1>1, PutDoc DEF TypeOK, Worker
    <2>3. doc' \in [Indexes -> [Articles -> Doc]]
      BY <1>1, <2>1, <2>2 DEF TypeOK
    <2>4. wire' \subseteq Request
      BY <1>1, <2>1, RequestType DEF TypeOK
    <2>5. [i \in Indexes |-> IF i \in w.plan THEN answer[i] ELSE "unknown"] \in [Indexes -> Outcomes]
      BY DEF Outcomes
    <2>6. [w EXCEPT !.phase = "write",
             !.outcome = [i \in Indexes |-> IF i \in w.plan THEN answer[i] ELSE "unknown"]] \in Worker
      BY <1>1, <2>5 DEF Worker
    <2>7. budget' \in Budget
      BY <2>1 DEF Fault, TypeOK, Budget
    <2> QED BY <1>4, <2>1, <2>3, <2>4, <2>6, <2>7, ZenonT(40) DEF Bulk, Become, TypeOK
  <1>5. CASE WorkerLost(w)
    <2>1. budget' \in Budget
      BY <1>5 DEF WorkerLost, Fault, TypeOK, Budget
    <2>2. wire' \subseteq Request
      BY <1>1, <1>5, RequestType DEF WorkerLost, TypeOK
    <2> QED BY <1>5, <2>1, <2>2 DEF WorkerLost, TypeOK
  <1> QED BY <1>2, <1>3, <1>4, <1>5

(* The write-back of one item, whose fence holds.                          *)
LEMMA WriteBackStep ==
  ASSUME TypeOK, NEW a \in Articles, NEW i \in Indexes, NEW outcome \in Outcomes,
         WriteBack(a, i, outcome)
  PROVE  LET ds == [delivery[a] EXCEPT ![i] = WrittenBack(@, outcome)]
         IN  /\ ds \in [Indexes -> Delivery] /\ ds[i].req = delivery[a][i].req
             /\ ds[i].status = "succeeded" <=> outcome = "applied"
             /\ delivery' = [delivery EXCEPT ![a] = ds]
             /\ job' = [job EXCEPT ![a] = Settled(@, ds)]
             /\ Settled(job[a], ds) \in Job
  <1> DEFINE ds == [delivery[a] EXCEPT ![i] = WrittenBack(@, outcome)]
  <1>1. /\ WrittenBack(delivery[a][i], outcome) \in Delivery
        /\ WrittenBack(delivery[a][i], outcome).req = delivery[a][i].req
        /\ WrittenBack(delivery[a][i], outcome).status = "succeeded" <=> outcome = "applied"
    BY OutcomeStatus DEF TypeOK, Delivery, WrittenBack
  <1>2. ds \in [Indexes -> Delivery] /\ ds[i] = WrittenBack(delivery[a][i], outcome)
    BY <1>1 DEF TypeOK
  <1>3. Settled(job[a], ds) \in Job
    <2>1. ConvergedStatus(job[a].gen, ds) \in JobStatuses
      BY SlotStatus
    <2> HIDE DEF ds
    <2> QED BY <2>1 DEF Settled, TypeOK, Job
  <1> QED BY <1>1, <1>2, <1>3 DEF WriteBack

(* A write-back keeps the types.                                           *)
LEMMA CompleteType ==
  ASSUME TypeOK, NEW w \in workers, NEW i \in Indexes, Complete(w, i)
  PROVE  TypeOK'
  <1>1. w \in Worker /\ w.article \in Articles /\ w.outcome[i] \in Outcomes
    BY DEF TypeOK, Worker
  <1>2. workers' \subseteq Worker
    <2>1. [w EXCEPT !.plan = w.plan \ {i}] \in Worker
      BY <1>1 DEF Worker
    <2> QED BY <2>1 DEF Complete, Become, TypeOK
  <1>3. job' \in [Articles -> Job] /\ delivery' \in [Articles -> [Indexes -> Delivery]]
    <2>1. CASE UNCHANGED <<job, delivery>>
      BY <2>1 DEF TypeOK
    <2>2. CASE WriteBack(w.article, i, w.outcome[i])
      <3> DEFINE ds == [delivery[w.article] EXCEPT ![i] = WrittenBack(@, w.outcome[i])]
      <3>1. /\ ds \in [Indexes -> Delivery] /\ Settled(job[w.article], ds) \in Job
            /\ delivery' = [delivery EXCEPT ![w.article] = ds]
            /\ job' = [job EXCEPT ![w.article] = Settled(@, ds)]
        BY <1>1, <2>2, WriteBackStep
      <3> HIDE DEF ds
      <3> QED BY <1>1, <3>1 DEF TypeOK
    <2> QED BY <2>1, <2>2 DEF Complete
  <1> QED BY <1>2, <1>3 DEF Complete, TypeOK

(* A lease that runs out keeps the types.                                  *)
LEMMA TimeType ==
  ASSUME TypeOK, NEW a \in Articles, LeaseExpires(a) \/ LeaseOutlived(a)
  PROVE  TypeOK'
  <1>1. job' \in [Articles -> Job]
    <2>1. [job[a] EXCEPT !.expired = TRUE] \in Job
      BY DEF TypeOK, Job
    <2> QED BY <2>1 DEF LeaseExpires, LeaseOutlived, ExpireLease, TypeOK
  <1>2. budget' \in Budget
    BY DEF LeaseExpires, LeaseOutlived, Fault, TypeOK, Budget
  <1> QED BY <1>1, <1>2 DEF LeaseExpires, LeaseOutlived, ExpireLease, TypeOK

(* A late request keeps the types.                                         *)
LEMMA WireType ==
  ASSUME TypeOK, NEW m \in wire, Land(m) \/ Drop(m)
  PROVE  TypeOK'
  <1>1. /\ m.article \in Articles /\ m.index \in Indexes
        /\ Put(doc[m.index][m.article], m.gen, m.target) \in Doc
    BY PutDoc DEF TypeOK, Request
  <1>2. wire' \subseteq Request
    BY DEF Land, Drop, TypeOK
  <1>3. doc' \in [Indexes -> [Articles -> Doc]]
    <2>1. CASE Land(m)
      <3>1. doc' = [doc EXCEPT ![m.index] =
              [doc[m.index] EXCEPT ![m.article] = Put(doc[m.index][m.article], m.gen, m.target)]]
        BY <2>1 DEF Land
      <3> QED BY <1>1, <3>1 DEF TypeOK
    <2>2. CASE Drop(m)
      BY <2>2 DEF Drop, TypeOK
    <2> QED BY <2>1, <2>2
  <1> QED BY <1>2, <1>3 DEF Land, Drop, TypeOK

(* What an open "search retry" has locked.                                 *)
LEMMA OpenRetry ==
  ASSUME TypeOK, retry.open
  PROVE  retry.article \in Articles /\ retry.picked \subseteq Indexes
  <1>1. retry # NoRetry
    BY DEF NoRetry
  <1>2. retry \in Retry
    BY <1>1 DEF TypeOK
  <1> QED BY <1>2 DEF Retry

(* "search retry" keeps the types.                                         *)
LEMMA RetryType ==
  ASSUME TypeOK,
         \/ \E a \in Articles : ReactivateBegin(a)
         \/ ReactivateCommit \/ ReactivateAbort
  PROVE  TypeOK'
  <1>1. CASE \E a \in Articles : ReactivateBegin(a)
    BY <1>1 DEF ReactivateBegin, TypeOK, Retry
  <1>2. CASE ReactivateCommit
    <2> DEFINE a == retry.article
    <2>1. a \in Articles
      BY <1>2, OpenRetry DEF ReactivateCommit
    <2>2. Reopened(job[a]) \in Job
      BY <2>1 DEF TypeOK, Job, Reopened, JobStatuses
    <2>3. \A i \in Indexes : Owed(delivery[a][i].req) \in Delivery
      BY <2>1 DEF TypeOK, Delivery, Owed, JobStatuses
    <2>4. delivery' = [delivery EXCEPT ![a] =
            [i \in Indexes |-> IF i \in retry.picked THEN Owed(@[i].req) ELSE @[i]]]
      BY <1>2 DEF ReactivateCommit
    <2>5. job' \in {job, [job EXCEPT ![a] = Reopened(@)]}
      BY <1>2 DEF ReactivateCommit
    <2> HIDE DEF a
    <2>6. delivery' \in [Articles -> [Indexes -> Delivery]]
      BY <2>1, <2>3, <2>4 DEF TypeOK
    <2>7. job' \in [Articles -> Job]
      BY <2>1, <2>2, <2>5 DEF TypeOK
    <2> QED BY <1>2, <2>6, <2>7 DEF ReactivateCommit, TypeOK
  <1>3. CASE ReactivateAbort
    BY <1>3 DEF ReactivateAbort, NoRetry, TypeOK
  <1> QED BY <1>1, <1>2, <1>3

(* Every step keeps the types.                                             *)
LEMMA StepType ==
  ASSUME TypeOK, [Next]_vars
  PROVE  TypeOK'
  <1>1. CASE UNCHANGED vars
    BY <1>1 DEF vars, TypeOK
  <1>2. ASSUME NEW a \in Articles,
               \/ WriteArticle(a) \/ SelectResult(a) \/ Claim(a)
               \/ LeaseExpires(a) \/ LeaseOutlived(a) \/ ReactivateBegin(a)
        PROVE  TypeOK'
    BY <1>2, FactType, ClaimType, TimeType, RetryType
  <1>3. ASSUME NEW w \in workers,
               \/ ReadCurrent(w) \/ ReplanStale(w) \/ Bulk(w) \/ WorkerLost(w)
               \/ \E i \in Indexes : Complete(w, i)
        PROVE  TypeOK'
    BY <1>3, ExecutorType, CompleteType
  <1>4. ASSUME NEW m \in wire, Land(m) \/ Drop(m)
        PROVE  TypeOK'
    BY <1>4, WireType
  <1> QED BY <1>1, <1>2, <1>3, <1>4, RetryType DEF Next

-----------------------------------------------------------------------------
(* The inductive invariant.                                                *)

Stamp(r) == [gen |-> r.gen, target |-> r.target]

(* The stamps of a that circulate.                                         *)
Carried(a) ==
  {doc[i][a] : i \in Indexes}
    \cup {Stamp(m) : m \in {n \in wire : n.article = a}}
    \cup {Stamp(w) : w \in {v \in workers : v.article = a}}

(* With the newest, that of the slot.                                      *)
Stamps(a) == {Stamp(job[a])} \cup Carried(a)

(* A newer generation carries no older fact, and equal generations carry   *)
(* equal targets.                                                          *)
InOrder(r, s) ==
  /\ r.gen <= s.gen => r.target.ver <= s.target.ver
  /\ r.gen = s.gen => r.target = s.target

OrderedAt(a) ==
  /\ \A r \in Stamps(a) : r.gen <= job[a].gen
  /\ \A r, s \in Stamps(a) : InOrder(r, s)

(* The slot describes the article as it is, and its deliveries ask for its *)
(* generation; before the article there is neither slot nor executor.      *)
SlotFollowsFact ==
  \A a \in Articles :
    /\ IF article[a].status = "absent"
       THEN job[a] = NoJob /\ \A i \in Indexes : delivery[a][i] = NoDelivery
       ELSE job[a].target = TargetOf(article[a], selection[a])
    /\ \A i \in Indexes : delivery[a][i].req = job[a].gen

(* What a success rests on.                                                *)
SuccessIsShown ==
  /\ \A a \in Articles, i \in Indexes :
       delivery[a][i].status = "succeeded" => doc[i][a] = Stamp(job[a])
  /\ \A a \in Articles :
       job[a].status = "succeeded" => \A i \in Indexes : delivery[a][i].status = "succeeded"
  /\ \A w \in workers : \A i \in w.plan :
       w.phase = "write" /\ w.outcome[i] = "applied" => doc[i][w.article].gen >= w.gen

(* A token belongs to one executor, and what its holder still has to write *)
(* back has not succeeded.                                                 *)
OneHolder ==
  /\ \A w \in workers : article[w.article].status # "absent"
  /\ \A w \in workers : w.token # 0 /\ w.token <= job[w.article].claims
  /\ \A v, w \in workers : v.article = w.article /\ v.token = w.token => v = w
  /\ \A w \in workers : \A i \in w.plan :
       job[w.article].gen = w.gen /\ job[w.article].token = w.token
         => delivery[w.article][i].status # "succeeded"

(* What "search retry" has locked stays as it was.                         *)
PickedStayFailed ==
  retry.open =>
    /\ article[retry.article].status # "absent"
    /\ \A i \in retry.picked : delivery[retry.article][i].status = "failed"

IInv ==
  /\ TypeOK
  /\ \A a \in Articles : OrderedAt(a)
  /\ SlotFollowsFact /\ SuccessIsShown /\ OneHolder /\ PickedStayFailed

(* Stamps are documents.                                                   *)
LEMMA StampTypes ==
  ASSUME TypeOK, NEW a \in Articles
  PROVE  Stamps(a) \subseteq Doc
  <1>1. Stamp(job[a]) \in Doc
    BY DEF TypeOK, Job, Stamp, Doc
  <1>2. \A i \in Indexes : doc[i][a] \in Doc
    BY DEF TypeOK
  <1>3. \A m \in wire : Stamp(m) \in Doc
    BY DEF TypeOK, Request, Stamp, Doc
  <1>4. \A w \in workers : Stamp(w) \in Doc
    BY DEF TypeOK, Worker, Stamp, Doc
  <1> QED BY <1>1, <1>2, <1>3, <1>4 DEF Stamps, Carried

(* Before the first article nothing circulates.                            *)
LEMMA InitInv == Init => IInv
  <1> SUFFICES ASSUME Init PROVE IInv
    OBVIOUS
  <1>1. TypeOK
    BY ProjectionAssumption
       DEF Init, TypeOK, AbsentArticle, ArticleRow, Statuses, Reasons, NoSelection, Selection, NoJob,
           Job, JobStatuses, NoTarget, Target, NoDelivery, Delivery, NoDoc, Doc
  <1>2. \A a \in Articles : Stamps(a) \subseteq {NoDoc} /\ job[a].gen = 0
    BY DEF Init, Stamps, Carried, Stamp, NoJob, NoDoc
  <1>3. NoDoc.gen = 0 /\ NoDoc.target.ver = 0
    BY DEF NoDoc, NoTarget
  <1>4. ASSUME NEW a \in Articles
        PROVE  OrderedAt(a)
    <2>1. \A r \in Stamps(a) : r = NoDoc
      BY <1>2
    <2>2. \A r \in Stamps(a) : r.gen <= job[a].gen
      BY <1>2, <1>3, <2>1
    <2>3. InOrder(NoDoc, NoDoc)
      BY <1>3 DEF InOrder
    <2> QED BY <2>1, <2>2, <2>3 DEF OrderedAt
  <1>5. SlotFollowsFact /\ SuccessIsShown /\ OneHolder /\ PickedStayFailed
    BY DEF Init, SlotFollowsFact, SuccessIsShown, OneHolder, PickedStayFailed, AbsentArticle,
           NoDelivery, NoJob, NoRetry
  <1> QED BY <1>1, <1>4, <1>5 DEF IInv

(* The order survives while what circulates is copied from it and the slot *)
(* stays or moves on to a fact that is not older.                          *)
LEMMA OrderStep ==
  ASSUME TypeOK, TypeOK', NEW a \in Articles, OrderedAt(a), Carried(a)' \subseteq Stamps(a),
         \/ job'[a].gen = job[a].gen /\ job'[a].target = job[a].target
         \/ job'[a].gen = job[a].gen + 1 /\ job'[a].target.ver >= job[a].target.ver
  PROVE  OrderedAt(a)'
  <1>1. Stamps(a) \subseteq Doc /\ Stamp(job[a]) \in Stamps(a)
    BY StampTypes DEF Stamps
  <1>2. Stamp(job'[a]) \in Doc /\ Stamp(job'[a]).gen = job'[a].gen /\ Stamp(job'[a]).target = job'[a].target
    BY DEF TypeOK, Job, Stamp, Doc
  <1>3. Stamps(a)' \subseteq Stamps(a) \cup {Stamp(job'[a])}
    BY DEF Stamps, Stamp
  <1>4. job[a].gen \in Nat /\ job[a].target \in Target /\ Stamp(job[a]).gen = job[a].gen
        /\ Stamp(job[a]).target = job[a].target
    BY DEF TypeOK, Job, Stamp
  <1>5. \A r \in Stamps(a) : r.gen \in Nat /\ r.target.ver \in Nat /\ r.gen <= job[a].gen
                            /\ r.target.ver <= job[a].target.ver
    BY <1>1, <1>4 DEF OrderedAt, InOrder, Doc, Target
  <1>6. CASE job'[a].gen = job[a].gen /\ job'[a].target = job[a].target
    <2>1. Stamp(job'[a]) = Stamp(job[a])
      BY <1>6 DEF Stamp
    <2>2. Stamps(a)' \subseteq Stamps(a)
      BY <1>1, <1>3, <2>1
    <2> QED BY <1>6, <2>2 DEF OrderedAt, InOrder
  <1>7. CASE job'[a].gen = job[a].gen + 1 /\ job'[a].target.ver >= job[a].target.ver
    <2>1. job'[a].target.ver \in Nat /\ job[a].target.ver \in Nat
      BY DEF TypeOK, Job, Target
    <2>2. \A r \in Stamps(a) : r.gen < job'[a].gen /\ r.target.ver <= job'[a].target.ver
      BY <1>4, <1>5, <1>7, <2>1
    <2>3. \A r \in Stamps(a)' : r.gen <= job'[a].gen
      BY <1>2, <1>3, <1>4, <1>5, <1>7, <2>2
    <2>4. ASSUME NEW r \in Stamps(a)', NEW s \in Stamps(a)'
          PROVE  InOrder(r, s)
      <3>1. CASE r \in Stamps(a) /\ s \in Stamps(a)
        BY <3>1 DEF OrderedAt
      <3>2. CASE r \in Stamps(a) /\ s = Stamp(job'[a])
        BY <1>2, <1>4, <1>5, <1>7, <2>2, <3>2 DEF InOrder
      <3>3. CASE r = Stamp(job'[a]) /\ s \in Stamps(a)
        BY <1>2, <1>4, <1>5, <1>7, <2>2, <3>3 DEF InOrder
      <3>4. CASE r = Stamp(job'[a]) /\ s = Stamp(job'[a])
        BY <1>2, <2>1, <3>4 DEF InOrder
      <3> QED BY <1>3, <3>1, <3>2, <3>3, <3>4
    <2> QED BY <2>3, <2>4 DEF OrderedAt, InOrder
  <1> QED BY <1>6, <1>7
-----------------------------------------------------------------------------
(* Documents.                                                              *)

(* Nothing that circulates is newer than the slot, and what is as new is   *)
(* the same.                                                               *)
LEMMA NewestIsSlot ==
  ASSUME TypeOK, NEW a \in Articles, OrderedAt(a), NEW r \in Stamps(a), r.gen >= job[a].gen
  PROVE  r = Stamp(job[a])
  <1>1. r \in Doc /\ Stamp(job[a]) \in Doc /\ Stamp(job[a]) \in Stamps(a)
    BY StampTypes DEF Stamps
  <1>2. Stamp(job[a]).gen = job[a].gen /\ job[a].gen \in Nat /\ r.gen \in Nat
    BY <1>1 DEF Stamp, TypeOK, Job, Doc
  <1>3. r.gen = job[a].gen
    BY <1>2 DEF OrderedAt
  <1>4. r.target = Stamp(job[a]).target
    BY <1>1, <1>2, <1>3, SMTT(30) DEF OrderedAt, InOrder
  <1> QED BY <1>1, <1>2, <1>3, <1>4 DEF Doc

(* Every step leaves a document that circulated, and no older one.         *)
LEMMA DocStep ==
  ASSUME IInv, [Next]_vars, NEW i \in Indexes, NEW a \in Articles
  PROVE  doc'[i][a] \in Stamps(a) /\ doc'[i][a].gen >= doc[i][a].gen
  <1>1. doc[i][a] \in Doc /\ doc[i][a] \in Stamps(a) /\ doc[i][a].gen >= doc[i][a].gen
    BY DEF IInv, TypeOK, Stamps, Carried, Doc
  <1>2. ASSUME NEW w \in workers, Bulk(w)
        PROVE  doc'[i][a] \in Stamps(a) /\ doc'[i][a].gen >= doc[i][a].gen
    <2>1. w \in Worker /\ (w.article = a => Stamp(w) \in Stamps(a))
      BY DEF IInv, TypeOK, Stamps, Carried
    <2>2. doc'[i][a] = doc[i][a] \/ (w.article = a /\ doc'[i][a] = Put(doc[i][a], w.gen, w.target))
      BY <1>2 DEF Bulk, IInv, TypeOK
    <2>3. /\ Put(doc[i][a], w.gen, w.target) \in {doc[i][a], Stamp(w)}
          /\ Put(doc[i][a], w.gen, w.target).gen >= doc[i][a].gen
      BY <1>1, <2>1, PutDoc DEF Worker, Stamp
    <2> QED BY <1>1, <2>1, <2>2, <2>3
  <1>3. ASSUME NEW m \in wire, Land(m)
        PROVE  doc'[i][a] \in Stamps(a) /\ doc'[i][a].gen >= doc[i][a].gen
    <2>1. m \in Request /\ (m.article = a => Stamp(m) \in Stamps(a))
      BY DEF IInv, TypeOK, Stamps, Carried
    <2>2. doc' = [doc EXCEPT ![m.index] =
            [doc[m.index] EXCEPT ![m.article] = Put(doc[m.index][m.article], m.gen, m.target)]]
      BY <1>3 DEF Land
    <2>3. doc'[i][a] = doc[i][a] \/ (m.article = a /\ doc'[i][a] = Put(doc[i][a], m.gen, m.target))
      BY <2>1, <2>2 DEF IInv, TypeOK, Request
    <2>4. /\ Put(doc[i][a], m.gen, m.target) \in {doc[i][a], Stamp(m)}
          /\ Put(doc[i][a], m.gen, m.target).gen >= doc[i][a].gen
      BY <1>1, <2>1, PutDoc DEF Request, Stamp
    <2> QED BY <1>1, <2>1, <2>3, <2>4
  <1>4. CASE UNCHANGED doc
    BY <1>1, <1>4
  <1> QED BY <1>2, <1>3, <1>4
          DEF Next, vars, WriteArticle, SelectResult, Claim, LeaseExpires, LeaseOutlived, ExpireLease,
              ReactivateBegin, ReactivateCommit, ReactivateAbort, ReadCurrent, ReplanStale,
              WorkerLost, Complete, Drop

(* A document that shows the newest stamp still does after the step.       *)
LEMMA ShownStays ==
  ASSUME IInv, [Next]_vars, NEW i \in Indexes, NEW a \in Articles, doc[i][a] = Stamp(job[a])
  PROVE  doc'[i][a] = Stamp(job[a])
  <1>1. doc'[i][a] \in Stamps(a) /\ doc'[i][a].gen >= job[a].gen
    BY DocStep DEF Stamp
  <1> QED BY <1>1, NewestIsSlot DEF IInv

-----------------------------------------------------------------------------
(* The steps.                                                              *)

(* A step that advances no slot keeps the order of what circulates.        *)
LEMMA CopyStep ==
  ASSUME IInv, TypeOK',
         \A a \in Articles : /\ job'[a].gen = job[a].gen /\ job'[a].target = job[a].target
                              /\ Carried(a)' \subseteq Stamps(a)
  PROVE  \A a \in Articles : OrderedAt(a)'
  BY OrderStep DEF IInv

(* The slot follows a write of the fact.                                   *)
LEMMA AdvanceInv ==
  ASSUME IInv, TypeOK', NEW a \in Articles, NEW target \in Target, Advance(a, target),
         target = TargetOf(article'[a], selection'[a]), target.ver >= job[a].target.ver,
         article'[a].status # "absent",
         \A b \in Articles \ {a} : article'[b] = article[b] /\ selection'[b] = selection[b],
         UNCHANGED <<doc, wire, workers, retry>>
  PROVE  IInv'
  <1>1. /\ \A b \in Articles \ {a} : job'[b] = job[b] /\ delivery'[b] = delivery[b]
        /\ job'[a].target = target
        /\ \/ job[a].target = target /\ UNCHANGED <<job, delivery>>
           \/ /\ Locked(a) = {}
              /\ job'[a] = Advanced(job[a], target)
              /\ \A i \in Indexes : delivery'[a][i] = Owed(job[a].gen + 1)
    BY AdvanceStep DEF IInv
  <1>2. ASSUME NEW b \in Articles
        PROVE  OrderedAt(b)'
    <2>1. Carried(b)' \subseteq Stamps(b)
      BY DEF Carried, Stamps
    <2>2. \/ job'[b].gen = job[b].gen /\ job'[b].target = job[b].target
          \/ job'[b].gen = job[b].gen + 1 /\ job'[b].target.ver >= job[b].target.ver
      BY <1>1 DEF Advanced
    <2> QED BY <2>1, <2>2, OrderStep DEF IInv
  <1>3. SlotFollowsFact'
    BY <1>1 DEF IInv, SlotFollowsFact, Advanced, Owed
  <1>4. SuccessIsShown'
    BY <1>1 DEF IInv, SuccessIsShown, Advanced, Owed
  <1>5. OneHolder'
    <2>1. \A w \in workers : w.article \in Articles /\ w.plan \subseteq Indexes
      BY DEF IInv, TypeOK, Worker
    <2>2. \A w \in workers : article'[w.article].status # "absent"
      BY <2>1 DEF IInv, OneHolder
    <2>3. \A w \in workers : job'[w.article].claims = job[w.article].claims
      BY <1>1, <2>1 DEF Advanced
    <2>4. ASSUME NEW w \in workers, NEW i \in w.plan,
                 job'[w.article].gen = w.gen, job'[w.article].token = w.token
          PROVE  delivery'[w.article][i].status # "succeeded"
      <3>1. CASE job'[w.article] = job[w.article] /\ delivery'[w.article] = delivery[w.article]
        BY <2>4, <3>1 DEF IInv, OneHolder
      <3>2. CASE delivery'[w.article][i] = Owed(job[w.article].gen + 1)
        BY <3>2 DEF Owed
      <3> QED BY <1>1, <2>1, <3>1, <3>2
    <2> QED BY <2>2, <2>3, <2>4 DEF IInv, OneHolder
  <1>6. PickedStayFailed'
    BY <1>1, OpenRetry DEF IInv, PickedStayFailed, Locked
  <1> QED BY <1>2, <1>3, <1>4, <1>5, <1>6 DEF IInv

(* A write of the fact keeps the invariant.                                *)
LEMMA FactInv ==
  ASSUME IInv, NEW a \in Articles, WriteArticle(a) \/ SelectResult(a)
  PROVE  IInv'
  <1>1. TypeOK'
    BY FactType DEF IInv
  <1>2. job[a].target.ver <= article[a].ver /\ article[a].ver \in Nat
    <2>1. article[a] \in ArticleRow /\ selection[a] \in Selection
      BY DEF IInv, TypeOK
    <2>2. CASE article[a].status = "absent"
      BY <2>1, <2>2 DEF IInv, SlotFollowsFact, NoJob, NoTarget, ArticleRow
    <2>3. CASE article[a].status # "absent"
      BY <2>1, <2>3, TargetTypes DEF IInv, SlotFollowsFact, ArticleRow
    <2> QED BY <2>2, <2>3
  <1>3. CASE WriteArticle(a)
    <2>1. PICK after \in NextRows(a, article[a]) :
            /\ article' = [article EXCEPT ![a] = after]
            /\ Advance(a, TargetOf(after, selection[a]))
            /\ UNCHANGED <<selection, doc, wire, workers, retry, budget>>
      BY <1>3 DEF WriteArticle
    <2>2. /\ after \in ArticleRow /\ after.status # "absent"
          /\ article[a].status # "absent" => after.ver = article[a].ver + 1
      BY RowsWritten DEF IInv, TypeOK
    <2>3. /\ TargetOf(after, selection[a]) \in Target
          /\ TargetOf(after, selection[a]).ver = after.ver
      BY <2>2, TargetTypes DEF IInv, TypeOK
    <2>4. TargetOf(after, selection[a]).ver >= job[a].target.ver
      <3>1. after.ver \in Nat /\ job[a].target.ver \in Nat
        BY <2>2 DEF ArticleRow, IInv, TypeOK, Job, Target
      <3>2. CASE article[a].status = "absent"
        BY <2>3, <3>1, <3>2 DEF IInv, SlotFollowsFact, NoJob, NoTarget
      <3>3. CASE article[a].status # "absent"
        BY <1>2, <2>2, <2>3, <3>1, <3>3
      <3> QED BY <3>2, <3>3
    <2> QED BY <1>1, <2>1, <2>2, <2>3, <2>4, AdvanceInv DEF IInv, TypeOK
  <1>4. CASE SelectResult(a)
    <2> DEFINE chosen == [rev |-> article[a].rev, n |-> selection[a].n + 1]
    <2>1. chosen \in Selection /\ article[a].status # "absent"
      BY <1>4 DEF IInv, TypeOK, ArticleRow, Selection, SelectResult, Public
    <2>2. selection' = [selection EXCEPT ![a] = chosen] /\ Advance(a, TargetOf(article[a], chosen))
      BY <1>4 DEF SelectResult
    <2> HIDE DEF chosen
    <2>3. TargetOf(article[a], chosen) \in Target /\ TargetOf(article[a], chosen).ver = article[a].ver
      BY <2>1, TargetTypes DEF IInv, TypeOK
    <2>4. UNCHANGED <<article, doc, wire, workers, retry>>
      BY <1>4 DEF SelectResult
    <2> QED BY <1>1, <1>2, <2>1, <2>2, <2>3, <2>4, AdvanceInv DEF IInv, TypeOK
  <1> QED BY <1>3, <1>4

(* The deliveries a claim starts are neither succeeded nor failed.         *)
LEMMA ClaimRows ==
  ASSUME IInv, NEW a \in Articles, Claim(a)
  PROVE  /\ \A b \in Articles \ {a} : job'[b] = job[b] /\ delivery'[b] = delivery[b]
         /\ job'[a] = Claimed(job[a])
         /\ \A i \in Indexes :
              \/ delivery'[a][i] = delivery[a][i]
              \/ /\ delivery'[a][i] = Attempted(delivery[a][i])
                 /\ delivery[a][i].status \in {"pending", "retry_wait", "running"}
  BY DEF Claim, IInv, TypeOK

(* A claim keeps the invariant.                                            *)
LEMMA ClaimInv ==
  ASSUME IInv, NEW a \in Articles, Claim(a)
  PROVE  IInv'
  <1> DEFINE v == [article |-> a, gen |-> job[a].gen, token |-> job[a].claims + 1,
                   target |-> job[a].target, plan |-> Unfinished(a), phase |-> "read",
                   outcome |-> NoOutcome]
  <1>1. TypeOK'
    BY ClaimType DEF IInv
  <1>2. UNCHANGED <<article, selection, doc, wire, retry>> /\ workers' = workers \cup {v}
    BY DEF Claim
  <1>3. /\ v.article = a /\ v.gen = job[a].gen /\ v.target = job[a].target /\ v.phase = "read"
        /\ v.token = job[a].claims + 1 /\ v.plan = Unfinished(a)
    OBVIOUS
  <1> HIDE DEF v
  <1>4. /\ \A b \in Articles \ {a} : job'[b] = job[b] /\ delivery'[b] = delivery[b]
        /\ job'[a] = Claimed(job[a])
        /\ \A i \in Indexes :
             \/ delivery'[a][i] = delivery[a][i]
             \/ /\ delivery'[a][i] = Attempted(delivery[a][i])
                /\ delivery[a][i].status \in {"pending", "retry_wait", "running"}
    BY ClaimRows
  <1>5. article[a].status # "absent"
    BY DEF IInv, SlotFollowsFact, Claim, Claimable, NoJob
  <1>6. \A b \in Articles : /\ job'[b].gen = job[b].gen /\ job'[b].target = job[b].target
                            /\ Stamp(job'[b]) = Stamp(job[b])
                            /\ \A i \in Indexes : delivery'[b][i].status = "succeeded"
                                                     => delivery[b][i].status = "succeeded"
    <2>1. /\ Claimed(job[a]).gen = job[a].gen /\ Claimed(job[a]).target = job[a].target
          /\ Stamp(Claimed(job[a])) = Stamp(job[a])
      BY DEF Claimed, Stamp
    <2>2. \A i \in Indexes : Attempted(delivery[a][i]).status # "succeeded"
      BY DEF Attempted
    <2> QED BY <1>4, <2>1, <2>2
  <1>7. \A b \in Articles : OrderedAt(b)'
    <2>1. Stamp(v) = Stamp(job[a])
      BY <1>3 DEF Stamp
    <2>2. \A b \in Articles : Carried(b)' \subseteq Stamps(b)
      BY <1>2, <1>3, <2>1 DEF Carried, Stamps
    <2> QED BY <1>1, <1>6, <2>2, CopyStep
  <1>8. SlotFollowsFact'
    <2>1. \A b \in Articles \ {a} : job'[b] = job[b] /\ delivery'[b] = delivery[b]
      BY <1>4
    <2>2. \A i \in Indexes : delivery'[a][i].req = delivery[a][i].req
      <3>1. \A i \in Indexes : Attempted(delivery[a][i]).req = delivery[a][i].req
        BY DEF Attempted
      <3> QED BY <1>4, <3>1
    <2>3. ASSUME NEW b \in Articles
          PROVE  \A i \in Indexes : delivery'[b][i].req = job'[b].gen
      BY <1>6, <2>1, <2>2 DEF IInv, SlotFollowsFact
    <2>4. ASSUME NEW b \in Articles
          PROVE  IF article'[b].status = "absent"
                 THEN job'[b] = NoJob /\ \A i \in Indexes : delivery'[b][i] = NoDelivery
                 ELSE job'[b].target = TargetOf(article'[b], selection'[b])
      BY <1>2, <1>5, <1>6, <2>1 DEF IInv, SlotFollowsFact
    <2> QED BY <2>3, <2>4 DEF SlotFollowsFact
  <1>9. SuccessIsShown'
    <2>1. \A b \in Articles : job'[b].status = "succeeded"
            => \A i \in Indexes : delivery'[b][i].status = "succeeded"
      BY <1>4 DEF IInv, SuccessIsShown, Claimed
    <2> QED BY <1>2, <1>3, <1>6, <2>1 DEF IInv, SuccessIsShown
  <1>10. OneHolder'
    <2>1. \A w \in workers : w.article \in Articles /\ w.token \in Nat /\ w.plan \subseteq Indexes
      BY DEF IInv, TypeOK, Worker
    <2>2. /\ job[a].claims \in Nat
          /\ job'[a].claims = job[a].claims + 1 /\ job'[a].token = job[a].claims + 1
          /\ \A b \in Articles \ {a} : job'[b] = job[b] /\ delivery'[b] = delivery[b]
      BY <1>4 DEF IInv, TypeOK, Job, Claimed
    <2>3. \A w \in workers : w.token # 0 /\ w.token <= job[w.article].claims
      BY DEF IInv, OneHolder
    <2>4. \A w \in workers' : article'[w.article].status # "absent"
      BY <1>2, <1>3, <1>5 DEF IInv, OneHolder
    <2>5. \A w \in workers' : w.token # 0 /\ w.token <= job'[w.article].claims
      BY <1>2, <1>3, <2>1, <2>2, <2>3
    <2>6. \A w \in workers : w.article = a => w.token < v.token
      BY <1>3, <2>1, <2>2, <2>3
    <2>7. ASSUME NEW u \in workers', NEW w \in workers', u.article = w.article, u.token = w.token
          PROVE  u = w
      BY <1>2, <1>3, <2>1, <2>2, <2>6, <2>7 DEF IInv, OneHolder
    <2>8. ASSUME NEW w \in workers', NEW i \in w.plan,
                 job'[w.article].gen = w.gen, job'[w.article].token = w.token
          PROVE  delivery'[w.article][i].status # "succeeded"
      <3>1. CASE w = v
        BY <1>3, <1>6, <3>1 DEF Unfinished, Converged, IInv, SlotFollowsFact
      <3>2. CASE w \in workers /\ w.article = a
        BY <1>3, <2>1, <2>2, <2>6, <2>8, <3>2
      <3>3. CASE w \in workers /\ w.article # a
        BY <2>1, <2>2, <2>8, <3>3 DEF IInv, OneHolder
      <3> QED BY <1>2, <3>1, <3>2, <3>3
    <2> QED BY <2>4, <2>5, <2>7, <2>8 DEF OneHolder
  <1>11. PickedStayFailed'
    BY <1>2, <1>4, OpenRetry DEF IInv, PickedStayFailed
  <1> QED BY <1>1, <1>7, <1>8, <1>9, <1>10, <1>11 DEF IInv

(* An executor that moves on: slots, deliveries and documents stay.        *)
LEMMA ReadInv ==
  ASSUME IInv, NEW w \in workers, ReadCurrent(w) \/ ReplanStale(w)
  PROVE  IInv'
  <1>1. TypeOK' /\ w \in Worker /\ w.article \in Articles
    BY ExecutorType DEF IInv, TypeOK, Worker
  <1>2. UNCHANGED <<article, selection, job, delivery, doc, wire, retry>>
    <2>1. CASE ReadCurrent(w)
      BY <2>1 DEF ReadCurrent
    <2>2. CASE ReplanStale(w)
      <3>1. job[w.article].target = TargetOf(article[w.article], selection[w.article])
        BY <1>1 DEF IInv, SlotFollowsFact, OneHolder
      <3> QED BY <2>2, <3>1 DEF ReplanStale, Advance
    <2> QED BY <2>1, <2>2
  <1>3. PICK v : /\ v.article = w.article /\ v.gen = w.gen /\ v.token = w.token
                 /\ v.target = w.target /\ v.plan = w.plan /\ v.phase # "write"
                 /\ workers' \subseteq (workers \ {w}) \cup {v}
    <2>1. CASE ReadCurrent(w)
      <3> DEFINE same == TargetOf(article[w.article], selection[w.article]) = w.target
                 v == [w EXCEPT !.phase = IF same THEN "bulk" ELSE "replan"]
      <3>1. workers' = (workers \ {w}) \cup {v}
        BY <2>1 DEF ReadCurrent, Become
      <3>2. /\ v.article = w.article /\ v.gen = w.gen /\ v.token = w.token
            /\ v.target = w.target /\ v.plan = w.plan /\ v.phase # "write"
        BY <1>1 DEF Worker
      <3> QED BY <3>1, <3>2
    <2>2. CASE ReplanStale(w)
      <3>1. w.phase # "write" /\ workers' = workers \ {w}
        BY <2>2 DEF ReplanStale
      <3> QED BY <3>1
    <2> QED BY <2>1, <2>2
  <1>4. \A b \in Articles : OrderedAt(b)'
    <2>1. Stamp(v) = Stamp(w)
      BY <1>3 DEF Stamp
    <2>2. \A b \in Articles : Carried(b)' \subseteq Stamps(b)
      BY <1>2, <1>3, <2>1 DEF Carried, Stamps
    <2> QED BY <1>1, <1>2, <2>2, CopyStep
  <1>5. SlotFollowsFact' /\ PickedStayFailed'
    BY <1>2 DEF IInv, SlotFollowsFact, PickedStayFailed
  <1>6. SuccessIsShown'
    BY <1>2, <1>3 DEF IInv, SuccessIsShown, Stamp
  <1>7. OneHolder'
    BY <1>2, <1>3 DEF IInv, OneHolder
  <1> QED BY <1>1, <1>4, <1>5, <1>6, <1>7 DEF IInv

(* One Bulk request: what was applied is shown by the index.               *)
LEMMA BulkInv ==
  ASSUME IInv, [Next]_vars, NEW w \in workers, Bulk(w)
  PROVE  IInv'
  <1>1. TypeOK' /\ w \in Worker /\ w.article \in Articles /\ w.plan \subseteq Indexes
    BY ExecutorType DEF IInv, TypeOK, Worker
  <1>2. UNCHANGED <<article, selection, job, delivery, retry>>
    BY SMTT(30) DEF Bulk
  <1>3. PICK answer \in [w.plan -> Outcomes] :
          /\ doc' = [i \in Indexes |->
                       IF i \in w.plan /\ answer[i] = "applied"
                       THEN [doc[i] EXCEPT ![w.article] = Put(@, w.gen, w.target)]
                       ELSE doc[i]]
          /\ wire' = wire \cup {RequestOf(w, i) : i \in {j \in w.plan : answer[j] = "unknown"}}
          /\ Become(w, [w EXCEPT !.phase = "write",
                         !.outcome = [i \in Indexes |-> IF i \in w.plan THEN answer[i] ELSE "unknown"]])
    BY DEF Bulk
  <1>4. PICK v : /\ v.article = w.article /\ v.gen = w.gen /\ v.token = w.token
                 /\ v.target = w.target /\ v.plan = w.plan
                 /\ \A i \in w.plan : v.outcome[i] = answer[i]
                 /\ workers' = (workers \ {w}) \cup {v}
    <2> DEFINE v == [w EXCEPT !.phase = "write",
                       !.outcome = [i \in Indexes |-> IF i \in w.plan THEN answer[i] ELSE "unknown"]]
    <2>1. /\ v.article = w.article /\ v.gen = w.gen /\ v.token = w.token
          /\ v.target = w.target /\ v.plan = w.plan
          /\ v.outcome = [i \in Indexes |-> IF i \in w.plan THEN answer[i] ELSE "unknown"]
      BY <1>1 DEF Worker
    <2>2. workers' = (workers \ {w}) \cup {v}
      BY <1>3 DEF Become
    <2> HIDE DEF v
    <2>3. \A i \in w.plan : v.outcome[i] = answer[i]
      BY <1>1, <2>1
    <2> QED BY <2>1, <2>2, <2>3
  <1>5. \A b \in Articles : OrderedAt(b)'
    <2>1. Stamp(v) = Stamp(w)
      BY <1>4 DEF Stamp
    <2>2. \A i \in Indexes, b \in Articles : doc'[i][b] \in Stamps(b)
      BY DocStep
    <2>3. \A m \in wire' : m \in wire \/ (m.article = w.article /\ Stamp(m) = Stamp(w))
      BY <1>3 DEF RequestOf, Stamp
    <2>4. ASSUME NEW b \in Articles
          PROVE  Carried(b)' \subseteq Stamps(b)
      <3>1. \A m \in wire' : m.article = b => Stamp(m) \in Stamps(b)
        BY <2>3 DEF Stamps, Carried
      <3>2. \A u \in workers' : u.article = b => Stamp(u) \in Stamps(b)
        BY <1>4, <2>1 DEF Stamps, Carried
      <3> QED BY <2>2, <3>1, <3>2 DEF Carried, Stamp
    <2> QED BY <1>1, <1>2, <2>4, CopyStep
  <1>6. SlotFollowsFact' /\ PickedStayFailed'
    BY <1>2 DEF IInv, SlotFollowsFact, PickedStayFailed
  <1>7. SuccessIsShown'
    <2>1. \A b \in Articles, i \in Indexes :
            delivery'[b][i].status = "succeeded" => doc'[i][b] = Stamp(job'[b])
      BY <1>2, ShownStays DEF IInv, SuccessIsShown
    <2>2. ASSUME NEW u \in workers, NEW i \in u.plan, u.phase = "write", u.outcome[i] = "applied"
          PROVE  doc'[i][u.article].gen >= u.gen
      <3>1. u \in Worker /\ u.article \in Articles /\ i \in Indexes /\ u.gen \in Nat
        BY DEF IInv, TypeOK, Worker
      <3>2. doc[i][u.article].gen >= u.gen
        BY <2>2 DEF IInv, SuccessIsShown
      <3>3. doc'[i][u.article].gen >= doc[i][u.article].gen
        BY <3>1, DocStep
      <3>4. doc[i][u.article].gen \in Nat /\ doc'[i][u.article].gen \in Nat
        BY <1>1, <3>1 DEF IInv, TypeOK, Doc
      <3> QED BY <3>1, <3>2, <3>3, <3>4
    <2>3. ASSUME NEW i \in w.plan, answer[i] = "applied"
          PROVE  doc'[i][w.article].gen >= w.gen
      <3>1. doc'[i][w.article] = Put(doc[i][w.article], w.gen, w.target)
        BY <1>1, <1>3, <2>3 DEF IInv, TypeOK
      <3>2. doc[i][w.article] \in Doc /\ w.gen \in Nat /\ w.target \in Target
        BY <1>1 DEF IInv, TypeOK, Worker
      <3> QED BY <3>1, <3>2, PutDoc
    <2>4. \A u \in workers' : \A i \in u.plan :
            u.phase = "write" /\ u.outcome[i] = "applied" => doc'[i][u.article].gen >= u.gen
      BY <1>4, <2>2, <2>3
    <2>5. \A b \in Articles :
            job'[b].status = "succeeded" => \A i \in Indexes : delivery'[b][i].status = "succeeded"
      BY <1>2 DEF IInv, SuccessIsShown
    <2> QED BY <2>1, <2>4, <2>5 DEF SuccessIsShown
  <1>8. OneHolder'
    BY <1>2, <1>4 DEF IInv, OneHolder
  <1> QED BY <1>1, <1>5, <1>6, <1>7, <1>8 DEF IInv

(* A lost executor, a request that lands or vanishes, a lease that runs    *)
(* out.                                                                    *)
LEMMA LossInv ==
  ASSUME IInv, [Next]_vars,
         \/ \E w \in workers : WorkerLost(w)
         \/ \E m \in wire : Land(m) \/ Drop(m)
         \/ \E a \in Articles : LeaseExpires(a) \/ LeaseOutlived(a)
  PROVE  IInv'
  <1>1. TypeOK'
    BY StepType DEF IInv
  <1>2. UNCHANGED <<article, selection, delivery, retry>> /\ workers' \subseteq workers
    BY DEF WorkerLost, Land, Drop, LeaseExpires, LeaseOutlived, ExpireLease
  <1>3. \A b \in Articles : job'[b] \in {job[b], [job[b] EXCEPT !.expired = TRUE]}
    BY DEF WorkerLost, Land, Drop, LeaseExpires, LeaseOutlived, ExpireLease, IInv, TypeOK
  <1>4. \A b \in Articles :
          /\ job'[b].gen = job[b].gen /\ job'[b].target = job[b].target
          /\ job'[b].status = job[b].status /\ job'[b].claims = job[b].claims
          /\ job'[b].token = job[b].token /\ Stamp(job'[b]) = Stamp(job[b])
    <2>1. \A b \in Articles : job[b] \in Job
      BY DEF IInv, TypeOK
    <2>2. \A j \in Job : LET x == [j EXCEPT !.expired = TRUE]
                        IN  /\ x.gen = j.gen /\ x.target = j.target /\ x.status = j.status
                            /\ x.claims = j.claims /\ x.token = j.token
      BY DEF Job
    <2> QED BY <1>3, <2>1, <2>2 DEF Stamp
  <1>5. \A b \in Articles : OrderedAt(b)'
    <2>1. \A i \in Indexes, b \in Articles : doc'[i][b] \in Stamps(b)
      BY DocStep
    <2>2. \A m \in wire' : \/ m \in wire
                           \/ \E w \in workers : m.article = w.article /\ Stamp(m) = Stamp(w)
      <3>1. ASSUME NEW w \in workers, WorkerLost(w), NEW m \in wire'
            PROVE  m \in wire \/ (m.article = w.article /\ Stamp(m) = Stamp(w))
        BY <3>1 DEF WorkerLost, RequestOf, Stamp
      <3>2. ASSUME NEW m \in wire, Land(m) \/ Drop(m)
            PROVE  wire' \subseteq wire
        BY <3>2 DEF Land, Drop
      <3>3. ASSUME NEW a \in Articles, LeaseExpires(a) \/ LeaseOutlived(a)
            PROVE  wire' \subseteq wire
        BY <3>3 DEF LeaseExpires, LeaseOutlived, ExpireLease
      <3> QED BY <3>1, <3>2, <3>3
    <2>3. ASSUME NEW b \in Articles
          PROVE  Carried(b)' \subseteq Stamps(b)
      <3>1. \A m \in wire' : m.article = b => Stamp(m) \in Stamps(b)
        BY <2>2 DEF Stamps, Carried
      <3>2. \A u \in workers' : u.article = b => Stamp(u) \in Stamps(b)
        BY <1>2 DEF Stamps, Carried
      <3> QED BY <2>1, <3>1, <3>2 DEF Carried, Stamp
    <2> QED BY <1>1, <1>4, <2>3, CopyStep
  <1>6. SlotFollowsFact' /\ PickedStayFailed'
    <2>1. \A b \in Articles : job[b] = NoJob => job'[b] = NoJob
      <3>1. ASSUME NEW a \in Articles, ExpireLease(a), NEW b \in Articles, job[b] = NoJob
            PROVE  job'[b] = NoJob
        <4>1. a # b /\ job' = [job EXCEPT ![a].expired = TRUE]
          BY <3>1 DEF ExpireLease, NoJob
        <4> QED BY <3>1, <4>1
      <3>2. UNCHANGED job \/ \E a \in Articles : ExpireLease(a)
        BY DEF WorkerLost, Land, Drop, LeaseExpires, LeaseOutlived
      <3> QED BY <3>1, <3>2
    <2> QED BY <1>2, <1>4, <2>1 DEF IInv, SlotFollowsFact, PickedStayFailed
  <1>7. SuccessIsShown'
    <2>1. \A b \in Articles, i \in Indexes :
            delivery'[b][i].status = "succeeded" => doc'[i][b] = Stamp(job'[b])
      BY <1>2, <1>4, ShownStays DEF IInv, SuccessIsShown
    <2>2. ASSUME NEW u \in workers, NEW i \in u.plan, u.phase = "write", u.outcome[i] = "applied"
          PROVE  doc'[i][u.article].gen >= u.gen
      <3>1. u \in Worker /\ u.article \in Articles /\ i \in Indexes /\ u.gen \in Nat
        BY DEF IInv, TypeOK, Worker
      <3>2. doc[i][u.article].gen >= u.gen
        BY <2>2 DEF IInv, SuccessIsShown
      <3>3. doc'[i][u.article].gen >= doc[i][u.article].gen
        BY <3>1, DocStep
      <3>4. doc[i][u.article].gen \in Nat /\ doc'[i][u.article].gen \in Nat
        BY <1>1, <3>1 DEF IInv, TypeOK, Doc
      <3> QED BY <3>1, <3>2, <3>3, <3>4
    <2> QED BY <1>2, <1>4, <2>1, <2>2 DEF IInv, SuccessIsShown
  <1>8. OneHolder'
    <2>1. \A u \in workers : u.article \in Articles
      BY DEF IInv, TypeOK, Worker
    <2> QED BY <1>2, <1>4, <2>1 DEF IInv, OneHolder
  <1> QED BY <1>1, <1>5, <1>6, <1>7, <1>8 DEF IInv

(* The write-back of one answer, and its settling of the slot.             *)
LEMMA CompleteInv ==
  ASSUME IInv, NEW w \in workers, NEW i \in Indexes, Complete(w, i)
  PROVE  IInv'
  <1> DEFINE a == w.article
             ds == [delivery[a] EXCEPT ![i] = WrittenBack(@, w.outcome[i])]
  <1>1. TypeOK' /\ w \in Worker /\ a \in Articles /\ w.outcome[i] \in Outcomes
    BY CompleteType DEF IInv, TypeOK, Worker
  <1>2. /\ UNCHANGED <<article, selection, doc, wire, retry>>
        /\ i \in w.plan /\ w.phase = "write"
    BY DEF Complete
  <1>3. PICK v : /\ v.article = w.article /\ v.gen = w.gen /\ v.token = w.token /\ v.phase = w.phase
                 /\ v.target = w.target /\ v.plan = w.plan \ {i} /\ v.outcome = w.outcome
                 /\ workers' \subseteq (workers \ {w}) \cup {v}
    <2> DEFINE v == [w EXCEPT !.plan = @ \ {i}]
    <2>1. /\ v.article = w.article /\ v.gen = w.gen /\ v.token = w.token /\ v.phase = w.phase
          /\ v.target = w.target /\ v.plan = w.plan \ {i} /\ v.outcome = w.outcome
      BY <1>1 DEF Worker
    <2>2. workers' \subseteq (workers \ {w}) \cup {v}
      BY DEF Complete, Become
    <2> QED BY <2>1, <2>2
  <1>4. \/ UNCHANGED <<job, delivery>>
        \/ /\ Holds(w) /\ i \notin Locked(a)
           /\ ds \in [Indexes -> Delivery] /\ ds[i].req = delivery[a][i].req
           /\ ds[i].status = "succeeded" <=> w.outcome[i] = "applied"
           /\ delivery' = [delivery EXCEPT ![a] = ds]
           /\ job' = [job EXCEPT ![a] = Settled(@, ds)]
    <2>1. CASE Holds(w) /\ delivery[a][i].req = w.gen
      <3>1. WriteBack(a, i, w.outcome[i]) /\ i \notin Locked(a)
        BY <2>1 DEF Complete
      <3> QED BY <1>1, <2>1, <3>1, WriteBackStep DEF IInv
    <2>2. CASE ~(Holds(w) /\ delivery[a][i].req = w.gen)
      BY <2>2 DEF Complete
    <2> QED BY <2>1, <2>2
  <1>5. \A k \in Indexes : k # i => ds[k] = delivery[a][k]
    BY <1>1 DEF IInv, TypeOK
  <1>6. \A b \in Articles :
          /\ job'[b].gen = job[b].gen /\ job'[b].target = job[b].target
          /\ job'[b].claims = job[b].claims /\ Stamp(job'[b]) = Stamp(job[b])
    <2>1. LET j == Settled(job[a], ds)
          IN  j.gen = job[a].gen /\ j.target = job[a].target /\ j.claims = job[a].claims
      BY DEF Settled
    <2> HIDE DEF a, ds
    <2> QED BY <1>1, <1>4, <2>1 DEF IInv, TypeOK, Stamp
  <1>7. Holds(w) => job[a].gen = w.gen /\ job[a].token = w.token /\ job[a].status = "running"
    BY DEF Holds
  <1>8. /\ article[a].status # "absent"
        /\ Holds(w) => \A k \in w.plan : delivery[a][k].status # "succeeded"
    BY <1>7 DEF IInv, OneHolder
  <1>9. \A b \in Articles \ {a} : job'[b] = job[b] /\ delivery'[b] = delivery[b]
    <2> HIDE DEF a, ds
    <2> QED BY <1>1, <1>4 DEF IInv, TypeOK
  <1>10. \A k \in Indexes : k # i => delivery'[a][k] = delivery[a][k]
    <2> HIDE DEF a, ds
    <2> QED BY <1>1, <1>4, <1>5 DEF IInv, TypeOK
  <1>11. delivery'[a][i] = delivery[a][i]
         \/ (Holds(w) /\ i \notin Locked(a) /\ delivery'[a][i] = ds[i])
    <2> HIDE DEF a, ds
    <2> QED BY <1>1, <1>4 DEF IInv, TypeOK
  <1>12. \A b \in Articles : OrderedAt(b)'
    <2>1. Stamp(v) = Stamp(w)
      BY <1>3 DEF Stamp
    <2>2. \A b \in Articles : Carried(b)' \subseteq Stamps(b)
      BY <1>2, <1>3, <2>1 DEF Carried, Stamps
    <2> QED BY <1>1, <1>6, <2>2, CopyStep
  <1>13. SlotFollowsFact'
    <2>1. \A k \in Indexes : delivery'[a][k].req = delivery[a][k].req
      <3> HIDE DEF a, ds
      <3> QED BY <1>1, <1>4, <1>5 DEF IInv, TypeOK
    <2> HIDE DEF a, ds
    <2>2. \A b \in Articles : \A k \in Indexes : delivery'[b][k].req = job'[b].gen
      BY <1>6, <1>9, <2>1 DEF IInv, SlotFollowsFact
    <2>3. \A b \in Articles :
            IF article'[b].status = "absent"
            THEN job'[b] = NoJob /\ \A k \in Indexes : delivery'[b][k] = NoDelivery
            ELSE job'[b].target = TargetOf(article'[b], selection'[b])
      BY <1>2, <1>6, <1>8, <1>9 DEF IInv, SlotFollowsFact
    <2> QED BY <2>2, <2>3 DEF SlotFollowsFact
  <1>14. SuccessIsShown'
    <2>1. ASSUME NEW b \in Articles, NEW k \in Indexes, delivery'[b][k].status = "succeeded"
          PROVE  doc'[k][b] = Stamp(job'[b])
      <3>1. CASE delivery[b][k].status = "succeeded"
        BY <1>2, <1>6, <3>1 DEF IInv, SuccessIsShown
      <3>2. CASE delivery[b][k].status # "succeeded"
        <4>1. b = a /\ k = i /\ Holds(w) /\ w.outcome[i] = "applied"
          <5> HIDE DEF a, ds
          <5> QED BY <1>4, <1>9, <1>10, <1>11, <2>1, <3>2
        <4>2. doc[i][a].gen >= job[a].gen
          BY <1>2, <1>7, <4>1 DEF IInv, SuccessIsShown
        <4>3. doc[i][a] \in Stamps(a)
          BY DEF Stamps, Carried
        <4>4. doc[i][a] = Stamp(job[a])
          BY <1>1, <4>2, <4>3, NewestIsSlot DEF IInv
        <4> QED BY <1>2, <1>6, <4>1, <4>4
      <3> QED BY <3>1, <3>2
    <2>2. ASSUME NEW b \in Articles, job'[b].status = "succeeded"
          PROVE  \A k \in Indexes : delivery'[b][k].status = "succeeded"
      <3>1. CASE job'[b] = job[b]
        <4>1. ~(b = a /\ Holds(w))
          BY <1>7, <2>2, <3>1
        <4> HIDE DEF a, ds
        <4> QED BY <1>4, <1>9, <2>2, <3>1, <4>1 DEF IInv, SuccessIsShown
      <3>2. CASE job'[b] # job[b]
        <4>1. /\ b = a /\ ds \in [Indexes -> Delivery] /\ delivery'[a] = ds
              /\ job'[a] = Settled(job[a], ds)
          <5> HIDE DEF a, ds
          <5> QED BY <1>1, <1>4, <1>9, <3>2 DEF IInv, TypeOK
        <4> HIDE DEF a, ds
        <4>2. ConvergedStatus(job[a].gen, ds) = "succeeded"
          BY <2>2, <3>2, <4>1 DEF Settled
        <4>3. \A k \in Indexes : ds[k].status = "succeeded"
          BY <4>1, <4>2, SlotStatus
        <4> QED BY <4>1, <4>3
      <3> QED BY <3>1, <3>2
    <2>3. \A u \in workers' : \A k \in u.plan :
            u.phase = "write" /\ u.outcome[k] = "applied" => doc'[k][u.article].gen >= u.gen
      BY <1>2, <1>3 DEF IInv, SuccessIsShown
    <2> QED BY <2>1, <2>2, <2>3 DEF SuccessIsShown
  <1>15. OneHolder'
    <2>1. \A u \in workers : u.article \in Articles /\ u.plan \subseteq Indexes /\ u.token \in Nat
      BY DEF IInv, TypeOK, Worker
    <2>2. \A u \in workers' : article'[u.article].status # "absent"
      BY <1>2, <1>3 DEF IInv, OneHolder
    <2>3. \A u \in workers' : u.token # 0 /\ u.token <= job'[u.article].claims
      BY <1>3, <1>6, <2>1 DEF IInv, OneHolder
    <2>4. \A u, x \in workers' : u.article = x.article /\ u.token = x.token => u = x
      BY <1>3 DEF IInv, OneHolder
    <2>5. ASSUME NEW u \in workers', NEW k \in u.plan,
                 job'[u.article].gen = u.gen, job'[u.article].token = u.token
          PROVE  delivery'[u.article][k].status # "succeeded"
      <3>1. u.article \in Articles /\ u.token # 0 /\ k \in Indexes
        BY <1>1, <1>3, <2>1, <2>3 DEF Worker
      <3>2. CASE UNCHANGED <<job, delivery>>
        BY <1>3, <2>5, <3>2 DEF IInv, OneHolder
      <3>3. CASE u.article # a
        <4> HIDE DEF a, ds
        <4>1. u \in workers
          BY <1>3, <3>3 DEF a
        <4> QED BY <1>9, <2>5, <3>1, <3>3, <4>1 DEF IInv, OneHolder
      <3>4. CASE u.article = a /\ Holds(w) /\ job' = [job EXCEPT ![a] = Settled(@, ds)]
        <4>1. job'[a].token \in {job[a].token, 0}
          <5> HIDE DEF a, ds
          <5> QED BY <1>1, <3>4 DEF Settled, IInv, TypeOK
        <4>2. u.token = w.token
          BY <1>7, <2>5, <3>1, <3>4, <4>1
        <4>3. u = v
          BY <1>2, <1>3, <3>4, <4>2 DEF IInv, OneHolder
        <4>4. k # i /\ k \in w.plan
          BY <1>3, <4>3
        <4> QED BY <1>8, <1>10, <3>1, <3>4, <4>4
      <3> QED BY <1>4, <3>2, <3>3, <3>4
    <2> QED BY <2>2, <2>3, <2>4, <2>5 DEF OneHolder
  <1>16. PickedStayFailed'
    <2>1. ASSUME retry.open, NEW k \in retry.picked
          PROVE  delivery'[retry.article][k].status = "failed"
      <3>1. retry.article \in Articles /\ k \in Indexes
        BY <2>1, OpenRetry DEF IInv
      <3>2. retry.article = a => k \in Locked(a)
        BY <2>1 DEF Locked
      <3>3. delivery[retry.article][k].status = "failed"
        BY <2>1 DEF IInv, PickedStayFailed
      <3> HIDE DEF a, ds
      <3> QED BY <1>9, <1>10, <1>11, <3>1, <3>2, <3>3
    <2> QED BY <1>2, <2>1 DEF IInv, PickedStayFailed
  <1> QED BY <1>1, <1>12, <1>13, <1>14, <1>15, <1>16 DEF IInv

(* "search retry" reopens only what has failed.                            *)
LEMMA RetryInv ==
  ASSUME IInv,
         \/ \E a \in Articles : ReactivateBegin(a)
         \/ ReactivateCommit \/ ReactivateAbort
  PROVE  IInv'
  <1>1. TypeOK' /\ UNCHANGED <<article, selection, doc, wire, workers>>
    BY RetryType DEF IInv, ReactivateBegin, ReactivateCommit, ReactivateAbort
  <1>2. CASE ReactivateCommit
    <2> DEFINE a == retry.article
    <2>1. a \in Articles /\ article[a].status # "absent" /\ ~retry'.open
      BY <1>2, OpenRetry DEF ReactivateCommit, IInv, PickedStayFailed, NoRetry
    <2>2. job' = job \/ (job[a].status = "failed" /\ job' = [job EXCEPT ![a] = Reopened(@)])
      BY <1>2 DEF ReactivateCommit
    <2>3. delivery' = [delivery EXCEPT ![a] =
            [i \in Indexes |-> IF i \in retry.picked THEN Owed(@[i].req) ELSE @[i]]]
      BY <1>2 DEF ReactivateCommit
    <2>4. \A b \in Articles :
            /\ job'[b].gen = job[b].gen /\ job'[b].target = job[b].target
            /\ job'[b].claims = job[b].claims /\ job'[b].token = job[b].token
            /\ job'[b].status = "succeeded" => job[b].status = "succeeded"
            /\ b # a => job'[b] = job[b]
            /\ Stamp(job'[b]) = Stamp(job[b])
      <3>1. LET j == Reopened(job[a])
            IN  /\ j.gen = job[a].gen /\ j.target = job[a].target /\ j.claims = job[a].claims
                /\ j.token = job[a].token /\ j.status # "succeeded"
        BY DEF Reopened
      <3> HIDE DEF a
      <3> QED BY <2>1, <2>2, <3>1 DEF IInv, TypeOK, Stamp
    <2>5. \A b \in Articles, i \in Indexes :
            \/ delivery'[b][i] = delivery[b][i]
            \/ /\ b = a /\ delivery[a][i].status = "failed"
               /\ delivery'[a][i] = Owed(delivery[a][i].req)
      <3>1. \A i \in retry.picked : delivery[a][i].status = "failed"
        BY <1>2 DEF ReactivateCommit, IInv, PickedStayFailed
      <3> HIDE DEF a
      <3> QED BY <2>1, <2>3, <3>1 DEF IInv, TypeOK
    <2>6. \A b \in Articles, i \in Indexes :
            /\ delivery'[b][i].req = delivery[b][i].req
            /\ delivery'[b][i].status = "succeeded" <=> delivery[b][i].status = "succeeded"
            /\ b # a => delivery'[b][i] = delivery[b][i]
      <3>1. \A i \in Indexes : /\ Owed(delivery[a][i].req).req = delivery[a][i].req
                               /\ Owed(delivery[a][i].req).status = "pending"
        BY DEF Owed
      <3> HIDE DEF a
      <3> QED BY <2>5, <3>1
    <2> HIDE DEF a
    <2>7. \A b \in Articles : OrderedAt(b)'
      <3>1. \A b \in Articles : Carried(b)' \subseteq Stamps(b)
        BY <1>1 DEF Carried, Stamps
      <3> QED BY <1>1, <2>4, <3>1, CopyStep
    <2>8. SlotFollowsFact'
      <3>1. \A b \in Articles : \A i \in Indexes : delivery'[b][i].req = job'[b].gen
        BY <2>4, <2>6 DEF IInv, SlotFollowsFact
      <3>2. \A b \in Articles :
              IF article'[b].status = "absent"
              THEN job'[b] = NoJob /\ \A i \in Indexes : delivery'[b][i] = NoDelivery
              ELSE job'[b].target = TargetOf(article'[b], selection'[b])
        BY <1>1, <2>1, <2>4, <2>6 DEF IInv, SlotFollowsFact
      <3> QED BY <3>1, <3>2 DEF SlotFollowsFact
    <2>9. SuccessIsShown'
      BY <1>1, <2>4, <2>6 DEF IInv, SuccessIsShown
    <2>10. OneHolder'
      <3>1. \A w \in workers : w.article \in Articles /\ w.plan \subseteq Indexes
        BY DEF IInv, TypeOK, Worker
      <3> QED BY <1>1, <2>4, <2>6, <3>1 DEF IInv, OneHolder
    <2> QED BY <1>1, <2>1, <2>7, <2>8, <2>9, <2>10 DEF IInv, PickedStayFailed
  <1>3. CASE ReactivateAbort \/ \E a \in Articles : ReactivateBegin(a)
    <2>1. UNCHANGED <<job, delivery>>
      BY <1>3 DEF ReactivateBegin, ReactivateAbort
    <2>2. \A b \in Articles : OrderedAt(b)'
      <3>1. \A b \in Articles : Carried(b)' \subseteq Stamps(b)
        BY <1>1 DEF Carried, Stamps
      <3> QED BY <1>1, <2>1, <3>1, CopyStep
    <2>3. SlotFollowsFact' /\ SuccessIsShown' /\ OneHolder'
      BY <1>1, <2>1 DEF IInv, SlotFollowsFact, SuccessIsShown, OneHolder
    <2>4. PickedStayFailed'
      <3>1. ASSUME NEW a \in Articles, ReactivateBegin(a)
            PROVE  PickedStayFailed'
        <4>1. PICK picked \in SUBSET {i \in Indexes : delivery[a][i].status = "failed"
                                                   /\ delivery[a][i].req = job[a].gen} :
                /\ picked # {}
                /\ retry' = [open |-> TRUE, article |-> a, picked |-> picked,
                             reopens |-> job[a].status = "failed" /\ job[a].token = 0]
          BY <3>1 DEF ReactivateBegin
        <4>2. \A i \in picked : delivery[a][i].status = "failed"
          BY <4>1
        <4>3. retry'.article = a /\ retry'.picked = picked
          BY <4>1
        <4>4. article[a].status # "absent"
          BY <4>1, <4>2 DEF IInv, SlotFollowsFact, NoDelivery
        <4> QED BY <1>1, <2>1, <4>2, <4>3, <4>4 DEF PickedStayFailed
      <3>2. ReactivateAbort => PickedStayFailed'
        BY DEF ReactivateAbort, PickedStayFailed, NoRetry
      <3> QED BY <1>3, <3>1, <3>2
    <2> QED BY <1>1, <2>2, <2>3, <2>4 DEF IInv
  <1> QED BY <1>2, <1>3

-----------------------------------------------------------------------------
(* Theorems.                                                               *)

(* Every step keeps the invariant.                                         *)
LEMMA StepInv == IInv /\ [Next]_vars => IInv'
  <1> SUFFICES ASSUME IInv, [Next]_vars PROVE IInv'
    OBVIOUS
  <1>1. CASE UNCHANGED vars
    <2>1. UNCHANGED <<article, selection, job, delivery, doc, wire, workers, retry, budget>>
      BY <1>1 DEF vars
    <2>2. TypeOK'
      BY StepType DEF IInv
    <2>3. \A a \in Articles : OrderedAt(a)'
      <3>1. \A a \in Articles : Carried(a)' \subseteq Stamps(a)
        BY <2>1 DEF Carried, Stamps
      <3> QED BY <2>1, <2>2, <3>1, CopyStep
    <2>4. SlotFollowsFact' /\ SuccessIsShown' /\ OneHolder' /\ PickedStayFailed'
      BY <2>1 DEF IInv, SlotFollowsFact, SuccessIsShown, OneHolder, PickedStayFailed
    <2> QED BY <2>2, <2>3, <2>4 DEF IInv
  <1>2. ASSUME NEW a \in Articles, WriteArticle(a) \/ SelectResult(a) \/ Claim(a)
        PROVE  IInv'
    BY <1>2, FactInv, ClaimInv
  <1>3. ASSUME NEW w \in workers,
               \/ ReadCurrent(w) \/ ReplanStale(w) \/ Bulk(w)
               \/ \E i \in Indexes : Complete(w, i)
        PROVE  IInv'
    BY <1>3, ReadInv, BulkInv, CompleteInv
  <1>4. CASE \/ \E w \in workers : WorkerLost(w)
             \/ \E m \in wire : Land(m) \/ Drop(m)
             \/ \E a \in Articles : LeaseExpires(a) \/ LeaseOutlived(a)
    BY <1>4, LossInv
  <1>5. CASE \/ \E a \in Articles : ReactivateBegin(a)
             \/ ReactivateCommit \/ ReactivateAbort
    BY <1>5, RetryInv
  <1> QED BY <1>1, <1>2, <1>3, <1>4, <1>5 DEF Next

(* Every reachable state satisfies the inductive invariant.                *)
THEOREM Invariance == Spec => []IInv
  BY InitInv, StepInv, PTL DEF Spec

(* The columns of the slot, of its deliveries and of the leases have the   *)
(* values the schema allows.                                               *)
THEOREM TypeCorrect == Spec => []TypeOK
  <1>1. IInv => TypeOK
    BY DEF IInv
  <1> QED BY <1>1, Invariance, PTL

(* CompleteProjectionItem marks a delivery succeeded, and                  *)
(* settleProjectionJob a slot, only while the index shows the current fact. *)
THEOREM SuccessIsCurrent == Spec => []SucceededIsCurrent
  <1>1. ASSUME IInv, NEW a \in Articles, NEW i \in Indexes, delivery[a][i].status = "succeeded"
        PROVE  Shows(i, a)
    <2>1. doc[i][a] = Stamp(job[a])
      BY <1>1 DEF IInv, SuccessIsShown
    <2>2. job[a].target = TargetOf(article[a], selection[a])
      BY <1>1 DEF IInv, SlotFollowsFact, NoDelivery
    <2> QED BY <2>1, <2>2 DEF Shows, Stamp
  <1>2. IInv => SucceededIsCurrent
    BY <1>1 DEF SucceededIsCurrent, IInv, SuccessIsShown
  <1> QED BY <1>2, Invariance, PTL

(* OpenSearch's external_gte versions keep every index monotone, whatever  *)
(* the order in which requests land.                                       *)
THEOREM IndexOrder == Spec => IndexNeverRegresses
  <1> DEFINE Step == \A i \in Indexes, a \in Articles :
               LET old == doc[i][a]
                   new == doc'[i][a]
               IN  /\ new.gen >= old.gen /\ new.target.ver >= old.target.ver
                   /\ new.gen = old.gen => new = old
  <1>1. ASSUME IInv, [Next]_vars, NEW i \in Indexes, NEW a \in Articles
        PROVE  /\ doc'[i][a].gen >= doc[i][a].gen
               /\ doc'[i][a].target.ver >= doc[i][a].target.ver
               /\ doc'[i][a].gen = doc[i][a].gen => doc'[i][a] = doc[i][a]
    <2>1. /\ doc'[i][a] \in Stamps(a) /\ doc'[i][a].gen >= doc[i][a].gen
          /\ doc[i][a] \in Stamps(a)
      BY <1>1, DocStep DEF Stamps, Carried
    <2>2. doc'[i][a] \in Doc /\ doc[i][a] \in Doc
      BY <1>1, <2>1, StampTypes DEF IInv
    <2>3. InOrder(doc[i][a], doc'[i][a])
      BY <1>1, <2>1 DEF IInv, OrderedAt
    <2> QED BY <2>1, <2>2, <2>3 DEF InOrder, Doc, Target
  <1>2. IInv /\ [Next]_vars => Step
    BY <1>1
  <1> HIDE DEF Step
  <1>3. Spec => [][Step]_vars
    BY <1>2, Invariance, PTL DEF Spec
  <1> QED BY <1>3, PTL DEF IndexNeverRegresses, Step

(* The fence of CompleteProjectionItem: nobody undoes a success that the    *)
(* current generation has earned.                                          *)
THEOREM SuccessStays == Spec => SuccessIsFinal
  <1> DEFINE Step == \A a \in Articles, i \in Indexes :
               delivery[a][i].status = "succeeded" /\ job'[a].gen = job[a].gen
                 => delivery'[a][i].status = "succeeded"
  <1>1. ASSUME IInv, [Next]_vars, NEW a \in Articles, NEW i \in Indexes,
               delivery[a][i].status = "succeeded", job'[a].gen = job[a].gen
        PROVE  delivery'[a][i].status = "succeeded"
    <2> USE <1>1
    <2>1. ASSUME NEW b \in Articles, NEW target \in Target, Advance(b, target)
          PROVE  delivery'[a][i].status = "succeeded"
      <3>1. a = b => job[b].target = target
        <4>1. job[a].gen \in Nat /\ Advanced(job[a], target).gen = job[a].gen + 1
          BY DEF IInv, TypeOK, Job, Advanced
        <4> QED BY <2>1, <4>1, AdvanceStep DEF IInv
      <3>2. delivery'[a] = delivery[a]
        BY <2>1, <3>1, AdvanceStep DEF IInv, Advance
      <3> QED BY <3>2
    <2>2. ASSUME NEW b \in Articles, WriteArticle(b) \/ SelectResult(b)
          PROVE  delivery'[a][i].status = "succeeded"
      <3>1. CASE WriteArticle(b)
        <4>1. PICK after \in NextRows(b, article[b]) : Advance(b, TargetOf(after, selection[b]))
          BY <3>1 DEF WriteArticle
        <4>2. TargetOf(after, selection[b]) \in Target
          BY RowsWritten, TargetTypes DEF IInv, TypeOK
        <4> QED BY <2>1, <4>1, <4>2
      <3>2. CASE SelectResult(b)
        <4> DEFINE chosen == [rev |-> article[b].rev, n |-> selection[b].n + 1]
        <4>1. Advance(b, TargetOf(article[b], chosen))
          BY <3>2 DEF SelectResult
        <4>2. chosen \in Selection
          BY DEF IInv, TypeOK, ArticleRow, Selection
        <4>3. TargetOf(article[b], chosen) \in Target
          BY <4>2, TargetTypes DEF IInv, TypeOK
        <4> QED BY <2>1, <4>1, <4>3
      <3> QED BY <2>2, <3>1, <3>2
    <2>3. ASSUME NEW b \in Articles, Claim(b)
          PROVE  delivery'[a][i].status = "succeeded"
      BY <2>3, ClaimRows
    <2>4. ASSUME NEW w \in workers, ReplanStale(w)
          PROVE  delivery'[a][i].status = "succeeded"
      <3>1. w.article \in Articles
        BY DEF IInv, TypeOK, Worker
      <3>2. TargetOf(article[w.article], selection[w.article]) \in Target
        BY <3>1, TargetTypes DEF IInv, TypeOK
      <3> QED BY <2>1, <2>4, <3>1, <3>2 DEF ReplanStale
    <2>5. ASSUME NEW w \in workers, NEW k \in Indexes, Complete(w, k)
          PROVE  delivery'[a][i].status = "succeeded"
      <3>1. CASE Holds(w)
        <4>1. delivery[w.article][k].status # "succeeded"
          BY <2>5, <3>1 DEF IInv, OneHolder, Complete, Holds
        <4>2. ~(w.article = a /\ k = i)
          BY <4>1
        <4>3. delivery'[a][i] = delivery[a][i]
          BY <2>5, <4>2 DEF Complete, WriteBack, IInv, TypeOK
        <4> QED BY <4>3
      <3>2. CASE ~Holds(w)
        BY <2>5, <3>2 DEF Complete
      <3> QED BY <3>1, <3>2
    <2>6. CASE ReactivateCommit
      <3>1. retry.article = a => i \notin retry.picked
        BY <2>6 DEF ReactivateCommit, IInv, PickedStayFailed
      <3>2. delivery'[a][i] = delivery[a][i]
        BY <2>6, <3>1 DEF ReactivateCommit, IInv, TypeOK
      <3> QED BY <3>2
    <2>7. CASE UNCHANGED delivery
      BY <2>7
    <2> QED BY <2>2, <2>3, <2>4, <2>5, <2>6, <2>7
            DEF Next, vars, LeaseExpires, LeaseOutlived, ExpireLease, ReactivateBegin,
                ReactivateAbort, ReadCurrent, Bulk, WorkerLost, Land, Drop
  <1>2. IInv /\ [Next]_vars => Step
    BY <1>1
  <1> HIDE DEF Step
  <1>3. Spec => [][Step]_vars
    BY <1>2, Invariance, PTL DEF Spec
  <1> QED BY <1>3, PTL DEF SuccessIsFinal, Step
=============================================================================
