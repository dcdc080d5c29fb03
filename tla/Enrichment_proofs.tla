-------------------------- MODULE Enrichment_proofs --------------------------
(***************************************************************************)
(* Proofs about Enrichment, for every set of articles, every sequence of   *)
(* deployments and every bound.  The argument rests on the lease: a token  *)
(* is drawn once in a generation, so its holder is one executor, and what  *)
(* the holder has read stays true until it lets the lease go.              *)
(***************************************************************************)
EXTENDS Enrichment, SequenceTheorems, TLAPS

-----------------------------------------------------------------------------
(* The parts of the inductive invariant.                                   *)

(* The number of the newest token drawn in the generation of a task.       *)
Drawn(t) == t.genAttempt + t.embAttempt

SameLease(v, w) == v.article = w.article /\ v.gen = w.gen /\ v.token = w.token
HasLease(w) == task[w.article].gen = w.gen /\ task[w.article].token = w.token

(* A token belongs to one executor, and none is ahead of its task.         *)
Tokens ==
  /\ \A a \in Articles : task[a].token <= Drawn(task[a])
  /\ \A w \in workers :
       /\ w.token >= 1 /\ w.gen <= task[w.article].gen
       /\ w.gen = task[w.article].gen => w.token <= Drawn(task[w.article])
  /\ \A v, w \in workers : SameLease(v, w) => v = w

(* The repair of a generation is recorded in its task before it is made.   *)
RepairReserved ==
  /\ \A r \in repairs :
       /\ r.gen <= task[r.article].gen
       /\ r.gen = task[r.article].gen => task[r.article].repairUsed
  /\ \A w \in workers : w.phase = "repair" =>
       /\ w.gen = task[w.article].gen => task[w.article].repairUsed
       /\ \A r \in repairs : ~(r.article = w.article /\ r.gen = w.gen)
  /\ \A v, w \in workers : v.phase = "repair" /\ w.phase = "repair"
                             /\ v.article = w.article /\ v.gen = w.gen => v = w

(* A result is of a revision the task had, the task of one the article had. *)
RevisionsFollow ==
  \A a \in Articles :
    /\ article[a].status = "absent" => article[a].rev = 0
    /\ task[a].rev <= article[a].rev
    /\ selection[a].rev <= task[a].rev
    /\ selection[a].summary.rev = selection[a].rev

(* An open transaction has what its fence found, under the row lock.       *)
Fenced(w) ==
  LET t == task[w.article]
  IN  /\ HasLease(w) /\ t.status = "running" /\ t.stage = w.stage /\ t.rev = w.rev
      /\ IF w.stage = "generation"
         THEN /\ t.genProfile = w.genProfile
              /\ w.made.rev = w.rev /\ w.made.profile = w.genProfile
         ELSE t.embProfile = w.embProfile /\ w.made # NoSummary

SavingIsFenced == \A w \in workers : w.phase = "saving" => Fenced(w)

(* What the holder of an embedding has read is still selected.             *)
ReadIsCurrent ==
  \A w \in workers :
    /\ w.phase \in {"repair", "repaired"} => w.stage = "generation"
    /\ w.stage = "embedding" /\ w.phase \in {"call", "saving"} /\ w.made # NoSummary /\ HasLease(w)
         => selection[w.article].rev = w.rev /\ selection[w.article].summary = w.made

(* A task that succeeded left its result, be its revision current or not.  *)
Complete ==
  \A a \in Articles : task[a].status = "succeeded" =>
    /\ selection[a].rev = task[a].rev
    /\ IF task[a].stage = "generation"
       THEN selection[a].summary.profile = task[a].genProfile
       ELSE selection[a].embedding = [base |-> selection[a].summary, profile |-> task[a].embProfile]

IInv ==
  /\ TypeOK /\ Tokens /\ RepairReserved /\ RepairOnce /\ RevisionsFollow
  /\ SavingIsFenced /\ ReadIsCurrent /\ Complete

(* Profiles are numbered in the order of their first deployment and none   *)
(* is deployed again after its successor.                                  *)
ProfilesAscend ==
  \A i, j \in DOMAIN Deployments :
    i <= j /\ Deployments[j].gen # 0 => Deployments[i].gen <= Deployments[j].gen

(* Nobody holds a profile that was not deployed yet, and who holds the      *)
(* lease of a generation has one no older than the summary it will replace. *)
ProfilesFollow ==
  /\ \A a \in Articles : \E i \in 1..deployed \cup {0} :
       selection[a].summary.profile = IF i = 0 THEN 0 ELSE Deployments[i].gen
  /\ \A w \in workers :
       /\ \E i \in 1..deployed : w.genProfile = Deployments[i].gen
       /\ w.stage = "generation" /\ HasLease(w) =>
            selection[w.article].summary.profile <= w.genProfile

-----------------------------------------------------------------------------
(* The operators.                                                          *)

LEMMA DeploymentTypes ==
  /\ \A i \in DOMAIN Deployments : Deployments[i].gen \in Nat /\ Deployments[i].emb \in Nat
  /\ DOMAIN Deployments = 1..Len(Deployments) /\ Len(Deployments) \in Nat /\ 1 \in DOMAIN Deployments
  <1>1. Deployments \in Seq([gen : Nat, emb : Nat]) /\ Deployments # <<>>
    BY EnrichmentAssumption
  <1>2. DOMAIN Deployments = 1..Len(Deployments) /\ Len(Deployments) \in Nat
    BY <1>1
  <1>3. Len(Deployments) # 0
    BY <1>1, EmptySeq
  <1>4. \A i \in DOMAIN Deployments : Deployments[i] \in [gen : Nat, emb : Nat]
    BY <1>1, <1>2, ElementOfSeq
  <1> QED BY <1>2, <1>3, <1>4

(* A write leaves an existing row whose revision is no older.              *)
LEMMA RowsWritten ==
  ASSUME NEW a \in Articles, NEW row \in ArticleRow, NEW after \in NextRows(a, row),
         row.status = "absent" => row.rev = 0
  PROVE  after \in ArticleRow /\ after.status # "absent" /\ after.rev >= row.rev
  BY DEF NextRows, ArticleWrite, AuthorWrite, AdminWrite, FeedWrite, ArticleRow, Statuses, Reasons,
         FirstRow, Revised, WithState, MayUpdateByAuthor, MayPublish, MayOffline, MayDelete,
         MayRestore, MayReviseByFeed

(* A fresh task: the next generation, with nothing drawn or reserved.      *)
LEMMA FreshTask ==
  ASSUME NEW t \in Task, NEW status \in {"pending", "canceled"}, NEW rev \in Nat
  PROVE  LET f == Fresh(t, status, rev)
         IN  /\ f \in Task /\ f.gen = t.gen + 1 /\ f.rev = rev /\ f.status = status
             /\ f.token = 0 /\ Drawn(f) = 0 /\ f.repairUsed = FALSE
  <1>1. /\ NoTask \in Task /\ NoTask.stage = "generation" /\ NoTask.token = 0
        /\ NoTask.genProfile = 0 /\ NoTask.embProfile = 0 /\ NoTask.repairUsed = FALSE
        /\ NoTask.genAttempt = 0 /\ NoTask.embAttempt = 0
    BY DEF NoTask, Task, TaskStatuses, Stages
  <1>2. PICK gen \in Nat : gen = t.gen + 1
    BY DEF Task
  <1>3. Fresh(t, status, rev) = [NoTask EXCEPT !.status = status, !.gen = gen, !.rev = rev]
    BY <1>2 DEF Fresh
  <1> DEFINE f == [NoTask EXCEPT !.status = status, !.gen = gen, !.rev = rev]
  <1>4. f \in Task
    BY <1>1 DEF Task, TaskStatuses
  <1>5. /\ f.gen = gen /\ f.rev = rev /\ f.status = status
        /\ f.token = 0 /\ f.genAttempt = 0 /\ f.embAttempt = 0 /\ f.repairUsed = FALSE
        /\ f.genProfile = 0 /\ f.embProfile = 0 /\ f.stage = "generation"
    BY <1>1 DEF Task
  <1> HIDE DEF f
  <1> QED BY <1>2, <1>3, <1>4, <1>5 DEF f, Drawn

(* A claim draws the next token and changes neither generation nor work.   *)
LEMMA ClaimedTask ==
  ASSUME TypeOK, NEW t \in Task
  PROVE  LET c == Claimed(t)
         IN  /\ c \in Task /\ c.gen = t.gen /\ c.rev = t.rev /\ c.stage = t.stage
             /\ c.status = "running" /\ c.repairUsed = t.repairUsed
             /\ c.token = Drawn(t) + 1 /\ Drawn(c) = Drawn(t) + 1
  <1>1. Configured.gen \in Nat /\ Configured.emb \in Nat
    BY DeploymentTypes DEF TypeOK, Configured
  <1> DEFINE first == t.stage = "generation"
  <1>2. PICK token \in Nat : token = t.genAttempt + t.embAttempt + 1
    BY DEF Task
  <1>3. PICK genAttempt \in Nat : genAttempt = IF first THEN t.genAttempt + 1 ELSE t.genAttempt
    BY DEF Task
  <1>4. PICK embAttempt \in Nat : embAttempt = IF first THEN t.embAttempt ELSE t.embAttempt + 1
    BY DEF Task
  <1>5. PICK genProfile \in Nat :
          genProfile = IF first THEN Bound(t.genProfile, Configured.gen) ELSE t.genProfile
    BY <1>1 DEF Bound, Task
  <1>6. PICK embProfile \in Nat : embProfile = Bound(t.embProfile, Configured.emb)
    BY <1>1 DEF Bound, Task
  <1> DEFINE c == [t EXCEPT !.status = "running", !.expired = FALSE, !.token = token,
                            !.genProfile = genProfile, !.embProfile = embProfile,
                            !.genAttempt = genAttempt, !.embAttempt = embAttempt]
  <1>7. Claimed(t) = c
    BY <1>2, <1>3, <1>4, <1>5, <1>6 DEF Claimed
  <1>8. c \in Task
    BY DEF Task, TaskStatuses
  <1>9. /\ c.gen = t.gen /\ c.rev = t.rev /\ c.stage = t.stage /\ c.status = "running"
        /\ c.repairUsed = t.repairUsed /\ c.token = token
        /\ c.genAttempt = genAttempt /\ c.embAttempt = embAttempt
    BY DEF Task
  <1>10. token = Drawn(t) + 1 /\ genAttempt + embAttempt = token
    BY <1>2, <1>3, <1>4 DEF Drawn, Task
  <1> HIDE DEF c
  <1> QED BY <1>7, <1>8, <1>9, <1>10 DEF Drawn

(* A lease let go.                                                         *)
LEMMA ReleasedTask ==
  ASSUME NEW t \in Task, NEW status \in TaskStatuses
  PROVE  LET r == Released(t, status)
         IN  /\ r \in Task /\ r.status = status /\ r.token = 0
             /\ r.gen = t.gen /\ r.rev = t.rev /\ r.stage = t.stage
             /\ r.genProfile = t.genProfile /\ r.embProfile = t.embProfile
             /\ Drawn(r) = Drawn(t) /\ r.repairUsed = t.repairUsed
  BY DEF Released, Task, TaskStatuses, Drawn

LEMMA HandedOverTask ==
  ASSUME NEW t \in Task
  PROVE  LET h == HandedOver(t)
         IN  /\ h \in Task /\ h.status = "pending" /\ h.token = 0
             /\ h.gen = t.gen /\ h.rev = t.rev
             /\ Drawn(h) = Drawn(t) /\ h.repairUsed = t.repairUsed
  BY DEF HandedOver, Released, Task, TaskStatuses, Stages, Drawn

(* What a call makes is a summary of the profile of its executor, or for   *)
(* an embedding the summary it has read.                                   *)
LEMMA ProductTypes ==
  ASSUME NEW w \in Worker, NEW made \in Products(w)
  PROVE  /\ made \in Summary
         /\ w.stage = "generation" => made.rev = w.rev /\ made.profile = w.genProfile
         /\ w.stage = "embedding" => made = w.made /\ made # NoSummary
  <1>1. CASE w.stage = "embedding"
    BY <1>1 DEF Products, Worker
  <1>2. CASE w.stage # "embedding"
    <2>1. PICK method \in {"model", "extractive"} :
            made = [rev |-> w.rev, profile |-> w.genProfile, method |-> method]
      BY <1>2 DEF Products
    <2> QED BY <1>2, <2>1 DEF Worker, Summary
  <1> QED BY <1>1, <1>2

LEMMA SelectionTypes ==
  NoSummary \in Summary /\ NoEmbedding \in Embedding /\ NoSelection \in Selection /\ NoTask \in Task
  BY DEF NoSummary, Summary, NoEmbedding, Embedding, NoSelection, Selection, NoTask, Task,
         TaskStatuses, Stages

-----------------------------------------------------------------------------
(* What the steps do.                                                      *)

(* A fresh task of the projector or of a back-fill.                        *)
Renewed(a, t) ==
  /\ task' = [task EXCEPT ![a] = t]
  /\ t \in Task /\ t.gen = task[a].gen + 1 /\ t.token = 0 /\ Drawn(t) = 0
  /\ t.repairUsed = FALSE /\ t.status \in {"pending", "canceled"}
  /\ task[a].rev <= t.rev /\ t.rev <= article[a].rev
  /\ ~Locked(a)
  /\ UNCHANGED <<article, selection, workers, deployed, repairs, faults>>

LEMMA ProjectRenews ==
  ASSUME TypeOK, RevisionsFollow, NEW a \in Articles, Project(a)
  PROVE  \E t : Renewed(a, t)
  <1> DEFINE t == task[a]
             rev == article[a].rev
             wanted == IF Public(article[a]) THEN "pending" ELSE "canceled"
             f == Fresh(t, wanted, rev)
  <1>1. t \in Task /\ rev \in Nat /\ wanted \in {"pending", "canceled"} /\ t.rev <= rev
    BY DEF TypeOK, ArticleRow, RevisionsFollow
  <1>2. /\ f \in Task /\ f.gen = t.gen + 1 /\ f.rev = rev /\ f.status = wanted
        /\ f.token = 0 /\ Drawn(f) = 0 /\ f.repairUsed = FALSE
    <2> HIDE DEF t, rev, wanted
    <2> QED BY <1>1, FreshTask, ZenonT(40)
  <1>3. /\ task' = [task EXCEPT ![a] = f] /\ ~Locked(a)
        /\ UNCHANGED <<article, selection, workers, deployed, repairs, faults>>
    BY DEF Project
  <1>4. t.rev <= f.rev /\ f.rev <= article[a].rev /\ f.status \in {"pending", "canceled"}
    BY <1>1, <1>2
  <1> HIDE DEF f, wanted
  <1> QED BY <1>2, <1>3, <1>4 DEF Renewed

LEMMA BackfillRenews ==
  ASSUME TypeOK, RevisionsFollow, NEW a \in Articles, NEW want, NEW mode, Backfill(a, want, mode)
  PROVE  \E t : Renewed(a, t)
  <1> DEFINE t == task[a]
             rev == IF t.status = "none" THEN article[a].rev ELSE t.rev
             s == IF selection[a].rev = article[a].rev THEN selection[a] ELSE NoSelection
             first == NeedsSummary(s, want, mode)
             f == Fresh(t, "pending", rev)
             g == [f EXCEPT !.stage = IF first THEN "generation" ELSE "embedding",
                            !.genProfile = IF first THEN Configured.gen ELSE t.genProfile,
                            !.embProfile = IF NeedsEmbedding(s, want, mode) \/ want = "all"
                                           THEN Configured.emb ELSE t.embProfile]
  <1>1. t \in Task /\ article[a].rev \in Nat /\ rev \in Nat
    BY DEF TypeOK, ArticleRow, Task
  <1>2. t.rev <= rev /\ rev <= article[a].rev
    BY <1>1 DEF RevisionsFollow, Task
  <1>3. /\ f \in Task /\ f.gen = t.gen + 1 /\ f.rev = rev /\ f.status = "pending"
        /\ f.token = 0 /\ Drawn(f) = 0 /\ f.repairUsed = FALSE
    <2> HIDE DEF t, rev
    <2> QED BY <1>1, FreshTask, ZenonT(40)
  <1>4. Configured.gen \in Nat /\ Configured.emb \in Nat
    BY DeploymentTypes DEF TypeOK, Configured
  <1>5. /\ task' = [task EXCEPT ![a] = g] /\ ~Locked(a)
        /\ UNCHANGED <<article, selection, workers, deployed, repairs, faults>>
    BY DEF Backfill
  <1> HIDE DEF f
  <1>6. /\ g \in Task /\ g.gen = f.gen /\ g.rev = f.rev /\ g.status = f.status
        /\ g.token = f.token /\ Drawn(g) = Drawn(f) /\ g.repairUsed = f.repairUsed
    BY <1>1, <1>3, <1>4 DEF Task, Stages, Drawn
  <1> HIDE DEF g
  <1> QED BY <1>2, <1>3, <1>5, <1>6 DEF Renewed

-----------------------------------------------------------------------------
(* Every step keeps the invariant.                                         *)

LEMMA WriteKeeps ==
  ASSUME IInv, NEW a \in Articles, WriteArticle(a)
  PROVE  IInv'
  <1>1. PICK after \in NextRows(a, article[a]) : article' = [article EXCEPT ![a] = after]
    BY DEF WriteArticle
  <1>2. after \in ArticleRow /\ after.status # "absent" /\ after.rev >= article[a].rev
    BY RowsWritten DEF IInv, TypeOK, RevisionsFollow
  <1>3. TypeOK'
    BY <1>1, <1>2 DEF IInv, TypeOK, WriteArticle
  <1>4. Tokens' /\ RepairReserved' /\ RepairOnce'
    BY DEF IInv, WriteArticle, Tokens, SameLease, Drawn, RepairReserved, RepairOnce
  <1>5. RevisionsFollow'
    <2>1. \A b \in Articles : task[b].rev \in Nat /\ article[b].rev \in Nat /\ after.rev \in Nat
      BY <1>2 DEF IInv, TypeOK, Task, ArticleRow
    <2> QED BY <1>1, <1>2, <2>1 DEF IInv, TypeOK, RevisionsFollow, WriteArticle
  <1>6. SavingIsFenced' /\ ReadIsCurrent' /\ Complete'
    BY DEF IInv, WriteArticle, SavingIsFenced, Fenced, HasLease, ReadIsCurrent, Complete
  <1> QED BY <1>3, <1>4, <1>5, <1>6 DEF IInv

LEMMA RenewedKeeps ==
  ASSUME IInv, NEW a \in Articles, NEW t, Renewed(a, t)
  PROVE  IInv'
  <1>1. /\ \A b \in Articles : task'[b] = IF b = a THEN t ELSE task[b]
        /\ t \in Task /\ t.gen = task[a].gen + 1 /\ t.token = 0 /\ Drawn(t) = 0
        /\ t.repairUsed = FALSE /\ t.status \in {"pending", "canceled"}
        /\ task[a].rev <= t.rev /\ t.rev <= article[a].rev
        /\ \A w \in workers : w.article = a => w.phase # "saving"
        /\ UNCHANGED <<article, selection, workers, deployed, repairs, faults>>
    BY DEF Renewed, IInv, TypeOK, Locked
  <1>2. \A b \in Articles : task[b] \in Task /\ task[b].gen \in Nat /\ t.gen \in Nat
    BY <1>1 DEF IInv, TypeOK, Task
  <1>3. \A w \in workers : w \in Worker /\ w.article \in Articles /\ w.gen \in Nat /\ w.token \in Nat
    BY DEF IInv, TypeOK, Worker
  <1>4. \A w \in workers : w.article = a => w.gen < t.gen
    BY <1>1, <1>2, <1>3 DEF IInv, Tokens
  <1>5. TypeOK'
    <2>1. task' \in [Articles -> Task]
      BY <1>1 DEF Renewed, IInv, TypeOK
    <2> QED BY <1>1, <2>1 DEF IInv, TypeOK
  <1>6. Tokens'
    BY <1>1, <1>2, <1>3, <1>4 DEF IInv, Tokens, SameLease
  <1>7. RepairReserved' /\ RepairOnce'
    <2>1. \A r \in repairs : r.article \in Articles /\ r.gen \in Nat
      BY DEF IInv, TypeOK
    <2> QED BY <1>1, <1>2, <1>3, <1>4, <2>1 DEF IInv, RepairReserved, RepairOnce
  <1>8. RevisionsFollow'
    <2>1. \A b \in Articles : selection[b].rev \in Nat /\ task[b].rev \in Nat
      BY <1>2 DEF IInv, TypeOK, Selection, Task
    <2>2. t.rev \in Nat
      BY <1>1 DEF Task
    <2> QED BY <1>1, <2>1, <2>2 DEF IInv, RevisionsFollow
  <1>9. SavingIsFenced'
    BY <1>1, <1>3 DEF IInv, SavingIsFenced, Fenced, HasLease
  <1>10. ReadIsCurrent'
    BY <1>1, <1>2, <1>3, <1>4 DEF IInv, ReadIsCurrent, HasLease
  <1>11. Complete'
    BY <1>1 DEF IInv, Complete
  <1> QED BY <1>5, <1>6, <1>7, <1>8, <1>9, <1>10, <1>11 DEF IInv

LEMMA ClaimKeeps ==
  ASSUME IInv, NEW a \in Articles, Claim(a)
  PROVE  IInv'
  <1> DEFINE t == Claimed(task[a])
             first == t.stage = "generation"
             v == [article |-> a, gen |-> t.gen, token |-> t.token, stage |-> t.stage,
                   attempt |-> IF first THEN t.genAttempt ELSE t.embAttempt, rev |-> t.rev,
                   genProfile |-> Configured.gen, embProfile |-> Configured.emb,
                   repairUsed |-> t.repairUsed, made |-> NoSummary,
                   phase |-> IF first THEN "call" ELSE "read"]
  <1>1. /\ \A b \in Articles : task'[b] = IF b = a THEN t ELSE task[b]
        /\ task' = [task EXCEPT ![a] = t]
        /\ workers' = workers \cup {v}
        /\ UNCHANGED <<article, selection, deployed, repairs, faults>>
        /\ \A w \in workers : w.article = a => w.phase # "saving"
    BY DEF Claim, Claimable, Locked, IInv, TypeOK
  <1>2. /\ t \in Task /\ t.gen = task[a].gen /\ t.rev = task[a].rev /\ t.stage = task[a].stage
        /\ t.status = "running" /\ t.repairUsed = task[a].repairUsed
        /\ t.token = Drawn(task[a]) + 1 /\ Drawn(t) = Drawn(task[a]) + 1
    <2>1. PICK x \in Task : x = task[a]
      BY DEF IInv, TypeOK
    <2> QED BY <2>1, ClaimedTask DEF IInv
  <1>3. \A b \in Articles : task[b].gen \in Nat /\ Drawn(task[b]) \in Nat /\ task[b].token \in Nat
    BY DEF IInv, TypeOK, Task, Drawn
  <1>4. \A w \in workers : w \in Worker /\ w.article \in Articles /\ w.gen \in Nat /\ w.token \in Nat
    BY DEF IInv, TypeOK, Worker
  <1>5. v \in Worker
    <2>1. Configured.gen \in Nat /\ Configured.emb \in Nat
      BY DeploymentTypes DEF IInv, TypeOK, Configured
    <2> HIDE DEF t
    <2> QED BY <1>2, <2>1, SelectionTypes DEF Task, Worker
  <1>6. v.article = a /\ v.gen = t.gen /\ v.token = t.token /\ v.made = NoSummary
        /\ v.phase \in {"call", "read"}
    OBVIOUS
  <1> HIDE DEF t, v
  <1>7. \A w \in workers : w.article = a /\ w.gen = t.gen => w.token # t.token
    BY <1>2, <1>3, <1>4 DEF IInv, Tokens
  <1>8. TypeOK'
    <2>1. task' \in [Articles -> Task] /\ workers' \subseteq Worker
      BY <1>1, <1>2, <1>5 DEF IInv, TypeOK
    <2>2. t.token # 0
      BY <1>2, <1>3
    <2> QED BY <1>1, <1>2, <2>1, <2>2 DEF IInv, TypeOK
  <1>9. Tokens'
    BY <1>1, <1>2, <1>3, <1>4, <1>6, <1>7 DEF IInv, Tokens, SameLease
  <1>10. RepairReserved' /\ RepairOnce'
    <2>1. \A r \in repairs : r.article \in Articles
      BY DEF IInv, TypeOK
    <2> QED BY <1>1, <1>2, <1>4, <1>6, <2>1 DEF IInv, RepairReserved, RepairOnce
  <1>11. RevisionsFollow'
    BY <1>1, <1>2 DEF IInv, RevisionsFollow
  <1>12. SavingIsFenced'
    BY <1>1, <1>4, <1>6 DEF IInv, SavingIsFenced, Fenced, HasLease
  <1>13. ReadIsCurrent'
    BY <1>1, <1>2, <1>4, <1>6, <1>7 DEF IInv, ReadIsCurrent, HasLease
  <1>14. Complete'
    BY <1>1, <1>2 DEF IInv, Complete
  <1> QED BY <1>8, <1>9, <1>10, <1>11, <1>12, <1>13, <1>14 DEF IInv

(* An executor that goes away, or gives up what it does no longer hold.    *)
LEMMA LeaveKeeps ==
  ASSUME IInv, UNCHANGED <<article, task, selection, deployed, repairs>>,
         workers' \subseteq workers, faults' \in 0..MaxFaults
  PROVE  IInv'
  <1>1. TypeOK'
    BY DEF IInv, TypeOK
  <1>2. Tokens' /\ RepairReserved' /\ RepairOnce' /\ RevisionsFollow' /\ Complete'
    BY DEF IInv, Tokens, SameLease, Drawn, RepairReserved, RepairOnce, RevisionsFollow, Complete
  <1>3. SavingIsFenced' /\ ReadIsCurrent'
    BY DEF IInv, SavingIsFenced, Fenced, HasLease, ReadIsCurrent
  <1> QED BY <1>1, <1>2, <1>3 DEF IInv

(* An executor that goes on with its lease, be it still the task's or not. *)
Goes(w, v) ==
  /\ workers' = (workers \ {w}) \cup {v}
  /\ v \in Worker /\ SameLease(v, w) /\ v.stage = w.stage /\ v.rev = w.rev
  /\ v.genProfile = w.genProfile /\ v.embProfile = w.embProfile

LEMMA GoesKeepsTokens ==
  ASSUME IInv, NEW w \in workers, NEW v, Goes(w, v),
         task' \in [Articles -> Task],
         \A a \in Articles : /\ task'[a].gen = task[a].gen /\ task'[a].token = task[a].token
                             /\ Drawn(task'[a]) = Drawn(task[a])
  PROVE  Tokens'
  <1>1. \A x \in workers : x \in Worker /\ x.article \in Articles
    BY DEF IInv, TypeOK, Worker
  <1>2. v.article = w.article /\ v.gen = w.gen /\ v.token = w.token
    BY DEF Goes, SameLease
  <1> QED BY <1>1, <1>2 DEF IInv, Tokens, Goes, SameLease

LEMMA ReadSummaryKeeps ==
  ASSUME IInv, NEW w \in workers, ReadSummary(w)
  PROVE  IInv'
  <1> DEFINE s == selection[w.article]
             found == s.rev = w.rev /\ Public(article[w.article]) /\ article[w.article].rev = w.rev
             made == IF found THEN s.summary ELSE NoSummary
             v == [w EXCEPT !.phase = "call", !.made = made]
  <1>1. w \in Worker /\ w.article \in Articles /\ made \in Summary
    BY SelectionTypes DEF IInv, TypeOK, Worker, Selection
  <1>2. made # NoSummary => s.rev = w.rev /\ s.summary = made
    OBVIOUS
  <1>3. /\ workers' = (workers \ {w}) \cup {v}
        /\ UNCHANGED <<article, task, selection, deployed, repairs, faults>>
    BY DEF ReadSummary, Become
  <1> HIDE DEF made
  <1>4. v \in Worker /\ v.phase = "call" /\ v.made = made /\ v.stage = w.stage /\ v.rev = w.rev
        /\ v.article = w.article /\ v.gen = w.gen /\ v.token = w.token
        /\ v.genProfile = w.genProfile /\ v.embProfile = w.embProfile
    BY <1>1 DEF Worker
  <1> HIDE DEF v
  <1>5. Goes(w, v)
    BY <1>3, <1>4 DEF Goes, SameLease
  <1>6. TypeOK'
    BY <1>3, <1>4 DEF IInv, TypeOK
  <1>7. Tokens'
    BY <1>3, <1>5, GoesKeepsTokens DEF IInv, TypeOK
  <1>8. RepairReserved' /\ RepairOnce' /\ RevisionsFollow' /\ Complete'
    BY <1>3, <1>4 DEF IInv, RepairReserved, RepairOnce, RevisionsFollow, Complete
  <1>9. SavingIsFenced' /\ ReadIsCurrent'
    BY <1>2, <1>3, <1>4 DEF IInv, SavingIsFenced, Fenced, HasLease, ReadIsCurrent
  <1> QED BY <1>6, <1>7, <1>8, <1>9 DEF IInv

LEMMA RepairKeeps ==
  ASSUME IInv, NEW w \in workers, Repair(w)
  PROVE  IInv'
  <1> DEFINE v == [w EXCEPT !.phase = "repaired"]
             r == [article |-> w.article, gen |-> w.gen, token |-> w.token]
  <1>1. w \in Worker /\ w.article \in Articles /\ w.gen \in Nat /\ w.token \in Nat
    BY DEF IInv, TypeOK, Worker
  <1>2. /\ workers' = (workers \ {w}) \cup {v} /\ repairs' = repairs \cup {r} /\ w.phase = "repair"
        /\ UNCHANGED <<article, task, selection, deployed, faults>>
    BY DEF Repair, Become
  <1>3. v \in Worker /\ v.phase = "repaired" /\ v.stage = w.stage /\ v.rev = w.rev
        /\ v.article = w.article /\ v.gen = w.gen /\ v.token = w.token
        /\ v.genProfile = w.genProfile /\ v.embProfile = w.embProfile
    BY <1>1 DEF Worker
  <1>4. r \in [article : Articles, gen : Nat, token : Nat] /\ r.article = w.article /\ r.gen = w.gen
    BY <1>1
  <1> HIDE DEF v, r
  <1>5. Goes(w, v)
    BY <1>2, <1>3 DEF Goes, SameLease
  <1>6. TypeOK'
    BY <1>2, <1>3, <1>4 DEF IInv, TypeOK
  <1>7. Tokens'
    BY <1>2, <1>5, GoesKeepsTokens DEF IInv, TypeOK
  <1>8. RepairReserved'
    <2>1. w.gen <= task[w.article].gen
      BY DEF IInv, Tokens
    <2>2. \A x \in repairs' : x \in repairs \/ x = r
      BY <1>2
    <2>3. \A x \in workers' : x.phase = "repair" => x \in workers /\ x # w
      BY <1>2, <1>3
    <2>4. \A x \in repairs' : /\ x.gen <= task[x.article].gen
                              /\ x.gen = task[x.article].gen => task[x.article].repairUsed
      BY <1>2, <1>4, <2>1, <2>2 DEF IInv, RepairReserved
    <2>5. \A x \in workers' : x.phase = "repair" =>
            /\ x.gen = task[x.article].gen => task[x.article].repairUsed
            /\ \A q \in repairs' : ~(q.article = x.article /\ q.gen = x.gen)
      BY <1>2, <1>4, <2>2, <2>3 DEF IInv, RepairReserved
    <2>6. \A x, y \in workers' : x.phase = "repair" /\ y.phase = "repair"
                                  /\ x.article = y.article /\ x.gen = y.gen => x = y
      BY <2>3 DEF IInv, RepairReserved
    <2> QED BY <1>2, <2>4, <2>5, <2>6 DEF RepairReserved
  <1>9. RepairOnce'
    BY <1>2, <1>4 DEF IInv, RepairReserved, RepairOnce
  <1>10. RevisionsFollow' /\ Complete'
    BY <1>2 DEF IInv, RevisionsFollow, Complete
  <1>11. SavingIsFenced' /\ ReadIsCurrent'
    BY <1>2, <1>3 DEF IInv, SavingIsFenced, Fenced, HasLease, ReadIsCurrent
  <1> QED BY <1>6, <1>7, <1>8, <1>9, <1>10, <1>11 DEF IInv

LEMMA ReserveKeeps ==
  ASSUME IInv, NEW w \in workers, ReserveRepair(w)
  PROVE  IInv'
  <1> DEFINE a == w.article
             t == [task[a] EXCEPT !.repairUsed = TRUE]
             v == [w EXCEPT !.phase = "repair"]
  <1>1. w \in Worker /\ a \in Articles /\ task[a] \in Task
    BY DEF IInv, TypeOK, Worker
  <1>2. CASE ~(Holds(w) /\ ~task[a].repairUsed)
    <2>1. /\ UNCHANGED <<article, task, selection, deployed, repairs, faults>>
          /\ workers' \subseteq workers
      BY <1>2 DEF ReserveRepair, Leave
    <2> QED BY <2>1, LeaveKeeps DEF IInv, TypeOK
  <1>3. CASE Holds(w) /\ ~task[a].repairUsed
    <2>1. /\ \A b \in Articles : task'[b] = IF b = a THEN t ELSE task[b]
          /\ task' = [task EXCEPT ![a] = t]
          /\ workers' = (workers \ {w}) \cup {v}
          /\ UNCHANGED <<article, selection, deployed, repairs, faults>>
          /\ w.stage = "generation" /\ w.gen = task[a].gen
      BY <1>1, <1>3 DEF ReserveRepair, Become, Holds, IInv, TypeOK
    <2>2. /\ t \in Task /\ t.gen = task[a].gen /\ t.token = task[a].token /\ t.repairUsed = TRUE
          /\ t.status = task[a].status /\ t.stage = task[a].stage /\ t.rev = task[a].rev
          /\ t.genProfile = task[a].genProfile /\ t.embProfile = task[a].embProfile
          /\ Drawn(t) = Drawn(task[a])
      BY <1>1 DEF Task, Drawn
    <2>3. v \in Worker /\ v.phase = "repair" /\ v.stage = w.stage /\ v.rev = w.rev
          /\ v.article = a /\ v.gen = w.gen /\ v.token = w.token
          /\ v.genProfile = w.genProfile /\ v.embProfile = w.embProfile
      BY <1>1 DEF Worker
    <2> HIDE DEF t, v
    <2>4. Goes(w, v)
      BY <2>1, <2>3 DEF Goes, SameLease
    <2>5. TypeOK'
      <3>1. task' \in [Articles -> Task] /\ workers' \subseteq Worker
        BY <2>1, <2>2, <2>3 DEF IInv, TypeOK
      <3>2. \A b \in Articles : task'[b].status = task[b].status /\ task'[b].token = task[b].token
        BY <2>1, <2>2
      <3> QED BY <2>1, <3>1, <3>2 DEF IInv, TypeOK
    <2>6. Tokens'
      BY <1>1, <2>1, <2>2, <2>4, <2>5, GoesKeepsTokens DEF TypeOK
    <2>7. RepairReserved'
      <3>1. \A r \in repairs : r.article \in Articles
        BY DEF IInv, TypeOK
      <3>2. \A x \in workers : x.article \in Articles
        BY DEF IInv, TypeOK, Worker
      <3>3. \A r \in repairs : ~(r.article = a /\ r.gen = w.gen)
        BY <1>3, <2>1 DEF IInv, RepairReserved
      <3>4. \A x \in workers : x.phase = "repair" => ~(x.article = a /\ x.gen = w.gen)
        BY <1>3, <2>1 DEF IInv, RepairReserved
      <3> QED BY <2>1, <2>2, <2>3, <3>1, <3>2, <3>3, <3>4 DEF IInv, RepairReserved
    <2>8. RepairOnce' /\ RevisionsFollow' /\ Complete'
      BY <2>1, <2>2 DEF IInv, RepairOnce, RevisionsFollow, Complete
    <2>9. SavingIsFenced' /\ ReadIsCurrent'
      <3>1. \A x \in workers' : x = v \/ x \in workers
        BY <2>1
      <3>2. \A x \in workers : x.article \in Articles /\ (HasLease(x)' <=> HasLease(x))
        BY <2>1, <2>2 DEF IInv, TypeOK, Worker, HasLease
      <3>3. \A x \in workers : x.phase = "saving" => Fenced(x)'
        BY <2>1, <2>2, <3>2 DEF IInv, SavingIsFenced, Fenced
      <3> QED BY <2>1, <2>3, <3>1, <3>2, <3>3 DEF IInv, SavingIsFenced, ReadIsCurrent
    <2> QED BY <2>5, <2>6, <2>7, <2>8, <2>9 DEF IInv
  <1> QED BY <1>2, <1>3

LEMMA SaveKeeps ==
  ASSUME IInv, NEW w \in workers, Save(w)
  PROVE  IInv'
  <1>1. w \in Worker /\ w.article \in Articles
    BY DEF IInv, TypeOK, Worker
  <1>2. PICK made \in Products(w) :
          IF Holds(w) THEN Become(w, [w EXCEPT !.phase = "saving", !.made = made]) ELSE Leave(w)
    BY DEF Save
  <1>3. /\ UNCHANGED <<article, task, selection, deployed, repairs, faults>>
        /\ w.phase \in {"call", "repaired"}
    BY DEF Save
  <1>4. CASE ~Holds(w)
    <2>1. workers' \subseteq workers
      BY <1>2, <1>4 DEF Leave
    <2> QED BY <1>3, <2>1, LeaveKeeps DEF IInv, TypeOK
  <1>5. CASE Holds(w)
    <2> DEFINE v == [w EXCEPT !.phase = "saving", !.made = made]
    <2>1. /\ made \in Summary
          /\ w.stage = "generation" => made.rev = w.rev /\ made.profile = w.genProfile
          /\ w.stage = "embedding" => made = w.made /\ made # NoSummary
      BY <1>1, ProductTypes
    <2>2. workers' = (workers \ {w}) \cup {v}
      BY <1>2, <1>5 DEF Become
    <2>3. v \in Worker /\ v.phase = "saving" /\ v.made = made /\ v.stage = w.stage /\ v.rev = w.rev
          /\ v.article = w.article /\ v.gen = w.gen /\ v.token = w.token
          /\ v.genProfile = w.genProfile /\ v.embProfile = w.embProfile
      BY <1>1, <2>1 DEF Worker
    <2> HIDE DEF v
    <2>4. Goes(w, v)
      BY <2>2, <2>3 DEF Goes, SameLease
    <2>5. TypeOK'
      BY <1>3, <2>2, <2>3 DEF IInv, TypeOK
    <2>6. Tokens'
      BY <1>3, <2>4, GoesKeepsTokens DEF IInv, TypeOK
    <2>7. RepairReserved' /\ RepairOnce' /\ RevisionsFollow' /\ Complete'
      BY <1>3, <2>2, <2>3 DEF IInv, RepairReserved, RepairOnce, RevisionsFollow, Complete
    <2>8. Fenced(v)
      <3>1. w.stage \in Stages
        BY <1>1 DEF Worker
      <3> QED BY <1>5, <2>1, <2>3, <3>1 DEF Holds, Fenced, HasLease, Stages
    <2>9. SavingIsFenced'
      BY <1>3, <2>2, <2>8 DEF IInv, SavingIsFenced, Fenced, HasLease
    <2>10. ReadIsCurrent'
      <3>1. w.phase = "repaired" => w.stage = "generation"
        BY DEF IInv, ReadIsCurrent
      <3>2. w.stage = "embedding" /\ HasLease(w) =>
              selection[w.article].rev = w.rev /\ selection[w.article].summary = made
        BY <1>3, <2>1, <3>1 DEF IInv, ReadIsCurrent
      <3> QED BY <1>3, <2>2, <2>3, <3>2 DEF IInv, ReadIsCurrent, HasLease
    <2> QED BY <2>5, <2>6, <2>7, <2>9, <2>10 DEF IInv
  <1> QED BY <1>4, <1>5

(* The holder settles its task and lets the lease go: nobody holds it now. *)
Settles(w, t, s) ==
  /\ HasLease(w) /\ workers' = workers \ {w}
  /\ task' = [task EXCEPT ![w.article] = t]
  /\ t \in Task /\ t.status # "running" /\ t.token = 0
  /\ t.gen = task[w.article].gen /\ t.rev = task[w.article].rev
  /\ Drawn(t) = Drawn(task[w.article]) /\ t.repairUsed = task[w.article].repairUsed
  /\ selection' = [selection EXCEPT ![w.article] = s]
  /\ s \in Selection /\ s.rev <= t.rev /\ s.summary.rev = s.rev
  /\ t.status = "succeeded" =>
       /\ s.rev = t.rev
       /\ IF t.stage = "generation" THEN s.summary.profile = t.genProfile
          ELSE s.embedding = [base |-> s.summary, profile |-> t.embProfile]
  /\ UNCHANGED <<article, deployed, repairs, faults>>

LEMMA SettlesKeeps ==
  ASSUME IInv, NEW w \in workers, NEW t, NEW s, Settles(w, t, s)
  PROVE  IInv'
  <1> DEFINE a == w.article
  <1>1. \A x \in workers : x \in Worker /\ x.article \in Articles /\ x.gen \in Nat /\ x.token \in Nat
    BY DEF IInv, TypeOK, Worker
  <1>2. /\ \A b \in Articles : task'[b] = IF b = a THEN t ELSE task[b]
        /\ \A b \in Articles : selection'[b] = IF b = a THEN s ELSE selection[b]
    BY DEF Settles, IInv, TypeOK
  <1>3. task' \in [Articles -> Task] /\ selection' \in [Articles -> Selection]
    BY DEF Settles, IInv, TypeOK
  <1>4. \A x \in workers' : x \in workers /\ x # w
    BY DEF Settles
  <1>5. \A x \in workers : x.article = a /\ HasLease(x) => x = w
    BY ZenonT(60) DEF Settles, HasLease, IInv, Tokens, SameLease
  <1>6. \A x \in workers' : HasLease(x)' => HasLease(x) /\ x.article # a
    BY <1>1, <1>2, <1>4 DEF Settles, HasLease, IInv, Tokens
  <1>7. TypeOK'
    BY <1>2, <1>3, <1>4 DEF Settles, IInv, TypeOK
  <1>8. Tokens'
    <2>1. \A b \in Articles : Drawn(task[b]) \in Nat
      BY DEF IInv, TypeOK, Task, Drawn
    <2> QED BY <1>1, <1>2, <1>4, <2>1 DEF Settles, IInv, Tokens, SameLease
  <1>9. RepairReserved' /\ RepairOnce'
    <2>1. \A r \in repairs : r.article \in Articles
      BY DEF IInv, TypeOK
    <2> QED BY <1>1, <1>2, <1>4, <2>1 DEF Settles, IInv, RepairReserved, RepairOnce
  <1>10. RevisionsFollow'
    BY <1>2 DEF Settles, IInv, RevisionsFollow
  <1>11. SavingIsFenced'
    <2> SUFFICES ASSUME NEW x \in workers', x.phase = "saving"
                 PROVE  Fenced(x)'
      BY DEF SavingIsFenced
    <2>1. Fenced(x) /\ HasLease(x) /\ x.article \in Articles
      BY <1>1, <1>4 DEF IInv, SavingIsFenced, Fenced
    <2>2. x.article # a
      BY <1>4, <1>5, <2>1
    <2> QED BY <1>2, <2>1, <2>2 DEF Fenced, HasLease
  <1>12. ReadIsCurrent'
    BY <1>1, <1>2, <1>4, <1>6 DEF IInv, ReadIsCurrent
  <1>13. Complete'
    BY <1>2 DEF Settles, IInv, Complete
  <1> QED BY <1>7, <1>8, <1>9, <1>10, <1>11, <1>12, <1>13 DEF IInv

LEMMA CommitGenerationSettles ==
  ASSUME IInv, NEW w \in workers, CommitGeneration(w)
  PROVE  \E t, s : /\ Settles(w, t, s)
                   /\ t.status \in {"pending", "succeeded"}
                   /\ s.rev = w.rev /\ s.summary.rev = w.rev /\ s.summary.profile = w.genProfile
  <1> DEFINE a == w.article
             kept == IF selection[a].rev = w.rev THEN selection[a].embedding ELSE NoEmbedding
             s == [rev |-> w.rev, summary |-> w.made, embedding |-> kept]
             t == IF w.embProfile # 0 THEN HandedOver(task[a]) ELSE Released(task[a], "succeeded")
  <1>1. w \in Worker /\ a \in Articles /\ task[a] \in Task /\ selection[a] \in Selection
    BY DEF IInv, TypeOK, Worker
  <1>2. /\ HasLease(w) /\ task[a].stage = "generation" /\ task[a].rev = w.rev
        /\ task[a].genProfile = w.genProfile
        /\ w.made.rev = w.rev /\ w.made.profile = w.genProfile
    BY DEF CommitGeneration, IInv, SavingIsFenced, Fenced
  <1>3. /\ selection' = [selection EXCEPT ![a] = s] /\ task' = [task EXCEPT ![a] = t]
        /\ workers' = workers \ {w}
        /\ UNCHANGED <<article, deployed, repairs, faults>>
    BY <1>2 DEF CommitGeneration, HasLease, Leave
  <1>4. s \in Selection /\ s.rev = w.rev /\ s.summary.rev = w.rev /\ s.summary.profile = w.genProfile
    BY <1>1, <1>2, SelectionTypes DEF Selection, Worker
  <1>5. /\ t \in Task /\ t.status # "running" /\ t.token = 0 /\ t.gen = task[a].gen
        /\ t.rev = task[a].rev /\ Drawn(t) = Drawn(task[a]) /\ t.repairUsed = task[a].repairUsed
        /\ t.status \in {"pending", "succeeded"}
        /\ t.status = "succeeded" => t.stage = "generation" /\ t.genProfile = w.genProfile
    <2>1. PICK x \in Task : x = task[a]
      BY <1>1
    <2>2. CASE w.embProfile # 0
      BY <2>1, <2>2, HandedOverTask
    <2>3. CASE w.embProfile = 0
      BY <1>2, <2>1, <2>3, ReleasedTask DEF TaskStatuses
    <2> QED BY <2>2, <2>3
  <1> HIDE DEF s, t
  <1>6. s.rev <= t.rev
    BY <1>1, <1>2, <1>4, <1>5 DEF Worker
  <1>7. Settles(w, t, s)
    BY <1>2, <1>3, <1>4, <1>5, <1>6 DEF Settles
  <1> QED BY <1>4, <1>5, <1>7

LEMMA CommitEmbeddingSettles ==
  ASSUME IInv, NEW w \in workers, CommitEmbedding(w), selection[w.article].rev = w.rev
  PROVE  \E t, s : /\ Settles(w, t, s)
                   /\ s.rev = w.rev /\ s.summary = selection[w.article].summary
  <1> DEFINE a == w.article
             s == [selection[a] EXCEPT !.embedding = [base |-> w.made, profile |-> w.embProfile]]
             t == Released(task[a], "succeeded")
  <1>1. w \in Worker /\ a \in Articles /\ task[a] \in Task /\ selection[a] \in Selection
    BY DEF IInv, TypeOK, Worker
  <1>2. /\ HasLease(w) /\ task[a].stage = "embedding" /\ task[a].rev = w.rev
        /\ task[a].embProfile = w.embProfile /\ selection[a].summary = w.made
    BY DEF CommitEmbedding, IInv, SavingIsFenced, Fenced, ReadIsCurrent
  <1>3. /\ selection' = [selection EXCEPT ![a] = s] /\ task' = [task EXCEPT ![a] = t]
        /\ workers' = workers \ {w}
        /\ UNCHANGED <<article, deployed, repairs, faults>>
    BY <1>1, <1>2 DEF CommitEmbedding, HasLease, Leave, IInv, TypeOK
  <1>4. /\ s \in Selection /\ s.rev = w.rev /\ s.summary = selection[a].summary
        /\ s.embedding = [base |-> w.made, profile |-> w.embProfile]
    <2>1. [base |-> w.made, profile |-> w.embProfile] \in Embedding
      BY <1>1 DEF Worker, Embedding
    <2> QED BY <1>1, <2>1 DEF Selection
  <1>5. /\ t \in Task /\ t.status = "succeeded" /\ t.token = 0 /\ t.gen = task[a].gen
        /\ t.rev = task[a].rev /\ Drawn(t) = Drawn(task[a]) /\ t.repairUsed = task[a].repairUsed
        /\ t.stage = "embedding" /\ t.embProfile = w.embProfile
    <2>1. PICK x \in Task : x = task[a]
      BY <1>1
    <2> QED BY <1>2, <2>1, ReleasedTask DEF TaskStatuses
  <1> HIDE DEF s, t
  <1>6. s.rev <= t.rev /\ s.summary.rev = s.rev
    BY <1>1, <1>2, <1>4, <1>5 DEF Worker, IInv, RevisionsFollow
  <1>7. Settles(w, t, s)
    BY <1>2, <1>3, <1>4, <1>5, <1>6 DEF Settles
  <1> QED BY <1>4, <1>7

LEMMA FailSettles ==
  ASSUME IInv, NEW w \in workers, Fail(w), Holds(w)
  PROVE  \E t : Settles(w, t, selection[w.article])
  <1> DEFINE a == w.article
  <1>1. w \in Worker /\ a \in Articles /\ task[a] \in Task /\ selection[a] \in Selection
    BY DEF IInv, TypeOK, Worker
  <1>2. PICK status \in Failures(w) : task' = [task EXCEPT ![a] = Released(task[a], status)]
    BY DEF Fail
  <1> DEFINE t == Released(task[a], status)
  <1>3. status \in {"failed", "retry_wait"}
    BY DEF Failures
  <1>4. /\ t \in Task /\ t.status = status /\ t.token = 0 /\ t.gen = task[a].gen
        /\ t.rev = task[a].rev /\ Drawn(t) = Drawn(task[a]) /\ t.repairUsed = task[a].repairUsed
    <2>1. PICK x \in Task : x = task[a]
      BY <1>1
    <2> QED BY <1>3, <2>1, ReleasedTask DEF TaskStatuses
  <1>5. /\ task' = [task EXCEPT ![a] = t] /\ HasLease(w) /\ workers' = workers \ {w}
        /\ selection' = [selection EXCEPT ![a] = selection[a]]
        /\ UNCHANGED <<article, deployed, repairs, faults>>
    BY <1>2 DEF Fail, Leave, Holds, HasLease, IInv, TypeOK
  <1> HIDE DEF t
  <1>6. selection[a].rev <= t.rev /\ selection[a].summary.rev = selection[a].rev
    BY <1>1, <1>4 DEF IInv, RevisionsFollow
  <1>7. Settles(w, t, selection[a])
    BY <1>1, <1>3, <1>4, <1>5, <1>6 DEF Settles
  <1> QED BY <1>7

LEMMA ExpireKeeps ==
  ASSUME IInv, NEW a \in Articles, ExpireLease(a), UNCHANGED faults \/ Fault
  PROVE  IInv'
  <1> DEFINE t == [task[a] EXCEPT !.expired = TRUE]
  <1>1. /\ \A b \in Articles : task'[b] = IF b = a THEN t ELSE task[b]
        /\ task' = [task EXCEPT ![a] = t]
        /\ UNCHANGED <<article, selection, workers, deployed, repairs>>
    BY DEF ExpireLease, IInv, TypeOK
  <1>2. /\ t \in Task /\ t.gen = task[a].gen /\ t.token = task[a].token
        /\ t.repairUsed = task[a].repairUsed
        /\ t.status = task[a].status /\ t.stage = task[a].stage /\ t.rev = task[a].rev
        /\ t.genProfile = task[a].genProfile /\ t.embProfile = task[a].embProfile
        /\ Drawn(t) = Drawn(task[a])
    BY DEF IInv, TypeOK, Task, Drawn
  <1> HIDE DEF t
  <1>3. \A w \in workers : w.article \in Articles
    BY DEF IInv, TypeOK, Worker
  <1>4. TypeOK'
    <2>1. task' \in [Articles -> Task] /\ faults' \in 0..MaxFaults
      BY <1>1, <1>2, EnrichmentAssumption DEF IInv, TypeOK, Fault
    <2> QED BY <1>1, <1>2, <2>1 DEF IInv, TypeOK
  <1>5. Tokens'
    BY <1>1, <1>2, <1>3 DEF IInv, Tokens, SameLease
  <1>6. RepairReserved' /\ RepairOnce'
    <2>1. \A r \in repairs : r.article \in Articles
      BY DEF IInv, TypeOK
    <2> QED BY <1>1, <1>2, <1>3, <2>1 DEF IInv, RepairReserved, RepairOnce
  <1>7. RevisionsFollow' /\ Complete'
    BY <1>1, <1>2, SMTT(30) DEF IInv, RevisionsFollow, Complete
  <1>8. SavingIsFenced'
    BY <1>1, <1>2, <1>3 DEF IInv, SavingIsFenced, Fenced, HasLease
  <1>9. ReadIsCurrent'
    BY <1>1, <1>2, <1>3 DEF IInv, ReadIsCurrent, HasLease
  <1> QED BY <1>4, <1>5, <1>6, <1>7, <1>8, <1>9 DEF IInv

LEMMA RedeployKeeps ==
  ASSUME IInv, Redeploy
  PROVE  IInv'
  <1>1. deployed' \in DOMAIN Deployments
    BY DeploymentTypes DEF Redeploy, IInv, TypeOK
  <1>2. TypeOK'
    BY <1>1 DEF Redeploy, IInv, TypeOK
  <1> QED BY <1>2 DEF Redeploy, IInv, Tokens, SameLease, Drawn, RepairReserved, RepairOnce,
                      RevisionsFollow, Complete, SavingIsFenced, Fenced, HasLease, ReadIsCurrent

LEMMA WorkerKeeps ==
  ASSUME IInv, NEW w \in workers, WorkerStep(w) \/ WorkerLost(w)
  PROVE  IInv'
  <1>1. CASE ReadSummary(w) \/ ReserveRepair(w) \/ Repair(w) \/ Save(w)
    BY <1>1, ReadSummaryKeeps, ReserveKeeps, RepairKeeps, SaveKeeps
  <1>2. CASE CommitGeneration(w)
    BY <1>2, CommitGenerationSettles, SettlesKeeps
  <1>3. CASE CommitEmbedding(w)
    <2>1. CASE selection[w.article].rev = w.rev
      BY <1>3, <2>1, CommitEmbeddingSettles, SettlesKeeps
    <2>2. CASE selection[w.article].rev # w.rev
      <3>1. UNCHANGED <<article, task, selection, deployed, repairs, faults>> /\ workers' \subseteq workers
        BY <1>3, <2>2 DEF CommitEmbedding, Leave
      <3> QED BY <3>1, LeaveKeeps DEF IInv, TypeOK
    <2> QED BY <2>1, <2>2
  <1>4. CASE Fail(w)
    <2>1. CASE Holds(w)
      BY <1>4, <2>1, FailSettles, SettlesKeeps
    <2>2. CASE ~Holds(w)
      <3>1. UNCHANGED <<article, task, selection, deployed, repairs, faults>> /\ workers' \subseteq workers
        BY <1>4, <2>2 DEF Fail, Leave
      <3> QED BY <3>1, LeaveKeeps DEF IInv, TypeOK
    <2> QED BY <2>1, <2>2
  <1>5. CASE WorkerLost(w)
    <2>1. /\ UNCHANGED <<article, task, selection, deployed, repairs>>
          /\ workers' \subseteq workers /\ faults' \in 0..MaxFaults
      BY <1>5, EnrichmentAssumption DEF WorkerLost, Leave, Fault, IInv, TypeOK
    <2> QED BY <2>1, LeaveKeeps
  <1> QED BY <1>1, <1>2, <1>3, <1>4, <1>5 DEF WorkerStep

LEMMA StepKeeps ==
  ASSUME IInv, [Next]_vars
  PROVE  IInv'
  <1>1. CASE UNCHANGED vars
    BY <1>1 DEF vars, IInv, TypeOK, Tokens, SameLease, Drawn, RepairReserved, RepairOnce,
                RevisionsFollow, Complete, SavingIsFenced, Fenced, HasLease, ReadIsCurrent
  <1>2. ASSUME NEW a \in Articles,
               \/ WriteArticle(a) \/ Project(a) \/ Claim(a) \/ LeaseExpires(a) \/ LeaseOutlived(a)
               \/ \E want \in Stages \cup {"all"}, mode \in {"missing-only", "outdated-only"} :
                    Backfill(a, want, mode)
        PROVE  IInv'
    <2>1. CASE WriteArticle(a) \/ Claim(a)
      BY <2>1, WriteKeeps, ClaimKeeps
    <2>2. CASE Project(a)
      BY <2>2, ProjectRenews, RenewedKeeps DEF IInv
    <2>3. CASE LeaseExpires(a) \/ LeaseOutlived(a)
      BY <2>3, ExpireKeeps DEF LeaseExpires, LeaseOutlived
    <2>4. ASSUME NEW want, NEW mode, Backfill(a, want, mode)
          PROVE  IInv'
      BY <2>4, BackfillRenews, RenewedKeeps DEF IInv
    <2> QED BY <1>2, <2>1, <2>2, <2>3, <2>4
  <1>3. ASSUME NEW w \in workers, WorkerStep(w) \/ WorkerLost(w)
        PROVE  IInv'
    BY <1>3, WorkerKeeps
  <1>4. CASE Redeploy
    BY <1>4, RedeployKeeps
  <1> QED BY <1>1, <1>2, <1>3, <1>4 DEF Next

LEMMA InitHolds == Init => IInv
  <1> SUFFICES ASSUME Init PROVE IInv
    OBVIOUS
  <1>1. TypeOK
    <2>1. [a \in Articles |-> AbsentArticle] \in [Articles -> ArticleRow]
      BY DEF AbsentArticle, ArticleRow, Statuses, Reasons
    <2>2. 1 \in DOMAIN Deployments /\ 0 \in 0..MaxFaults
      BY DeploymentTypes, EnrichmentAssumption
    <2>3. \A a \in Articles : task[a] = NoTask
      BY DEF Init
    <2>4. NoTask.status # "running" /\ NoTask.token = 0
      BY DEF NoTask
    <2> QED BY <2>1, <2>2, <2>3, <2>4, SelectionTypes DEF Init, TypeOK
  <1>2. RevisionsFollow
    <2>1. AbsentArticle.rev = 0 /\ NoTask.rev = 0 /\ NoSelection.rev = 0 /\ NoSelection.summary.rev = 0
      BY DEF AbsentArticle, NoTask, NoSelection, NoSummary
    <2>2. \A a \in Articles : article[a] = AbsentArticle /\ task[a] = NoTask /\ selection[a] = NoSelection
      BY DEF Init
    <2>3. \A a \in Articles : /\ article[a].rev = 0 /\ task[a].rev = 0
                              /\ selection[a].rev = 0 /\ selection[a].summary.rev = 0
      BY <2>1, <2>2
    <2> SUFFICES ASSUME NEW a \in Articles
                 PROVE  /\ article[a].status = "absent" => article[a].rev = 0
                        /\ task[a].rev <= article[a].rev
                        /\ selection[a].rev <= task[a].rev
                        /\ selection[a].summary.rev = selection[a].rev
      BY DEF RevisionsFollow
    <2> QED BY <2>3
  <1>3. Tokens
    BY DEF Init, Tokens, NoTask, Drawn
  <1>4. RepairReserved /\ RepairOnce /\ SavingIsFenced /\ ReadIsCurrent
    BY DEF Init, RepairReserved, RepairOnce, SavingIsFenced, ReadIsCurrent
  <1>5. Complete
    BY DEF Init, Complete, NoTask
  <1> QED BY <1>1, <1>2, <1>3, <1>4, <1>5 DEF IInv

-----------------------------------------------------------------------------
(* The theorems.                                                           *)

(* Every reachable state is one of the inductive invariant.                *)
THEOREM Invariance == Spec => []IInv
  <1>1. Init => IInv
    BY InitHolds
  <1>2. IInv /\ [Next]_vars => IInv'
    BY StepKeeps
  <1> QED BY <1>1, <1>2, PTL DEF Spec

(* The values of the model are of their types, and a task has a token just  *)
(* while it runs, as async_tasks_lease_check requires.                     *)
THEOREM TypeCorrect == Spec => []TypeOK
  <1>1. IInv => TypeOK
    BY DEF IInv
  <1> QED BY <1>1, Invariance, PTL

(* A generation is repaired at most once, whatever executors crash, retry  *)
(* or outlive their lease between the reservation and the call.            *)
THEOREM RepairsOnce == Spec => []RepairOnce
  <1>1. IInv => RepairOnce
    BY DEF IInv
  <1> QED BY <1>1, Invariance, PTL

(* A task that succeeded for the current revision has its result selected. *)
THEOREM SuccessIsComplete == Spec => []SucceededIsComplete
  <1>1. IInv => SucceededIsComplete
    BY DEF IInv, TypeOK, Complete, RevisionsFollow, SucceededIsComplete
  <1> QED BY <1>1, Invariance, PTL

-----------------------------------------------------------------------------
(* What a step does to the selection, and the profiles behind it.          *)

LEMMA WorkerMoves ==
  ASSUME IInv, NEW w \in workers, WorkerStep(w) \/ WorkerLost(w)
  PROVE  /\ deployed' = deployed
         /\ \/ /\ workers' \subseteq workers /\ UNCHANGED <<task, selection>>
            \/ /\ \E v : Goes(w, v)
               /\ UNCHANGED selection
               /\ \A a \in Articles : task'[a].gen = task[a].gen /\ task'[a].token = task[a].token
            \/ \E t, s : /\ Settles(w, t, s) /\ s.rev >= selection[w.article].rev
                         /\ \/ s.summary = selection[w.article].summary
                            \/ w.stage = "generation" /\ s.summary.profile = w.genProfile
  <1>1. w \in Worker /\ w.article \in Articles /\ task[w.article] \in Task
        /\ selection[w.article] \in Selection
    BY DEF IInv, TypeOK, Worker
  <1>2. ASSUME NEW phase \in {"read", "call", "repair", "repaired", "saving"}, NEW made \in Summary,
               Become(w, [w EXCEPT !.phase = phase, !.made = made])
        PROVE  \E v : Goes(w, v)
    <2> DEFINE v == [w EXCEPT !.phase = phase, !.made = made]
    <2>1. v \in Worker /\ v.stage = w.stage /\ v.rev = w.rev
          /\ v.article = w.article /\ v.gen = w.gen /\ v.token = w.token
          /\ v.genProfile = w.genProfile /\ v.embProfile = w.embProfile
      BY <1>1 DEF Worker
    <2>2. workers' = (workers \ {w}) \cup {v}
      BY <1>2 DEF Become
    <2> HIDE DEF v
    <2>3. Goes(w, v)
      BY <2>1, <2>2 DEF Goes, SameLease
    <2> QED BY <2>3
  <1>3. ASSUME NEW phase \in {"repair", "repaired"}, Become(w, [w EXCEPT !.phase = phase])
        PROVE  \E v : Goes(w, v)
    <2>1. [w EXCEPT !.phase = phase] = [w EXCEPT !.phase = phase, !.made = w.made] /\ w.made \in Summary
      BY <1>1 DEF Worker
    <2> QED BY <1>2, <1>3, <2>1
  <1>4. CASE ReadSummary(w)
    <2>1. PICK made : /\ made = NoSummary \/ made = selection[w.article].summary
                      /\ Become(w, [w EXCEPT !.phase = "call", !.made = made])
      BY <1>4 DEF ReadSummary
    <2>2. made \in Summary
      BY <1>1, <2>1, SelectionTypes DEF Selection
    <2> QED BY <1>2, <1>4, <2>1, <2>2 DEF ReadSummary
  <1>5. CASE Repair(w)
    BY <1>3, <1>5 DEF Repair
  <1>6. CASE ReserveRepair(w)
    <2>1. CASE Holds(w) /\ ~task[w.article].repairUsed
      <3>1. task' = [task EXCEPT ![w.article].repairUsed = TRUE]
            /\ Become(w, [w EXCEPT !.phase = "repair"])
        BY <1>6, <2>1 DEF ReserveRepair
      <3>2. \A a \in Articles : task'[a].gen = task[a].gen /\ task'[a].token = task[a].token
        BY <3>1 DEF IInv, TypeOK, Task
      <3> QED BY <1>3, <1>6, <3>1, <3>2 DEF ReserveRepair
    <2>2. CASE ~(Holds(w) /\ ~task[w.article].repairUsed)
      BY <1>6, <2>2, SMTT(30) DEF ReserveRepair, Leave
    <2> QED BY <2>1, <2>2
  <1>7. CASE Save(w)
    <2>1. PICK made \in Products(w) :
            IF Holds(w) THEN Become(w, [w EXCEPT !.phase = "saving", !.made = made]) ELSE Leave(w)
      BY <1>7 DEF Save
    <2>2. made \in Summary
      BY <1>1, ProductTypes
    <2> QED BY <1>2, <1>7, <2>1, <2>2 DEF Save, Leave
  <1>8. CASE CommitGeneration(w)
    <2>1. PICK t, s : /\ Settles(w, t, s)
                      /\ s.rev = w.rev /\ s.summary.profile = w.genProfile
      BY <1>8, CommitGenerationSettles
    <2>2. s.rev >= selection[w.article].rev
      <3>1. selection[w.article].rev <= task[w.article].rev /\ task[w.article].rev = w.rev
        BY <1>1, <1>8 DEF CommitGeneration, IInv, SavingIsFenced, Fenced, RevisionsFollow
      <3> QED BY <1>1, <2>1, <3>1 DEF Selection, Worker
    <2>3. w.stage = "generation" /\ deployed' = deployed
      BY <1>8 DEF CommitGeneration
    <2> QED BY <2>1, <2>2, <2>3
  <1>9. CASE CommitEmbedding(w)
    <2>1. CASE selection[w.article].rev = w.rev
      <3>1. PICK t, s : /\ Settles(w, t, s)
                        /\ s.rev = w.rev /\ s.summary = selection[w.article].summary
        BY <1>9, <2>1, CommitEmbeddingSettles
      <3>2. s.rev >= selection[w.article].rev
        BY <1>1, <2>1, <3>1 DEF Worker
      <3> QED BY <1>9, <3>1, <3>2 DEF CommitEmbedding
    <2>2. CASE selection[w.article].rev # w.rev
      BY <1>9, <2>2 DEF CommitEmbedding, Leave
    <2> QED BY <2>1, <2>2
  <1>10. CASE Fail(w)
    <2>1. CASE Holds(w)
      <3>1. PICK t : Settles(w, t, selection[w.article])
        BY <1>10, <2>1, FailSettles
      <3>2. selection[w.article].rev >= selection[w.article].rev
        BY <1>1 DEF Selection
      <3> QED BY <1>10, <3>1, <3>2 DEF Fail
    <2>2. CASE ~Holds(w)
      BY <1>10, <2>2 DEF Fail, Leave
    <2> QED BY <2>1, <2>2
  <1>11. CASE WorkerLost(w)
    BY <1>11 DEF WorkerLost, Leave
  <1> QED BY <1>4, <1>5, <1>6, <1>7, <1>8, <1>9, <1>10, <1>11 DEF WorkerStep

LEMMA ProfilesStep ==
  ASSUME ProfilesAscend, IInv, ProfilesFollow, [Next]_vars
  PROVE  ProfilesFollow'
  <1>1. /\ deployed \in Nat /\ 1 <= deployed /\ deployed <= Len(Deployments)
        /\ \A i \in 1..deployed : i \in DOMAIN Deployments /\ Deployments[i].gen \in Nat
    BY DeploymentTypes DEF IInv, TypeOK
  <1>2. \A w \in workers : w \in Worker /\ w.article \in Articles /\ w.gen \in Nat /\ w.token \in Nat
    BY DEF IInv, TypeOK, Worker
  <1>3. CASE UNCHANGED vars
    BY <1>3 DEF vars, ProfilesFollow, HasLease
  <1>4. ASSUME NEW a \in Articles, WriteArticle(a) \/ LeaseExpires(a) \/ LeaseOutlived(a)
        PROVE  ProfilesFollow'
    <2>1. /\ UNCHANGED <<selection, workers, deployed>>
          /\ \A b \in Articles : task'[b].gen = task[b].gen /\ task'[b].token = task[b].token
      BY <1>4 DEF WriteArticle, LeaseExpires, LeaseOutlived, ExpireLease, IInv, TypeOK, Task
    <2> QED BY <1>2, <2>1 DEF ProfilesFollow, HasLease
  <1>5. ASSUME NEW a \in Articles, NEW t, Renewed(a, t)
        PROVE  ProfilesFollow'
    <2>1. /\ UNCHANGED <<selection, workers, deployed>>
          /\ \A b \in Articles : task'[b] = IF b = a THEN t ELSE task[b]
          /\ t.gen = task[a].gen + 1 /\ task[a].gen \in Nat
      BY <1>5 DEF Renewed, IInv, TypeOK, Task
    <2>2. \A w \in workers : HasLease(w)' => HasLease(w)
      BY <1>2, <2>1 DEF HasLease, IInv, Tokens
    <2> QED BY <2>1, <2>2 DEF ProfilesFollow
  <1>6. ASSUME NEW a \in Articles, Claim(a)
        PROVE  ProfilesFollow'
    <2> DEFINE t == Claimed(task[a])
               first == t.stage = "generation"
               v == [article |-> a, gen |-> t.gen, token |-> t.token, stage |-> t.stage,
                     attempt |-> IF first THEN t.genAttempt ELSE t.embAttempt, rev |-> t.rev,
                     genProfile |-> Configured.gen, embProfile |-> Configured.emb,
                     repairUsed |-> t.repairUsed, made |-> NoSummary,
                     phase |-> IF first THEN "call" ELSE "read"]
    <2>1. /\ workers' = workers \cup {v}
          /\ v.article = a /\ v.stage = Claimed(task[a]).stage /\ v.genProfile = Configured.gen
      BY <1>6 DEF Claim
    <2> HIDE DEF v
    <2>2. /\ UNCHANGED <<selection, deployed>>
          /\ \A b \in Articles : task'[b] = IF b = a THEN Claimed(task[a]) ELSE task[b]
          /\ Served(task[a])
      BY <1>6 DEF Claim, Claimable, IInv, TypeOK
    <2>3. /\ Claimed(task[a]).gen = task[a].gen /\ Claimed(task[a]).stage = task[a].stage
          /\ Claimed(task[a]).token = Drawn(task[a]) + 1 /\ Drawn(task[a]) \in Nat
      <3>1. PICK x \in Task : x = task[a]
        BY DEF IInv, TypeOK
      <3>2. Drawn(x) \in Nat
        BY DEF Task, Drawn
      <3> QED BY <3>1, <3>2, ClaimedTask DEF IInv
    <2>4. \A w \in workers : HasLease(w)' => HasLease(w)
      BY <1>2, <2>2, <2>3 DEF HasLease, IInv, Tokens
    <2>5. v.genProfile = Deployments[deployed].gen /\ deployed \in 1..deployed
      BY <1>1, <2>1 DEF Configured
    <2>6. v.stage = "generation" => selection[a].summary.profile <= v.genProfile
      <3> SUFFICES ASSUME v.stage = "generation"
                   PROVE  selection[a].summary.profile <= Deployments[deployed].gen
        BY <2>5
      <3>1. Deployments[deployed].gen # 0
        BY <2>1, <2>2, <2>3 DEF Served, Configured
      <3>2. PICK i \in 1..deployed \cup {0} :
              selection[a].summary.profile = IF i = 0 THEN 0 ELSE Deployments[i].gen
        BY DEF ProfilesFollow
      <3>3. CASE i = 0
        BY <1>1, <3>2, <3>3
      <3>4. CASE i # 0
        <4>1. i \in DOMAIN Deployments /\ deployed \in DOMAIN Deployments /\ i <= deployed
          BY <1>1, <3>4
        <4> QED BY <3>1, <3>2, <3>4, <4>1 DEF ProfilesAscend
      <3> QED BY <3>3, <3>4
    <2> QED BY <2>1, <2>2, <2>4, <2>5, <2>6 DEF ProfilesFollow
  <1>7. ASSUME NEW w \in workers, WorkerStep(w) \/ WorkerLost(w)
        PROVE  ProfilesFollow'
    <2>1. deployed' = deployed
      BY <1>7, WorkerMoves
    <2>2. CASE workers' \subseteq workers /\ UNCHANGED <<task, selection>>
      BY <2>1, <2>2 DEF ProfilesFollow, HasLease
    <2>3. CASE /\ \E v : Goes(w, v)
               /\ UNCHANGED selection
               /\ \A a \in Articles : task'[a].gen = task[a].gen /\ task'[a].token = task[a].token
      <3>1. PICK v : Goes(w, v)
        BY <2>3
      <3>2. /\ workers' = (workers \ {w}) \cup {v} /\ v.article = w.article /\ v.gen = w.gen
            /\ v.token = w.token /\ v.stage = w.stage /\ v.genProfile = w.genProfile
        BY <3>1 DEF Goes, SameLease
      <3> QED BY <1>2, <2>1, <2>3, <3>2 DEF ProfilesFollow, HasLease
    <2>4. ASSUME NEW t, NEW s, Settles(w, t, s),
                 \/ s.summary = selection[w.article].summary
                 \/ w.stage = "generation" /\ s.summary.profile = w.genProfile
          PROVE  ProfilesFollow'
      <3>1. /\ workers' = workers \ {w} /\ t.token = 0
            /\ \A b \in Articles : task'[b] = IF b = w.article THEN t ELSE task[b]
            /\ \A b \in Articles : selection'[b] = IF b = w.article THEN s ELSE selection[b]
        BY <2>4 DEF Settles, IInv, TypeOK
      <3>2. \A x \in workers' : HasLease(x)' => HasLease(x) /\ x.article # w.article
        BY <1>2, <3>1 DEF HasLease, IInv, Tokens
      <3>3. \E i \in 1..deployed \cup {0} :
              s.summary.profile = IF i = 0 THEN 0 ELSE Deployments[i].gen
        <4>1. CASE s.summary = selection[w.article].summary
          BY <1>2, <4>1 DEF ProfilesFollow
        <4>2. CASE s.summary.profile = w.genProfile
          <5>1. PICK i \in 1..deployed : w.genProfile = Deployments[i].gen
            BY DEF ProfilesFollow
          <5>2. i # 0
            BY <1>1
          <5> QED BY <4>2, <5>1, <5>2
        <4> QED BY <2>4, <4>1, <4>2
      <3> QED BY <1>2, <2>1, <3>1, <3>2, <3>3 DEF ProfilesFollow
    <2> QED BY <1>7, <2>2, <2>3, <2>4, WorkerMoves
  <1>8. CASE Redeploy
    <2>1. 1..deployed \subseteq 1..deployed' /\ UNCHANGED <<task, selection, workers>>
      BY <1>1, <1>8 DEF Redeploy
    <2> QED BY <2>1 DEF ProfilesFollow, HasLease
  <1> QED BY <1>3, <1>4, <1>5, <1>6, <1>7, <1>8, ProjectRenews, BackfillRenews DEF Next, IInv

(* A selection only moves to a revision that is no older, with the summary *)
(* it has or the one the holder of the lease has made.                     *)
LEMMA SelectionStep ==
  ASSUME IInv, [Next]_vars, NEW a \in Articles
  PROVE  /\ selection'[a].rev >= selection[a].rev
         /\ \/ selection'[a].summary = selection[a].summary
            \/ \E w \in workers : /\ w.article = a /\ HasLease(w) /\ w.stage = "generation"
                                  /\ selection'[a].summary.profile = w.genProfile
  <1>1. CASE UNCHANGED selection
    <2>1. selection[a].rev \in Nat
      BY DEF IInv, TypeOK, Selection
    <2> QED BY <1>1, <2>1
  <1>2. ASSUME NEW w \in workers, WorkerStep(w) \/ WorkerLost(w)
        PROVE  /\ selection'[a].rev >= selection[a].rev
               /\ \/ selection'[a].summary = selection[a].summary
                  \/ /\ w.article = a /\ HasLease(w) /\ w.stage = "generation"
                     /\ selection'[a].summary.profile = w.genProfile
    <2>1. ASSUME NEW t, NEW s, Settles(w, t, s), s.rev >= selection[w.article].rev,
                 \/ s.summary = selection[w.article].summary
                 \/ w.stage = "generation" /\ s.summary.profile = w.genProfile
          PROVE  /\ selection'[a].rev >= selection[a].rev
                 /\ \/ selection'[a].summary = selection[a].summary
                    \/ /\ w.article = a /\ HasLease(w) /\ w.stage = "generation"
                       /\ selection'[a].summary.profile = w.genProfile
      <3>1. /\ selection'[a] = IF a = w.article THEN s ELSE selection[a]
            /\ HasLease(w) /\ selection[a].rev \in Nat
        BY <2>1 DEF Settles, IInv, TypeOK, Selection
      <3> QED BY <2>1, <3>1
    <2> QED BY <1>1, <1>2, <2>1, WorkerMoves
  <1>3. CASE UNCHANGED vars \/ Redeploy
    BY <1>1, <1>3, SMTT(30) DEF vars, Redeploy
  <1>4. ASSUME NEW b \in Articles,
               \/ WriteArticle(b) \/ Project(b) \/ Claim(b) \/ LeaseExpires(b) \/ LeaseOutlived(b)
               \/ \E want, mode : Backfill(b, want, mode)
        PROVE  UNCHANGED selection
    BY <1>4 DEF WriteArticle, Project, Claim, LeaseExpires, LeaseOutlived, ExpireLease, Backfill
  <1> QED BY <1>1, <1>2, <1>3, <1>4 DEF Next

(* A selection never goes back to an older revision, in whatever order     *)
(* configurations are deployed.                                            *)
THEOREM RevisionsAdvance == Spec => [][\A a \in Articles : selection'[a].rev >= selection[a].rev]_vars
  <1>1. IInv /\ [Next]_vars => [\A a \in Articles : selection'[a].rev >= selection[a].rev]_vars
    BY SelectionStep
  <1> QED BY <1>1, Invariance, PTL DEF Spec

(* A late result never replaces a newer one.  Within one revision this     *)
(* needs that no profile is deployed again after its successor.            *)
THEOREM LateResultsLose == ProfilesAscend /\ Spec => SelectionNeverRegresses
  <1> SUFFICES ASSUME ProfilesAscend PROVE Spec => SelectionNeverRegresses
    OBVIOUS
  <1> DEFINE Forward == \A a \in Articles :
               /\ selection'[a].rev >= selection[a].rev
               /\ selection'[a].rev = selection[a].rev =>
                    selection'[a].summary.profile >= selection[a].summary.profile
  <1>1. IInv /\ ProfilesFollow /\ [Next]_vars => [Forward]_vars
    <2> SUFFICES ASSUME IInv, ProfilesFollow, [Next]_vars, NEW a \in Articles
                 PROVE  /\ selection'[a].rev >= selection[a].rev
                        /\ selection'[a].summary.profile >= selection[a].summary.profile
      OBVIOUS
    <2>1. selection[a].summary.profile \in Nat /\ \A w \in workers : w.genProfile \in Nat
      BY DEF IInv, TypeOK, Selection, Summary, Worker
    <2> QED BY <2>1, SelectionStep DEF ProfilesFollow
  <1>2. Init => ProfilesFollow
    BY DEF Init, ProfilesFollow, NoSelection, NoSummary
  <1>3. IInv /\ ProfilesFollow /\ [Next]_vars => ProfilesFollow'
    BY ProfilesStep
  <1>4. Spec => [][Forward]_vars
    BY <1>1, <1>2, <1>3, Invariance, PTL DEF Spec
  <1> QED BY <1>4 DEF SelectionNeverRegresses
=============================================================================
