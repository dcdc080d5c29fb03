------------------------------ MODULE Enrichment ------------------------------
(***************************************************************************)
(* The enrichment executor: the AI task of an article, from the projector  *)
(* that derives it to the result selected for the article.                 *)
(*                                                                         *)
(* A task runs in two stages, generation (a summary) and embedding (a      *)
(* vector of it).  Executors claim it under a lease, call a model outside  *)
(* any transaction, and save under a fence of generation number, lease     *)
(* token, stage, revision and profile.  The fence locks the task row but    *)
(* not the article.  A task binds the profile it is claimed with; a new     *)
(* profile reaches an article only by the operator's "ai backfill".        *)
(*                                                                         *)
(* What selecting a result does to the search index is SearchProjection;   *)
(* how events call Project is ArticlePipeline.                             *)
(***************************************************************************)
EXTENDS ArticleFact, Sequences

CONSTANTS Deployments,    \* the configurations deployed in turn: [gen, emb], 0 is none
          MaxAttempts,    \* attempts of one stage
          MaxGeneration,  \* bound on the generation a back-fill starts from
          MaxFaults       \* bound on crashes and outlived leases

ASSUME EnrichmentAssumption ==
  /\ Deployments \in Seq([gen : Nat, emb : Nat]) /\ Deployments # <<>>
  /\ MaxAttempts \in Nat \ {0}
  /\ MaxGeneration \in Nat /\ MaxFaults \in Nat

VARIABLES article,    \* velis.articles
          task,       \* velis.async_tasks
          selection,  \* velis.ai_current_selections
          workers,    \* executors between Claim and the end of ProcessOne
          deployed,   \* the configuration in use
          repairs,    \* the generation_repair calls made to the model
          faults      \* the faults so far

vars == <<article, task, selection, workers, deployed, repairs, faults>>

Stages   == {"generation", "embedding"}
TaskStatuses == {"none", "pending", "running", "retry_wait", "succeeded", "failed", "canceled"}
Live     == {"pending", "running", "retry_wait"}

(* Profile 0 is NULL, token 0 is NULL; a token is numbered by the claim of  *)
(* its generation that drew it.  Every back-off is over at once:            *)
(* next_attempt_at only delays.                                            *)
Task == [status : TaskStatuses, gen : Nat, stage : Stages, rev : Nat,
         genProfile : Nat, embProfile : Nat, genAttempt : Nat, embAttempt : Nat,
         repairUsed : BOOLEAN, token : Nat, expired : BOOLEAN]

NoTask == [status |-> "none", gen |-> 0, stage |-> "generation", rev |-> 0,
           genProfile |-> 0, embProfile |-> 0, genAttempt |-> 0, embAttempt |-> 0,
           repairUsed |-> FALSE, token |-> 0, expired |-> FALSE]

(* A result is what its unique key says: saving it twice gives one row.    *)
Summary     == [rev : Nat, profile : Nat, method : {"none", "model", "extractive"}]
NoSummary   == [rev |-> 0, profile |-> 0, method |-> "none"]
Embedding   == [base : Summary, profile : Nat]
NoEmbedding == [base |-> NoSummary, profile |-> 0]
Selection   == [rev : Nat, summary : Summary, embedding : Embedding]
NoSelection == [rev |-> 0, summary |-> NoSummary, embedding |-> NoEmbedding]

(* made: the summary to be saved, or the one the embedding is made of.     *)
Worker == [article : Articles, gen : Nat, token : Nat, stage : Stages, attempt : Nat, rev : Nat,
           genProfile : Nat, embProfile : Nat, repairUsed : BOOLEAN, made : Summary,
           phase : {"read", "call", "repair", "repaired", "saving"}]

Configured == Deployments[deployed]
Fault      == faults < MaxFaults /\ faults' = faults + 1

(* Mutant: the fence reads the task without locking it.                    *)
LockedNever(a) == FALSE

(* A transaction that saves holds the row lock of the task.                *)
Locked(a) == \E w \in workers : w.article = a /\ w.phase = "saving"

Released(t, status) == [t EXCEPT !.status = status, !.token = 0, !.expired = FALSE]

-----------------------------------------------------------------------------
(* The article and the projector.                                          *)

WriteArticle(a) ==
  /\ \E after \in NextRows(a, article[a]) : article' = [article EXCEPT ![a] = after]
  /\ UNCHANGED <<task, selection, workers, deployed, repairs, faults>>

(* CreatePending, SetPending and Cancel: a new generation from nothing.    *)
Fresh(t, status, rev) ==
  [NoTask EXCEPT !.status = status, !.gen = t.gen + 1, !.rev = rev]

Project(a) ==
  /\ article[a].status # "absent" /\ ~Locked(a)
  /\ LET t      == task[a]
         wanted == IF Public(article[a]) THEN "pending" ELSE "canceled"
     IN  /\ IF Public(article[a])
            THEN t.status \in {"none", "canceled"} \/ t.rev # article[a].rev
            ELSE t.status \notin {"none", "canceled"}
         /\ task' = [task EXCEPT ![a] = Fresh(t, wanted, article[a].rev)]
  /\ UNCHANGED <<article, selection, workers, deployed, repairs, faults>>

-----------------------------------------------------------------------------
(* Claim.                                                                  *)

(* The stage of the task is configured, and bound to no other profile.     *)
Served(t) ==
  IF t.stage = "generation"
  THEN Configured.gen # 0 /\ t.genProfile \in {0, Configured.gen}
  ELSE Configured.emb # 0 /\ t.embProfile \in {0, Configured.emb}

(* Mutant: a task whose executor died is never taken over.                 *)
DueOnce(t) == t.status \in {"pending", "retry_wait"}

Due(t) == t.status \in {"pending", "retry_wait"} \/ (t.status = "running" /\ t.expired)

Claimable(a) ==
  /\ Public(article[a]) /\ task[a].rev = article[a].rev
  /\ Due(task[a]) /\ Served(task[a])
  /\ ~Locked(a)

Bound(profile, configured) == IF profile = 0 THEN configured ELSE profile

Claimed(t) ==
  LET first == t.stage = "generation"
  IN  [t EXCEPT !.status = "running", !.expired = FALSE,
                !.token = t.genAttempt + t.embAttempt + 1,
                !.genProfile = IF first THEN Bound(@, Configured.gen) ELSE @,
                !.embProfile = Bound(@, Configured.emb),
                !.genAttempt = IF first THEN @ + 1 ELSE @,
                !.embAttempt = IF first THEN @ ELSE @ + 1]

Claim(a) ==
  /\ Claimable(a)
  /\ LET t == Claimed(task[a])
         first == t.stage = "generation"
     IN  /\ task' = [task EXCEPT ![a] = t]
         /\ workers' = workers \cup
              {[article |-> a, gen |-> t.gen, token |-> t.token, stage |-> t.stage,
                attempt |-> IF first THEN t.genAttempt ELSE t.embAttempt, rev |-> t.rev,
                genProfile |-> Configured.gen, embProfile |-> Configured.emb,
                repairUsed |-> t.repairUsed, made |-> NoSummary,
                phase |-> IF first THEN "call" ELSE "read"]}
  /\ UNCHANGED <<article, selection, deployed, repairs, faults>>

-----------------------------------------------------------------------------
(* The model calls.  Generate and Embed touch nothing shared, so a call is  *)
(* part of the step that writes its outcome; only what is read before a     *)
(* call, and the call that must not be made twice, are steps.               *)

Become(w, v) == workers' = (workers \ {w}) \cup {v}
Leave(w)     == workers' = workers \ {w}

(* CurrentGeneration                                                       *)
ReadSummary(w) ==
  /\ w.phase = "read"
  /\ LET s     == selection[w.article]
         found == s.rev = w.rev /\ Public(article[w.article]) /\ article[w.article].rev = w.rev
     IN  Become(w, [w EXCEPT !.phase = "call", !.made = IF found THEN s.summary ELSE NoSummary])
  /\ UNCHANGED <<article, task, selection, deployed, repairs, faults>>

Repair(w) ==
  /\ w.phase = "repair"
  /\ Become(w, [w EXCEPT !.phase = "repaired"])
  /\ repairs' = repairs \cup {[article |-> w.article, gen |-> w.gen, token |-> w.token]}
  /\ UNCHANGED <<article, task, selection, deployed, faults>>

(* What a call may end in.  The last attempt falls back to an extract of   *)
(* the text when the output stays invalid.                                 *)
Products(w) ==
  IF w.stage = "embedding" THEN {w.made} \ {NoSummary}
  ELSE {[rev |-> w.rev, profile |-> w.genProfile, method |-> method] :
          method \in {"model"} \cup (IF w.attempt >= MaxAttempts THEN {"extractive"} ELSE {})}

(* finishFailure: errors are transient or, like a budget, permanent.       *)
Failures(w) ==
  {"failed"} \cup (IF w.attempt < MaxAttempts /\ (w.stage = "embedding" => w.made # NoSummary)
                   THEN {"retry_wait"} ELSE {})

-----------------------------------------------------------------------------
(* The fence and what is written behind it.                                *)

(* Mutant: the fence asks for the revision and the profile only.           *)
HoldsRevision(w) ==
  LET t == task[w.article]
  IN  /\ t.status = "running" /\ t.rev = w.rev
      /\ Public(article[w.article]) /\ article[w.article].rev = w.rev
      /\ IF w.stage = "generation" THEN t.genProfile = w.genProfile ELSE t.embProfile = w.embProfile

Holds(w) ==
  LET t == task[w.article]
  IN  /\ t.gen = w.gen /\ t.token = w.token /\ t.status = "running" /\ t.stage = w.stage
      /\ ~t.expired /\ t.rev = w.rev
      /\ Public(article[w.article]) /\ article[w.article].rev = w.rev
      /\ IF w.stage = "generation" THEN t.genProfile = w.genProfile ELSE t.embProfile = w.embProfile

(* Mutant: the reservation is checked and not stored.                      *)
ReserveForgets(w) ==
  /\ w.phase = "call" /\ w.stage = "generation" /\ ~w.repairUsed /\ ~Locked(w.article)
  /\ IF Holds(w) /\ ~task[w.article].repairUsed
     THEN Become(w, [w EXCEPT !.phase = "repair"]) ELSE Leave(w)
  /\ UNCHANGED <<article, task, selection, deployed, repairs, faults>>

ReserveRepair(w) ==
  /\ w.phase = "call" /\ w.stage = "generation" /\ ~w.repairUsed /\ ~Locked(w.article)
  /\ IF Holds(w) /\ ~task[w.article].repairUsed
     THEN /\ task' = [task EXCEPT ![w.article].repairUsed = TRUE]
          /\ Become(w, [w EXCEPT !.phase = "repair"])
     ELSE Leave(w) /\ UNCHANGED task
  /\ UNCHANGED <<article, selection, deployed, repairs, faults>>

Save(w) ==
  /\ w.phase \in {"call", "repaired"} /\ ~Locked(w.article)
  /\ \E made \in Products(w) :
       IF Holds(w) THEN Become(w, [w EXCEPT !.phase = "saving", !.made = made]) ELSE Leave(w)
  /\ UNCHANGED <<article, task, selection, deployed, repairs, faults>>

(* Mutant: the hand-over to the embedding keeps the lease.                 *)
HandedOverLeased(t) == [t EXCEPT !.stage = "embedding", !.status = "pending"]

HandedOver(t) == [Released(t, "pending") EXCEPT !.stage = "embedding"]

(* The rest of SaveGeneration; the article may have changed meanwhile.     *)
CommitGeneration(w) ==
  /\ w.phase = "saving" /\ w.stage = "generation"
  /\ LET a == w.article
         t == task[a]
         kept == IF selection[a].rev = w.rev THEN selection[a].embedding ELSE NoEmbedding
     IN  /\ selection' = [selection EXCEPT ![a] = [rev |-> w.rev, summary |-> w.made, embedding |-> kept]]
         /\ task' = IF t.gen = w.gen /\ t.token = w.token
                    THEN [task EXCEPT ![a] = IF w.embProfile # 0 THEN HandedOver(t)
                                             ELSE Released(t, "succeeded")]
                    ELSE task
  /\ Leave(w)
  /\ UNCHANGED <<article, deployed, repairs, faults>>

(* The rest of SaveEmbedding: without a selection of the revision nothing  *)
(* is written and the lease stays.                                         *)
CommitEmbedding(w) ==
  /\ w.phase = "saving" /\ w.stage = "embedding"
  /\ LET a == w.article
         t == task[a]
     IN  IF selection[a].rev = w.rev
         THEN /\ selection' = [selection EXCEPT ![a].embedding =
                                 [base |-> w.made, profile |-> w.embProfile]]
              /\ task' = IF t.gen = w.gen /\ t.token = w.token
                         THEN [task EXCEPT ![a] = Released(t, "succeeded")] ELSE task
         ELSE UNCHANGED <<selection, task>>
  /\ Leave(w)
  /\ UNCHANGED <<article, deployed, repairs, faults>>

Fail(w) ==
  /\ w.phase \in {"call", "repaired"} /\ ~Locked(w.article)
  /\ \E status \in Failures(w) :
       task' = IF Holds(w) THEN [task EXCEPT ![w.article] = Released(@, status)] ELSE task
  /\ Leave(w)
  /\ UNCHANGED <<article, selection, deployed, repairs, faults>>

(* The process dies or PostgreSQL fails it; an open transaction is undone. *)
WorkerLost(w) ==
  /\ Fault
  /\ Leave(w)
  /\ UNCHANGED <<article, task, selection, deployed, repairs>>

HasHolder(a) ==
  \E w \in workers : w.article = a /\ w.gen = task[a].gen /\ w.token = task[a].token

ExpireLease(a) ==
  /\ task[a].status = "running" /\ ~task[a].expired
  /\ task' = [task EXCEPT ![a].expired = TRUE]
  /\ UNCHANGED <<article, selection, workers, deployed, repairs>>

LeaseExpires(a)  == ~HasHolder(a) /\ ExpireLease(a) /\ UNCHANGED faults
LeaseOutlived(a) == HasHolder(a) /\ ExpireLease(a) /\ Fault

-----------------------------------------------------------------------------
(* The operator.                                                           *)

Redeploy ==
  /\ deployed < Len(Deployments)
  /\ deployed' = deployed + 1
  /\ UNCHANGED <<article, task, selection, workers, repairs, faults>>

(* Which stage a back-fill finds to be done, from the selected results of   *)
(* the current revision.                                                   *)
NeedsSummary(s, want, mode) ==
  /\ want \in {"generation", "all"}
  /\ IF mode = "missing-only" THEN s.summary = NoSummary
     ELSE s.summary # NoSummary /\ (s.summary.profile # Configured.gen \/ s.summary.method = "extractive")

NeedsEmbedding(s, want, mode) ==
  /\ want \in {"embedding", "all"} /\ s.summary # NoSummary
  /\ IF mode = "missing-only" THEN s.embedding = NoEmbedding
     ELSE s.embedding # NoEmbedding /\ (s.embedding.profile # Configured.emb \/ s.embedding.base # s.summary)

Queued(t, stage, want) ==
  /\ t.status \in Live /\ t.stage = stage
  /\ IF stage = "generation"
     THEN t.genProfile = Configured.gen /\ (want = "all" => t.embProfile = Configured.emb)
     ELSE t.embProfile = Configured.emb

(* AdvanceCandidate.  A task keeps the revision it has.                    *)
Backfill(a, want, mode) ==
  /\ want \in {"generation", "all"} => Configured.gen # 0
  /\ want \in {"embedding", "all"} => Configured.emb # 0
  /\ Public(article[a]) /\ ~Locked(a)
  /\ task[a].gen < MaxGeneration
  /\ LET t     == task[a]
         s     == IF selection[a].rev = article[a].rev THEN selection[a] ELSE NoSelection
         first == NeedsSummary(s, want, mode)
         stage == IF first THEN "generation" ELSE "embedding"
         rev   == IF t.status = "none" THEN article[a].rev ELSE t.rev
     IN  /\ first \/ NeedsEmbedding(s, want, mode)
         /\ ~Queued(t, stage, want)
         /\ task' = [task EXCEPT ![a] =
              [Fresh(t, "pending", rev) EXCEPT
                 !.stage = stage,
                 !.genProfile = IF first THEN Configured.gen ELSE t.genProfile,
                 !.embProfile = IF NeedsEmbedding(s, want, mode) \/ want = "all"
                                THEN Configured.emb ELSE t.embProfile]]
  /\ UNCHANGED <<article, selection, workers, deployed, repairs, faults>>

-----------------------------------------------------------------------------
Init ==
  /\ article = [a \in Articles |-> AbsentArticle]
  /\ task = [a \in Articles |-> NoTask]
  /\ selection = [a \in Articles |-> NoSelection]
  /\ workers = {}
  /\ deployed = 1
  /\ repairs = {}
  /\ faults = 0

WorkerStep(w) ==
  \/ ReadSummary(w) \/ ReserveRepair(w) \/ Repair(w)
  \/ Save(w) \/ CommitGeneration(w) \/ CommitEmbedding(w) \/ Fail(w)

Next ==
  \/ \E a \in Articles :
       \/ WriteArticle(a) \/ Project(a) \/ Claim(a) \/ LeaseExpires(a) \/ LeaseOutlived(a)
       \/ \E want \in Stages \cup {"all"}, mode \in {"missing-only", "outdated-only"} :
            Backfill(a, want, mode)
  \/ \E w \in workers : WorkerStep(w) \/ WorkerLost(w)
  \/ Redeploy

Spec == Init /\ [][Next]_vars

(* The executor polls on a ticker and its calls have deadlines.  Nothing   *)
(* is assumed of writers, the projector or the operator.                   *)
ExecutorStep(a) ==
  \/ Claim(a) \/ LeaseExpires(a)
  \/ \E w \in workers : w.article = a /\ WorkerStep(w)

Fairness == \A a \in Articles : WF_vars(ExecutorStep(a))

FairSpec == Spec /\ Fairness

-----------------------------------------------------------------------------
(* Properties.                                                             *)

(* The last conjunct is async_tasks_lease_check.                           *)
TypeOK ==
  /\ article \in [Articles -> ArticleRow]
  /\ task \in [Articles -> Task]
  /\ selection \in [Articles -> Selection]
  /\ workers \subseteq Worker
  /\ deployed \in DOMAIN Deployments
  /\ repairs \subseteq [article : Articles, gen : Nat, token : Nat]
  /\ faults \in 0..MaxFaults
  /\ \A a \in Articles : (task[a].status = "running") <=> (task[a].token # 0)

(* A task that succeeded for the current revision left what it was asked   *)
(* for selected: the summary of its profile, or the embedding of its        *)
(* profile made from the very summary that is selected, although the        *)
(* summary was read long before the embedding was saved.                    *)
SucceededIsComplete ==
  \A a \in Articles :
    LET t == task[a]
        s == selection[a]
    IN  t.status = "succeeded" /\ t.rev = article[a].rev =>
          /\ s.rev = t.rev /\ s.summary.rev = t.rev
          /\ IF t.stage = "generation"
             THEN s.summary.profile = t.genProfile
             ELSE s.embedding = [base |-> s.summary, profile |-> t.embProfile]

(* One format repair for a task generation, over all retries, crashes and   *)
(* takeovers of the lease.                                                 *)
RepairOnce ==
  \A r, q \in repairs : r.article = q.article /\ r.gen = q.gen => r = q

(* A result that comes late never replaces a newer one: the selection does *)
(* not go back to an older revision, nor, within one revision, to the       *)
(* summary of an older profile.                                            *)
SelectionNeverRegresses ==
  [][\A a \in Articles :
       LET old == selection[a]
           new == selection'[a]
       IN  /\ new.rev >= old.rev
           /\ new.rev = old.rev => new.summary.profile >= old.summary.profile]_vars

(* A task that the deployed executor serves does not stay: it settles, or   *)
(* the article or the deployment moves on.                                 *)
Workable(a) ==
  /\ task[a].status \in Live /\ Served(task[a])
  /\ Public(article[a]) /\ task[a].rev = article[a].rev

TaskSettles == \A a \in Articles : Workable(a) ~> ~Workable(a)

(* The ai-content-enrichment spec gives every stage a hard maximum of       *)
(* attempts.                                                               *)
AttemptsBounded ==
  \A a \in Articles : task[a].genAttempt <= MaxAttempts /\ task[a].embAttempt <= MaxAttempts
=============================================================================
