--------------------------- MODULE ProjectionSlot ---------------------------
(***************************************************************************)
(* The convergence slot of the search projection: for each article one    *)
(* row of search_projection_jobs that says what every index has to show,   *)
(* and one row of search_projection_deliveries per physical index.         *)
(*                                                                         *)
(* The slot is no queue of changes.  It keeps the newest target only, under *)
(* a generation that grows whenever the target changes; everything done    *)
(* for an older generation is void.                                        *)
(***************************************************************************)
EXTENDS ArticleFact

CONSTANT MaxAttempts  \* attempts of one delivery before it counts as failed

ASSUME SlotAssumption == MaxAttempts \in Nat \ {0}

(* The AI result selected for an article: n names the result, rev the      *)
(* revision it was made for.  It only counts while rev is current.          *)
Selection   == [rev : Nat, n : Nat]
NoSelection == [rev |-> 0, n |-> 0]

(* rev is left out of the target: a new revision is a new lock_version.    *)
Target   == [action : {"none", "upsert", "tombstone"}, ver : Nat, ai : Nat]
NoTarget == [action |-> "none", ver |-> 0, ai |-> 0]

(* What the indexes have to show of an article as it is now.               *)
TargetOf(row, selection) ==
  IF Public(row)
  THEN [action |-> "upsert", ver |-> row.ver,
        ai |-> IF selection.rev = row.rev THEN selection.n ELSE 0]
  ELSE [action |-> "tombstone", ver |-> row.ver, ai |-> 0]

JobStatuses == {"none", "pending", "running", "retry_wait", "succeeded", "failed"}

(* claims numbers the lease tokens drawn for the slot; token 0 is NULL.    *)
Job == [status : JobStatuses, gen : Nat, target : Target,
        claims : Nat, token : Nat, expired : BOOLEAN]

NoJob == [status |-> "none", gen |-> 0, target |-> NoTarget,
          claims |-> 0, token |-> 0, expired |-> FALSE]

(* next_attempt_at is left out: no claim reads it, see Settled.            *)
Delivery == [status : JobStatuses, req : Nat, attempt : Nat]

NoDelivery == [status |-> "none", req |-> 0, attempt |-> 0]
Owed(gen)  == [status |-> "pending", req |-> gen, attempt |-> 0]

Converged(d, gen) == d.status = "succeeded" /\ d.req = gen

(* domain.Advance for a target that differs from the current one.          *)
Advanced(job, target) ==
  [status |-> "pending", gen |-> job.gen + 1, target |-> target,
   claims |-> job.claims, token |-> 0, expired |-> FALSE]

(* The claim that hands out the next token.                                *)
Claimed(job) ==
  [status |-> "running", gen |-> job.gen, target |-> job.target,
   claims |-> job.claims + 1, token |-> job.claims + 1, expired |-> FALSE]

Attempted(d) == [status |-> "running", req |-> d.req, attempt |-> d.attempt + 1]

(* The classes of an answer: "applied" is created, updated, tombstoned or  *)
(* noop; a version conflict is a noop.                                      *)
Outcomes == {"applied", "retryable", "permanent", "unknown"}

(* Mutant: the class of the answer is stored in place of the state.        *)
RawDeliveryStatus(outcome, attempt) ==
  IF outcome = "retryable" /\ attempt < MaxAttempts THEN "retry_wait" ELSE outcome

NextDeliveryStatus(outcome, attempt) ==
  IF outcome = "applied" THEN "succeeded"
  ELSE IF outcome = "permanent" THEN "failed"
  ELSE IF attempt >= MaxAttempts THEN "failed"
  ELSE "retry_wait"

(* ds: the deliveries of one slot, by index.                               *)
ConvergedStatus(gen, ds) ==
  LET lagging == {i \in DOMAIN ds : ~Converged(ds[i], gen)}
  IN  IF DOMAIN ds = {} THEN "pending"
      ELSE IF lagging = {} THEN "succeeded"
      ELSE IF \E i \in lagging : ds[i].status = "failed" THEN "failed"
      ELSE IF \A i \in lagging : ds[i].status = "retry_wait" THEN "retry_wait"
      ELSE "pending"

(* settleProjectionJob: once no delivery is running the slot takes its     *)
(* status from them and gives the lease up.  next_attempt_at becomes the   *)
(* minimum of now and the retry times, that is now.                        *)
Settled(job, ds) ==
  IF \E i \in DOMAIN ds : ds[i].status = "running" THEN job
  ELSE [status |-> ConvergedStatus(job.gen, ds), gen |-> job.gen, target |-> job.target,
        claims |-> job.claims, token |-> 0, expired |-> FALSE]

-----------------------------------------------------------------------------
(* A document of a physical index: external version gen, content target.   *)
Doc   == [gen : Nat, target : Target]
NoDoc == [gen |-> 0, target |-> NoTarget]

(* Mutant: the Bulk item carries no external version.                       *)
PutUnversioned(doc, gen, target) == [gen |-> gen, target |-> target]

(* OpenSearch's index action with version_type external_gte: an older      *)
(* version is refused, an equal one overwrites.                             *)
Put(doc, gen, target) == IF gen >= doc.gen THEN [gen |-> gen, target |-> target] ELSE doc
=============================================================================
