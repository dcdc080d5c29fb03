------------------------------ MODULE SourceFetch ------------------------------
(***************************************************************************)
(* Feed sources: their administration, the leases drawn by the scheduler   *)
(* and by hand, and the record of every fetch run.                         *)
(*                                                                         *)
(* A claim draws a new lease generation and commits by itself (the claims  *)
(* of SourceRepository use the pool, never the caller's transaction); the  *)
(* run is recorded in a transaction of its own, the network is reached     *)
(* outside any transaction, and the outcome is saved under the lease.      *)
(* A fetch by hand first reserves its idempotency key in yet another       *)
(* transaction and settles it with the save. The lease of generation g is  *)
(* written g: its owner and deadline are never read but to be compared.    *)
(* FeedFetch is what happens between the start and the save.               *)
(***************************************************************************)
EXTENDS Integers, FiniteSets

CONSTANTS Sources,     \* normalized feed URLs
          Keys,        \* idempotency keys of fetches by hand
          DegradeAt,   \* failures in a row that degrade a source (5)
          MaxGen,      \* bound on the claims of a source
          MaxVersion,  \* bound on the administrative writes of a source
          MaxFaults    \* bound on crashes and broken saves

Unattended == "unattended"    \* TriggerScheduled: the scheduler and the CLI

SourceFetchAssumption ==
  /\ DegradeAt \in Nat \ {0} /\ MaxGen \in Nat /\ MaxVersion \in Nat \ {0}
  /\ MaxFaults \in Nat /\ Unattended \notin Keys

VARIABLES sources,  \* velis.sources
          runs,     \* velis.source_fetch_runs
          ops,      \* velis.idempotency_operations of source.fetch
          workers,  \* the fetches under way in some process
          cut,      \* the leases an administrator took back
          faults    \* crashes and broken saves so far

vars == <<sources, runs, ops, workers, cut, faults>>

Triggers == Keys \cup {Unattended}
Statuses == {"absent", "active", "paused", "degraded"}
Gens     == 1..MaxGen
NoRun    == 0

(* lease is 0 for NULL; a run is named by its source and generation.       *)
Source == [status : Statuses, lease : 0..MaxGen, expired : BOOLEAN, due : BOOLEAN,
           gen : 0..MaxGen, failures : 0..MaxGen, version : 0..MaxVersion]
Run    == [source : Sources, gen : Gens, trigger : Triggers,
           status : {"running", "succeeded", "failed", "aborted"}]
Op     == [status : {"none", "pending", "succeeded"}, run : 0..MaxGen]
Worker == [source : Sources, gen : 0..MaxGen, trigger : Triggers, failures : 0..MaxGen,
           phase : {"reserved", "claimed", "fetching"}]

TypeOK ==
  /\ sources \in [Sources -> Source]
  /\ runs \subseteq Run
  /\ ops \in [Keys -> [Sources -> Op]]
  /\ workers \subseteq Worker
  /\ cut \subseteq Sources \X Gens
  /\ faults \in 0..MaxFaults

RunsOf(s)      == {r \in runs : r.source = s}
RunningOf(s)   == {r \in RunsOf(s) : r.status = "running"}
Fetchable(s)   == sources[s].status \in {"active", "degraded"}
LeaseFree(s)   == sources[s].lease = 0 \/ sources[s].expired

Init ==
  /\ sources = [s \in Sources |->
       [status |-> "absent", lease |-> 0, expired |-> FALSE, due |-> FALSE,
        gen |-> 0, failures |-> 0, version |-> 0]]
  /\ runs = {} /\ workers = {} /\ cut = {} /\ faults = 0
  /\ ops = [k \in Keys |-> [s \in Sources |-> [status |-> "none", run |-> NoRun]]]

-----------------------------------------------------------------------------
(***************************************************************************)
(* Administration.                                                         *)
(***************************************************************************)
(* ON CONFLICT DO NOTHING: adding a source that exists returns it.         *)
Add(s) ==
  /\ sources[s].status = "absent"
  /\ sources' = [sources EXCEPT ![s].status = "active", ![s].due = TRUE, ![s].version = 1]
  /\ UNCHANGED <<runs, ops, workers, cut, faults>>

(* The writes of an administrator: the caller names the version it read,   *)
(* and lease_owner, lease_expires_at become NULL.                          *)
TakeBack(s, status, due) ==
  /\ sources[s].status # "absent" /\ sources[s].version < MaxVersion
  /\ sources' = [sources EXCEPT ![s].status = status, ![s].due = due, ![s].lease = 0,
                                ![s].expired = FALSE, ![s].version = @ + 1]
  /\ cut' = IF sources[s].lease = 0 THEN cut ELSE cut \cup {<<s, sources[s].lease>>}
  /\ UNCHANGED <<runs, ops, workers, faults>>

Pause(s)  == TakeBack(s, "paused", sources[s].due)

(* The CLI resumes whatever the status; the HTTP handler only a pause.     *)
Resume(s) == TakeBack(s, "active", TRUE)

(* The next save uses the interval read at its claim: only the version.    *)
SetFetchInterval(s) ==
  /\ sources[s].status # "absent" /\ sources[s].version < MaxVersion
  /\ sources' = [sources EXCEPT ![s].version = @ + 1]
  /\ UNCHANGED <<runs, ops, workers, cut, faults>>

(* Time passes: next_fetch_at, lease_expires_at.                           *)
ComeDue(s) ==
  /\ sources[s].status # "absent" /\ ~sources[s].due
  /\ sources' = [sources EXCEPT ![s].due = TRUE]
  /\ UNCHANGED <<runs, ops, workers, cut, faults>>

Expire(s) ==
  /\ sources[s].lease # 0 /\ ~sources[s].expired
  /\ sources' = [sources EXCEPT ![s].expired = TRUE]
  /\ UNCHANGED <<runs, ops, workers, cut, faults>>

-----------------------------------------------------------------------------
(***************************************************************************)
(* Claims.                                                                 *)
(***************************************************************************)
Claimed(s, trigger) ==
  [source |-> s, gen |-> sources[s].gen + 1, trigger |-> trigger,
   failures |-> sources[s].failures, phase |-> "claimed"]

DrawLease(s) ==
  /\ sources[s].gen < MaxGen
  /\ sources' = [sources EXCEPT ![s].gen = @ + 1, ![s].lease = sources[s].gen + 1,
                                ![s].expired = FALSE]

(* The scheduler leaves degraded sources to an administrator.              *)
ClaimDue(s) ==
  /\ sources[s].status = "active" /\ sources[s].due /\ LeaseFree(s)
  /\ DrawLease(s)
  /\ workers' = workers \cup {Claimed(s, Unattended)}
  /\ UNCHANGED <<runs, ops, cut, faults>>

(* velis source fetch: no key, and recorded as scheduled.                  *)
FetchByID(s) ==
  /\ Fetchable(s) /\ LeaseFree(s)
  /\ DrawLease(s)
  /\ workers' = workers \cup {Claimed(s, Unattended)}
  /\ UNCHANGED <<runs, ops, cut, faults>>

(* POST .../fetch: a key that is new is reserved; a known one only reads:  *)
(* its run once it succeeded, and until then the source's running run.     *)
Reserve(k, s) ==
  /\ sources[s].status # "absent" /\ ops[k][s].status = "none"
  /\ ops' = [ops EXCEPT ![k][s].status = "pending"]
  /\ workers' = workers \cup {[source |-> s, gen |-> 0, trigger |-> k, failures |-> 0,
                               phase |-> "reserved"]}
  /\ UNCHANGED <<sources, runs, cut, faults>>

(* A refused claim is an error, and the key stays pending.                 *)
ClaimByID(w) ==
  /\ w.phase = "reserved"
  /\ LET s == w.source IN
     IF Fetchable(s) /\ LeaseFree(s)
     THEN /\ DrawLease(s)
          /\ workers' = (workers \ {w}) \cup {Claimed(s, w.trigger)}
     ELSE /\ workers' = workers \ {w}
          /\ UNCHANGED sources
  /\ UNCHANGED <<runs, ops, cut, faults>>

(* Mutant: the run of the generation before is left running.               *)
StaleLeaves(s, g) == {r \in RunningOf(s) : r.gen + 1 < g}

(* AbortStale: what runs under an earlier lease.                           *)
Stale(s, g) == {r \in RunningOf(s) : r.gen < g}

(* The runs stale at this generation are aborted and the run inserted, or  *)
(* neither: at most one run of a source is running (unique index).         *)
StartRun(w) ==
  /\ w.phase = "claimed"
  /\ LET s == w.source
         stale == Stale(s, w.gen)
         run == [source |-> s, gen |-> w.gen, trigger |-> w.trigger, status |-> "running"]
     IN IF RunningOf(s) \subseteq stale
        THEN /\ runs' = (runs \ stale) \cup {[r EXCEPT !.status = "aborted"] : r \in stale}
                                       \cup {run}
             /\ workers' = (workers \ {w}) \cup {[w EXCEPT !.phase = "fetching"]}
        ELSE /\ workers' = workers \ {w}
             /\ UNCHANGED runs
  /\ UNCHANGED <<sources, ops, cut, faults>>

-----------------------------------------------------------------------------
(***************************************************************************)
(* The outcome.                                                            *)
(***************************************************************************)
(* Mutant: only the generation is compared, as in the record of the run.   *)
HoldsGeneration(w) == Fetchable(w.source) /\ sources[w.source].gen = w.gen

(* The WHERE of MarkSuccess, MarkNotModified and MarkFailure, and of       *)
(* Complete: the lease drawn at the claim, still running.                  *)
Holds(w) ==
  LET s == w.source IN
  /\ Fetchable(s)
  /\ sources[s].lease = w.gen /\ ~sources[s].expired
  /\ sources[s].gen = w.gen
  /\ \E r \in RunningOf(s) : r.gen = w.gen

EndRun(w, status) ==
  runs' = {IF r.source = w.source /\ r.gen = w.gen THEN [r EXCEPT !.status = status] ELSE r :
             r \in runs}

(* Mutant: the failure is written without its count.                       *)
NextFailureStatus(w) ==
  [sources[w.source] EXCEPT !.status = "active", !.due = FALSE, !.lease = 0,
                            !.failures = IF w.failures + 1 < DegradeAt THEN @ + 1 ELSE @]

(* NextFailure counts from the failures read at the claim.                 *)
NextFailure(w) ==
  LET failures == w.failures + 1 IN
  [sources[w.source] EXCEPT
     !.status = IF failures >= DegradeAt THEN "degraded" ELSE "active",
     !.failures = failures, !.due = FALSE, !.lease = 0]

(* Mutant: the key is settled after the transaction, and is lost.          *)
SettleNothing(w) == ops

(* OnComplete, in the transaction of the save.                             *)
Settle(w) ==
  IF w.trigger \in Keys
  THEN [ops EXCEPT ![w.trigger][w.source] = [status |-> "succeeded", run |-> w.gen]]
  ELSE ops

(* 200 and 304: the articles, the source, the run and the key at once. A   *)
(* save whose lease was lost is rolled back, and its run stays running.    *)
Save(w) ==
  /\ w.phase = "fetching" /\ workers' = workers \ {w}
  /\ IF Holds(w)
     THEN /\ sources' = [sources EXCEPT ![w.source].status = "active", ![w.source].failures = 0,
                                        ![w.source].due = FALSE, ![w.source].lease = 0]
          /\ EndRun(w, "succeeded")
          /\ ops' = Settle(w)
     ELSE UNCHANGED <<sources, runs, ops>>
  /\ UNCHANGED <<cut, faults>>

(* A fetch, a parse or an ingest that fails: the back-off and the run.     *)
Fail(w) ==
  /\ w.phase = "fetching" /\ workers' = workers \ {w}
  /\ IF Holds(w)
     THEN /\ sources' = [sources EXCEPT ![w.source] = NextFailure(w)]
          /\ EndRun(w, "failed")
     ELSE UNCHANGED <<sources, runs>>
  /\ UNCHANGED <<ops, cut, faults>>

(* The process stops; or the save breaks once the run is marked succeeded  *)
(* in memory, which fail() then refuses; or the 304 is not saved: nothing  *)
(* is recorded.                                                            *)
Break(w) ==
  /\ faults < MaxFaults /\ faults' = faults + 1
  /\ workers' = workers \ {w}
  /\ UNCHANGED <<sources, runs, ops, cut>>

Administer == \E s \in Sources : Add(s) \/ Pause(s) \/ Resume(s) \/ SetFetchInterval(s)
Request    == \E k \in Keys, s \in Sources : Reserve(k, s)
Operate    == \E s \in Sources : FetchByID(s)
Time       == \E s \in Sources : ComeDue(s) \/ Expire(s)
Schedule   == \E s \in Sources : ClaimDue(s)
Advance(w) == ClaimByID(w) \/ StartRun(w) \/ Save(w) \/ Fail(w)
Work       == \E w \in workers : Advance(w)
Fault      == \E w \in workers : Break(w)

Next == Administer \/ Request \/ Operate \/ Time \/ Schedule \/ Work \/ Fault

Spec == Init /\ [][Next]_vars

(* Clocks advance, the scheduler polls (scheduler.Run), and a fetch ends:  *)
(* every request of the fetcher has a deadline.                            *)
Fairness ==
  /\ \A s \in Sources : WF_vars(ComeDue(s)) /\ WF_vars(Expire(s)) /\ WF_vars(ClaimDue(s))
  /\ WF_vars(Work)

FairSpec == Spec /\ Fairness

-----------------------------------------------------------------------------
(***************************************************************************)
(* Properties.                                                             *)
(***************************************************************************)
(* A lease an administrator took back never saves: a fetch begun before a  *)
(* pause leaves nothing after it, a later resume or claim notwithstanding. *)
(* (Pause, Resume, Holds.)                                                 *)
CutNeverSaves ==
  \A r \in runs : <<r.source, r.gen>> \in cut => r.status \notin {"succeeded", "failed"}

FailedSinceSuccess(s) ==
  {r \in RunsOf(s) : /\ r.status = "failed"
                     /\ \A q \in RunsOf(s) : q.status = "succeeded" => q.gen < r.gen}

(* The failures of a source are its failed runs since the last success.     *)
(* (fail, NextFailure over a count read at the claim, MarkSuccess.)         *)
FailuresAreRuns == \A s \in Sources : sources[s].failures = Cardinality(FailedSinceSuccess(s))

(* A key is settled exactly when the one run it was given succeeded, and   *)
(* names that run from then on. (FetchNow, Settle in the transaction of    *)
(* the save.)                                                              *)
KeySettledByItsRun ==
  \A k \in Keys, s \in Sources :
    LET mine == {r \in RunsOf(s) : r.trigger = k} IN
    /\ Cardinality(mine) <= 1
    /\ ops[k][s].status = "succeeded" <=> \E r \in mine : r.status = "succeeded"
    /\ \A r \in mine : ops[k][s].status = "succeeded" => ops[k][s].run = r.gen

(* A run does not stay running: a crash, a lost lease, a broken save or a  *)
(* start after a later claim is followed by a claim that aborts it, unless *)
(* the source is paused or degraded meanwhile. (AbortStale, ClaimDue.) The *)
(* claims left under the bound are those the faults may still use up.      *)
RunsEnd ==
  \A s \in Sources, g \in 1..MaxGen - MaxFaults - 1 :
    (sources[s].gen < MaxGen - MaxFaults /\ \E r \in RunningOf(s) : r.gen = g)
      ~> (sources[s].status # "active" \/ ~\E r \in RunningOf(s) : r.gen = g)
=============================================================================
