--------------------------------- MODULE Ingest ---------------------------------
(***************************************************************************)
(* What brings an article into the system and what follows a commit: the   *)
(* outbox and its relay (ArticlePipeline), the scheduled and manual fetch   *)
(* of sources, the fetch of a feed, and authors with their images.          *)
(*                                                                         *)
(* The four touch no state of each other.  A behaviour is one of theirs, as *)
(* focus says, while the rest stays as it began: interleaving them would    *)
(* show nothing more.                                                      *)
(***************************************************************************)
EXTENDS ArticlePipeline

CONSTANTS Sources, Keys, DegradeAt, MaxClaims, MaxWrites, MaxBreaks,     \* SourceFetch
          Hosts, Documents, MaxRedirects, MaxItems, MaxFetches,          \* FeedFetch
          Images, Drafts, Quota, PendingLimit, MaxImages, MaxEdits,      \* Authoring
          MaxConfirms, MaxFailures

VARIABLES focus,
          sources, runs, ops, fetchers, cut, breaks,                        \* SourceFetch
          proxied, dns, phase, target, hops, reached, outcome, items,       \* FeedFetch
          report, document, fetches,
          assets, objects, drafts, confirms, cleaner, failures              \* Authoring

fetching  == <<sources, runs, ops, fetchers, cut, breaks>>
feeding   == <<proxied, dns, phase, target, hops, reached, outcome, items, report, document,
               fetches>>
authoring == <<assets, objects, drafts, confirms, cleaner, failures>>

F == INSTANCE SourceFetch WITH
       MaxGen <- MaxClaims, MaxVersion <- MaxWrites, MaxFaults <- MaxBreaks,
       workers <- fetchers, faults <- breaks

D == INSTANCE FeedFetch WITH articles <- items

A == INSTANCE Authoring WITH
       Assets <- Images, Articles <- Drafts, MaxVersion <- MaxEdits,
       MaxFaults <- MaxFailures, articles <- drafts, faults <- failures

ASSUME IngestAssumption ==
  F!SourceFetchAssumption /\ D!FeedFetchAssumption /\ A!AuthoringAssumption

(* Where nothing happens, one initial state is enough.                     *)
AllInit ==
  /\ focus \in {"pipeline", "fetch", "feed", "author"}
  /\ Init /\ F!Init /\ D!Init /\ A!Init
  /\ focus # "feed" => proxied

all == <<focus, vars, fetching, feeding, authoring>>

In(f, step) ==
  /\ focus = f /\ step /\ UNCHANGED focus

Pipeline(step) == In("pipeline", step) /\ UNCHANGED <<fetching, feeding, authoring>>
Fetch(step)    == In("fetch", step) /\ UNCHANGED <<vars, feeding, authoring>>
Read(step)     == In("feed", step) /\ UNCHANGED <<vars, fetching, authoring>>
Write(step)    == In("author", step) /\ UNCHANGED <<vars, fetching, feeding>>

AllNext == Pipeline(Next) \/ Fetch(F!Next) \/ Read(D!Next) \/ Write(A!Next)

(* The fairness of the component that runs: ArticlePipeline's for each      *)
(* event, SourceFetch's for each source, Authoring's for each image.  focus *)
(* never changes, so of each disjunction one disjunct at most is ever       *)
(* enabled.                                                                *)
AllFairness ==
  /\ \A e \in EventIds, s \in Sources :
       /\ WF_all(Pipeline(RelayStep(e)) \/ Fetch(F!Work) \/ Write(A!Clean))
       /\ WF_all(Pipeline(ConsumerStep(e)) \/ Fetch(F!ClaimDue(s)))
       /\ WF_all(Pipeline(ReplayStep(e)) \/ Fetch(F!ComeDue(s)))
  /\ \A a \in Images, s \in Sources : WF_all(Write(A!Age(a)) \/ Fetch(F!Expire(s)))

AllSpec == AllInit /\ [][AllNext]_all /\ AllFairness

-----------------------------------------------------------------------------
(* The types of all, and the properties of the three other components.     *)
AllTypesOK == TypeOK /\ F!TypeOK /\ D!TypeOK /\ A!TypeOK

(* A fetch whose lease an administrator took back saves nothing.          *)
(* (Complete.)                                                            *)
CutNeverSaves == F!CutNeverSaves

(* An idempotency key of a fetch succeeds with the one run it started, and  *)
(* what a source counts as failures in a row are failed runs of it.         *)
(* (FetchNow, OnComplete, MarkFailure, NextFailure.)                        *)
RunsAccounted == F!KeySettledByItsRun /\ F!FailuresAreRuns

(* A run does not stay running. (AbortStale, ClaimDue.)                   *)
RunsEnd == F!RunsEnd

(* A fetch connects to public addresses only, whatever the DNS answers      *)
(* next, and follows redirects up to the bound; the same document again     *)
(* changes nothing. (safeDialContext, CheckRedirect, upsertRSSArticle.)     *)
FeedFetchSafe == D!OnlyPublicReached /\ D!RedirectBudget /\ D!SameDocumentUnchanged

(* Confirmations in flight together never exceed the quota, and an article  *)
(* that is or was published has something to show. (confirm, LockOwner,     *)
(* RenderUserContent.)                                                      *)
AuthorWithinLimits == A!QuotaHolds /\ A!PublishedIsNotBlank

(* The images of a deleted article are removed in the end.                *)
(* (removeDeletePending.)                                                 *)
DeletedArticleReleases == A!DeletedArticleReleases

(* The clean-up takes no image from an article that is not deleted.       *)
(* (cleanup.go.)                                                          *)
ImagesStay == A!ImagesStay

=================================================================================
