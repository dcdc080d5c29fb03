--------------------------------- MODULE Readers ---------------------------------
(***************************************************************************)
(* What becomes of a published article: its events and its task             *)
(* (ArticlePipeline), the latest list and its cache (Reading), the search   *)
(* over a point in time (ArticleSearch), and recommendations with the       *)
(* feedback they follow (Recommend).                                        *)
(*                                                                         *)
(* The four touch no state of each other here.  A behaviour is one of       *)
(* theirs, as focus says, while the rest stays as it began.                 *)
(***************************************************************************)
EXTENDS ArticlePipeline

CONSTANTS ListIds, ListSorts, Clients, ListSize, MaxChecked, LatestTTL,        \* Reading
          MaxRead, MaxMinute, MaxEdits, MaxScrolls,
          HitIds, Hits, Near, SearchSize, BatchSize, MaxCandidates,             \* ArticleSearch
          BM25Candidates, KNNCandidates, KeepAlive, HybridTTL,
          MaxHour, MaxUpdates, MaxSearches, MaxMishaps,
          CardIds, CardSorts, Topic, Liked, Recalls, PageSize, DayLength,       \* Recommend
          ReadRetention, DislikeTTL, PlanTTL, CursorTTL,
          FeedbackKinds, MaxWindow, MaxChanges, MaxFeedback, MaxQueries

VARIABLES focus,
          listed, latest, owed, minute, edits, listing, scroll,                \* Reading
          docs, index, hybrid, pits, search, cursor, found, hour, updates,     \* ArticleSearch
          mishaps,
          facts, reads, favorites, dislikes, writing, plan, query, token,      \* Recommend
          shown, window, changes, feedbacks

reading      == <<listed, latest, owed, minute, edits, listing, scroll>>
searching    == <<docs, index, hybrid, pits, search, cursor, found, hour, updates, mishaps>>
recommending == <<facts, reads, favorites, dislikes, writing, plan, query, token, shown, window,
                  changes, feedbacks>>

R == INSTANCE Reading WITH
       Articles <- ListIds, Sorts <- ListSorts, Readers <- Clients, Limit <- ListSize,
       MaxTime <- MaxMinute, MaxWrites <- MaxEdits, MaxWalks <- MaxScrolls,
       articles <- listed, clock <- minute, writes <- edits, request <- listing, walk <- scroll

S == INSTANCE ArticleSearch WITH
       Articles <- HitIds, Limit <- SearchSize, MaxTime <- MaxHour, MaxWrites <- MaxUpdates,
       MaxWalks <- MaxSearches, MaxFaults <- MaxMishaps,
       articles <- docs, request <- search, walk <- found, clock <- hour, writes <- updates,
       faults <- mishaps

C == INSTANCE Recommend WITH
       Articles <- CardIds, Sorts <- CardSorts, Limit <- PageSize, MaxTime <- MaxWindow,
       MaxWrites <- MaxChanges, MaxWalks <- MaxQueries,
       articles <- facts, request <- query, cursor <- token, walk <- shown, clock <- window,
       writes <- changes

ASSUME ReadersAssumption ==
  R!ReadingAssumption /\ S!ArticleSearchAssumption /\ C!RecommendAssumption

(* Where nothing happens, one initial state is enough.                     *)
AllInit ==
  /\ focus \in {"pipeline", "reading", "search", "recommend"}
  /\ Init /\ R!Init /\ S!Init /\ C!Init
  /\ focus # "search" => ~hybrid
  /\ focus # "recommend" => plan = C!NoPlan /\ \A i \in CardIds : facts[i].public

all == <<focus, vars, reading, searching, recommending>>

AllNext ==
  \/ focus = "pipeline" /\ Next /\ UNCHANGED <<focus, reading, searching, recommending>>
  \/ focus = "reading" /\ R!Next /\ UNCHANGED <<focus, vars, searching, recommending>>
  \/ focus = "search" /\ S!Next /\ UNCHANGED <<focus, vars, reading, recommending>>
  \/ focus = "recommend" /\ C!Next /\ UNCHANGED <<focus, vars, reading, searching>>

AllSpec == AllInit /\ [][AllNext]_all

-----------------------------------------------------------------------------
(* The types of what readers see, and the properties of the components.    *)
AllTypesOK == R!TypeOK /\ S!TypeOK /\ C!TypeOK

(* Walking the latest list misses no article that was public and unchanged  *)
(* all along, and lists strictly downwards across pages of any age.         *)
(* (latest.go, ListLatest.)                                                 *)
LatestWalk == R!WalkComplete /\ R!WalkDescends

(* No response lists an article withdrawn before its request.             *)
(* (ListPublicFacts.)                                                     *)
NothingWithdrawn == R!NothingWithdrawn

(* The pages of a search follow the order fixed by its first, show nothing  *)
(* that was withdrawn or was near for another vector, and have shown, at    *)
(* the end, every hit that was public all along. (Search, pageFromCurrent.) *)
SearchWalk == S!KeepsOrder /\ S!NothingStale /\ S!SkipsNone

(* A point in time is never left open by a request that ends. (Search,    *)
(* closePIT.)                                                             *)
PitsAccounted == S!PitsAccounted

(* A walk through recommendations shows no article twice, unless it was     *)
(* sorted anew, nothing withdrawn or dismissed before the request, and, at  *)
(* the end, every article it could show all along. (page.)                  *)
RecommendWalk == C!NoRepeat /\ C!OldNewsStaysHidden /\ C!WalkShowsAll

(* Feedback is recorded for public articles only, and its clean-up changes  *)
(* no recommendation to come. (withPublishedArticle, Cleanup.)              *)
FeedbackHolds == C!FeedbackWhilePublic /\ C!CleanupUnseen

(* An article the user dismissed before a page is not on it.              *)
(* (article-recommendation/spec.md.)                                      *)
DismissedNeverShown == C!DismissedNeverShown
==================================================================================
