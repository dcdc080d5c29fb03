-------------------------------- MODULE MCRebuild --------------------------------
(***************************************************************************)
(* Two instances of IndexRebuild in one run.  In the first, three indexes  *)
(* follow each other while writers go on; in the second, transactions stay  *)
(* open, Bulk items fail, candidates are abandoned or cleaned up, and the   *)
(* command stops before any of its steps.  focus says which of them runs.   *)
(***************************************************************************)
EXTENDS MCIndexRebuild

CONSTANTS First, Second   \* the indexes of the second

VARIABLES focus, row, job, target, counter, state, attempt, created, pointer, entry, pending,
          held, command, used

second == <<row, job, target, counter, state, attempt, created, pointer, entry, pending, held,
            command, used>>

F == INSTANCE IndexRebuild WITH
       Articles <- {1}, RssArticles <- {}, MaxVersion <- 2, MaxAttempts <- 1,
       Indexes <- {First, Second}, FirstIndex <- First, Legacy <- {}, Sampled <- {1},
       SlowInserts <- TRUE, CleansCandidates <- TRUE, CrashSteps <- Steps, MaxCrashes <- 1,
       MaxLost <- 1, MaxAbandons <- 1,
       article <- row, slot <- job, delivery <- target, seq <- counter, served <- state,
       rebuild <- attempt, exists <- created, alias <- pointer, doc <- entry, wire <- pending,
       opened <- held, cli <- command, spent <- used

AllInit == focus \in {"serve", "faults"} /\ Init /\ F!Init

AllNext ==
  \/ focus = "serve" /\ Next /\ UNCHANGED <<focus, second>>
  \/ focus = "faults" /\ F!Next /\ UNCHANGED <<focus, vars>>

AllSpec == AllInit /\ [][AllNext]_<<focus, vars, second>>

-----------------------------------------------------------------------------
(* The state of the second instance has its types, and whatever fails, no   *)
(* document and no Bulk item under way carries a version above the one of   *)
(* its slot. (EnsureSlot, SnapshotPage.)                                    *)
FaultyTypesOK == F!TypeOK /\ F!VersionsComeFromSlots

(* Whatever fails, the alias and the rows that name an index to read or to  *)
(* go back to name one that exists. (RemoveIndex, SetBack.)                 *)
FaultyAliasIsLive == F!AliasIsLive
==================================================================================
