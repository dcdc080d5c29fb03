---------------------------- MODULE IndexRebuild ----------------------------
(***************************************************************************)
(* The online rebuild of the search index: "search rebuild start, resume,  *)
(* cutover, rollback, abandon, cleanup", run one at a time from the command *)
(* line beside the writers and the executors of SearchProjection.          *)
(*                                                                         *)
(* A rebuild copies the public articles to a candidate index (snapshot),   *)
(* follows the slots that changed since it began (catch-up), compares      *)
(* (validate), and a cutover moves the read alias.  It is persisted in      *)
(* phases with watermarks, so that after a crash a new process resumes.    *)
(*                                                                         *)
(* An executor is one step here, Deliver: SearchProjection shows what its  *)
(* leases and fences are worth.  A batch is one article.                   *)
(***************************************************************************)
EXTENDS ProjectionSlot, FiniteSets

CONSTANTS Indexes,       \* physical indexes; each name is used once
          FirstIndex,    \* the index InitIndex created
          Legacy,        \* articles published before the slots existed
          Sampled,       \* the articles the validation samples
          SlowInserts,   \* may the transaction of a new article stay open?
          CleansCandidates, \* may cleanup name the candidate of a rebuild under way?
          CrashSteps,    \* the steps of a command a crash may come before
          MaxCrashes,    \* bound on crashes of the command
          MaxLost,       \* bound on Bulk items that fail
          MaxAbandons    \* bound on "search rebuild abandon"

NoIndex == "none"  \* NULL

(* An article is known by its number, a positive bigint of PostgreSQL.      *)
ASSUME RebuildAssumption ==
  /\ Articles \subseteq Nat /\ 0 \notin Articles /\ IsFiniteSet(Articles)
  /\ FirstIndex \in Indexes /\ NoIndex \notin Indexes
  /\ Legacy \subseteq Articles /\ Sampled \subseteq Articles
  /\ SlowInserts \in BOOLEAN /\ CleansCandidates \in BOOLEAN
  /\ MaxCrashes \in Nat /\ MaxLost \in Nat /\ MaxAbandons \in Nat

VARIABLES article,   \* velis.articles
          slot,      \* velis.search_projection_jobs
          delivery,  \* velis.search_projection_deliveries
          seq,       \* the sequence search_projection_change_seq
          served,    \* velis.search_index_state
          rebuild,   \* velis.search_index_rebuilds, by candidate index
          exists,    \* OpenSearch: which indexes exist
          alias,     \* OpenSearch: the index behind the read and write alias
          doc,       \* OpenSearch: the documents
          wire,      \* Bulk items of the command whose answer was lost
          opened,    \* the transaction of a new article, when it stays open
          cli,       \* the running command
          spent      \* crashes, failed items and abandons so far

vars == <<article, slot, delivery, seq, served, rebuild, exists, alias, doc, wire, opened, cli, spent>>

store  == <<article, slot, delivery, seq>>
search == <<exists, alias, doc, wire>>

Slot   == [gen : Nat, target : Target, seq : Nat]
NoSlot == [gen |-> 0, target |-> NoTarget, seq |-> 0]

(* A row that exists always asks for the generation of its slot.           *)
DeliveryStates == {"none", "owed", "done"}

Phases == {"none", "snapshot", "catchup", "validate", "validated", "cutover",
           "serving", "completed", "abandoned"}

Terminal == {"completed", "abandoned"}

(* activeRebuildPhases, and those that receive deliveries.                 *)
BuildPhases == {"snapshot", "catchup", "validate", "validated", "cutover"}
FedPhases   == BuildPhases \cup {"serving"}

Rebuild   == [phase : Phases, start : Nat, snap : Nat, catch : Nat]
NoRebuild == [phase |-> "none", start |-> 0, snap |-> 0, catch |-> 0]

(* Phase.CanTransition                                                     *)
CanTransition(from, to) ==
  LET rank == [p \in BuildPhases \cup {"serving", "completed"} |->
                 CASE p = "snapshot" -> 0 [] p = "catchup" -> 1 [] p = "validate" -> 2
                   [] p = "validated" -> 3 [] p = "cutover" -> 4 [] p = "serving" -> 5
                   [] p = "completed" -> 6]
  IN  /\ from \notin Terminal
      /\ \/ to = "abandoned"
         \/ /\ {from, to} \subseteq DOMAIN rank
            /\ \/ rank[to] \in {rank[from], rank[from] + 1}
               \/ from = "validate" /\ to = "catchup"
               \/ from = "validated" /\ to \in {"catchup", "validate"}

Served == [current : Indexes, rollback : Indexes \cup {NoIndex}, expired : BOOLEAN]

(* activeIndexesSQL                                                        *)
Active ==
  ({served.current, served.rollback} \cap Indexes) \cup {i \in Indexes : rebuild[i].phase \in FedPhases}

Steps == {"idle", "begin", "register", "page", "ensure", "read", "write", "converge", "mark", "caught",
          "drain", "scan", "lag", "count", "inspect", "lagging", "sample",
          "phase", "switch", "set", "serve", "back", "backset", "backdetach", "backphase",
          "detach", "abandon", "close", "closeset", "complete", "unused", "remove"}

(* index: the index the command works on.  For the item at hand: the loop  *)
(* it belongs to, the article, the target its document was built from, the *)
(* generation it is sent with and the change it was scanned at.  more: the *)
(* snapshot page had a successor.  seen: what the validation has read.     *)
Command == [pc : Steps, index : Indexes, loop : {"snapshot", "drain", "scan"},
            art : Articles \cup {0}, read : Target, gen : Nat, high : Nat,
            more : BOOLEAN, public : Nat, visible : Nat, clean : BOOLEAN]

Idle == [pc |-> "idle", index |-> FirstIndex, loop |-> "snapshot", art |-> 0, read |-> NoTarget,
         gen |-> 0, high |-> 0, more |-> FALSE, public |-> 0, visible |-> 0, clean |-> FALSE]

At(step)     == cli.pc = step
Go(step)     == cli' = [cli EXCEPT !.pc = step]
Finish       == cli' = Idle
NewCommand(step, i) == cli' = [Idle EXCEPT !.pc = step, !.index = i]

Candidate    == cli.index
NextItem(step) == NewCommand(step, Candidate)
Spend(what, bound) == spent[what] < bound /\ spent' = [spent EXCEPT ![what] = @ + 1]

Fact(a)      == TargetOf(article[a], NoSelection)
Shown(i, a)  == exists[i] /\ doc[i][a].target.action = "upsert"
Lagging(i)   == {a \in Articles : delivery[a][i] = "owed"}
MinOf(S)     == CHOOSE x \in S : \A y \in S : x <= y
Later(x, y)  == IF x >= y THEN x ELSE y

-----------------------------------------------------------------------------
(* The writers and the executors.                                          *)

(* advanceSearchProjectionTarget: every row of the slot is owed again, and *)
(* each active index gets a row.                                           *)
Advance(a, target) ==
  IF slot[a].target = target
  THEN UNCHANGED <<slot, delivery, seq>>
  ELSE /\ seq' = seq + 1
       /\ slot' = [slot EXCEPT ![a] = [gen |-> @.gen + 1, target |-> target, seq |-> seq + 1]]
       /\ delivery' = [delivery EXCEPT ![a] =
            [i \in Indexes |-> IF i \in Active \/ @[i] # "none" THEN "owed" ELSE "none"]]

WriteArticle(a) ==
  /\ opened.art # a
  /\ \E after \in NextRows(a, article[a]) :
       /\ article' = [article EXCEPT ![a] = after]
       /\ Advance(a, TargetOf(after, NoSelection))
  /\ UNCHANGED <<served, rebuild, search, opened, cli, spent>>

NotOpened == [art |-> 0]
Opened    == [art : Articles, row : ArticleRow, seq : Nat, into : SUBSET Indexes]

(* A new article whose transaction stays open: the change has its number   *)
(* and its deliveries, and nobody else sees any of it.                      *)
BeginInsert(a) ==
  /\ SlowInserts /\ opened = NotOpened /\ article[a].status = "absent"
  /\ \E row \in NextRows(a, article[a]) :
       opened' = [art |-> a, row |-> row, seq |-> seq + 1, into |-> Active]
  /\ seq' = seq + 1
  /\ UNCHANGED <<article, slot, delivery, served, rebuild, search, cli, spent>>

CommitInsert ==
  /\ opened # NotOpened
  /\ LET a == opened.art
     IN  /\ article' = [article EXCEPT ![a] = opened.row]
         /\ slot' = [slot EXCEPT ![a] =
              [gen |-> 1, target |-> TargetOf(opened.row, NoSelection), seq |-> opened.seq]]
         /\ delivery' = [delivery EXCEPT ![a] =
              [i \in Indexes |-> IF i \in opened.into THEN "owed" ELSE "none"]]
  /\ opened' = NotOpened
  /\ UNCHANGED <<seq, served, rebuild, search, cli, spent>>

(* A document lands in an index; OpenSearch creates an index that is not   *)
(* there, from the template that Create left behind.                       *)
Index(i, a, gen, target) ==
  /\ doc' = [doc EXCEPT ![i][a] = Put(@, gen, target)]
  /\ exists' = [exists EXCEPT ![i] = TRUE]

Deliver(a, i) ==
  /\ delivery[a][i] = "owed"
  /\ Index(i, a, slot[a].gen, slot[a].target)
  /\ delivery' = [delivery EXCEPT ![a][i] = "done"]
  /\ UNCHANGED <<article, slot, seq, served, rebuild, alias, wire, opened, cli, spent>>

Land(m) ==
  /\ Index(m.index, m.art, m.gen, m.read)
  /\ wire' = wire \ {m}
  /\ UNCHANGED <<store, served, rebuild, alias, opened, cli, spent>>

-----------------------------------------------------------------------------
(* start and resume.                                                       *)

Start(i) ==
  /\ At("idle") /\ exists[served.current]
  /\ ~exists[i] /\ rebuild[i] = NoRebuild /\ i # FirstIndex
  /\ exists' = [exists EXCEPT ![i] = TRUE]
  /\ NewCommand("begin", i)
  /\ UNCHANGED <<store, served, rebuild, alias, doc, wire, opened, spent>>

Conflict == served.rollback # NoIndex \/ \E i \in Indexes : rebuild[i].phase \in BuildPhases

Begin ==
  /\ At("begin")
  /\ IF Conflict
     THEN Finish /\ UNCHANGED <<rebuild, seq>>
     ELSE /\ seq' = seq + 1
          /\ rebuild' = [rebuild EXCEPT ![Candidate] =
               [phase |-> "snapshot", start |-> seq + 1, snap |-> 0, catch |-> 0]]
          /\ Go("register")
  /\ UNCHANGED <<article, slot, delivery, served, search, opened, spent>>

RegisterCandidate ==
  /\ At("register")
  /\ delivery' = [a \in Articles |->
       IF slot[a] = NoSlot THEN delivery[a] ELSE [delivery[a] EXCEPT ![Candidate] = "owed"]]
  /\ Go("page")
  /\ UNCHANGED <<article, slot, seq, served, rebuild, search, opened, spent>>

Resume(i) ==
  /\ At("idle")
  /\ \/ rebuild[i].phase = "snapshot" /\ NewCommand("page", i)
     \/ rebuild[i].phase = "catchup" /\ NewCommand("drain", i)
     \/ rebuild[i].phase \in {"validate", "validated"} /\ NewCommand("count", i)
  /\ UNCHANGED <<store, served, rebuild, search, opened, spent>>

(* RebuildStore.Update; each call leaves the command when it is refused.   *)
Update(i, r) == CanTransition(rebuild[i].phase, r.phase) /\ rebuild' = [rebuild EXCEPT ![i] = r]

Kept == rebuild[Candidate]

-----------------------------------------------------------------------------
(* Mutant: the watermark is moved when the page is read.                   *)
PageMarksProgress ==
  /\ At("page")
  /\ LET left == {a \in Articles : Public(article[a]) /\ a > Kept.snap}
         a    == MinOf(left)
     IN  IF left = {} THEN Go("caught") /\ UNCHANGED rebuild
         ELSE /\ cli' = [cli EXCEPT !.pc = "ensure", !.loop = "snapshot", !.art = a,
                                    !.read = Fact(a), !.more = (left # {a})]
              /\ Update(Candidate, [Kept EXCEPT !.snap = a])
  /\ UNCHANGED <<store, served, search, opened, spent>>

(* snapshot: the public articles in the order of their ids.  The document  *)
(* is built from the page, the generation is read after it.                *)
SnapshotPage ==
  /\ At("page")
  /\ LET left == {a \in Articles : Public(article[a]) /\ a > Kept.snap}
         a    == MinOf(left)
     IN  IF left = {} THEN Go("caught")
         ELSE cli' = [cli EXCEPT !.pc = "ensure", !.loop = "snapshot", !.art = a,
                                 !.read = Fact(a), !.more = (left # {a})]
  /\ UNCHANGED <<store, served, rebuild, search, opened, spent>>

(* Mutant: the document takes the change number for its version.           *)
EnsureSlotBySequence ==
  /\ At("ensure")
  /\ IF slot[cli.art] = NoSlot THEN Advance(cli.art, Fact(cli.art))
     ELSE UNCHANGED <<slot, delivery, seq>>
  /\ cli' = [cli EXCEPT !.pc = "write", !.gen = slot'[cli.art].seq]
  /\ UNCHANGED <<article, served, rebuild, search, opened, spent>>

EnsureSlot ==
  /\ At("ensure")
  /\ IF slot[cli.art] = NoSlot THEN Advance(cli.art, Fact(cli.art))
     ELSE UNCHANGED <<slot, delivery, seq>>
  /\ cli' = [cli EXCEPT !.pc = "write", !.gen = slot'[cli.art].gen]
  /\ UNCHANGED <<article, served, rebuild, search, opened, spent>>

SnapshotDone ==
  /\ At("caught")
  /\ Update(Candidate, [Kept EXCEPT !.phase = "catchup", !.catch = Later(@, Kept.start)])
  /\ Go("drain")
  /\ UNCHANGED <<store, served, search, opened, spent>>

-----------------------------------------------------------------------------
(* One item of the snapshot, of drainUntouched or of the catch-up: written *)
(* to the candidate, then its delivery is marked if the slot has not moved. *)
WriteItem ==
  /\ At("write")
  /\ Index(Candidate, cli.art, cli.gen, cli.read)
  /\ Go("converge")
  /\ UNCHANGED <<store, served, rebuild, alias, wire, opened, spent>>

(* The snapshot gives up; the two other loops go on with the next item.    *)
ItemFails ==
  /\ At("write")
  /\ \/ ~exists[Candidate] /\ UNCHANGED spent
     \/ Spend("lost", MaxLost)
  /\ \/ UNCHANGED wire
     \/ wire' = wire \cup {[index |-> Candidate, art |-> cli.art, gen |-> cli.gen, read |-> cli.read]}
  /\ CASE cli.loop = "snapshot" -> Finish
       [] cli.loop = "drain"    -> NextItem("drain")
       [] cli.loop = "scan"     -> Go("mark")
  /\ UNCHANGED <<store, served, rebuild, exists, alias, doc, opened>>

ConvergeCandidate ==
  /\ At("converge")
  /\ delivery' = IF slot[cli.art].gen = cli.gen /\ delivery[cli.art][Candidate] = "owed"
                 THEN [delivery EXCEPT ![cli.art][Candidate] = "done"] ELSE delivery
  /\ IF cli.loop = "drain" THEN NextItem("drain") ELSE Go("mark")
  /\ UNCHANGED <<article, slot, seq, served, rebuild, search, opened, spent>>

MarkProgress ==
  /\ At("mark")
  /\ IF cli.loop = "snapshot"
     THEN /\ Update(Candidate, [Kept EXCEPT !.snap = Later(@, cli.art)])
          /\ NextItem(IF cli.more THEN "page" ELSE "caught")
     ELSE /\ Update(Candidate, [Kept EXCEPT !.catch = Later(@, cli.high)])
          /\ NextItem("scan")
  /\ UNCHANGED <<store, served, search, opened, spent>>

-----------------------------------------------------------------------------
(* catchUp.  Its numbers of rounds are bounded: leaving a loop early is    *)
(* always possible.                                                        *)
DrainUntouched ==
  /\ At("drain")
  /\ \/ Go("scan")
     \/ /\ Lagging(Candidate) # {}
        /\ LET a == MinOf(Lagging(Candidate))
           IN  cli' = [cli EXCEPT !.pc = "read", !.loop = "drain", !.art = a, !.gen = slot[a].gen]
  /\ UNCHANGED <<store, served, rebuild, search, opened, spent>>

ScanChanges ==
  /\ At("scan")
  /\ LET changed == {a \in Articles : slot[a].seq > Later(Kept.catch, Kept.start)}
         a       == CHOOSE b \in changed : \A c \in changed : slot[b].seq <= slot[c].seq
     IN  IF changed = {} THEN Go("lag")
         ELSE cli' = [cli EXCEPT !.pc = "read", !.loop = "scan", !.art = a,
                                 !.gen = slot[a].gen, !.read = slot[a].target, !.high = slot[a].seq]
  /\ UNCHANGED <<store, served, rebuild, search, opened, spent>>

(* Current: drainUntouched marks an article that is not public without     *)
(* writing a tombstone; the catch-up leaves a slot that has moved alone.   *)
ReadCurrent ==
  /\ At("read")
  /\ IF cli.loop = "drain"
     THEN cli' = [cli EXCEPT !.pc = IF Public(article[cli.art]) THEN "write" ELSE "converge",
                             !.read = Fact(cli.art)]
     ELSE Go(IF Fact(cli.art) = cli.read THEN "write" ELSE "mark")
  /\ UNCHANGED <<store, served, rebuild, search, opened, spent>>

CatchUpDone ==
  /\ At("lag")
  /\ \/ /\ Lagging(Candidate) # {} /\ Go("scan") /\ UNCHANGED rebuild
     \/ Update(Candidate, [Kept EXCEPT !.phase = "validate"]) /\ Go("count")
  /\ UNCHANGED <<store, served, search, opened, spent>>

-----------------------------------------------------------------------------
(* validate: four reads at four times.                                     *)
CountPublic ==
  /\ At("count")
  /\ cli' = [cli EXCEPT !.pc = "inspect", !.public = Cardinality({a \in Articles : Public(article[a])})]
  /\ UNCHANGED <<store, served, rebuild, search, opened, spent>>

Inspect ==
  /\ At("inspect")
  /\ IF ~exists[Candidate] THEN Finish
     ELSE cli' = [cli EXCEPT !.pc = "lagging", !.visible = Cardinality({a \in Articles : Shown(Candidate, a)})]
  /\ UNCHANGED <<store, served, rebuild, search, opened, spent>>

CheckLagging ==
  /\ At("lagging")
  /\ cli' = [cli EXCEPT !.pc = "sample", !.clean = (Lagging(Candidate) = {})]
  /\ UNCHANGED <<store, served, rebuild, search, opened, spent>>

(* The fingerprint covers the generation.  Every public article has a slot *)
(* by now, so EnsureSlots creates none.                                    *)
SampleMatches ==
  \A a \in Sampled : Public(article[a]) =>
    doc[Candidate][a] = [gen |-> slot[a].gen, target |-> Fact(a)]

Verdict ==
  /\ At("sample")
  /\ LET passed == cli.public = cli.visible /\ cli.clean /\ SampleMatches
     IN  Update(Candidate, [Kept EXCEPT !.phase = IF passed THEN "validated" ELSE "validate"])
  /\ Finish
  /\ UNCHANGED <<store, served, search, opened, spent>>

-----------------------------------------------------------------------------
(* cutover and rollback.  SwitchAliases is one request.                    *)
Cutover(i) ==
  /\ At("idle") /\ rebuild[i].phase = "validated" /\ Lagging(i) = {}
  /\ NewCommand("phase", i)
  /\ UNCHANGED <<store, served, rebuild, search, opened, spent>>

EnterCutover ==
  /\ At("phase")
  /\ Update(Candidate, [Kept EXCEPT !.phase = "cutover"])
  /\ Go("switch")
  /\ UNCHANGED <<store, served, search, opened, spent>>

(* An index that is not there is an error.  Taking the alias off an index  *)
(* that does not have it is an error or is ignored; an alias left on two    *)
(* indexes is an error.                                                     *)
SwitchAliases(from, to, next) ==
  \/ exists[to] /\ alias \in {from, to} /\ alias' = to /\ Go(next)
  \/ /\ ~exists[to] \/ alias # from
     /\ UNCHANGED alias /\ Finish

Switch ==
  /\ At("switch")
  /\ SwitchAliases(served.current, Candidate, "set")
  /\ UNCHANGED <<store, served, rebuild, exists, doc, wire, opened, spent>>

SetServed ==
  /\ At("set")
  /\ served' = [current |-> Candidate, rollback |-> served.current, expired |-> FALSE]
  /\ Go("serve")
  /\ UNCHANGED <<store, rebuild, search, opened, spent>>

Serve ==
  /\ At("serve")
  /\ Update(Candidate, [Kept EXCEPT !.phase = "serving"])
  /\ Finish
  /\ UNCHANGED <<store, served, search, opened, spent>>

WindowPasses ==
  /\ served.rollback # NoIndex /\ ~served.expired
  /\ served' = [served EXCEPT !.expired = TRUE]
  /\ UNCHANGED <<store, rebuild, search, opened, cli, spent>>

Rollback(i) ==
  /\ At("idle") /\ rebuild[i].phase = "serving"
  /\ served.rollback # NoIndex /\ ~served.expired /\ exists[served.rollback]
  /\ NewCommand("back", i)
  /\ UNCHANGED <<store, served, rebuild, search, opened, spent>>

SwitchBack ==
  /\ At("back")
  /\ SwitchAliases(Candidate, served.rollback, "backset")
  /\ UNCHANGED <<store, served, rebuild, exists, doc, wire, opened, spent>>

(* Mutant: the window is closed before the index is read from it.          *)
SetBackForgets ==
  /\ At("backset")
  /\ served' = [current |-> NoIndex, rollback |-> NoIndex, expired |-> FALSE]
  /\ Go("backdetach")
  /\ UNCHANGED <<store, rebuild, search, opened, spent>>

SetBack ==
  /\ At("backset")
  /\ served' = [current |-> served.rollback, rollback |-> NoIndex, expired |-> FALSE]
  /\ Go("backdetach")
  /\ UNCHANGED <<store, rebuild, search, opened, spent>>

-----------------------------------------------------------------------------
(* abandon and cleanup.                                                    *)
Detached(i) == [a \in Articles |-> [delivery[a] EXCEPT ![i] = "none"]]

Abandon(i) ==
  /\ At("idle") /\ rebuild[i] # NoRebuild /\ Spend("abandon", MaxAbandons)
  /\ NewCommand("detach", i)
  /\ UNCHANGED <<store, served, rebuild, search, opened>>

(* Mutant: the deliveries of the index that came back are removed.         *)
DetachServed ==
  /\ \/ At("detach") /\ Go("abandon")
     \/ At("backdetach") /\ Go("backphase")
     \/ At("close") /\ Go("closeset")
  /\ delivery' = Detached(served.current)
  /\ UNCHANGED <<article, slot, seq, served, rebuild, search, opened, spent>>

DetachCandidate ==
  /\ \/ At("detach") /\ Go("abandon")
     \/ At("backdetach") /\ Go("backphase")
     \/ At("close") /\ Go("closeset")
  /\ delivery' = Detached(Candidate)
  /\ UNCHANGED <<article, slot, seq, served, rebuild, search, opened, spent>>

EnterAbandoned ==
  /\ At("abandon") \/ At("backphase")
  /\ IF CanTransition(Kept.phase, "abandoned")
     THEN rebuild' = [rebuild EXCEPT ![Candidate].phase = "abandoned"]
     ELSE UNCHANGED rebuild
  /\ Finish
  /\ UNCHANGED <<store, served, search, opened, spent>>

Cleanup(i) ==
  /\ At("idle") /\ exists[i] /\ i # served.current
  /\ CleansCandidates \/ rebuild[i].phase \notin BuildPhases
  /\ IF served.rollback = i
     THEN served.expired /\ NewCommand("close", i)
     ELSE NewCommand("unused", i)
  /\ UNCHANGED <<store, served, rebuild, search, opened, spent>>

CloseWindow ==
  /\ At("closeset")
  /\ served' = [current |-> served.current, rollback |-> NoIndex, expired |-> FALSE]
  /\ Go("complete")
  /\ UNCHANGED <<store, rebuild, search, opened, spent>>

CompleteRebuild ==
  /\ At("complete")
  /\ rebuild' = IF rebuild[served.current].phase = "serving"
                THEN [rebuild EXCEPT ![served.current].phase = "completed"] ELSE rebuild
  /\ Go("unused")
  /\ UNCHANGED <<store, served, search, opened, spent>>

CheckUnused ==
  /\ At("unused")
  /\ IF \A a \in Articles : delivery[a][Candidate] = "none" THEN Go("remove") ELSE Finish
  /\ UNCHANGED <<store, served, rebuild, search, opened, spent>>

(* Mutant: cleanup trusts search_index_state and never asks OpenSearch.    *)
RemoveUnasked ==
  /\ At("remove")
  /\ exists' = [exists EXCEPT ![Candidate] = FALSE]
  /\ doc' = [doc EXCEPT ![Candidate] = [a \in Articles |-> NoDoc]]
  /\ Finish
  /\ UNCHANGED <<store, served, rebuild, alias, wire, opened, spent>>

RemoveIndex ==
  /\ At("remove")
  /\ IF alias = Candidate
     THEN UNCHANGED <<exists, doc>>
     ELSE /\ exists' = [exists EXCEPT ![Candidate] = FALSE]
          /\ doc' = [doc EXCEPT ![Candidate] = [a \in Articles |-> NoDoc]]
  /\ Finish
  /\ UNCHANGED <<store, served, rebuild, alias, wire, opened, spent>>

Crash ==
  /\ cli.pc \in CrashSteps \ {"idle"} /\ Spend("crash", MaxCrashes)
  /\ Finish
  /\ UNCHANGED <<store, served, rebuild, search, opened>>

-----------------------------------------------------------------------------
Init ==
  /\ article = [a \in Articles |-> IF a \in Legacy THEN FirstRow("published") ELSE AbsentArticle]
  /\ slot = [a \in Articles |-> NoSlot]
  /\ delivery = [a \in Articles |-> [i \in Indexes |-> "none"]]
  /\ seq = 0
  /\ served = [current |-> FirstIndex, rollback |-> NoIndex, expired |-> FALSE]
  /\ rebuild = [i \in Indexes |-> NoRebuild]
  /\ exists = [i \in Indexes |-> i = FirstIndex]
  /\ alias = FirstIndex
  /\ doc = [i \in Indexes |-> [a \in Articles |-> NoDoc]]
  /\ wire = {}
  /\ opened = NotOpened
  /\ cli = Idle
  /\ spent = [crash |-> 0, lost |-> 0, abandon |-> 0]

World ==
  \/ \E a \in Articles : WriteArticle(a) \/ BeginInsert(a) \/ \E i \in Indexes : Deliver(a, i)
  \/ CommitInsert
  \/ \E m \in wire : Land(m)
  \/ WindowPasses

Operator ==
  \E i \in Indexes : Start(i) \/ Resume(i) \/ Cutover(i) \/ Rollback(i) \/ Abandon(i) \/ Cleanup(i)

RunStep ==
  \/ Begin \/ RegisterCandidate \/ SnapshotPage \/ EnsureSlot \/ SnapshotDone
  \/ WriteItem \/ ItemFails \/ ConvergeCandidate \/ MarkProgress
  \/ DrainUntouched \/ ScanChanges \/ ReadCurrent \/ CatchUpDone
  \/ CountPublic \/ Inspect \/ CheckLagging \/ Verdict

SwitchStep ==
  \/ EnterCutover \/ Switch \/ SetServed \/ Serve
  \/ SwitchBack \/ SetBack \/ DetachCandidate \/ EnterAbandoned
  \/ CloseWindow \/ CompleteRebuild \/ CheckUnused \/ RemoveIndex

Next == World \/ Operator \/ RunStep \/ SwitchStep \/ Crash

Spec == Init /\ [][Next]_vars

-----------------------------------------------------------------------------
(* Properties.                                                             *)

TypeOK ==
  /\ article \in [Articles -> ArticleRow]
  /\ slot \in [Articles -> Slot]
  /\ delivery \in [Articles -> [Indexes -> DeliveryStates]]
  /\ seq \in Nat
  /\ served \in Served
  /\ rebuild \in [Indexes -> Rebuild]
  /\ exists \in [Indexes -> BOOLEAN]
  /\ alias \in Indexes
  /\ doc \in [Indexes -> [Articles -> Doc]]
  /\ wire \subseteq [index : Indexes, art : Articles, gen : Nat, read : Target]
  /\ opened \in Opened \cup {NotOpened}
  /\ cli \in Command
  /\ spent \in [{"crash", "lost", "abandon"} -> Nat]

(* What a reader gets through the alias is the current fact, or a delivery *)
(* is under way that will make it so: through start, snapshot, catch-up,    *)
(* cutover, rollback and resume after a crash.  (An article without a slot  *)
(* was published before the index existed and waits for a rebuild.)        *)
ServedOrOwed ==
  \A a \in Articles :
    \/ slot[a] = NoSlot
    \/ delivery[a][alias] = "owed"
    \/ IF Public(article[a]) THEN doc[alias][a].target = Fact(a) ELSE ~Shown(alias, a)

(* After the snapshot, whether or not it was resumed from its watermark,   *)
(* the candidate shows every public article as it is now, or a delivery is *)
(* under way, or the catch-up has not come to the change yet.               *)
CandidateComplete ==
  \A i \in Indexes, a \in Articles :
    /\ rebuild[i].phase \in {"catchup", "validate", "validated"}
    /\ Public(article[a])
    => \/ doc[i][a].target = Fact(a)
       \/ delivery[a][i] = "owed"
       \/ slot[a].seq > Later(rebuild[i].catch, rebuild[i].start)

(* A document never carries a version its slot has not reached, so that the *)
(* next delivery is not refused: the snapshot and the catch-up stamp their  *)
(* items with the generation of the slot, whatever is lost or comes late.   *)
VersionsComeFromSlots ==
  /\ \A i \in Indexes, a \in Articles : doc[i][a].gen <= slot[a].gen
  /\ \A m \in wire : m.gen <= slot[m.art].gen

(* The index behind the alias, the one search_index_state names and the    *)
(* one a rollback would return to exist: no order of cutover, crash,        *)
(* abandon and cleanup deletes them.                                       *)
AliasIsLive ==
  /\ exists[alias] /\ exists[served.current]
  /\ served.rollback # NoIndex => exists[served.rollback]
=============================================================================
