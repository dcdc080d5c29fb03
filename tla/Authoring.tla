------------------------------- MODULE Authoring -------------------------------
(***************************************************************************)
(* What a user writes: articles in Markdown and the private images they    *)
(* refer to, from the signed upload to the removal of the object.          *)
(*                                                                         *)
(* A confirmation reads the asset, probes the object store, and writes the *)
(* whole row back; the clean-up lists rows and writes them back one by one *)
(* without a transaction. ArticleAssetRepository.Save has no version to    *)
(* compare. One author; ArticleFact has the writes of administrators.      *)
(***************************************************************************)
EXTENDS Integers, FiniteSets

CONSTANTS Assets,        \* images of the author, of size 1 each
          Articles,      \* articles of the author
          Quota,         \* UserQuotaBytes
          PendingLimit,  \* PendingLimit
          MaxImages,     \* images of an article
          MaxVersion,    \* bound on the writes of an article
          MaxConfirms,   \* bound on the confirmations under way, of any two images
          MaxFaults      \* bound on the failures of the clean-up

AuthoringAssumption ==
  /\ IsFiniteSet(Assets) /\ Quota \in Nat /\ PendingLimit \in Nat /\ MaxImages \in Nat
  /\ MaxVersion \in Nat \ {0} /\ MaxConfirms \in Nat /\ MaxFaults \in Nat

VARIABLES assets,    \* velis.article_assets
          objects,   \* the keys of the bucket that hold an object
          articles,  \* the author's rows of velis.articles, with their revision
          confirms,  \* how many confirmations are past their read and probe
          cleaner,   \* the clean-up under way: its step and the rows it listed
          faults     \* failures so far

vars == <<assets, objects, articles, confirms, cleaner, faults>>

None == "none"

(* counted is quota_counted_at, aged that the TTL of the status is over.   *)
(* A row that is being created is inserted, but not committed.             *)
Row == [status : {"absent", "creating", "pending", "ready", "delete_pending", "deleted",
                  "removed"},
        bound : Articles \cup {None}, counted : BOOLEAN, aged : BOOLEAN]
NoRow == [status |-> "absent", bound |-> None, counted |-> FALSE, aged |-> FALSE]

(* images are the references of the current revision, referred those of    *)
(* every revision; blank means that the title, or both the text and the    *)
(* images, are missing.                                                    *)
Article == [status : {"absent", "draft", "published", "offline", "deleted"},
            version : 0..MaxVersion, images : SUBSET Assets, referred : SUBSET Assets,
            blank : BOOLEAN]

Steps == {"idle", "mark", "remove", "expire"}

TypeOK ==
  /\ assets \in [Assets -> Row]
  /\ objects \subseteq Assets
  /\ articles \in [Articles -> Article]
  /\ confirms \in [Assets -> 0..MaxConfirms]
  /\ cleaner \in [step : Steps, rows : SUBSET [asset : Assets, row : Row, gone : BOOLEAN]]
  /\ faults \in 0..MaxFaults

Init ==
  /\ assets = [a \in Assets |-> NoRow] /\ objects = {}
  /\ articles = [t \in Articles |->
       [status |-> "absent", version |-> 0, images |-> {}, referred |-> {}, blank |-> TRUE]]
  /\ confirms = [a \in Assets |-> 0] /\ cleaner = [step |-> "idle", rows |-> {}] /\ faults = 0

Pending == {a \in Assets : assets[a].status = "pending"}
Counted == {a \in Assets : assets[a].counted /\ assets[a].status # "deleted"}

-----------------------------------------------------------------------------
(***************************************************************************)
(* Uploads.                                                                *)
(***************************************************************************)
(* Create under a new key: Usage is read without the lock of the owner, so *)
(* that two of them may pass side by side.  A key that succeeded reads the *)
(* row again and signs an upload anew, which changes nothing.              *)
CreateAsset(a) ==
  /\ assets[a].status = "absent"
  /\ Cardinality(Pending) < PendingLimit /\ Cardinality(Counted) + 1 <= Quota
  /\ assets' = [assets EXCEPT ![a].status = "creating"]
  /\ UNCHANGED <<objects, articles, confirms, cleaner, faults>>

(* Its transaction commits, or rolls back.                                 *)
EndCreate(a, status) ==
  /\ assets[a].status = "creating"
  /\ assets' = [assets EXCEPT ![a].status = status]
  /\ UNCHANGED <<objects, articles, confirms, cleaner, faults>>

(* The browser's PUT with the presigned URL, that outlives the row.        *)
Upload(a) ==
  /\ assets[a].status \notin {"absent", "creating"} /\ a \notin objects
  /\ objects' = objects \cup {a}
  /\ UNCHANGED <<assets, articles, confirms, cleaner, faults>>

(* The read and the probe of Confirm: an object that is missing or not an  *)
(* image within the limits is refused.                                     *)
ConfirmRead(a) ==
  /\ assets[a].status = "pending" /\ a \in objects
  /\ confirms[a] < MaxConfirms
  /\ \A b \in Assets \ {a} : confirms[a] + confirms[b] < MaxConfirms
  /\ confirms' = [confirms EXCEPT ![a] = @ + 1]
  /\ UNCHANGED <<assets, objects, articles, cleaner, faults>>

(* Mutant: the size of the image itself is not added.                      *)
WithinQuotaBefore == Cardinality(Counted) <= Quota

(* Usage under the lock of the owner's row.                                *)
WithinQuota == Cardinality(Counted) + 1 <= Quota

(* The rest of Confirm: Save writes the row as it was read, pending and    *)
(* bound nowhere, made ready; only quota_counted_at is kept, and a row     *)
(* that is gone is not written.                                            *)
ConfirmCommit(a) ==
  /\ confirms[a] > 0 /\ confirms' = [confirms EXCEPT ![a] = @ - 1]
  /\ assets' = IF WithinQuota /\ assets[a].status # "removed"
               THEN [assets EXCEPT ![a] = [NoRow EXCEPT !.status = "ready", !.counted = TRUE]]
               ELSE assets
  /\ UNCHANGED <<objects, articles, cleaner, faults>>

Age(a) ==
  /\ assets[a].status \in {"pending", "ready"} /\ assets[a].bound = None /\ ~assets[a].aged
  /\ assets' = [assets EXCEPT ![a].aged = TRUE]
  /\ UNCHANGED <<objects, articles, confirms, cleaner, faults>>

-----------------------------------------------------------------------------
(***************************************************************************)
(* Articles.                                                               *)
(***************************************************************************)
(* BindArticleAssets: all of them ready and bound nowhere else, or none.   *)
Bindable(t, images) ==
  /\ Cardinality(images) <= MaxImages
  /\ \A a \in images : assets[a].status = "ready" /\ assets[a].bound \in {None, t}

Bound(t, images) ==
  [a \in Assets |-> IF a \in images THEN [assets[a] EXCEPT !.bound = t, !.aged = FALSE]
                    ELSE assets[a]]

(* Mutant: an edit is always rendered as a draft.                          *)
RenderableDraft(status, blank) == TRUE

(* RenderUserContent: only a draft may be blank.                           *)
Renderable(status, blank) == status = "draft" \/ ~blank

Write(t, row, images) ==
  /\ articles[t].version < MaxVersion /\ Bindable(t, images)
  /\ articles' = [articles EXCEPT ![t] = row] /\ assets' = Bound(t, images)
  /\ UNCHANGED <<objects, confirms, cleaner, faults>>

CreateArticle(t, status, images, blank) ==
  /\ articles[t].status = "absent" /\ Renderable(status, blank)
  /\ Write(t, [status |-> status, version |-> 1, images |-> images, referred |-> images,
               blank |-> blank], images)

(* An edit that changes the content; the caller names the version it saw.  *)
Update(t, images, blank) ==
  LET row == articles[t] IN
  /\ row.status \notin {"absent", "deleted"} /\ <<images, blank>> # <<row.images, row.blank>>
  /\ Renderable(row.status, blank)
  /\ Write(t, [row EXCEPT !.version = @ + 1, !.images = images, !.referred = @ \cup images,
                          !.blank = blank], images)

SetState(t, from, status) ==
  /\ articles[t].status \in from /\ articles[t].version < MaxVersion
  /\ articles' = [articles EXCEPT ![t].status = status, ![t].version = @ + 1]

Publish(t) ==
  /\ ~articles[t].blank
  /\ SetState(t, {"draft", "offline"}, "published")
  /\ UNCHANGED <<assets, objects, confirms, cleaner, faults>>

Offline(t) ==
  /\ SetState(t, {"published"}, "offline")
  /\ UNCHANGED <<assets, objects, confirms, cleaner, faults>>

(* Mutant: the assets of a deleted article are left to the clean-up.       *)
ReleasedNever(t) == assets

(* SetArticleState(deleted) marks the ready assets of the article.         *)
Released(t) ==
  [a \in Assets |-> IF assets[a].bound = t /\ assets[a].status = "ready"
                    THEN [assets[a] EXCEPT !.status = "delete_pending"] ELSE assets[a]]

Delete(t) ==
  /\ SetState(t, {"draft", "published", "offline"}, "deleted")
  /\ assets' = Released(t)
  /\ UNCHANGED <<objects, confirms, cleaner, faults>>

-----------------------------------------------------------------------------
(***************************************************************************)
(* Clean-up.                                                               *)
(***************************************************************************)
Listed(chosen) == {[asset |-> a, row |-> assets[a], gone |-> FALSE] : a \in chosen}

(* Each step lists its rows once the step before is through.               *)
List(from, to, chosen) ==
  /\ cleaner.step = from /\ cleaner.rows = {}
  /\ cleaner' = [step |-> to, rows |-> Listed(chosen)]
  /\ UNCHANGED <<assets, objects, articles, confirms, faults>>

Aged(status) == {a \in Assets : assets[a].status = status /\ assets[a].aged}

ListUnbound == List("idle", "mark", {a \in Aged("ready") : assets[a].bound = None})
ListDeletePending == List("mark", "remove", {a \in Assets : assets[a].status = "delete_pending"})
ListExpired == List("remove", "expire", Aged("pending"))
EndCleanup  == List("expire", "idle", {})

Drop(x) == cleaner' = [cleaner EXCEPT !.rows = @ \ {x}]

(* RequestDelete, and the listed row written back.                         *)
Mark(x) ==
  /\ cleaner.step = "mark" /\ Drop(x)
  /\ assets' = [assets EXCEPT ![x.asset] = [x.row EXCEPT !.status = "delete_pending", !.aged = FALSE]]
  /\ UNCHANGED <<objects, articles, confirms, faults>>

(* DeleteObject succeeds when there is none; a failure leaves the row to   *)
(* the next clean-up.                                                      *)
DeleteObject(x) ==
  /\ cleaner.step \in {"remove", "expire"} /\ ~x.gone
  /\ \/ /\ objects' = objects \ {x.asset}
        /\ cleaner' = [cleaner EXCEPT !.rows = (@ \ {x}) \cup {[x EXCEPT !.gone = TRUE]}]
        /\ UNCHANGED faults
     \/ /\ faults < MaxFaults /\ faults' = faults + 1
        /\ Drop(x) /\ UNCHANGED objects
  /\ UNCHANGED <<assets, articles, confirms>>

(* MarkDeleted, and the listed row written back.                           *)
RemoveRow(x) ==
  /\ cleaner.step = "remove" /\ x.gone /\ Drop(x)
  /\ assets' = [assets EXCEPT ![x.asset] = [x.row EXCEPT !.status = "deleted"]]
  /\ UNCHANGED <<objects, articles, confirms, faults>>

(* The row of an upload that expired is deleted; if a revision refers to   *)
(* it by now, the DELETE fails on the foreign key, and the run is over.    *)
DeleteRow(x) ==
  /\ cleaner.step = "expire" /\ x.gone
  /\ IF \E t \in Articles : x.asset \in articles[t].referred
     THEN cleaner' = [step |-> "idle", rows |-> {}] /\ UNCHANGED assets
     ELSE Drop(x) /\ assets' = [assets EXCEPT ![x.asset] = [NoRow EXCEPT !.status = "removed"]]
  /\ UNCHANGED <<objects, articles, confirms, faults>>

(* The worker stops, or a query fails: the run is over.                    *)
Interrupt ==
  /\ cleaner.step # "idle" /\ faults < MaxFaults /\ faults' = faults + 1
  /\ cleaner' = [step |-> "idle", rows |-> {}]
  /\ UNCHANGED <<assets, objects, articles, confirms>>

Storage ==
  \E a \in Assets :
    \/ CreateAsset(a) \/ Upload(a)
    \/ \E status \in {"pending", "absent"} : EndCreate(a, status)
Confirm == \E a \in Assets : ConfirmRead(a) \/ ConfirmCommit(a)
Author ==
  \E t \in Articles :
    \/ \E images \in SUBSET Assets, blank \in BOOLEAN :
         \/ \E status \in {"draft", "published"} : CreateArticle(t, status, images, blank)
         \/ Update(t, images, blank)
    \/ Publish(t) \/ Offline(t) \/ Delete(t)
Clean ==
  \/ ListUnbound \/ ListDeletePending \/ ListExpired \/ EndCleanup
  \/ \E x \in cleaner.rows : Mark(x) \/ DeleteObject(x) \/ RemoveRow(x) \/ DeleteRow(x)
Aging == \E a \in Assets : Age(a)

Next == Storage \/ Confirm \/ Author \/ Clean \/ Aging \/ Interrupt

Spec == Init /\ [][Next]_vars

(* The clean-up runs at every interval and the clock advances.             *)
Fairness == WF_vars(Clean) /\ \A a \in Assets : WF_vars(Age(a))

FairSpec == Spec /\ Fairness

-----------------------------------------------------------------------------
(***************************************************************************)
(* Properties.                                                             *)
(***************************************************************************)
(* What an author has stored never exceeds the quota, however many         *)
(* confirmations read before any of them commits. (confirm, LockOwner.)    *)
QuotaHolds == Cardinality(Counted) <= Quota

(* An article that is or was published has something to show: neither an   *)
(* edit nor a publication after one leaves it blank. (Update, Publish,     *)
(* RenderUserContent.)                                                     *)
PublishedIsNotBlank ==
  \A t \in Articles : articles[t].status \in {"published", "offline"} => ~articles[t].blank

(* The objects of a deleted article are removed in the end, whatever fails *)
(* in between. (SetArticleState, removeDeletePending.)                     *)
DeletedArticleReleases ==
  \A t \in Articles :
    articles[t].status = "deleted"
      ~> \A a \in Assets : assets[a].bound = t => assets[a].status = "deleted"

(* What cleanup.go says of the deletion: only what expired, what stayed    *)
(* unbound and what a deleted article bound is deleted, so an image of a   *)
(* current revision is not.                                                *)
ImagesStay ==
  \A t \in Articles : articles[t].status # "deleted" =>
    \A a \in articles[t].images : assets[a].status = "ready"
=============================================================================
