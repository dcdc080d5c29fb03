----------------------------- MODULE ArticleFact -----------------------------
(***************************************************************************)
(* The article aggregate as PostgreSQL keeps it: one row of               *)
(* velis.articles joined with its current revision.  Every other module of *)
(* the project reads this fact and none of them writes it in another way. *)
(*                                                                         *)
(* A user article lives through draft, published, offline and deleted; an *)
(* RSS article is born published and is revised by the feed.  rev numbers *)
(* the current immutable revision (a new one is made only for a changed   *)
(* content hash), ver is the optimistic lock lock_version.  Each write is *)
(* a compare-and-set on lock_version (or holds the row lock), so it is one *)
(* atomic step; the operators below give its guard and the row it leaves. *)
(***************************************************************************)
EXTENDS Naturals

CONSTANTS Articles,     \* article identities
          RssArticles,  \* those that come from a feed; the others have an author
          MaxVersion    \* bound on lock_version, so on the writes of one article

ASSUME ArticleAssumption ==
  /\ RssArticles \subseteq Articles
  /\ MaxVersion \in Nat \ {0}

Statuses == {"absent", "draft", "published", "offline", "deleted"}
Reasons  == {"none", "author", "admin"}

ArticleRow == [status : Statuses, reason : Reasons, rev : Nat, ver : Nat]

AbsentArticle == [status |-> "absent", reason |-> "none", rev |-> 0, ver |-> 0]

(* insertRSSArticle and CreateUserArticle write the first revision.        *)
FirstRow(status) == [status |-> status, reason |-> "none", rev |-> 1, ver |-> 1]

Public(row) == row.status = "published"

Writable(row) == row.ver < MaxVersion

-----------------------------------------------------------------------------
(* Guards: which operation the stored row admits.                          *)

MayUpdateByAuthor(row) == row.status \in {"draft", "published", "offline"}

MayPublish(row) ==
  \/ row.status = "draft"
  \/ row.status = "offline" /\ row.reason = "author"

MayOffline(row) == row.status = "published"

MayRestore(row) == row.status = "offline" /\ row.reason = "admin"

MayDelete(row) == row.status \in {"draft", "published", "offline"}

(* The feed looks an article up by (source, dedupe key) only: the row is   *)
(* revised whatever its status is.                                         *)
MayReviseByFeed(row) == row.status # "absent"

-----------------------------------------------------------------------------
(* Effects.                                                                *)

Revised(row) ==
  [status |-> row.status, reason |-> row.reason, rev |-> row.rev + 1, ver |-> row.ver + 1]

WithState(row, status, reason) ==
  [status |-> status, reason |-> reason, rev |-> row.rev, ver |-> row.ver + 1]

(* The integration event a committed change writes, "none" when the change *)
(* is private (appendArticleTransition).                                   *)
TransitionEvent(before, after, contentChanged) ==
  IF after.status = "deleted" THEN "deleted"
  ELSE IF Public(before) /\ after.status = "offline" THEN "offlined"
  ELSE IF Public(after) /\ ~Public(before) THEN "published"
  ELSE IF Public(after) /\ contentChanged THEN "revised"
  ELSE "none"

(* The event Ingest writes: it looks at inserted/updated only, never at    *)
(* the status of the row.                                                  *)
IngestEvent(before) == IF before.status = "absent" THEN "published" ELSE "revised"

-----------------------------------------------------------------------------
(* One write of article a's row, labelled with the event it emits.  The    *)
(* modules that only follow the fact use this relation.                    *)
AuthorWrite(before, after) ==
  \/ before.status = "absent"  /\ after \in {FirstRow("draft"), FirstRow("published")}
  \/ MayUpdateByAuthor(before) /\ after = Revised(before)
  \/ MayPublish(before)        /\ after = WithState(before, "published", "none")
  \/ MayOffline(before)        /\ after = WithState(before, "offline", "author")
  \/ MayDelete(before)         /\ after = WithState(before, "deleted", "none")

AdminWrite(before, after) ==
  \/ MayOffline(before) /\ after = WithState(before, "offline", "admin")
  \/ MayRestore(before) /\ after = WithState(before, "published", "none")

FeedWrite(before, after) ==
  \/ before.status = "absent"  /\ after = FirstRow("published")
  \/ MayReviseByFeed(before)   /\ after = Revised(before)

ArticleWrite(a, before, after) ==
  /\ Writable(before)
  /\ \/ a \notin RssArticles /\ AuthorWrite(before, after)
     \/ a \in RssArticles    /\ FeedWrite(before, after)
     \/ AdminWrite(before, after)

(* The rows one write may leave.                                           *)
NextRows(a, row) ==
  {after \in {FirstRow("draft"), FirstRow("published"), Revised(row)}
               \cup {WithState(row, status, reason) : status \in Statuses, reason \in Reasons} :
     ArticleWrite(a, row, after)}
=============================================================================
