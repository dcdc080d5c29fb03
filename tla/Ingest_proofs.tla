----------------------------- MODULE Ingest_proofs -----------------------------
(***************************************************************************)
(* Proofs about what brings articles into the system, for every value of   *)
(* the constants of Ingest.  A behaviour of the sum is a behaviour of each *)
(* component, so what SourceFetch_proofs shows of the fetches holds here;  *)
(* what the authors are promised, what a feed's fetch may reach and how the *)
(* articles are ingested, and the types of every part are proved here.     *)
(***************************************************************************)
EXTENDS Ingest, Sequences, ArticlePipeline_proofs, FiniteSetTheorems, WellFoundedInduction, TLAPS

-----------------------------------------------------------------------------
(***************************************************************************)
(* Authors: the parts of the inductive invariant.                          *)
(***************************************************************************)
(* A row counts against the quota from its confirmation on.                *)
Uploaded ==
  \A a \in Images :
    assets[a].counted <=> assets[a].status \in {"ready", "delete_pending", "deleted"}

(* Rows the clean-up has listed, however long ago, counted then; one it is *)
(* going to mark still counts, though it may be bound by now.               *)
ListedCount ==
  \A x \in cleaner.rows :
    /\ cleaner.step = "mark" => /\ x.row.counted
                                /\ assets[x.asset].status \in {"ready", "delete_pending"}
    /\ cleaner.step = "remove" => x.row.counted

AuthorInv ==
  A!TypeOK /\ Uploaded /\ ListedCount /\ A!QuotaHolds /\ A!PublishedIsNotBlank

-----------------------------------------------------------------------------
(***************************************************************************)
(* Rows.                                                                   *)
(***************************************************************************)
LEMMA RowFields ==
  ASSUME NEW r \in A!Row
  PROVE  /\ r.status \in {"absent", "creating", "pending", "ready", "delete_pending",
                          "deleted", "removed"}
         /\ r.bound \in Drafts \cup {A!None} /\ r.counted \in BOOLEAN /\ r.aged \in BOOLEAN
  BY DEF A!Row

LEMMA NoRowIsRow == /\ A!NoRow \in A!Row /\ A!NoRow.status = "absent" /\ A!NoRow.counted = FALSE
  BY DEF A!Row, A!NoRow

(* A row with another status, or bound or aged otherwise.                  *)
LEMMA RowWithStatus ==
  ASSUME NEW r \in A!Row,
         NEW s \in {"absent", "creating", "pending", "ready", "delete_pending", "deleted",
                    "removed"}
  PROVE  /\ [r EXCEPT !.status = s] \in A!Row
         /\ [r EXCEPT !.status = s].status = s
         /\ [r EXCEPT !.status = s].counted = r.counted
         /\ [r EXCEPT !.status = s].bound = r.bound
  BY DEF A!Row

LEMMA RowWithAged ==
  ASSUME NEW r \in A!Row, NEW b \in BOOLEAN
  PROVE  /\ [r EXCEPT !.aged = b] \in A!Row
         /\ [r EXCEPT !.aged = b].status = r.status
         /\ [r EXCEPT !.aged = b].counted = r.counted
  BY DEF A!Row

LEMMA RowBound ==
  ASSUME NEW r \in A!Row, NEW t \in Drafts
  PROVE  /\ [r EXCEPT !.bound = t, !.aged = FALSE] \in A!Row
         /\ [r EXCEPT !.bound = t, !.aged = FALSE].status = r.status
         /\ [r EXCEPT !.bound = t, !.aged = FALSE].counted = r.counted
  BY DEF A!Row

LEMMA RowMarked ==
  ASSUME NEW r \in A!Row
  PROVE  /\ [r EXCEPT !.status = "delete_pending", !.aged = FALSE] \in A!Row
         /\ [r EXCEPT !.status = "delete_pending", !.aged = FALSE].status = "delete_pending"
         /\ [r EXCEPT !.status = "delete_pending", !.aged = FALSE].counted = r.counted
  BY DEF A!Row

LEMMA RowReady ==
  LET r == [A!NoRow EXCEPT !.status = "ready", !.counted = TRUE] IN
  r \in A!Row /\ r.status = "ready" /\ r.counted = TRUE
  BY DEF A!Row, A!NoRow

-----------------------------------------------------------------------------
(***************************************************************************)
(* The quota.                                                              *)
(***************************************************************************)
(* The instance has a name of its own for each operator of FiniteSets.     *)
LEMMA SameIsFiniteSet == ASSUME NEW S PROVE A!IsFiniteSet(S) <=> IsFiniteSet(S)
  BY Zenon DEF A!IsFiniteSet, IsFiniteSet

LEMMA SameCardinality == ASSUME NEW S PROVE A!Cardinality(S) = Cardinality(S)
  BY Zenon DEF A!Cardinality, Cardinality

LEMMA QuotaDefined ==
  /\ A!QuotaHolds <=> Cardinality(A!Counted) <= Quota
  /\ A!QuotaHolds' <=> Cardinality(A!Counted') <= Quota
  /\ A!WithinQuota <=> Cardinality(A!Counted) + 1 <= Quota
  BY SameCardinality DEF A!QuotaHolds, A!WithinQuota

LEMMA ImagesFinite == IsFiniteSet(Images) /\ Quota \in Nat
  BY IngestAssumption, SameIsFiniteSet DEF IngestAssumption, A!AuthoringAssumption

(* What counts is part of the images.                                      *)
LEMMA CountedFinite == IsFiniteSet(A!Counted) /\ Cardinality(A!Counted) \in Nat
  <1>1. A!Counted \subseteq Images
    BY DEF A!Counted
  <1>2. IsFiniteSet(A!Counted)
    BY <1>1, ImagesFinite, FS_Subset
  <1> QED
    BY <1>2, FS_CardinalityType

(* While nothing new counts, the quota holds on.                           *)
LEMMA QuotaKept ==
  ASSUME A!QuotaHolds, A!Counted' \subseteq A!Counted
  PROVE  A!QuotaHolds'
  <1>1. /\ IsFiniteSet(A!Counted')
        /\ Cardinality(A!Counted') <= Cardinality(A!Counted)
    BY CountedFinite, FS_Subset
  <1>2. Cardinality(A!Counted') \in Nat
    BY <1>1, FS_CardinalityType
  <1> QED
    BY <1>1, <1>2, CountedFinite, ImagesFinite, QuotaDefined

(* One image more is what the confirmation has made room for.              *)
LEMMA QuotaTaken ==
  ASSUME NEW a \in Images, A!WithinQuota, A!Counted' \subseteq A!Counted \cup {a}
  PROVE  A!QuotaHolds'
  <1> DEFINE more == A!Counted \cup {a}
  <1>1. /\ IsFiniteSet(more)
        /\ Cardinality(more) = IF a \in A!Counted THEN Cardinality(A!Counted)
                               ELSE Cardinality(A!Counted) + 1
    BY CountedFinite, FS_AddElement
  <1>2. /\ IsFiniteSet(A!Counted')
        /\ Cardinality(A!Counted') <= Cardinality(more)
    BY <1>1, FS_Subset
  <1>3. Cardinality(A!Counted') \in Nat /\ Cardinality(more) \in Nat
    BY <1>1, <1>2, FS_CardinalityType
  <1> QED
    BY <1>1, <1>2, <1>3, CountedFinite, ImagesFinite, QuotaDefined

(* A step that gives the row of one image another value.                   *)
LEMMA ImageStep ==
  ASSUME AuthorInv, NEW a \in Images, NEW r \in A!Row,
         assets' = [assets EXCEPT ![a] = r],
         r.counted <=> r.status \in {"ready", "delete_pending", "deleted"}
  PROVE  /\ assets' \in [Images -> A!Row]
         /\ assets'[a] = r
         /\ \A b \in Images : b # a => assets'[b] = assets[b]
         /\ Uploaded'
         /\ A!Counted' \subseteq A!Counted \cup {a}
         /\ ~r.counted \/ r.status = "deleted" \/ a \in A!Counted => A!Counted' \subseteq A!Counted
  <1>1. assets \in [Images -> A!Row] /\ Uploaded
    BY DEF AuthorInv, A!TypeOK
  <1>2. /\ assets' \in [Images -> A!Row]
        /\ assets'[a] = r
        /\ \A b \in Images : b # a => assets'[b] = assets[b]
    BY <1>1
  <1>3. Uploaded'
    BY <1>1, <1>2 DEF Uploaded
  <1>4. A!Counted' \subseteq A!Counted \cup {a}
    BY <1>2 DEF A!Counted
  <1>5. ~r.counted \/ r.status = "deleted" \/ a \in A!Counted => A!Counted' \subseteq A!Counted
    BY <1>2 DEF A!Counted
  <1> QED
    BY <1>2, <1>3, <1>4, <1>5

-----------------------------------------------------------------------------
(***************************************************************************)
(* Each step of an author, of a browser, of the clean-up and of time.      *)
(***************************************************************************)
LEMMA AuthorInit == A!Init => AuthorInv
  <1> SUFFICES ASSUME A!Init PROVE AuthorInv
    OBVIOUS
  <1>1. A!TypeOK
    <2>1. assets \in [Images -> A!Row]
      BY NoRowIsRow DEF A!Init
    <2>2. drafts \in [Drafts -> A!Article]
      BY IngestAssumption DEF IngestAssumption, A!AuthoringAssumption, A!Init, A!Article
    <2>3. confirms \in [Images -> 0..MaxConfirms] /\ failures \in 0..MaxFailures
      BY IngestAssumption DEF IngestAssumption, A!AuthoringAssumption, A!Init
    <2>4. cleaner.step \in A!Steps /\ cleaner.rows = {}
      BY DEF A!Init, A!Steps
    <2>5. cleaner \in [step : A!Steps,
                       rows : SUBSET [asset : Images, row : A!Row, gone : BOOLEAN]]
      BY DEF A!Init, A!Steps
    <2> QED
      BY <2>1, <2>2, <2>3, <2>5 DEF A!TypeOK, A!Init
  <1>2. Uploaded /\ ListedCount
    BY NoRowIsRow DEF A!Init, Uploaded, ListedCount
  <1>3. A!Counted = {}
    BY NoRowIsRow DEF A!Init, A!Counted
  <1>4. A!QuotaHolds
    BY <1>3, QuotaDefined, ImagesFinite, FS_EmptySet
  <1>5. A!PublishedIsNotBlank
    BY DEF A!Init, A!PublishedIsNotBlank
  <1> QED
    BY <1>1, <1>2, <1>4, <1>5 DEF AuthorInv

(* CreateAsset, EndCreate, Upload and Age: nothing new counts, nothing is   *)
(* listed.                                                                 *)
LEMMA UploadSteps ==
  ASSUME AuthorInv, NEW a \in Images,
         NEW created \in {"creating", "pending", "absent"},
         \/ A!Upload(a) \/ A!Age(a)
         \/ A!CreateAsset(a) /\ created = "creating"
         \/ A!EndCreate(a, created)
  PROVE  AuthorInv'
  <1>1. A!TypeOK /\ Uploaded /\ ListedCount /\ A!QuotaHolds /\ A!PublishedIsNotBlank
    BY DEF AuthorInv
  <1>2. assets \in [Images -> A!Row] /\ assets[a] \in A!Row
    BY <1>1 DEF A!TypeOK
  <1>3. UNCHANGED <<drafts, confirms, cleaner, failures>> /\ objects' \subseteq Images
    BY <1>1 DEF A!TypeOK, A!CreateAsset, A!EndCreate, A!Upload, A!Age
  <1>4. CASE A!Upload(a)
    <2>1. UNCHANGED assets
      BY <1>4 DEF A!Upload
    <2> QED
      BY <1>1, <1>3, <2>1, QuotaKept
      DEF AuthorInv, A!TypeOK, Uploaded, ListedCount, A!PublishedIsNotBlank, A!Counted
  <1>5. CASE \/ A!CreateAsset(a) /\ created = "creating"
             \/ A!EndCreate(a, created)
    <2>1. PICK r \in A!Row : /\ r = [assets[a] EXCEPT !.status = created]
                             /\ r.status = created /\ r.counted = assets[a].counted
      <3>1. created \in {"absent", "creating", "pending", "ready", "delete_pending", "deleted",
                         "removed"}
        OBVIOUS
      <3>2. PICK q \in A!Row : q = assets[a]
        BY <1>2
      <3>3. LET new == [q EXCEPT !.status = created]
            IN  new \in A!Row /\ new.status = created /\ new.counted = q.counted
        BY <3>1 DEF A!Row
      <3> QED
        BY <3>2, <3>3
    <2>2. assets[a].status \in {"absent", "creating"}
      BY <1>5 DEF A!CreateAsset, A!EndCreate
    <2>3. ~r.counted
      BY <1>1, <1>2, <2>1, <2>2, RowFields DEF Uploaded
    <2>4. assets' = [assets EXCEPT ![a] = r]
      BY <1>2, <1>5, <2>1 DEF A!CreateAsset, A!EndCreate
    <2>5. /\ assets' \in [Images -> A!Row] /\ Uploaded' /\ A!Counted' \subseteq A!Counted
          /\ \A b \in Images : b # a => assets'[b] = assets[b]
      BY <2>1, <2>3, <2>4, ImageStep
    <2>6. ListedCount'
      BY <1>1, <1>3, <2>2, <2>5 DEF ListedCount, A!TypeOK
    <2> QED
      BY <1>1, <1>3, <2>5, <2>6, QuotaKept DEF AuthorInv, A!TypeOK, A!PublishedIsNotBlank
  <1>6. CASE A!Age(a)
    <2>1. PICK r \in A!Row : r = [assets[a] EXCEPT !.aged = TRUE]
      BY <1>2, RowWithAged
    <2>2. r.status = assets[a].status /\ r.counted = assets[a].counted
      BY <1>2, <2>1, RowWithAged
    <2>3. r.counted <=> r.status \in {"ready", "delete_pending", "deleted"}
      BY <1>1, <2>2 DEF Uploaded
    <2>4. assets' = [assets EXCEPT ![a] = r]
      BY <1>2, <1>6, <2>1 DEF A!Age
    <2>5. ~r.counted \/ r.status = "deleted" \/ a \in A!Counted
      BY <2>2 DEF A!Counted
    <2>6. /\ assets' \in [Images -> A!Row] /\ assets'[a] = r /\ Uploaded'
          /\ A!Counted' \subseteq A!Counted
          /\ \A b \in Images : b # a => assets'[b] = assets[b]
      BY <2>3, <2>4, <2>5, ImageStep
    <2>7. ListedCount'
      BY <1>1, <1>3, <2>2, <2>6 DEF ListedCount, A!TypeOK
    <2> QED
      BY <1>1, <1>3, <2>6, <2>7, QuotaKept DEF AuthorInv, A!TypeOK, A!PublishedIsNotBlank
  <1> QED
    BY <1>4, <1>5, <1>6

(* A confirmation counts the image when there is room, and the clean-up     *)
(* may have listed it meanwhile.                                           *)
LEMMA ConfirmSteps ==
  ASSUME AuthorInv, NEW a \in Images, A!ConfirmRead(a) \/ A!ConfirmCommit(a)
  PROVE  AuthorInv'
  <1>1. A!TypeOK /\ Uploaded /\ ListedCount /\ A!QuotaHolds /\ A!PublishedIsNotBlank
    BY DEF AuthorInv
  <1>2. assets \in [Images -> A!Row] /\ confirms \in [Images -> 0..MaxConfirms]
    BY <1>1 DEF A!TypeOK
  <1>3. UNCHANGED <<drafts, objects, cleaner, failures>>
    BY DEF A!ConfirmRead, A!ConfirmCommit
  <1>4. confirms' \in [Images -> 0..MaxConfirms]
    <2>1. MaxConfirms \in Nat /\ confirms[a] \in 0..MaxConfirms
      BY <1>2, IngestAssumption DEF IngestAssumption, A!AuthoringAssumption
    <2>2. CASE A!ConfirmRead(a)
      <3>1. confirms[a] + 1 \in 0..MaxConfirms
        BY <2>1, <2>2 DEF A!ConfirmRead
      <3> QED
        BY <1>2, <2>2, <3>1 DEF A!ConfirmRead
    <2>3. CASE A!ConfirmCommit(a)
      <3>1. confirms[a] - 1 \in 0..MaxConfirms
        BY <2>1, <2>3 DEF A!ConfirmCommit
      <3> QED
        BY <1>2, <2>3, <3>1 DEF A!ConfirmCommit
    <2> QED
      BY <2>2, <2>3
  <1>5. CASE UNCHANGED assets
    <2>1. A!Counted' = A!Counted /\ Uploaded' /\ ListedCount'
      BY <1>1, <1>3, <1>5 DEF A!Counted, Uploaded, ListedCount
    <2> QED
      BY <1>1, <1>3, <1>4, <1>5, <2>1, QuotaKept DEF AuthorInv, A!TypeOK, A!PublishedIsNotBlank
  <1>6. CASE ~UNCHANGED assets
    <2>1. PICK r \in A!Row : r = [A!NoRow EXCEPT !.status = "ready", !.counted = TRUE]
      BY RowReady
    <2>2. r.status = "ready" /\ r.counted
      BY <2>1, RowReady
    <2>3. assets' = [assets EXCEPT ![a] = r] /\ A!WithinQuota
      BY <1>2, <1>6, <2>1 DEF A!ConfirmRead, A!ConfirmCommit
    <2>4. /\ assets' \in [Images -> A!Row] /\ assets'[a] = r /\ Uploaded'
          /\ A!Counted' \subseteq A!Counted \cup {a}
          /\ \A b \in Images : b # a => assets'[b] = assets[b]
      BY <2>2, <2>3, ImageStep
    <2>5. ListedCount'
      BY <1>1, <1>3, <2>2, <2>4 DEF ListedCount, A!TypeOK
    <2>6. A!QuotaHolds'
      BY <2>3, <2>4, QuotaTaken
    <2> QED
      BY <1>1, <1>3, <1>4, <2>4, <2>5, <2>6 DEF AuthorInv, A!TypeOK, A!PublishedIsNotBlank
  <1> QED
    BY <1>5, <1>6

(* Several rows change, none of them in what counts.                       *)
LEMMA RowsStep ==
  ASSUME AuthorInv, assets' \in [Images -> A!Row], UNCHANGED cleaner,
         \A a \in Images : /\ assets'[a].counted = assets[a].counted
                           /\ \/ assets'[a].status = assets[a].status
                              \/ /\ assets[a].status = "ready"
                                 /\ assets'[a].status = "delete_pending"
  PROVE  Uploaded' /\ ListedCount' /\ A!QuotaHolds'
  <1>1. A!TypeOK /\ Uploaded /\ ListedCount /\ A!QuotaHolds
    BY DEF AuthorInv
  <1>2. Uploaded'
    BY <1>1 DEF Uploaded
  <1>3. ListedCount'
    BY <1>1 DEF ListedCount, A!TypeOK
  <1>4. A!Counted' \subseteq A!Counted
    BY DEF A!Counted
  <1> QED
    BY <1>1, <1>2, <1>3, <1>4, QuotaKept

LEMMA ArticleFields ==
  ASSUME NEW r \in A!Article
  PROVE  /\ r.status \in {"absent", "draft", "published", "offline", "deleted"}
         /\ r.version \in 0..MaxEdits /\ r.images \in SUBSET Images
         /\ r.referred \in SUBSET Images /\ r.blank \in BOOLEAN
  BY DEF A!Article

LEMMA ArticleCreated ==
  ASSUME NEW s \in {"draft", "published"}, NEW images \in SUBSET Images, NEW blank \in BOOLEAN
  PROVE  LET r == [status |-> s, version |-> 1, images |-> images, referred |-> images,
                   blank |-> blank]
         IN  r \in A!Article /\ r.status = s /\ r.blank = blank
  <1>1. 1 \in 0..MaxEdits
    BY IngestAssumption DEF IngestAssumption, A!AuthoringAssumption
  <1> QED
    BY <1>1 DEF A!Article

(* A write binds the images and changes one row.                           *)
LEMMA WriteStep ==
  ASSUME AuthorInv, NEW t \in Drafts, NEW r \in A!Article, NEW images \in SUBSET Images,
         A!Write(t, r, images), A!Renderable(r.status, r.blank)
  PROVE  AuthorInv'
  <1>1. A!TypeOK /\ A!PublishedIsNotBlank
    BY DEF AuthorInv
  <1>2. assets \in [Images -> A!Row] /\ drafts \in [Drafts -> A!Article]
    BY <1>1 DEF A!TypeOK
  <1>3. assets' \in [Images -> A!Row] /\ \A a \in Images :
          assets'[a].counted = assets[a].counted /\ assets'[a].status = assets[a].status
    <2> SUFFICES ASSUME NEW a \in Images
                 PROVE  /\ assets'[a] \in A!Row
                        /\ assets'[a].counted = assets[a].counted
                        /\ assets'[a].status = assets[a].status
      BY DEF A!Write, A!Bound
    <2>1. PICK new \in A!Row : /\ new = [assets[a] EXCEPT !.bound = t, !.aged = FALSE]
                               /\ new.status = assets[a].status
                               /\ new.counted = assets[a].counted
      BY <1>2, RowBound
    <2>2. assets'[a] = IF a \in images THEN new ELSE assets[a]
      BY <2>1 DEF A!Write, A!Bound
    <2> QED
      BY <1>2, <2>1, <2>2
  <1>4. /\ drafts' \in [Drafts -> A!Article] /\ drafts'[t] = r
        /\ \A u \in Drafts : u # t => drafts'[u] = drafts[u]
    BY <1>2 DEF A!Write
  <1>5. A!PublishedIsNotBlank'
    BY <1>1, <1>4 DEF A!PublishedIsNotBlank, A!Renderable
  <1>6. UNCHANGED <<objects, confirms, cleaner, failures>>
    BY DEF A!Write
  <1>7. Uploaded' /\ ListedCount' /\ A!QuotaHolds'
    BY <1>3, <1>6, RowsStep
  <1> QED
    BY <1>1, <1>3, <1>4, <1>5, <1>6, <1>7 DEF AuthorInv, A!TypeOK

(* The state of an article changes; the images of a deleted one are marked. *)
LEMMA StateStep ==
  ASSUME AuthorInv, NEW t \in Drafts, NEW from,
         NEW status \in {"published", "offline", "deleted"},
         A!SetState(t, from, status), "absent" \notin from,
         status = "published" => ~drafts[t].blank,
         status = "offline" => from = {"published"},
         UNCHANGED assets \/ assets' = A!Released(t),
         UNCHANGED <<objects, confirms, cleaner, failures>>
  PROVE  AuthorInv'
  <1>1. A!TypeOK /\ A!PublishedIsNotBlank
    BY DEF AuthorInv
  <1>2. assets \in [Images -> A!Row] /\ drafts \in [Drafts -> A!Article]
    BY <1>1 DEF A!TypeOK
  <1>3. assets' \in [Images -> A!Row] /\ \A a \in Images :
          /\ assets'[a].counted = assets[a].counted
          /\ \/ assets'[a].status = assets[a].status
             \/ assets[a].status = "ready" /\ assets'[a].status = "delete_pending"
    <2>1. CASE UNCHANGED assets
      BY <1>2, <2>1
    <2>2. CASE assets' = A!Released(t)
      <3> SUFFICES ASSUME NEW a \in Images
                   PROVE  /\ assets'[a] \in A!Row
                          /\ assets'[a].counted = assets[a].counted
                          /\ \/ assets'[a].status = assets[a].status
                             \/ /\ assets[a].status = "ready"
                                /\ assets'[a].status = "delete_pending"
        BY <2>2 DEF A!Released
      <3>1. PICK new \in A!Row : /\ new = [assets[a] EXCEPT !.status = "delete_pending"]
                                 /\ new.status = "delete_pending"
                                 /\ new.counted = assets[a].counted
        BY <1>2, RowWithStatus, ZenonT(40)
      <3>2. assets'[a] = IF assets[a].bound = t /\ assets[a].status = "ready"
                         THEN new ELSE assets[a]
        BY <2>2, <3>1 DEF A!Released
      <3> QED
        BY <1>2, <3>1, <3>2
    <2> QED
      BY <2>1, <2>2
  <1>4. PICK k \in 0..MaxEdits : k = drafts[t].version + 1
    <2>1. MaxEdits \in Nat /\ drafts[t].version \in 0..MaxEdits
      BY <1>2, ArticleFields, IngestAssumption DEF IngestAssumption, A!AuthoringAssumption
    <2>2. drafts[t].version < MaxEdits
      BY DEF A!SetState
    <2> QED
      BY <2>1, <2>2
  <1> DEFINE r == [drafts[t] EXCEPT !.status = status, !.version = k]
  <1>5. r \in A!Article /\ r.status = status /\ r.blank = drafts[t].blank
    <2>1. status \in {"absent", "draft", "published", "offline", "deleted"}
      OBVIOUS
    <2>2. PICK q \in A!Article : q = drafts[t]
      BY <1>2
    <2> HIDE DEF r
    <2>3. LET new == [q EXCEPT !.status = status, !.version = k]
          IN  new \in A!Article /\ new.status = status /\ new.blank = q.blank
      BY <2>1 DEF A!Article
    <2>4. r = [q EXCEPT !.status = status, !.version = k]
      BY <2>2 DEF r
    <2> QED
      BY <2>2, <2>3, <2>4
  <1>a. drafts' = [drafts EXCEPT ![t] = r]
    BY <1>2, <1>4 DEF A!SetState
  <1> HIDE DEF r
  <1>6. /\ drafts' \in [Drafts -> A!Article] /\ drafts'[t] = r
        /\ \A u \in Drafts : u # t => drafts'[u] = drafts[u]
    BY <1>2, <1>5, <1>a
  <1>7. A!PublishedIsNotBlank'
    <2>1. status = "offline" => ~drafts[t].blank
      BY <1>1 DEF A!SetState, A!PublishedIsNotBlank
    <2> QED
      BY <1>1, <1>5, <1>6, <2>1 DEF A!PublishedIsNotBlank
  <1>8. Uploaded' /\ ListedCount' /\ A!QuotaHolds'
    BY <1>3, RowsStep
  <1> QED
    BY <1>1, <1>3, <1>6, <1>7, <1>8 DEF AuthorInv, A!TypeOK

LEMMA AuthorSteps == AuthorInv /\ A!Author => AuthorInv'
  <1> SUFFICES ASSUME AuthorInv, A!Author PROVE AuthorInv'
    OBVIOUS
  <1>1. drafts \in [Drafts -> A!Article] /\ MaxEdits \in Nat \ {0}
    BY IngestAssumption DEF IngestAssumption, A!AuthoringAssumption, AuthorInv, A!TypeOK
  <1>2. ASSUME NEW t \in Drafts, NEW images \in SUBSET Images, NEW blank \in BOOLEAN,
               NEW status \in {"draft", "published"}, A!CreateArticle(t, status, images, blank)
        PROVE  AuthorInv'
    <2>1. PICK r \in A!Article : /\ r = [status |-> status, version |-> 1, images |-> images,
                                         referred |-> images, blank |-> blank]
                                 /\ r.status = status /\ r.blank = blank
      BY ArticleCreated
    <2> QED
      BY <1>2, <2>1, WriteStep DEF A!CreateArticle
  <1>3. ASSUME NEW t \in Drafts, NEW images \in SUBSET Images, NEW blank \in BOOLEAN,
               A!Update(t, images, blank)
        PROVE  AuthorInv'
    <2>1. drafts[t] \in A!Article /\ drafts[t].version < MaxEdits
      BY <1>1, <1>3 DEF A!Update, A!Write
    <2>2. PICK k \in 0..MaxEdits : k = drafts[t].version + 1
      BY <1>1, <2>1, ArticleFields
    <2>a. PICK referred \in SUBSET Images : referred = drafts[t].referred \cup images
      BY <2>1, ArticleFields
    <2> DEFINE r == [drafts[t] EXCEPT !.version = k, !.images = images, !.referred = referred,
                                      !.blank = blank]
    <2>3. r \in A!Article /\ r.status = drafts[t].status /\ r.blank = blank
      <3>1. PICK q \in A!Article : q = drafts[t]
        BY <2>1
      <3> HIDE DEF r
      <3>2. LET new == [q EXCEPT !.version = k, !.images = images, !.referred = referred,
                                 !.blank = blank]
            IN  new \in A!Article /\ new.status = q.status /\ new.blank = blank
        BY DEF A!Article
      <3>3. r = [q EXCEPT !.version = k, !.images = images, !.referred = referred, !.blank = blank]
        BY <3>1 DEF r
      <3> QED
        BY <3>1, <3>2, <3>3
    <2>4. A!Write(t, r, images) /\ A!Renderable(drafts[t].status, blank)
      BY <1>3, <2>2, <2>a DEF A!Update
    <2> HIDE DEF r
    <2>5. A!Renderable(r.status, r.blank)
      BY <2>3, <2>4
    <2> QED
      BY <2>3, <2>4, <2>5, WriteStep
  <1>4. ASSUME NEW t \in Drafts, A!Publish(t) PROVE AuthorInv'
    BY <1>4, StateStep DEF A!Publish
  <1>5. ASSUME NEW t \in Drafts, A!Offline(t) PROVE AuthorInv'
    BY <1>5, StateStep DEF A!Offline
  <1>6. ASSUME NEW t \in Drafts, A!Delete(t) PROVE AuthorInv'
    BY <1>6, StateStep DEF A!Delete
  <1> QED
    BY <1>2, <1>3, <1>4, <1>5, <1>6 DEF A!Author

Rows == [asset : Images, row : A!Row, gone : BOOLEAN]

LEMMA ListedFields ==
  ASSUME NEW x \in Rows
  PROVE  x.asset \in Images /\ x.row \in A!Row /\ x.gone \in BOOLEAN
  BY DEF Rows

LEMMA ListedGone ==
  ASSUME NEW x \in Rows
  PROVE  LET y == [x EXCEPT !.gone = TRUE] IN y \in Rows /\ y.asset = x.asset /\ y.row = x.row
  BY DEF Rows

LEMMA CleanerFields ==
  A!TypeOK => cleaner.step \in A!Steps /\ cleaner.rows \subseteq Rows
  BY DEF A!TypeOK, Rows

(* A step of the clean-up over rows that were listed before leaves the row  *)
(* of one image, or none, changed.                                         *)
LEMMA DropStep ==
  ASSUME AuthorInv, NEW x \in cleaner.rows, A!Drop(x)
  PROVE  /\ cleaner' \in [step : A!Steps, rows : SUBSET Rows]
         /\ cleaner'.step = cleaner.step /\ cleaner'.rows = cleaner.rows \ {x}
  <1>1. cleaner \in [step : A!Steps, rows : SUBSET Rows]
    BY DEF AuthorInv, A!TypeOK, Rows
  <1>2. PICK rest \in SUBSET Rows : rest = cleaner.rows \ {x}
    BY <1>1
  <1>3. cleaner' = [cleaner EXCEPT !.rows = rest]
    BY <1>2 DEF A!Drop
  <1> QED
    BY <1>1, <1>2, <1>3

LEMMA RowRemoved ==
  LET r == [A!NoRow EXCEPT !.status = "removed"] IN
  r \in A!Row /\ r.status = "removed" /\ r.counted = FALSE
  BY DEF A!Row, A!NoRow

(* Listing: what is aged and ready, or waits to be deleted, counts.        *)
LEMMA ListSteps ==
  ASSUME AuthorInv,
         A!ListUnbound \/ A!ListDeletePending \/ A!ListExpired \/ A!EndCleanup
  PROVE  AuthorInv'
  <1>1. A!TypeOK /\ Uploaded /\ A!QuotaHolds /\ A!PublishedIsNotBlank
    BY DEF AuthorInv
  <1>2. assets \in [Images -> A!Row]
    BY <1>1 DEF A!TypeOK
  <1>3. UNCHANGED <<assets, objects, drafts, confirms, failures>>
    BY DEF A!ListUnbound, A!ListDeletePending, A!ListExpired, A!EndCleanup, A!List
  <1>4. ASSUME NEW to \in A!Steps, NEW chosen \in SUBSET Images,
               cleaner' = [step |-> to, rows |-> A!Listed(chosen)]
        PROVE  /\ cleaner' \in [step : A!Steps, rows : SUBSET Rows] /\ cleaner'.step = to
               /\ \A x \in cleaner'.rows : \E a \in chosen : x.asset = a /\ x.row = assets[a]
    <2>1. \A x \in A!Listed(chosen) :
             x \in Rows /\ \E a \in chosen : x.asset = a /\ x.row = assets[a]
      <3> SUFFICES ASSUME NEW x \in A!Listed(chosen)
                   PROVE  x \in Rows /\ \E a \in chosen : x.asset = a /\ x.row = assets[a]
        OBVIOUS
      <3>1. PICK a \in chosen : x = [asset |-> a, row |-> assets[a], gone |-> FALSE]
        BY DEF A!Listed
      <3>2. PICK r \in A!Row : r = assets[a]
        BY <1>2
      <3> QED
        BY <3>1, <3>2 DEF Rows
    <2>2. PICK rows \in SUBSET Rows : rows = A!Listed(chosen)
      BY <2>1
    <2>3. cleaner' = [step |-> to, rows |-> rows]
      BY <1>4, <2>2
    <2> QED
      BY <2>1, <2>2, <2>3
  <1>5. cleaner' \in [step : A!Steps, rows : SUBSET Rows] /\ ListedCount'
    <2>1. CASE A!ListUnbound
      <3> DEFINE chosen == {a \in A!Aged("ready") : assets[a].bound = A!None}
      <3>1. chosen \in SUBSET Images /\ \A a \in chosen : assets[a].status = "ready"
        BY DEF A!Aged
      <3>2. cleaner' = [step |-> "mark", rows |-> A!Listed(chosen)] /\ "mark" \in A!Steps
        BY <2>1 DEF A!ListUnbound, A!List, A!Steps
      <3> HIDE DEF chosen
      <3>3. /\ cleaner' \in [step : A!Steps, rows : SUBSET Rows] /\ cleaner'.step = "mark"
            /\ \A x \in cleaner'.rows : \E a \in chosen : x.asset = a /\ x.row = assets[a]
        BY <3>1, <3>2, <1>4
      <3> QED
        BY <1>1, <1>3, <3>1, <3>3 DEF ListedCount, Uploaded
    <2>2. CASE A!ListDeletePending
      <3> DEFINE chosen == {a \in Images : assets[a].status = "delete_pending"}
      <3>1. chosen \in SUBSET Images /\ \A a \in chosen : assets[a].status = "delete_pending"
        OBVIOUS
      <3>2. cleaner' = [step |-> "remove", rows |-> A!Listed(chosen)] /\ "remove" \in A!Steps
        BY <2>2 DEF A!ListDeletePending, A!List, A!Steps
      <3> HIDE DEF chosen
      <3>3. /\ cleaner' \in [step : A!Steps, rows : SUBSET Rows] /\ cleaner'.step = "remove"
            /\ \A x \in cleaner'.rows : \E a \in chosen : x.asset = a /\ x.row = assets[a]
        BY <3>1, <3>2, <1>4
      <3> QED
        BY <1>1, <3>1, <3>3 DEF ListedCount, Uploaded
    <2>3. CASE A!ListExpired
      <3> DEFINE chosen == A!Aged("pending")
      <3>1. chosen \in SUBSET Images
        BY DEF A!Aged
      <3>2. cleaner' = [step |-> "expire", rows |-> A!Listed(chosen)] /\ "expire" \in A!Steps
        BY <2>3 DEF A!ListExpired, A!List, A!Steps
      <3> HIDE DEF chosen
      <3>3. cleaner' \in [step : A!Steps, rows : SUBSET Rows] /\ cleaner'.step = "expire"
        BY <3>1, <3>2, <1>4
      <3> QED
        BY <3>3 DEF ListedCount
    <2>4. CASE A!EndCleanup
      <3>1. cleaner' = [step |-> "idle", rows |-> A!Listed({})] /\ "idle" \in A!Steps
        BY <2>4 DEF A!EndCleanup, A!List, A!Steps
      <3>2. cleaner' \in [step : A!Steps, rows : SUBSET Rows] /\ cleaner'.step = "idle"
        BY <3>1, <1>4
      <3> QED
        BY <3>2 DEF ListedCount
    <2> QED
      BY <2>1, <2>2, <2>3, <2>4
  <1>6. A!Counted' = A!Counted /\ Uploaded'
    BY <1>1, <1>3 DEF A!Counted, Uploaded
  <1> QED
    BY <1>1, <1>3, <1>5, <1>6, QuotaKept DEF AuthorInv, A!TypeOK, A!PublishedIsNotBlank, Rows

(* Taking the object away touches no row; a row that is listed keeps what   *)
(* is known of it.                                                         *)
LEMMA DeleteObjectStep ==
  ASSUME AuthorInv, NEW x \in cleaner.rows, A!DeleteObject(x)
  PROVE  AuthorInv'
  <1>1. A!TypeOK /\ Uploaded /\ ListedCount /\ A!QuotaHolds /\ A!PublishedIsNotBlank
    BY DEF AuthorInv
  <1>2. x \in Rows /\ cleaner \in [step : A!Steps, rows : SUBSET Rows]
    BY <1>1 DEF A!TypeOK, Rows
  <1>3. UNCHANGED <<assets, drafts, confirms>>
    BY DEF A!DeleteObject
  <1>4. objects' \subseteq Images /\ failures' \in 0..MaxFailures
    BY <1>1, IngestAssumption
    DEF A!DeleteObject, A!TypeOK, IngestAssumption, A!AuthoringAssumption
  <1>5. /\ cleaner' \in [step : A!Steps, rows : SUBSET Rows] /\ cleaner'.step = cleaner.step
        /\ \A y \in cleaner'.rows : \E z \in cleaner.rows : y.asset = z.asset /\ y.row = z.row
    <2>1. CASE A!Drop(x)
      BY <2>1, DropStep
    <2>2. CASE ~A!Drop(x)
      <3>1. PICK gone \in Rows : /\ gone = [x EXCEPT !.gone = TRUE]
                                 /\ gone.asset = x.asset /\ gone.row = x.row
        BY <1>2, ListedGone
      <3>2. PICK rest \in SUBSET Rows : rest = (cleaner.rows \ {x}) \cup {gone}
        BY <1>2
      <3>3. cleaner' = [cleaner EXCEPT !.rows = rest]
        BY <2>2, <3>1, <3>2 DEF A!DeleteObject
      <3>4. /\ cleaner' \in [step : A!Steps, rows : SUBSET Rows]
            /\ cleaner'.step = cleaner.step /\ cleaner'.rows = rest
        BY <1>2, <3>3
      <3> QED
        BY <3>1, <3>2, <3>4
    <2> QED
      BY <2>1, <2>2
  <1>6. ListedCount'
    BY <1>1, <1>3, <1>5 DEF ListedCount
  <1>7. A!Counted' = A!Counted /\ Uploaded'
    BY <1>1, <1>3 DEF A!Counted, Uploaded
  <1> QED
    BY <1>1, <1>3, <1>4, <1>5, <1>6, <1>7, QuotaKept
    DEF AuthorInv, A!TypeOK, A!PublishedIsNotBlank, Rows

(* A listed row is written back: it counts no more than the row there now. *)
LEMMA WriteBackSteps ==
  ASSUME AuthorInv, NEW x \in cleaner.rows, A!Mark(x) \/ A!RemoveRow(x) \/ A!DeleteRow(x)
  PROVE  AuthorInv'
  <1>1. A!TypeOK /\ Uploaded /\ ListedCount /\ A!QuotaHolds /\ A!PublishedIsNotBlank
    BY DEF AuthorInv
  <1>2. x \in Rows /\ assets \in [Images -> A!Row]
    BY <1>1 DEF A!TypeOK, Rows
  <1>3. PICK a \in Images, old \in A!Row : a = x.asset /\ old = x.row
    BY <1>2, ListedFields
  <1>4. UNCHANGED <<objects, drafts, confirms, failures>>
    BY DEF A!Mark, A!RemoveRow, A!DeleteRow
  <1>5. /\ cleaner' \in [step : A!Steps, rows : SUBSET Rows]
        /\ cleaner'.step \in {cleaner.step, "idle"} /\ cleaner'.rows \subseteq cleaner.rows
    <2>1. CASE A!Drop(x)
      BY <2>1, DropStep
    <2>2. CASE ~A!Drop(x)
      BY <2>2 DEF A!Mark, A!RemoveRow, A!DeleteRow, A!Steps
    <2> QED
      BY <2>1, <2>2
  <1>6. ASSUME NEW r \in A!Row, assets' = [assets EXCEPT ![a] = r],
               r.counted <=> r.status \in {"ready", "delete_pending", "deleted"},
               ~r.counted \/ r.status = "deleted" \/ a \in A!Counted,
               cleaner.step = "mark" => r.status \in {"ready", "delete_pending"}
        PROVE  AuthorInv'
    <2>1. /\ assets' \in [Images -> A!Row] /\ assets'[a] = r /\ Uploaded'
          /\ A!Counted' \subseteq A!Counted
          /\ \A b \in Images : b # a => assets'[b] = assets[b]
      BY <1>6, ImageStep
    <2>2. ListedCount'
      BY <1>1, <1>5, <1>6, <2>1, CleanerFields, ListedFields DEF ListedCount
    <2> QED
      BY <1>1, <1>4, <1>5, <2>1, <2>2, QuotaKept
      DEF AuthorInv, A!TypeOK, A!PublishedIsNotBlank, Rows
  <1>7. CASE A!Mark(x)
    <2>1. PICK r \in A!Row : /\ r = [old EXCEPT !.status = "delete_pending", !.aged = FALSE]
                             /\ r.status = "delete_pending" /\ r.counted = old.counted
      BY RowMarked
    <2>2. assets' = [assets EXCEPT ![a] = r] /\ cleaner.step = "mark"
      BY <1>3, <1>7, <2>1 DEF A!Mark
    <2>3. old.counted /\ assets[a].status \in {"ready", "delete_pending"}
      BY <1>1, <1>3, <2>2 DEF ListedCount
    <2>4. a \in A!Counted
      BY <1>1, <2>3 DEF A!Counted, Uploaded
    <2> QED
      BY <1>6, <2>1, <2>2, <2>3, <2>4
  <1>8. CASE A!RemoveRow(x)
    <2>1. PICK r \in A!Row : /\ r = [old EXCEPT !.status = "deleted"]
                             /\ r.status = "deleted" /\ r.counted = old.counted
      BY RowWithStatus
    <2>2. assets' = [assets EXCEPT ![a] = r]
      BY <1>3, <1>8, <2>1 DEF A!RemoveRow
    <2>3. old.counted /\ cleaner.step = "remove"
      BY <1>1, <1>3, <1>8 DEF ListedCount, A!RemoveRow
    <2> QED
      BY <1>6, <1>8, <2>1, <2>2, <2>3
  <1>9. CASE A!DeleteRow(x)
    <2>1. PICK r \in A!Row : /\ r = [A!NoRow EXCEPT !.status = "removed"]
                             /\ r.status = "removed" /\ r.counted = FALSE
      BY RowRemoved
    <2>a. cleaner.step = "expire"
      BY <1>9 DEF A!DeleteRow
    <2>2. CASE assets' = [assets EXCEPT ![a] = r]
      BY <1>6, <2>a, <2>1, <2>2
    <2>3. CASE UNCHANGED assets
      <3>1. ListedCount'
        BY <1>5, <2>a DEF ListedCount
      <3>2. A!Counted' = A!Counted /\ Uploaded'
        BY <1>1, <2>3 DEF A!Counted, Uploaded
      <3> QED
        BY <1>1, <1>4, <1>5, <2>3, <3>1, <3>2, QuotaKept
        DEF AuthorInv, A!TypeOK, A!PublishedIsNotBlank, Rows
    <2> QED
      BY <1>3, <1>9, <2>1, <2>2, <2>3 DEF A!DeleteRow
  <1> QED
    BY <1>7, <1>8, <1>9

LEMMA InterruptStep == AuthorInv /\ A!Interrupt => AuthorInv'
  <1> SUFFICES ASSUME AuthorInv, A!Interrupt PROVE AuthorInv'
    OBVIOUS
  <1>1. A!TypeOK /\ Uploaded /\ A!QuotaHolds /\ A!PublishedIsNotBlank
    BY DEF AuthorInv
  <1>2. UNCHANGED <<assets, objects, drafts, confirms>> /\ failures' \in 0..MaxFailures
    BY <1>1, IngestAssumption
    DEF A!Interrupt, A!TypeOK, IngestAssumption, A!AuthoringAssumption
  <1>3. cleaner' \in [step : A!Steps, rows : SUBSET Rows] /\ cleaner'.rows = {}
    BY DEF A!Interrupt, A!Steps
  <1>4. ListedCount'
    BY <1>3 DEF ListedCount
  <1>5. A!Counted' = A!Counted /\ Uploaded'
    BY <1>1, <1>2 DEF A!Counted, Uploaded
  <1> QED
    BY <1>1, <1>2, <1>3, <1>4, <1>5, QuotaKept
    DEF AuthorInv, A!TypeOK, A!PublishedIsNotBlank, Rows

LEMMA AuthorStep == AuthorInv /\ [A!Next]_A!vars => AuthorInv'
  <1> SUFFICES ASSUME AuthorInv, [A!Next]_A!vars PROVE AuthorInv'
    OBVIOUS
  <1>1. CASE A!Storage \/ A!Aging
    BY <1>1, UploadSteps DEF A!Storage, A!Aging
  <1>2. CASE A!Confirm
    BY <1>2, ConfirmSteps DEF A!Confirm
  <1>3. CASE A!Author
    BY <1>3, AuthorSteps
  <1>4. CASE A!Clean
    BY <1>4, ListSteps, WriteBackSteps, DeleteObjectStep DEF A!Clean
  <1>5. CASE A!Interrupt
    BY <1>5, InterruptStep
  <1>6. CASE UNCHANGED A!vars
    <2>1. A!Counted' = A!Counted
      BY <1>6 DEF A!vars, A!Counted
    <2> QED
      BY <1>6, <2>1, QuotaKept
      DEF A!vars, AuthorInv, A!TypeOK, Uploaded, ListedCount, A!PublishedIsNotBlank
  <1> QED
    BY <1>1, <1>2, <1>3, <1>4, <1>5, <1>6 DEF A!Next

-----------------------------------------------------------------------------
(***************************************************************************)
(* The sum: whose turn it is never changes, and a step of one component    *)
(* leaves the others alone.                                                *)
(***************************************************************************)
LEMMA StepOfParts ==
  [AllNext]_all => [Next]_vars /\ [F!Next]_F!vars /\ [D!Next]_D!vars /\ [A!Next]_A!vars
  BY DEF AllNext, all, F!vars, D!vars, A!vars, Pipeline, Fetch, Read, Write, In,
         fetching, feeding, authoring

(* What authors store never exceeds the quota, however many confirmations   *)
(* and clean-ups overlap, and no edit, publication or withdrawal leaves a   *)
(* published article with nothing to show. (confirm, LockOwner, cleanup.go, *)
(* RenderUserContent.)                                                     *)
THEOREM AuthorsWithinLimits == AllSpec => []AuthorWithinLimits
  <1>1. AllInit => AuthorInv
    BY AuthorInit DEF AllInit
  <1>2. AuthorInv /\ [AllNext]_all => AuthorInv'
    BY StepOfParts, AuthorStep
  <1>3. AuthorInv => AuthorWithinLimits
    BY DEF AuthorInv, AuthorWithinLimits
  <1> QED
    BY <1>1, <1>2, <1>3, PTL DEF AllSpec

-----------------------------------------------------------------------------
(***************************************************************************)
(* A fetch of a feed.                                                      *)
(***************************************************************************)
(* A hop is dialled within the budget, and only for a URL that passed.     *)
Hop ==
  /\ hops \in Nat
  /\ phase = "dial" => hops <= MaxRedirects
  /\ phase # "idle" => D!Verdict(target) = "ok"

HopInv == Hop /\ D!OnlyPublicReached /\ D!RedirectBudget

LEMMA FeedBound == MaxRedirects \in Nat
  BY IngestAssumption DEF IngestAssumption, D!FeedFetchAssumption

(* Neither check of an address gives the code of the redirects.            *)
LEMMA CodesOfChecks ==
  /\ \A u : D!Verdict(u) # "TOO_MANY_REDIRECTS"
  /\ \A h : D!Lookup(h) # "TOO_MANY_REDIRECTS"
  /\ \A h : D!Lookup(h) = "ok" => "restricted" \notin dns[h]
  BY DEF D!Verdict, D!Lookup

LEMMA HopStep == HopInv /\ [D!Next]_D!vars => HopInv'
  <1> SUFFICES ASSUME HopInv, [D!Next]_D!vars PROVE HopInv'
    OBVIOUS
  <1> USE FeedBound
  <1>1. CASE UNCHANGED <<proxied, phase, target, hops, reached, outcome>>
    BY <1>1 DEF HopInv, Hop, D!OnlyPublicReached, D!RedirectBudget, D!Verdict
  <1>2. ASSUME NEW u \in D!Targets, D!Fetch(u) PROVE HopInv'
    BY <1>2, CodesOfChecks
    DEF HopInv, Hop, D!OnlyPublicReached, D!RedirectBudget, D!Fetch, D!Request, D!End, D!Verdict
  <1>3. CASE D!Dial
    <2>1. UNCHANGED proxied /\ D!Verdict(target) = "ok"
      BY <1>3 DEF HopInv, Hop, D!Dial
    <2>2. Hop'
      BY <1>3, <2>1 DEF HopInv, Hop, D!Dial, D!End, D!Verdict
    <2>3. D!OnlyPublicReached'
      BY <1>3, <2>1, CodesOfChecks DEF HopInv, D!OnlyPublicReached, D!Dial, D!End
    <2>4. D!RedirectBudget'
      BY <1>3, CodesOfChecks DEF HopInv, Hop, D!RedirectBudget, D!Dial, D!End
    <2> QED
      BY <2>2, <2>3, <2>4 DEF HopInv
  <1>4. ASSUME NEW u \in D!Targets, D!Redirect(u) PROVE HopInv'
    <2>1. UNCHANGED <<proxied, reached, hops>>
      BY <1>4 DEF D!Redirect
    <2>2. Hop'
      BY <1>4, <2>1
      DEF HopInv, Hop, D!Redirect, D!MayFollow, D!Request, D!End, D!Verdict
    <2>3. D!RedirectBudget'
      BY <1>4, <2>1, CodesOfChecks
      DEF HopInv, Hop, D!RedirectBudget, D!Redirect, D!MayFollow, D!Request, D!End
    <2> QED
      BY <2>1, <2>2, <2>3 DEF HopInv, D!OnlyPublicReached
  <1>5. CASE D!TimeOut
    BY <1>5 DEF HopInv, Hop, D!OnlyPublicReached, D!RedirectBudget, D!TimeOut, D!End
  <1>6. CASE D!Answer
    BY <1>6
    DEF HopInv, Hop, D!OnlyPublicReached, D!RedirectBudget, D!Answer, D!Refuse, D!Ingest, D!End
  <1>7. CASE D!Resolve \/ UNCHANGED D!vars
    BY <1>1, <1>7 DEF D!Resolve, D!Rebind, D!vars
  <1> QED
    BY <1>2, <1>3, <1>4, <1>5, <1>6, <1>7 DEF D!Next, D!Send, D!Follow

-----------------------------------------------------------------------------
(***************************************************************************)
(* What a fetch of a feed ingests.  A run over the items is the sequence   *)
(* of accumulators the loop of Ingest passes through.                      *)
(***************************************************************************)
Counts == [articles : [D!Identities -> D!Article], report : D!Report]

(* The items a report counts.                                              *)
Total(r) == r.inserted + r.updated + r.unchanged + r.skipped

(* No two items up to the k-th share an identity.                          *)
Distinct(kept, k) ==
  \A i, j \in 1..k : kept[i].id # "none" /\ kept[i].id = kept[j].id => i = j

(* The current revision of each item up to the k-th is that item.          *)
Current(known, kept, k) ==
  \A i \in 1..k : kept[i].id # "none" => known[kept[i].id].hash = kept[i].hash

(* r is the loop over the first n items.                                   *)
RunOf(r, known, kept, n) ==
  r = [k \in 0..n |-> IF k = 0 THEN [articles |-> known, report |-> D!NoReport]
                              ELSE D!Take(r[k - 1], kept[k])]

(* A set of numbers without a least one is empty.                          *)
LEMMA NoLeast ==
  ASSUME NEW X \in SUBSET Nat, 0 \notin X, \A k \in Nat : k + 1 \in X => k \in X
  PROVE  X = {}
<1> SUFFICES ASSUME X # {} PROVE FALSE
  OBVIOUS
<1>1. PICK x \in X : \A y \in X : ~(<<y, x>> \in OpToRel(<, Nat))
  BY NatLessThanWellFounded, WFMin
<1>2. x # 0 /\ x \in Nat
  OBVIOUS
<1>3. x - 1 \in Nat /\ (x - 1) + 1 = x /\ x - 1 < x
  BY <1>2
<1>4. x - 1 \in X
  BY <1>3
<1> QED
  BY <1>1, <1>2, <1>3, <1>4 DEF OpToRel

LEMMA RunExists ==
  ASSUME NEW known, NEW kept, NEW n \in Nat
  PROVE  \E r : RunOf(r, known, kept, n)
<1> DEFINE Without == {k \in Nat : ~\E r : RunOf(r, known, kept, k)}
<1>1. 0 \notin Without
  <2> DEFINE r == [k \in 0..0 |-> [articles |-> known, report |-> D!NoReport]]
  <2>1. RunOf(r, known, kept, 0)
    BY DEF RunOf
  <2> QED
    BY <2>1
<1>2. ASSUME NEW k \in Nat, k + 1 \in Without PROVE k \in Without
  <2> SUFFICES ASSUME NEW r, RunOf(r, known, kept, k) PROVE FALSE
    BY <1>2
  <2> DEFINE s == [i \in 0..k + 1 |-> IF i = k + 1 THEN D!Take(r[k], kept[k + 1]) ELSE r[i]]
  <2>1. ASSUME NEW i \in 0..k
        PROVE  s[i] = IF i = 0 THEN [articles |-> known, report |-> D!NoReport]
                               ELSE D!Take(s[i - 1], kept[i])
    <3>1. s[i] = r[i] /\ (i # 0 => s[i - 1] = r[i - 1])
      OBVIOUS
    <3>2. r[i] = IF i = 0 THEN [articles |-> known, report |-> D!NoReport]
                          ELSE D!Take(r[i - 1], kept[i])
      BY DEF RunOf
    <3> QED
      BY <3>1, <3>2
  <2>2. s[k + 1] = D!Take(s[k], kept[k + 1])
    OBVIOUS
  <2>3. RunOf(s, known, kept, k + 1)
    <3>1. s = [i \in 0..k + 1 |-> s[i]]
      OBVIOUS
    <3>2. ASSUME NEW i \in 0..k + 1
          PROVE  s[i] = IF i = 0 THEN [articles |-> known, report |-> D!NoReport]
                                 ELSE D!Take(s[i - 1], kept[i])
      <4>1. CASE i = k + 1
        <5>1. i # 0 /\ i - 1 = k
          BY <4>1
        <5> QED
          BY <4>1, <5>1, <2>2
      <4>2. CASE i \in 0..k
        BY <4>2, <2>1
      <4> QED
        BY <4>1, <4>2
    <3> HIDE DEF s
    <3> QED
      BY <3>1, <3>2 DEF RunOf
  <2> QED
    BY <1>2, <2>3
<1>3. Without = {}
  <2>1. Without \in SUBSET Nat
    OBVIOUS
  <2> HIDE DEF Without
  <2> QED
    BY <1>1, <1>2, <2>1, NoLeast
<1> QED
  BY <1>3

LEMMA AfterIsRun ==
  ASSUME NEW known, NEW kept, Len(kept) \in Nat
  PROVE  \E r : RunOf(r, known, kept, Len(kept)) /\ D!After(known, kept) = r[Len(kept)]
<1> DEFINE run == CHOOSE r : RunOf(r, known, kept, Len(kept))
<1>1. RunOf(run, known, kept, Len(kept))
  BY RunExists
<1>2. D!After(known, kept) = run[Len(kept)]
  BY DEF D!After, RunOf
<1> QED
  BY <1>1, <1>2

LEMMA NoReportCounts == D!NoReport \in D!Report /\ Total(D!NoReport) = 0
  BY DEF D!NoReport, D!Report, Total

(* What one item does to the articles.                                     *)
Seen(known, item) ==
  IF item.id = "none" \/ known[item.id].hash = item.hash THEN known
  ELSE [known EXCEPT ![item.id] = [hash |-> item.hash, revision |-> @.revision + 1]]

LEMMA TakeStep ==
  ASSUME NEW acc \in Counts, NEW item, item.id \in D!Identities \cup {"none"},
         item.hash \in D!Hashes
  PROVE  /\ D!Take(acc, item) \in Counts
         /\ Total(D!Take(acc, item).report) = Total(acc.report) + 1
         /\ D!Take(acc, item).articles = Seen(acc.articles, item)
<1>1. PICK known \in [D!Identities -> D!Article], r \in D!Report :
        acc = [articles |-> known, report |-> r]
  BY DEF Counts
<1>2. PICK i \in Nat, u \in Nat, n \in Nat, s \in Nat :
        r = [inserted |-> i, updated |-> u, unchanged |-> n, skipped |-> s]
  BY DEF D!Report
<1>3. acc.articles = known /\ acc.report = r
  BY <1>1
<1> DEFINE now == [hash |-> item.hash, revision |-> known[item.id].revision + 1]
           Counted(q) == /\ q \in D!Report /\ Total(q) = Total(r) + 1
<1>4. /\ Counted([inserted |-> i, updated |-> u, unchanged |-> n, skipped |-> s + 1])
      /\ Counted([inserted |-> i, updated |-> u, unchanged |-> n + 1, skipped |-> s])
      /\ Counted([inserted |-> i, updated |-> u + 1, unchanged |-> n, skipped |-> s])
      /\ Counted([inserted |-> i + 1, updated |-> u, unchanged |-> n, skipped |-> s])
  BY <1>2 DEF D!Report, Total
<1>5. ASSUME NEW arts, arts \in [D!Identities -> D!Article], arts = Seen(known, item),
             NEW q, Counted(q), D!Take(acc, item) = [articles |-> arts, report |-> q]
      PROVE  /\ D!Take(acc, item) \in Counts
             /\ Total(D!Take(acc, item).report) = Total(acc.report) + 1
             /\ D!Take(acc, item).articles = Seen(acc.articles, item)
  <2>1. D!Take(acc, item).report = q /\ D!Take(acc, item).articles = arts
    BY <1>5
  <2>2. [articles |-> arts, report |-> q] \in Counts
    BY <1>5 DEF Counts
  <2> QED
    BY <1>3, <1>5, <2>1, <2>2
<1>6. CASE item.id = "none"
  <2>1. D!Take(acc, item)
          = [articles |-> known,
             report |-> [inserted |-> i, updated |-> u, unchanged |-> n, skipped |-> s + 1]]
    BY <1>1, <1>2, <1>6 DEF D!Take
  <2>2. known = Seen(known, item)
    BY <1>6 DEF Seen
  <2> HIDE DEF Counted
  <2> QED
    BY <1>4, <1>5, <2>1, <2>2
<1>7. CASE item.id # "none" /\ known[item.id].hash = item.hash
  <2>1. D!Take(acc, item)
          = [articles |-> known,
             report |-> [inserted |-> i, updated |-> u, unchanged |-> n + 1, skipped |-> s]]
    BY <1>1, <1>2, <1>7 DEF D!Take, D!Upsert
  <2>2. known = Seen(known, item)
    BY <1>7 DEF Seen
  <2> HIDE DEF Counted
  <2> QED
    BY <1>4, <1>5, <2>1, <2>2
<1>8. CASE item.id # "none" /\ known[item.id].hash # item.hash
  <2> DEFINE arts == [known EXCEPT ![item.id] = now]
  <2>1. known[item.id].revision \in Nat
    BY <1>8 DEF D!Article
  <2>2. now \in D!Article
    BY <2>1 DEF D!Article
  <2>3. arts \in [D!Identities -> D!Article]
    BY <2>2
  <2>4. arts = Seen(known, item)
    BY <1>8 DEF Seen
  <2>5. CASE known[item.id].revision = 0
    <3>1. D!Take(acc, item)
            = [articles |-> arts,
               report |-> [inserted |-> i + 1, updated |-> u, unchanged |-> n, skipped |-> s]]
      <4>1. D!Take(acc, item) = D!Upsert(acc, item)
        BY <1>8 DEF D!Take
      <4>2. D!Upsert(acc, item) = [articles |-> arts, report |-> [r EXCEPT !.inserted = @ + 1]]
        BY <1>3, <1>8, <2>5 DEF D!Upsert
      <4>3. [r EXCEPT !.inserted = @ + 1]
              = [inserted |-> i + 1, updated |-> u, unchanged |-> n, skipped |-> s]
        BY <1>2
      <4> QED
        BY <4>1, <4>2, <4>3
    <3> HIDE DEF Counted, arts
    <3> QED
      BY <1>4, <1>5, <2>3, <2>4, <3>1
  <2>6. CASE known[item.id].revision # 0
    <3>1. D!Take(acc, item)
            = [articles |-> arts,
               report |-> [inserted |-> i, updated |-> u + 1, unchanged |-> n, skipped |-> s]]
      <4>1. D!Take(acc, item) = D!Upsert(acc, item)
        BY <1>8 DEF D!Take
      <4>2. D!Upsert(acc, item) = [articles |-> arts, report |-> [r EXCEPT !.updated = @ + 1]]
        BY <1>3, <1>8, <2>6 DEF D!Upsert
      <4>3. [r EXCEPT !.updated = @ + 1]
              = [inserted |-> i, updated |-> u + 1, unchanged |-> n, skipped |-> s]
        BY <1>2
      <4> QED
        BY <4>1, <4>2, <4>3
    <3> HIDE DEF Counted, arts
    <3> QED
      BY <1>4, <1>5, <2>3, <2>4, <3>1
  <2> QED
    BY <2>5, <2>6
<1> QED
  BY <1>6, <1>7, <1>8

(* The items up to the n-th have the fields of the documents' items.       *)
Known(kept, n) ==
  \A i \in 1..n : kept[i].id \in D!Identities \cup {"none"} /\ kept[i].hash \in D!Hashes

(* After k items the report adds up to k; each of them is current, unless   *)
(* another took its identity; and where all were current nothing changed.   *)
LoopHolds(r, known, kept, n, k) ==
  /\ r[k] \in Counts
  /\ Total(r[k].report) = k
  /\ Distinct(kept, k) => Current(r[k].articles, kept, k)
  /\ Current(known, kept, n) => r[k].articles = known

LEMMA SeenCurrent ==
  ASSUME NEW known \in [D!Identities -> D!Article], NEW kept, NEW k \in Nat, Known(kept, k + 1)
  PROVE  /\ Distinct(kept, k + 1) /\ Current(known, kept, k)
              => Current(Seen(known, kept[k + 1]), kept, k + 1)
         /\ Distinct(kept, k + 1) => Distinct(kept, k)
         /\ Current(known, kept, k + 1) => Seen(known, kept[k + 1]) = known
<1> DEFINE item == kept[k + 1]
<1>1. k + 1 \in 1..k + 1 /\ 1..k \subseteq 1..k + 1
  OBVIOUS
<1>2. item.id \in D!Identities \cup {"none"}
  BY <1>1 DEF Known
<1>3. ASSUME Distinct(kept, k + 1), Current(known, kept, k), NEW i \in 1..k + 1,
             kept[i].id # "none"
      PROVE  Seen(known, item)[kept[i].id].hash = kept[i].hash
  <2>1. CASE i = k + 1
    BY <1>2, <1>3, <2>1 DEF Seen
  <2>2. CASE i \in 1..k
    <3>1. kept[i].id # item.id
      BY <1>1, <1>3, <2>2 DEF Distinct
    <3>2. known[kept[i].id].hash = kept[i].hash
      BY <1>3, <2>2 DEF Current
    <3>3. kept[i].id \in D!Identities
      BY <1>3 DEF Known
    <3> QED
      BY <3>1, <3>2, <3>3 DEF Seen
  <2> QED
    BY <2>1, <2>2
<1>4. Distinct(kept, k + 1) => Distinct(kept, k)
  BY <1>1 DEF Distinct
<1>5. Current(known, kept, k + 1) => Seen(known, item) = known
  BY <1>1 DEF Current, Seen
<1> QED
  BY <1>3, <1>4, <1>5 DEF Current

LEMMA RunHolds ==
  ASSUME NEW known \in [D!Identities -> D!Article], NEW kept, NEW n \in Nat, Known(kept, n),
         NEW r, RunOf(r, known, kept, n)
  PROVE  \A k \in 0..n : LoopHolds(r, known, kept, n, k)
<1> DEFINE Wrong == {k \in Nat : k <= n /\ ~LoopHolds(r, known, kept, n, k)}
<1>1. 0 \notin Wrong
  <2>1. r[0] = [articles |-> known, report |-> D!NoReport]
    BY DEF RunOf
  <2>2. r[0] \in Counts /\ r[0].report = D!NoReport /\ r[0].articles = known
    BY <2>1, NoReportCounts DEF Counts
  <2>3. Current(known, kept, 0)
    BY DEF Current
  <2> QED
    BY <2>2, <2>3, NoReportCounts DEF LoopHolds
<1>2. ASSUME NEW k \in Nat, k + 1 \in Wrong PROVE k \in Wrong
  <2> SUFFICES ASSUME LoopHolds(r, known, kept, n, k) PROVE LoopHolds(r, known, kept, n, k + 1)
    BY <1>2
  <2>0. k + 1 <= n
    BY <1>2
  <2>1. r[k + 1] = D!Take(r[k], kept[k + 1])
    <3>1. k + 1 \in 0..n /\ k + 1 # 0 /\ (k + 1) - 1 = k
      BY <2>0
    <3> QED
      BY <3>1 DEF RunOf
  <2>2. Known(kept, k + 1)
    BY <2>0 DEF Known
  <2>3. kept[k + 1].id \in D!Identities \cup {"none"} /\ kept[k + 1].hash \in D!Hashes
    BY <2>2 DEF Known
  <2>4. r[k] \in Counts /\ Total(r[k].report) = k
    BY DEF LoopHolds
  <2>5. r[k].articles \in [D!Identities -> D!Article]
    BY <2>4 DEF Counts
  <2>6. /\ r[k + 1] \in Counts
        /\ Total(r[k + 1].report) = k + 1
        /\ r[k + 1].articles = Seen(r[k].articles, kept[k + 1])
    BY <2>1, <2>3, <2>4, TakeStep
  <2>7. Distinct(kept, k + 1) => Current(r[k + 1].articles, kept, k + 1)
    BY <2>2, <2>5, <2>6, SeenCurrent DEF LoopHolds
  <2>8. Current(known, kept, n) => r[k + 1].articles = known
    <3>1. Current(known, kept, n) => Current(known, kept, k + 1)
      BY <2>0 DEF Current
    <3>2. Current(known, kept, n) => r[k].articles = known
      BY DEF LoopHolds
    <3> QED
      BY <2>2, <2>6, <3>1, <3>2, SeenCurrent
  <2> QED
    BY <2>6, <2>7, <2>8 DEF LoopHolds
<1>3. Wrong = {}
  <2>1. Wrong \in SUBSET Nat
    OBVIOUS
  <2> HIDE DEF Wrong
  <2> QED
    BY <1>1, <1>2, <2>1, NoLeast
<1> QED
  BY <1>3

(* What Ingest does with the items it keeps.                               *)
LEMMA AfterHolds ==
  ASSUME NEW known \in [D!Identities -> D!Article], NEW kept, Len(kept) \in Nat,
         Known(kept, Len(kept))
  PROVE  /\ D!After(known, kept) \in Counts
         /\ Total(D!After(known, kept).report) = Len(kept)
         /\ Distinct(kept, Len(kept))
              => Current(D!After(known, kept).articles, kept, Len(kept))
         /\ Current(known, kept, Len(kept)) => D!After(known, kept).articles = known
<1>1. PICK r : RunOf(r, known, kept, Len(kept)) /\ D!After(known, kept) = r[Len(kept)]
  BY AfterIsRun
<1>2. Len(kept) \in 0..Len(kept)
  OBVIOUS
<1>3. LoopHolds(r, known, kept, Len(kept), Len(kept))
  BY <1>1, <1>2, RunHolds
<1> QED
  BY <1>1, <1>3 DEF LoopHolds

(* A document, and what Parse keeps of it, are sequences of items.         *)
LEMMA KeptKnown ==
  ASSUME NEW d \in Documents \cup {<<>>}
  PROVE  /\ Len(D!Parsed(d)) \in Nat
         /\ DOMAIN D!Parsed(d) = 1..Len(D!Parsed(d))
         /\ Known(D!Parsed(d), Len(D!Parsed(d)))
<1> DEFINE Members == {d[i] : i \in DOMAIN d}
<1>1. d \in Seq(Members)
  <2>1. CASE d \in Documents
    BY <2>1, IngestAssumption DEF IngestAssumption, D!FeedFetchAssumption
  <2>2. CASE d = <<>>
    BY <2>2
  <2> QED
    BY <2>1, <2>2
<1>2. Len(d) \in Nat /\ DOMAIN d = 1..Len(d) /\ MaxItems \in Nat
  BY <1>1, IngestAssumption DEF IngestAssumption, D!FeedFetchAssumption
<1>3. PICK n \in 0..Len(d) : D!Parsed(d) = SubSeq(d, 1, n)
  <2> DEFINE n == IF Len(d) < MaxItems THEN Len(d) ELSE MaxItems
  <2>1. n \in 0..Len(d)
    BY <1>2
  <2>2. D!Parsed(d) = SubSeq(d, 1, n)
    BY DEF D!Parsed
  <2> HIDE DEF n
  <2> QED
    BY <2>1, <2>2
<1>4. /\ Len(D!Parsed(d)) = n /\ DOMAIN D!Parsed(d) = 1..n
      /\ \A i \in 1..n : D!Parsed(d)[i] = d[i]
  BY <1>1, <1>2, <1>3
<1>5. \A i \in 1..n : d[i].id \in D!Identities \cup {"none"} /\ d[i].hash \in D!Hashes
  <2> SUFFICES ASSUME NEW i \in 1..n
               PROVE  d[i].id \in D!Identities \cup {"none"} /\ d[i].hash \in D!Hashes
    OBVIOUS
  <2>1. i \in DOMAIN d /\ d \in Documents
    BY <1>2
  <2>2. d[i].id \in {d[j].id : j \in DOMAIN d} /\ d[i].hash \in {d[j].hash : j \in DOMAIN d}
    BY <2>1
  <2>3. d[i].id \in UNION {{e[j].id : j \in DOMAIN e} : e \in Documents}
    BY <2>1, <2>2, Zenon
  <2>4. d[i].hash \in UNION {{e[j].hash : j \in DOMAIN e} : e \in Documents}
    BY <2>1, <2>2, Zenon
  <2> QED
    BY <2>3, <2>4 DEF D!Identities, D!Hashes
<1> QED
  BY <1>4, <1>5 DEF Known

(* The report adds up to the items kept of the last document, and each is   *)
(* current unless another shares its identity.                             *)
Accounted ==
  /\ Total(report) = Len(D!Parsed(document))
  /\ Distinct(D!Parsed(document), Len(D!Parsed(document)))
       => Current(items, D!Parsed(document), Len(D!Parsed(document)))

FeedInv == D!TypeOK /\ HopInv /\ Accounted

LEMMA FeedInit == D!Init => FeedInv
<1> SUFFICES ASSUME D!Init PROVE FeedInv
  OBVIOUS
<1>1. HopInv
  BY FeedBound DEF D!Init, HopInv, Hop, D!OnlyPublicReached, D!RedirectBudget
<1>2. Len(D!Parsed(<<>>)) = 0
  BY IngestAssumption DEF IngestAssumption, D!FeedFetchAssumption, D!Parsed
<1>3. Accounted
  BY <1>2, NoReportCounts DEF D!Init, Accounted, Current
<1>4. D!NoArticle \in D!Article
  BY DEF D!NoArticle, D!Article
<1>5. D!TypeOK
  <2>1. items \in [D!Identities -> D!Article] /\ report \in D!Report
    BY <1>4, NoReportCounts DEF D!Init
  <2>2. MaxFetches \in Nat
    BY IngestAssumption DEF IngestAssumption, D!FeedFetchAssumption
  <2>3. dns \in [Hosts -> SUBSET D!Addresses]
    BY DEF D!Init, D!Addresses
  <2> QED
    BY <2>1, <2>2, <2>3 DEF D!Init, D!TypeOK, D!Codes, D!NoTarget
<1> QED
  BY <1>1, <1>3, <1>5 DEF FeedInv

(* The codes with which a fetch ends.                                      *)
LEMMA CodesKnown ==
  /\ \A u : D!Verdict(u) \in D!Codes
  /\ \A h : D!Lookup(h) \in D!Codes
  BY DEF D!Verdict, D!Lookup, D!Codes

LEMMA IngestStep ==
  ASSUME FeedInv, NEW d \in Documents, D!Ingest(d)
  PROVE  /\ items' \in [D!Identities -> D!Article]
         /\ report' \in D!Report
         /\ Accounted'
<1> DEFINE kept == D!Parsed(d)
           done == D!After(items, kept)
<1>1. items \in [D!Identities -> D!Article]
  BY DEF FeedInv, D!TypeOK
<1>2. Len(kept) \in Nat /\ Known(kept, Len(kept))
  BY KeptKnown
<1>3. items' = done.articles /\ report' = done.report /\ document' = d
  BY DEF D!Ingest, D!Ingested
<1>4. /\ done \in Counts
      /\ Total(done.report) = Len(kept)
      /\ Distinct(kept, Len(kept)) => Current(done.articles, kept, Len(kept))
  BY <1>1, <1>2, AfterHolds
<1>5. D!Parsed(document)' = kept
  BY <1>3 DEF D!Parsed
<1> HIDE DEF kept, done
<1> QED
  BY <1>3, <1>4, <1>5 DEF Counts, Accounted

LEMMA FeedStep == FeedInv /\ [D!Next]_D!vars => FeedInv'
<1> SUFFICES ASSUME FeedInv, [D!Next]_D!vars PROVE FeedInv'
  OBVIOUS
<1>0. MaxFetches \in Nat
  BY IngestAssumption DEF IngestAssumption, D!FeedFetchAssumption
<1>1. HopInv'
  BY HopStep DEF FeedInv
<1>2. ASSUME UNCHANGED <<items, report, document>> PROVE Accounted'
  BY <1>2 DEF FeedInv, Accounted, D!Parsed
<1>3. ASSUME NEW u \in D!Targets, D!Fetch(u) PROVE D!TypeOK' /\ Accounted'
  <2>1. fetches' \in 0..MaxFetches
    BY <1>0, <1>3 DEF FeedInv, D!TypeOK, D!Fetch
  <2>2. D!TypeOK'
    BY <1>3, <2>1, CodesKnown DEF FeedInv, D!TypeOK, D!Fetch, D!Request, D!End, D!Verdict
  <2> QED
    BY <1>2, <1>3, <2>2 DEF D!Fetch
<1>4. CASE D!Dial
  <2>1. reached' \subseteq D!Addresses
    <3>1. dns \in [Hosts -> SUBSET D!Addresses] /\ reached \subseteq D!Addresses
      BY DEF FeedInv, D!TypeOK
    <3>2. target.host \in Hosts
      BY <1>4 DEF FeedInv, D!TypeOK, D!Dial, D!Targets, D!NoTarget, D!Verdict
    <3>3. reached' = reached \/ \E a \in dns[target.host] : reached' = reached \cup {a}
      BY <1>4 DEF D!Dial
    <3> QED
      BY <3>1, <3>2, <3>3
  <2>2. D!TypeOK'
    BY <1>4, <2>1, CodesKnown DEF FeedInv, D!TypeOK, D!Dial, D!End, D!Codes, D!Verdict
  <2> QED
    BY <1>1, <1>2, <1>4, <2>2 DEF FeedInv, D!Dial
<1>5. ASSUME NEW u \in D!Targets, D!Redirect(u) PROVE D!TypeOK' /\ Accounted'
  <2>1. D!TypeOK'
    BY <1>5, CodesKnown
    DEF FeedInv, D!TypeOK, D!Redirect, D!Request, D!End, D!Verdict, D!Codes
  <2> QED
    BY <1>2, <1>5, <2>1 DEF D!Redirect
<1>6. CASE D!TimeOut
  <2>1. D!TypeOK'
    BY <1>6 DEF FeedInv, D!TypeOK, D!TimeOut, D!End, D!Codes, D!Verdict
  <2> QED
    BY <1>1, <1>2, <1>6, <2>1 DEF FeedInv, D!TimeOut
<1>7. CASE D!Answer
  <2>1. ASSUME NEW code \in {"not_modified", "HTTP_STATUS", "READ_FAILED", "RESPONSE_TOO_LARGE",
                             "PARSE_FAILED", "FETCH_FAILED"}, D!Refuse(code)
        PROVE  D!TypeOK' /\ Accounted'
    <3>1. D!TypeOK'
      BY <2>1 DEF FeedInv, D!TypeOK, D!Refuse, D!End, D!Codes, D!Verdict
    <3> QED
      BY <1>2, <2>1, <3>1 DEF D!Refuse
  <2>2. ASSUME NEW d \in Documents, D!Ingest(d) PROVE D!TypeOK' /\ Accounted'
    <3>1. items' \in [D!Identities -> D!Article] /\ report' \in D!Report /\ Accounted'
      BY <2>2, IngestStep
    <3>2. D!TypeOK'
      BY <2>2, <3>1 DEF FeedInv, D!TypeOK, D!Ingest, D!End, D!Codes, D!Verdict
    <3> QED
      BY <3>1, <3>2
  <2> QED
    BY <1>1, <1>7, <2>1, <2>2 DEF FeedInv, D!Answer
<1>8. CASE D!Resolve
  <2>1. D!TypeOK'
    BY <1>8 DEF FeedInv, D!TypeOK, D!Resolve, D!Rebind, D!Verdict
  <2> QED
    BY <1>1, <1>2, <1>8, <2>1 DEF FeedInv, D!Resolve, D!Rebind
<1>9. CASE UNCHANGED D!vars
  <2>1. D!TypeOK'
    BY <1>9 DEF FeedInv, D!TypeOK, D!vars, D!Verdict
  <2> QED
    BY <1>1, <1>2, <1>9, <2>1 DEF FeedInv, D!vars
<1> QED
  BY <1>1, <1>3, <1>4, <1>5, <1>6, <1>7, <1>8, <1>9 DEF FeedInv, D!Next, D!Send, D!Follow

LEMMA FeedInvSafe == FeedInv => FeedFetchSafe
<1> SUFFICES ASSUME FeedInv PROVE FeedFetchSafe
  OBVIOUS
<1> DEFINE kept == D!Parsed(document)
           named == {i \in DOMAIN kept : kept[i].id # "none"}
           distinct == \A i, j \in named : kept[i].id = kept[j].id => i = j
<1>1. /\ items \in [D!Identities -> D!Article] /\ report \in D!Report
      /\ document \in Documents \cup {<<>>}
  BY DEF FeedInv, D!TypeOK
<1>2. /\ Len(kept) \in Nat /\ DOMAIN kept = 1..Len(kept) /\ Known(kept, Len(kept))
  BY <1>1, KeptKnown
<1>3. distinct => Distinct(kept, Len(kept))
  BY <1>2 DEF Distinct
<1>4. distinct => Current(items, kept, Len(kept))
  BY <1>3 DEF FeedInv, Accounted
<1>5. distinct => \A i \in named : items[kept[i].id].hash = kept[i].hash
  BY <1>2, <1>4 DEF Current
<1>6. distinct => D!Ingested(document).articles = items
  BY <1>1, <1>2, <1>4, AfterHolds DEF D!Ingested
<1>7. report.inserted + report.updated + report.unchanged + report.skipped = Len(kept)
  BY DEF FeedInv, Accounted, Total
<1>8. D!SameDocumentUnchanged
  BY <1>5, <1>6, <1>7 DEF D!SameDocumentUnchanged
<1> QED
  BY <1>8 DEF FeedInv, HopInv, FeedFetchSafe

(* A fetch connects to public addresses only, within its redirects, and    *)
(* what it ingests it ingests once: the report accounts for every item     *)
(* kept, and the same document again changes no article.                   *)
(* (safeDialContext, CheckRedirect, Ingest, upsertRSSArticle.)              *)
THEOREM FetchesAreSafe == AllSpec => []FeedFetchSafe
<1>1. AllInit => FeedInv
  BY FeedInit DEF AllInit
<1>2. FeedInv /\ [AllNext]_all => FeedInv'
  BY StepOfParts, FeedStep
<1> QED
  BY <1>1, <1>2, FeedInvSafe, PTL DEF AllSpec

-----------------------------------------------------------------------------
(***************************************************************************)
(* The fetches of sources.                                                 *)
(***************************************************************************)
(* SourceFetch with the proofs about it, for the constants of the sum.     *)
FP == INSTANCE SourceFetch_proofs WITH
        MaxGen <- MaxClaims, MaxVersion <- MaxWrites, MaxFaults <- MaxBreaks,
        workers <- fetchers, faults <- breaks

(* F and FP are one module: their definitions read the same.               *)
LEMMA SameNext == F!Next => FP!Next
  BY Zenon
  DEF
      F!Unattended, F!RunsOf, F!RunningOf, F!Fetchable, F!LeaseFree, F!Add, F!TakeBack,
      F!Pause, F!Resume, F!SetFetchInterval, F!ComeDue, F!Expire, F!Claimed,
      F!DrawLease, F!ClaimDue, F!FetchByID, F!Reserve, F!ClaimByID, F!Stale, F!StartRun,
      F!Holds, F!EndRun, F!NextFailure, F!Settle, F!Save, F!Fail, F!Break, F!Administer,
      F!Request, F!Operate, F!Time, F!Schedule, F!Advance, F!Work, F!Fault, F!Next,
      FP!Unattended, FP!RunsOf, FP!RunningOf, FP!Fetchable, FP!LeaseFree, FP!Add,
      FP!TakeBack, FP!Pause, FP!Resume, FP!SetFetchInterval, FP!ComeDue, FP!Expire,
      FP!Claimed, FP!DrawLease, FP!ClaimDue, FP!FetchByID, FP!Reserve, FP!ClaimByID,
      FP!Stale, FP!StartRun, FP!Holds, FP!EndRun, FP!NextFailure, FP!Settle, FP!Save,
      FP!Fail, FP!Break, FP!Administer, FP!Request, FP!Operate, FP!Time, FP!Schedule,
      FP!Advance, FP!Work, FP!Fault, FP!Next

LEMMA FetchesAreSpec == AllSpec => FP!Spec
  <1>1. AllInit => FP!Init
    BY Zenon DEF AllInit, F!Init, F!NoRun, FP!Init, FP!NoRun
  <1>2. [AllNext]_all => [FP!Next]_FP!vars
    BY StepOfParts, SameNext DEF F!vars, FP!vars
  <1> QED
    BY <1>1, <1>2, PTL DEF AllSpec, FP!Spec

LEMMA FetchBounds == FP!SourceFetchAssumption
  BY IngestAssumption
  DEF IngestAssumption, F!SourceFetchAssumption, F!Unattended,
      FP!SourceFetchAssumption, FP!Unattended

(* A fetch whose lease an administrator took back saves nothing, whatever   *)
(* is resumed or claimed afterwards. (Pause, Resume, Complete.)            *)
THEOREM TakenBackNeverSaves == AllSpec => []CutNeverSaves
  <1>1. FP!CutNeverSaves => CutNeverSaves
    BY DEF CutNeverSaves, F!CutNeverSaves, FP!CutNeverSaves
  <1>2. FP!Spec => []FP!CutNeverSaves
    BY FetchBounds, FP!TakenBackNeverSaves
  <1> QED
    BY <1>1, <1>2, FetchesAreSpec, PTL

(* An idempotency key succeeds with the one run it started, and the         *)
(* failures that degrade a source are its failed runs since it last         *)
(* succeeded. (FetchNow, Settle, NextFailure.)                             *)
THEOREM RunsAreAccounted == AllSpec => []RunsAccounted
  <1>1. FP!KeySettledByItsRun /\ FP!FailuresAreRuns => RunsAccounted
    <2>1. FP!KeySettledByItsRun => F!KeySettledByItsRun
      BY Zenon DEF F!Cardinality, F!RunsOf, F!KeySettledByItsRun,
                   FP!Cardinality, FP!RunsOf, FP!KeySettledByItsRun
    <2>2. FP!FailuresAreRuns => F!FailuresAreRuns
      BY Zenon DEF F!Cardinality, F!RunsOf, F!FailedSinceSuccess, F!FailuresAreRuns,
                   FP!Cardinality, FP!RunsOf, FP!FailedSinceSuccess, FP!FailuresAreRuns
    <2> QED
      BY <2>1, <2>2 DEF RunsAccounted
  <1>2. FP!Spec => []FP!KeySettledByItsRun
    BY FetchBounds, FP!KeysSettle
  <1>3. FP!Spec => []FP!FailuresAreRuns
    BY FetchBounds, FP!FailuresCount
  <1> QED
    BY <1>1, <1>2, <1>3, FetchesAreSpec, PTL

-----------------------------------------------------------------------------
(***************************************************************************)
(* The types of all: the pipeline's by its own theorem, whose state the    *)
(* other three leave alone.                                                *)
(***************************************************************************)
LEMMA FetchTypes == AllSpec => []F!TypeOK
  <1>1. FP!TypeOK => F!TypeOK
    BY Zenon
    DEF F!Unattended, F!Triggers, F!Statuses, F!Gens, F!Source, F!Run, F!Op, F!Worker, F!TypeOK,
        FP!Unattended, FP!Triggers, FP!Statuses, FP!Gens, FP!Source, FP!Run, FP!Op, FP!Worker, FP!TypeOK
  <1>2. FP!Spec => []FP!TypeOK
    BY FetchBounds, FP!TypeCorrect
  <1> QED
    BY <1>1, <1>2, FetchesAreSpec, PTL

LEMMA PipelineTypes == AllSpec => []TypeOK
  <1>1. AllInit => Init
    BY DEF AllInit
  <1>2. [AllNext]_all => [Next]_vars
    BY StepOfParts
  <1>3. AllSpec => Spec
    BY <1>1, <1>2, PTL DEF AllSpec, Spec
  <1> QED
    BY <1>3, TypeCorrect, PTL

(* The rows, messages, leases, runs, documents, images and articles of the *)
(* four components keep their types.                                       *)
THEOREM AllTypesHold == AllSpec => []AllTypesOK
  <1>1. AllInit => AuthorInv /\ FeedInv
    BY AuthorInit, FeedInit DEF AllInit
  <1>2. AuthorInv /\ [AllNext]_all => AuthorInv'
    BY StepOfParts, AuthorStep
  <1>3. FeedInv /\ [AllNext]_all => FeedInv'
    BY StepOfParts, FeedStep
  <1>4. TypeOK /\ F!TypeOK /\ AuthorInv /\ FeedInv => AllTypesOK
    BY DEF AllTypesOK, AuthorInv, FeedInv
  <1> QED
    BY <1>1, <1>2, <1>3, <1>4, FetchTypes, PipelineTypes, PTL DEF AllSpec

=============================================================================
