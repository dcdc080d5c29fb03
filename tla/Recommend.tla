------------------------------- MODULE Recommend -------------------------------
(***************************************************************************)
(* The feedback of one user and the recommendations it leads to: reads,    *)
(* favourites and "not interested" marks are written under a share lock of *)
(* the article; a first query turns them into a profile, recalls and ranks *)
(* candidates (or takes the plan cached for that profile), freezes them in *)
(* a cursor, and each page checks the frozen candidates against the facts  *)
(* of the moment before the latest articles fill it up.                    *)
(*                                                                         *)
(* An article is its id; its vector stands for its VectorIdentity, which a *)
(* revision or a new selection replaces.  A tick is a read window of half  *)
(* an hour.  The floating-point scores of RankV1 are left open: a plan may *)
(* hold its candidates in any order.                                       *)
(***************************************************************************)
EXTENDS Integers, Sequences, FiniteSets, SequencesExt, Ordering

CONSTANTS Articles,        \* ids, positive numbers
          Sorts,           \* sort times, positive numbers
          Topic,           \* article -> its topic
          Liked,           \* the favourites at the start
          Recalls,         \* what the index may find: keyword and semantic candidates
          FeedbackKinds,   \* the kinds of feedback the user may leave
          Limit,           \* the page size
          DayLength,       \* windows in a day
          ReadRetention,   \* 90 days
          DislikeTTL,      \* NotInterestedRetention
          PlanTTL,         \* cache.recommend_ttl
          CursorTTL,       \* recommend.cursor_ttl
          MaxTime,         \* bound on the clock
          MaxWrites, MaxFeedback,   \* bounds on the writes of articles and of feedback
          MaxWalks         \* bound on the first queries

Kinds == {"read", "favorite", "unfavorite", "dislike", "undislike"}

RecommendAssumption ==
  /\ Articles \subseteq Nat \ {0} /\ IsFiniteSet(Articles)
  /\ Sorts \subseteq Nat \ {0} /\ Sorts # {}
  /\ Recalls \subseteq [bm : SUBSET Articles, knn : SUBSET Articles]
  /\ FeedbackKinds \subseteq Kinds
  /\ Liked \subseteq Articles /\ Limit \in Nat \ {0} /\ DayLength \in Nat \ {0}
  /\ ReadRetention \in Nat /\ DislikeTTL \in Nat /\ PlanTTL \in Nat /\ CursorTTL \in Nat
  /\ MaxTime \in Nat \ {0} /\ {MaxWrites, MaxFeedback, MaxWalks} \subseteq Nat

VARIABLES articles,   \* article -> public, sort, vector, first published, last write
          reads,      \* article_read_windows: the article, the window, its last write
          favorites,  \* article_favorites
          dislikes,   \* article_not_interested: article -> whether there is a row, when it
                      \* expires or expired, last write
          writing,    \* the feedback transaction that holds its share lock
          plan,       \* the plan cached for this user
          request,    \* the recommendation request under way
          cursor,     \* the cursor the client holds
          walk,       \* what the pages since the first query showed
          clock,
          writes,     \* writes made, of articles and of feedback
          feedbacks   \* of which feedback

feedback == <<reads, favorites, dislikes>>
reading  == <<plan, request, cursor, walk>>
vars == <<articles, feedback, writing, reading, clock, writes, feedbacks>>

NoTx   == [article |-> 0, kind |-> "none", at |-> 0]
NoPlan == [items |-> <<>>, original |-> {}, excluded |-> {}, profile |-> <<>>, created |-> 0,
           basis |-> 0, degraded |-> FALSE]
NoCursor == [mode |-> "none", signed |-> FALSE, items |-> <<>>, offset |-> 0, latest |-> <<>>,
             latestEnd |-> FALSE, started |-> 0, basis |-> 0, degraded |-> FALSE]
Idle     == [phase |-> "idle", state |-> NoCursor, began |-> 0, profile |-> <<>>,
             bm |-> {}, knn |-> <<>>, semantic |-> FALSE, current |-> <<>>, items |-> <<>>,
             more |-> FALSE]
NoWalk   == [items |-> <<>>, signed |-> FALSE, began |-> 0, started |-> 0, basis |-> 0,
             over |-> FALSE, count |-> 0]
Modes    == {"personalized", "cold_start", "latest_fallback"}

TypeOK ==
  /\ articles \in [Articles -> [public : BOOLEAN, sort : Sorts, vector : Nat,
                                first : 0..MaxTime + 1, mark : Nat]]
  /\ reads \subseteq [article : Articles, window : 0..MaxTime]
  /\ favorites \subseteq Articles
  /\ dislikes \in [Articles -> [row : BOOLEAN, expires : 0..MaxTime + DislikeTTL,
                               mark : Nat]]
  /\ writing = NoTx \/ writing \in [article : Articles, kind : Kinds, at : 0..MaxTime]
  /\ plan.original \subseteq Articles /\ plan.excluded \subseteq Articles
  /\ request.phase \in {"idle", "recall", "rank", "facts", "exclusions", "latest"}
  /\ Len(request.items) <= Limit
  /\ cursor.mode \in Modes \cup {"none"}
  /\ cursor.offset \in 0..Len(cursor.items)
  /\ clock \in 0..MaxTime /\ writes \in 0..MaxWrites + MaxFeedback /\ feedbacks \in 0..MaxFeedback

Never == MaxTime + 1

-----------------------------------------------------------------------------
(***************************************************************************)
(* Articles change: withdrawn and restored, re-sorted, re-embedded.  The   *)
(* row lock of an update waits for the share lock of a feedback write.     *)
(***************************************************************************)
(* Mutant: the article is checked without FOR SHARE.                       *)
NeverLocked(i) == FALSE

Locked(i) == writing.article = i

Written(i, a) ==
  /\ writes - feedbacks < MaxWrites /\ writes' = writes + 1
  /\ ~Locked(i)
  /\ articles' = [articles EXCEPT ![i] = [a EXCEPT !.mark = writes',
                    !.first = IF a.public /\ @ = Never THEN clock ELSE @]]
  /\ UNCHANGED <<feedback, writing, reading, clock, feedbacks>>

Toggle(i)    == Written(i, [articles[i] EXCEPT !.public = ~@])
Resort(i, s) == articles[i].sort # s /\ Written(i, [articles[i] EXCEPT !.sort = s])
Reselect(i)  == Written(i, [articles[i] EXCEPT !.vector = @ + 1])

Tick == /\ clock < MaxTime /\ clock' = clock + 1
        /\ UNCHANGED <<articles, feedback, writing, reading, writes, feedbacks>>

-----------------------------------------------------------------------------
(***************************************************************************)
(* Feedback.                                                               *)
(***************************************************************************)
(* SELECT ... FOR SHARE: only a published article takes feedback.          *)
LockArticle(i, kind) ==
  /\ writing = NoTx /\ feedbacks < MaxFeedback
  /\ articles[i].public
  /\ writing' = [article |-> i, kind |-> kind, at |-> clock]
  /\ UNCHANGED <<articles, feedback, reading, clock, writes, feedbacks>>

(* The statement of the transaction and its commit.  A second read in a    *)
(* window changes nothing, a second dislike prolongs nothing that holds.   *)
Commit ==
  /\ writing # NoTx /\ writing' = NoTx
  /\ writes' = writes + 1 /\ feedbacks' = feedbacks + 1
  /\ LET i == writing.article
         k == writing.kind
         at == writing.at IN
       /\ reads' = IF k = "read" THEN reads \cup {[article |-> i, window |-> at]} ELSE reads
       /\ favorites' = CASE k = "favorite"   -> favorites \cup {i}
                         [] k = "unfavorite" -> favorites \ {i}
                         [] OTHER            -> favorites
       /\ dislikes' = CASE k = "dislike" /\ (dislikes[i].row => dislikes[i].expires <= at) ->
                             [dislikes EXCEPT ![i] = [row |-> TRUE, expires |-> at + DislikeTTL,
                                                      mark |-> writes']]
                        [] k = "undislike" ->
                             [dislikes EXCEPT ![i] = [row |-> FALSE, expires |-> 0, mark |-> writes']]
                        [] OTHER -> dislikes
  /\ UNCHANGED <<articles, reading, clock>>

Cancel == /\ writing # NoTx /\ writing' = NoTx
          /\ UNCHANGED <<articles, feedback, reading, clock, writes, feedbacks>>

(* Mutant: the oldest read that still counts is cleaned up too.            *)
ForgottenEarly(r) == r.window <= clock - ReadRetention

(* first_seen_at < now - ReadRetention                                     *)
Forgotten(r) == r.window < clock - ReadRetention

CleanupExpired ==
  /\ \/ \E r \in reads : Forgotten(r)
     \/ \E i \in Articles : dislikes[i].row /\ dislikes[i].expires <= clock
  /\ reads' = {r \in reads : ~Forgotten(r)}
  /\ dislikes' = [i \in Articles |-> IF dislikes[i].expires <= clock
                                     THEN [dislikes[i] EXCEPT !.row = FALSE] ELSE dislikes[i]]
  /\ UNCHANGED <<articles, favorites, writing, reading, clock, writes, feedbacks>>

(* Excluded: the published ones of ids the user is not interested in now.  *)
Excluded(ids) == {i \in ids : articles[i].public /\ dislikes[i].row /\ dislikes[i].expires > clock}

(* Samples: the published articles the user left anything on.              *)
Days(i) == {r.window \div DayLength :
              r \in {s \in reads : s.article = i /\ s.window >= clock - ReadRetention}}
Positive(i) ==
  IF i \in Excluded(Articles) THEN 0
  ELSE Min({3, Cardinality(Days(i))}) + (IF i \in favorites THEN 3 ELSE 0)
Sampled == {i \in Articles : articles[i].public}

Clamp(n) == Max({-20, Min({20, n})})

(* The evidence of a topic, summed over the sampled articles and clamped.  *)
Evidence(t) ==
  LET on == {i \in Sampled : Topic[i] = t}
      positive == SumFunction([i \in on |-> Positive(i)])
      negative == Cardinality(on \cap Excluded(Articles))
  IN [weight |-> Clamp(positive - negative), positive |-> Clamp(positive),
      negative |-> Clamp(negative)]
Profile == [t \in Range(Topic) |-> Evidence(t)]

(* topPositive: there is something to search for.                          *)
Terms(profile) == {t \in DOMAIN profile : profile[t].weight > 0}

-----------------------------------------------------------------------------
(***************************************************************************)
(* The first query.                                                        *)
(***************************************************************************)
Started(signed) == [NoCursor EXCEPT !.signed = signed, !.mode = "cold_start", !.started = clock,
                                  !.basis = writes]
Fallback(state) == [state EXCEPT !.mode = "latest_fallback", !.degraded = TRUE]
Adopt(state, p) == [state EXCEPT !.mode = "personalized", !.items = p.items,
                                 !.degraded = p.degraded, !.basis = p.basis]

(* What page() does first: nothing frozen is left to check on the last     *)
(* part of the walk.                                                       *)
Paging(state) ==
  [Idle EXCEPT !.state = state, !.began = writes,
               !.phase = IF state.offset < Len(state.items) THEN "facts" ELSE "latest"]

(* GetPlan and validCachedPlan: the profile is part of the key.            *)
Cached(profile) ==
  plan # NoPlan /\ plan.profile = profile /\ clock < plan.created + PlanTTL

(* get: the profile decides the mode; a cached plan is taken only if it    *)
(* would exclude the same candidates now.  The profile, the plan and the   *)
(* exclusions are read in one step: every page checks its candidates       *)
(* against later facts.                                                    *)
First(signed) ==
  /\ request.phase = "idle" /\ walk.count < MaxWalks
  /\ cursor' = NoCursor
  /\ walk' = [NoWalk EXCEPT !.count = walk.count + 1, !.signed = signed, !.began = writes,
                            !.started = clock]
  /\ LET state == Started(signed) IN
       \/ /\ ~signed \/ Terms(Profile) = {}
          /\ request' = Paging(state)
       \/ /\ signed /\ Terms(Profile) # {}
          /\ Cached(Profile) /\ Excluded(plan.original) = plan.excluded
          /\ request' = Paging(Adopt(state, plan))
       \/ /\ signed /\ Terms(Profile) # {}
          /\ request' = [Idle EXCEPT !.state = state, !.began = writes, !.phase = "recall",
                                     !.profile = Profile]
  /\ UNCHANGED <<articles, feedback, writing, plan, clock, writes, feedbacks>>

(* ListPublishedWithIdentity, in one snapshot.                             *)
Facts == [i \in Articles |->
            [public |-> articles[i].public, sort |-> articles[i].sort, vector |-> articles[i].vector]]

(* What was ever public may be in the index.                               *)
Indexed == {i \in Articles : articles[i].first # Never}

(* Recall and RecallHybrid: the index lags, so the candidates may be no    *)
(* longer public and carry any vector they ever had; the semantic half may *)
(* be missing, and without the index latest must do.                       *)
Recall ==
  /\ request.phase = "recall"
  /\ \/ request' = Paging(Fallback(request.state))
     \/ \E found \in Recalls, semantic \in BOOLEAN :
          LET on == IF semantic THEN found.knn \cap Indexed ELSE {} IN
          \E knn \in [on -> 1..writes + 1] :
            /\ \A i \in on : knn[i] <= articles[i].vector
            /\ request' = [request EXCEPT !.phase = "rank", !.bm = found.bm \cap Indexed,
                             !.knn = knn, !.semantic = semantic, !.current = Facts]
  /\ UNCHANGED <<articles, feedback, writing, plan, cursor, walk, clock, writes, feedbacks>>

(* FuseCurrent: keyword candidates that are public, semantic ones whose    *)
(* vector is current too.                                                  *)
Matching(knn, current) == {i \in DOMAIN knn : current[i].public /\ knn[i] = current[i].vector}
Fused(q) == {i \in q.bm : q.current[i].public} \cup Matching(q.knn, q.current)

(* Freeze(RankV1(...)): whatever is not excluded, in one order.            *)
Frozen(q, excluded) ==
  {[k \in DOMAIN order |-> [id |-> order[k],
      vector |-> IF order[k] \in Matching(q.knn, q.current) THEN q.knn[order[k]] ELSE 0]] :
     order \in SetToSeqs(Fused(q) \ excluded)}

(* plan and cachedPlan: the exclusions are read after the facts; the cache *)
(* gets the plan, stamped with the start of the request, or fails to.      *)
Rank ==
  /\ request.phase = "rank"
  /\ LET original == request.bm \cup DOMAIN request.knn
         excluded == Excluded(original) IN
       \E items \in Frozen(request, excluded) :
         LET p == [items |-> items, original |-> original, excluded |-> excluded,
                   profile |-> request.profile, created |-> request.state.started,
                   basis |-> request.state.basis, degraded |-> ~request.semantic]
         IN /\ request' = [Paging(Adopt(request.state, p)) EXCEPT !.began = request.began]
            /\ plan' \in {plan, p}
  /\ UNCHANGED <<articles, feedback, writing, cursor, walk, clock, writes, feedbacks>>

-----------------------------------------------------------------------------
(***************************************************************************)
(* A page.                                                                 *)
(***************************************************************************)
(* Decode: a cursor is refused when it expired or is another identity's.   *)
Continue(signed) ==
  /\ request.phase = "idle" /\ cursor # NoCursor
  /\ \/ /\ signed = cursor.signed /\ clock < cursor.started + CursorTTL
        /\ request' = Paging(cursor)
        /\ UNCHANGED cursor
     \/ /\ signed # cursor.signed \/ clock >= cursor.started + CursorTTL
        /\ cursor' = NoCursor /\ UNCHANGED request
  /\ UNCHANGED <<articles, feedback, writing, plan, walk, clock, writes, feedbacks>>

ReadFacts ==
  /\ request.phase = "facts"
  /\ request' = [request EXCEPT !.phase = "exclusions", !.current = Facts]
  /\ UNCHANGED <<articles, feedback, writing, plan, cursor, walk, clock, writes, feedbacks>>

(* Mutant: the plan had left out what the user is not interested in.       *)
ShowableAsPlanned(q, item) ==
  /\ q.current[item.id].public
  /\ item.vector # 0 => item.vector = q.current[item.id].vector

(* A frozen candidate is shown if it is public, if its vector is still the *)
(* one it was found by, and if this user has not dismissed it.             *)
Showable(q, item) ==
  /\ q.current[item.id].public
  /\ item.vector # 0 => item.vector = q.current[item.id].vector
  /\ q.state.signed => item.id \notin Excluded({item.id})

Shown(i) == [id |-> i, sort |-> request.current[i].sort]

(* The frozen candidates that fill the page, passing over the others; then *)
(* whether another one is left.                                            *)
FillPage ==
  /\ request.phase = "exclusions"
  /\ LET s == request.state
         good == {k \in s.offset + 1..Len(s.items) : Showable(request, s.items[k])}
         last == IF Cardinality(good) >= Limit THEN Nth(good, Limit) ELSE Len(s.items)
         taken == At(s.items, {k \in good : k <= last})
     IN request' = [request EXCEPT
          !.phase = "latest", !.state = [s EXCEPT !.offset = last], !.current = <<>>,
          !.items = [k \in DOMAIN taken |-> Shown(taken[k].id)],
          !.more  = \E k \in good : k > last]
  /\ UNCHANGED <<articles, feedback, writing, plan, cursor, walk, clock, writes, feedbacks>>

(* Mutant: only the candidates still ahead are left out.                   *)
SkippedAhead(s) == {s.items[k].id : k \in s.offset + 1..Len(s.items)}

Skipped(s) == {item.id : item \in Range(s.items)}

Below(p, q) == p.sort < q.sort \/ (p.sort = q.sort /\ p.id < q.id)

(* ListRecommendationCandidates: what was published before the walk, not   *)
(* in the plan, not dismissed, below the position; newest first.           *)
Latest(s, limit) ==
  LET open == {i \in Articles :
                 /\ articles[i].public /\ articles[i].first <= s.started
                 /\ i \notin Skipped(s)
                 /\ s.signed => i \notin Excluded({i})}
      below == {p \in {[id |-> i, sort |-> articles[i].sort] : i \in open} :
                  s.latest = <<>> \/ Below(p, Head(s.latest))}
  IN Top(Ordered(below, {pq \in below \X below : Below(pq[2], pq[1])}), limit)

(* Mutant: the position moves past the look-ahead.                         *)
PositionAhead(s, found, count) == IF found = <<>> THEN s.latest ELSE <<Last(found)>>

Position(s, found, count) == IF count = 0 THEN s.latest ELSE <<found[count]>>

(* The response; the client keeps the cursor if there is more.             *)
Reply(state, items, more) ==
  /\ request' = [Idle EXCEPT !.items = items, !.began = request.began]
  /\ cursor' = IF more THEN state ELSE NoCursor
  /\ walk' = [walk EXCEPT !.items = @ \o items, !.over = ~more, !.basis = state.basis]

FillUp ==
  /\ request.phase = "latest"
  /\ LET s == request.state
         need == Limit - Len(request.items)
         found == Latest(s, need + 1)
         count == Min({need, Len(found)})
     IN IF request.more \/ s.latestEnd THEN Reply(s, request.items, request.more)
        ELSE Reply([s EXCEPT !.latest = Position(s, found, count),
                             !.latestEnd = Len(found) <= need,
                             !.degraded = @ \/ (count > 0 /\ s.mode = "personalized")],
                   request.items \o SubSeq(found, 1, count), Len(found) > need)
  /\ UNCHANGED <<articles, feedback, writing, plan, clock, writes, feedbacks>>

(* A dependency fails: 503, and the client may ask again.                  *)
Fail ==
  /\ request.phase # "idle" /\ request' = Idle
  /\ UNCHANGED <<articles, feedback, writing, plan, cursor, walk, clock, writes, feedbacks>>

(* A first query of before the model begins may have left its plan.        *)
EarlierPlans ==
  UNION {{[NoPlan EXCEPT !.items = items, !.original = (f.bm \cup f.knn) \cap Indexed,
                         !.profile = Profile, !.created = clock] :
            items \in Frozen([bm |-> f.bm \cap Indexed, knn |-> [i \in f.knn \cap Indexed |-> 1],
                              current |-> Facts], {})} :
           f \in Recalls}

(* Some articles may not be published yet.                                 *)
Init ==
  /\ \E drafts \in SUBSET Articles :
       articles = [i \in Articles |->
         [public |-> i \notin drafts, sort |-> CHOOSE s \in Sorts : TRUE, vector |-> 1,
          first |-> IF i \in drafts THEN Never ELSE 0, mark |-> 0]]
  /\ reads = {} /\ favorites = Liked \cap Indexed /\ writing = NoTx
  /\ dislikes = [i \in Articles |-> [row |-> FALSE, expires |-> 0, mark |-> 0]]
  /\ request = Idle /\ cursor = NoCursor /\ walk = NoWalk
  /\ clock = 1 /\ writes = 0 /\ feedbacks = 0
  /\ plan \in {NoPlan} \cup EarlierPlans

Next ==
  \/ \E i \in Articles : Toggle(i) \/ Reselect(i) \/ \E s \in Sorts : Resort(i, s)
  \/ Tick
  \/ \E i \in Articles, kind \in FeedbackKinds : LockArticle(i, kind)
  \/ Commit \/ Cancel \/ CleanupExpired
  \/ \E signed \in BOOLEAN : First(signed) \/ Continue(signed)
  \/ Recall \/ Rank \/ ReadFacts \/ FillPage \/ FillUp \/ Fail

Spec == Init /\ [][Next]_vars

-----------------------------------------------------------------------------
(***************************************************************************)
(* Properties.                                                             *)
(***************************************************************************)
(* A response never shows an article that was withdrawn before the request *)
(* began, nor a signed-in user one dismissed before it: neither a cached   *)
(* plan nor the order frozen in a cursor outlives the facts.               *)
OldNewsStaysHidden ==
  request.phase = "idle" /\ walk.count > 0 =>
    \A k \in DOMAIN request.items :
      LET i == request.items[k].id IN
        articles[i].mark <= request.began =>
          /\ articles[i].public
          /\ walk.signed /\ i \in Excluded(Articles) => dislikes[i].mark > request.began

(* "An effective article-level dislike excludes the article                *)
(* unconditionally": a dismissal older than the request holds for its      *)
(* response, whatever else happens to the article meanwhile.  The code     *)
(* reads the facts first and asks for the dislikes of what is published    *)
(* afterwards, so an article withdrawn in between passes both.             *)
DismissedNeverShown ==
  request.phase = "idle" /\ walk.signed =>
    \A k \in DOMAIN request.items :
      LET d == dislikes[request.items[k].id] IN
        d.row /\ d.expires > clock => d.mark > request.began

(* No page repeats an article of an earlier page, except one that moved    *)
(* down the latest order after it was shown there.                         *)
NoRepeat ==
  \A j, k \in DOMAIN walk.items :
    j < k /\ walk.items[j].id = walk.items[k].id => walk.items[k].sort < walk.items[j].sort

(* A walk that ends has shown every article that nothing happened to since *)
(* its plan was made and that the user had not dismissed: candidates that  *)
(* vanish, plans that shrink and the fall-back to latest lose none.        *)
WalkShowsAll ==
  walk.over =>
    \A i \in Articles :
      (/\ articles[i].public /\ articles[i].mark <= walk.basis
       /\ articles[i].first <= walk.started
       /\ ~walk.signed \/ (dislikes[i].mark <= walk.began /\ dislikes[i].expires <= walk.started))
      => \E k \in DOMAIN walk.items : walk.items[k].id = i

(* Feedback is only ever committed on an article that is public at that    *)
(* moment, although it was checked in an earlier step.                     *)
FeedbackWhilePublic ==
  [][Commit => articles[writing.article].public]_vars

(* The cleaner, whenever it runs, changes nothing a query can see: neither *)
(* the profile nor what is excluded.                                       *)
CleanupUnseen ==
  [][CleanupExpired => Profile' = Profile /\ Excluded(Articles)' = Excluded(Articles)]_vars
================================================================================
