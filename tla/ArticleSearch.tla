----------------------------- MODULE ArticleSearch -----------------------------
(***************************************************************************)
(* The search of one client.  Without hybrid search a walk pages through a *)
(* point in time (PIT) of the read index, whose identity and position the  *)
(* cursor carries; with it, a first query fuses a keyword and a semantic   *)
(* recall of one PIT and freezes the result in the cursor.  Every batch is *)
(* checked against the facts in PostgreSQL before it is shown.             *)
(*                                                                         *)
(* The keyword order of the hits is a constant; an article's vector stands *)
(* for its VectorIdentity.  The index follows the facts late, one document *)
(* at a time, through the projection.                                      *)
(***************************************************************************)
EXTENDS Integers, Sequences, FiniteSets, SequencesExt, Ordering

CONSTANTS Articles,        \* ids, positive numbers
          Hits,            \* all articles the query matches, best first
          Near,            \* all articles the query vector is near to, nearest first
          Limit,           \* the page size
          BatchSize,       \* candidates of one index query
          MaxCandidates,   \* candidates of one request
          BM25Candidates, KNNCandidates,   \* candidates of a hybrid first query
          KeepAlive,       \* of a PIT and of its cursor
          HybridTTL,       \* of a frozen cursor
          MaxTime, MaxWrites, MaxWalks, MaxFaults   \* bounds

ArticleSearchAssumption ==
  /\ Articles \subseteq Nat \ {0}
  /\ \A s \in {Hits, Near} : s \in Seq(Articles) /\ IsInjective(s)
  /\ Limit \in Nat \ {0} /\ BatchSize \in Nat \ {0}
  /\ MaxCandidates \in Nat /\ MaxCandidates >= BatchSize
  /\ BM25Candidates \in Nat \ {0} /\ KNNCandidates \in Nat \ {0}
  /\ KeepAlive \in Nat \ {0} /\ HybridTTL \in Nat \ {0}
  /\ {MaxTime, MaxWrites, MaxWalks, MaxFaults} \subseteq Nat

VARIABLES articles,   \* article -> public, vector, last write
          index,      \* article -> its document: visible, vector
          hybrid,     \* Hybrid.Enabled of the running deployment
          pits,       \* first query -> the PIT it opened
          request,    \* the request under way
          cursor,     \* the cursor the client holds
          walk,       \* what the pages since the first query showed
          clock, writes,
          faults      \* replies lost, closings failed, restarts

world == <<articles, index, hybrid, clock, writes>>
vars  == <<world, pits, request, cursor, walk, faults>>

NoPit    == [open |-> FALSE, docs |-> <<>>, expires |-> 0, given |-> FALSE, stray |-> FALSE]
NoCursor == [pit |-> 0, after |-> 0, items |-> <<>>, offset |-> 0, expires |-> 0]
Idle     == [phase |-> "idle", pit |-> 0, after |-> 0, scanned |-> 0, exhausted |-> FALSE,
             batch |-> <<>>, visible |-> <<>>, bm |-> <<>>, knn |-> <<>>, plan |-> NoCursor,
             items |-> <<>>, began |-> 0]
NoWalk   == [basis |-> <<>>, items |-> <<>>, began |-> 0, over |-> FALSE, count |-> 0]

TypeOK ==
  /\ articles \in [Articles -> [public : BOOLEAN, vector : Nat, mark : 0..MaxWrites]]
  /\ index \in [Articles -> [visible : BOOLEAN, vector : Nat]]
  /\ hybrid \in BOOLEAN
  /\ \A n \in 1..MaxWalks : pits[n].open \in BOOLEAN /\ pits[n].expires \in 0..MaxTime + KeepAlive
  /\ request.phase \in {"idle", "search", "read", "reply", "recall", "fuse", "current"}
  /\ request.scanned \in 0..MaxCandidates
  /\ Len(request.visible) <= Limit + 1 /\ Len(request.items) <= Limit
  /\ cursor.pit \in 0..MaxWalks /\ cursor.after \in 0..Len(Hits)
  /\ cursor.offset \in 0..Len(cursor.items)
  /\ cursor.items # <<>> => cursor.offset < Len(cursor.items)
  /\ walk.count \in 0..MaxWalks
  /\ clock \in 0..MaxTime /\ writes \in 0..MaxWrites /\ faults \in 0..MaxFaults

-----------------------------------------------------------------------------
(***************************************************************************)
(* Articles change, the projection follows, time passes, the service is    *)
(* redeployed.                                                             *)
(***************************************************************************)
Written(i, a) ==
  /\ writes < MaxWrites /\ writes' = writes + 1
  /\ articles' = [articles EXCEPT ![i] = [a EXCEPT !.mark = writes']]
  /\ UNCHANGED <<index, hybrid, pits, request, cursor, walk, clock, faults>>

Toggle(i)   == Written(i, [articles[i] EXCEPT !.public = ~@])
Reselect(i) == Written(i, [articles[i] EXCEPT !.vector = @ + 1])

Project(i) ==
  /\ index' = [index EXCEPT ![i] = [visible |-> articles[i].public, vector |-> articles[i].vector]]
  /\ index' # index
  /\ UNCHANGED <<articles, hybrid, pits, request, cursor, walk, clock, writes, faults>>

Tick == /\ clock < MaxTime /\ clock' = clock + 1
        /\ UNCHANGED <<articles, index, hybrid, pits, request, cursor, walk, writes, faults>>

(* A restart with the other setting; a PIT in use is left to expire.       *)
Redeploy ==
  /\ faults < MaxFaults /\ faults' = faults + 1
  /\ hybrid' = ~hybrid
  /\ request' = Idle
  /\ pits' = [n \in DOMAIN pits |-> IF n = request.pit THEN [pits[n] EXCEPT !.stray = TRUE]
                                                       ELSE pits[n]]
  /\ UNCHANGED <<articles, index, cursor, walk, clock, writes>>

-----------------------------------------------------------------------------
(***************************************************************************)
(* PITs and replies.                                                       *)
(***************************************************************************)
Open(n) == pits[n].open /\ clock < pits[n].expires

Rank(i) == CHOOSE k \in DOMAIN Hits : Hits[k] = i

(* What a query of the index or of a PIT finds: the visible documents.     *)
Found(s, docs) == At(s, {k \in DOMAIN s : docs[s[k]].visible})
Keyword(docs)  == Found(Hits, docs)
Semantic(docs) == Found(Near, docs)

(* closePIT, whose failure is only observed.                               *)
Close(n) ==
  IF n = 0 THEN UNCHANGED <<pits, faults>>
  ELSE \/ pits' = [pits EXCEPT ![n].open = FALSE] /\ UNCHANGED faults
       \/ /\ faults < MaxFaults /\ faults' = faults + 1
          /\ pits' = [pits EXCEPT ![n].stray = TRUE]

(* The response, which reaches the client or not.                          *)
Reply(items, next, basis) ==
  /\ request' = [Idle EXCEPT !.items = items, !.began = request.began]
  /\ \/ /\ cursor' = next
        /\ walk' = [walk EXCEPT !.items = @ \o items, !.basis = basis, !.over = next = NoCursor]
     \/ UNCHANGED <<cursor, walk>>

(* Mutant: only a page that was answered closes its PIT.                   *)
CloseNothing(n) == UNCHANGED <<pits, faults>>

(* The deferred closing of a request that returns an error.                *)
CloseAfterError(n) == Close(n)

Fail ==
  /\ request.phase # "idle" /\ request' = Idle
  /\ CloseAfterError(request.pit)
  /\ UNCHANGED <<world, cursor, walk>>

-----------------------------------------------------------------------------
(***************************************************************************)
(* A first query, or the next page.                                        *)
(***************************************************************************)
First ==
  /\ request.phase = "idle" /\ walk.count < MaxWalks
  /\ LET n == walk.count + 1 IN
       /\ pits' = [pits EXCEPT ![n] = [open |-> TRUE, docs |-> index, expires |-> clock + KeepAlive,
                                       given |-> FALSE, stray |-> FALSE]]
       /\ request' = [Idle EXCEPT !.phase = IF hybrid THEN "recall" ELSE "search", !.pit = n,
                                  !.began = writes]
       /\ walk' = [NoWalk EXCEPT !.count = n, !.began = writes,
                                 !.basis = IF hybrid THEN <<>> ELSE Keyword(index)]
  /\ cursor' = NoCursor
  /\ UNCHANGED <<world, faults>>

Frozen(c) == c.items # <<>>

(* Decode and DecodeFrozen: an old PIT cursor goes on in either setting, a *)
(* frozen one needs the plan it was made for.                              *)
Accepted(c) == clock < c.expires /\ (Frozen(c) => hybrid)

Continue ==
  /\ request.phase = "idle" /\ cursor # NoCursor
  /\ IF ~Accepted(cursor)
     THEN cursor' = NoCursor /\ UNCHANGED request
     ELSE /\ UNCHANGED cursor
          /\ request' = IF Frozen(cursor)
               THEN [Idle EXCEPT !.phase = "current", !.plan = cursor, !.began = writes]
               ELSE [Idle EXCEPT !.phase = "search", !.pit = cursor.pit,
                                 !.after = cursor.after, !.began = writes]
  /\ UNCHANGED <<world, pits, walk, faults>>

-----------------------------------------------------------------------------
(***************************************************************************)
(* A page of a PIT.                                                        *)
(***************************************************************************)
(* One batch after the position; the search keeps the PIT alive.           *)
Search ==
  /\ request.phase = "search" /\ Open(request.pit)
  /\ LET q    == request
         size == Min({BatchSize, MaxCandidates - q.scanned})
         hits == Keyword(pits[q.pit].docs)
         left == At(hits, {k \in DOMAIN hits : Rank(hits[k]) > q.after})
     IN /\ request' = [q EXCEPT !.batch = Top(left, size), !.exhausted = Len(left) < size,
                                !.scanned = @ + Len(Top(left, size)),
                                !.phase = IF left = <<>> THEN "reply" ELSE "read"]
        /\ pits' = [pits EXCEPT ![q.pit].expires = clock + KeepAlive]
  /\ UNCHANGED <<world, cursor, walk, faults>>

(* ErrPITNotFound, and the client has to start again.                      *)
Gone ==
  /\ request.phase = "search" /\ ~Open(request.pit)
  /\ request' = Idle /\ cursor' = NoCursor /\ Close(request.pit)
  /\ UNCHANGED <<world, walk>>

(* ListPublishedByIDs has the candidate.                                   *)
Visible(i) == articles[i].public

(* The published of the batch, up to one more than the page holds.         *)
Read ==
  /\ request.phase = "read"
  /\ LET q == request
         public == At(q.batch, {k \in DOMAIN q.batch : Visible(q.batch[k])})
         visible == Top(q.visible \o public, Limit + 1)
         full == Len(visible) = Limit + 1 \/ q.scanned = MaxCandidates \/ q.exhausted
     IN request' = [q EXCEPT !.visible = visible, !.after = Rank(Last(q.batch)), !.batch = <<>>,
                             !.phase = IF full THEN "reply" ELSE "search"]
  /\ UNCHANGED <<world, pits, cursor, walk, faults>>

(* Mutant: the position of the candidate after the page.                   *)
NextAhead(q) == IF Len(q.visible) > Limit THEN Rank(q.visible[Limit + 1]) ELSE q.after

(* The position of the last one shown, or of the last one checked.         *)
NextPosition(q) == IF Len(q.visible) > Limit THEN Rank(q.visible[Limit]) ELSE q.after

Answer ==
  /\ request.phase = "reply"
  /\ LET q     == request
         items == [k \in 1..Min({Limit, Len(q.visible)}) |-> [id |-> q.visible[k], vector |-> 0]]
         more  == Len(q.visible) > Limit \/ (~q.exhausted /\ q.scanned = MaxCandidates)
     IN IF more
        THEN /\ Reply(items, [NoCursor EXCEPT !.pit = q.pit, !.after = NextPosition(q),
                                              !.expires = clock + KeepAlive], walk.basis)
             /\ pits' = [pits EXCEPT ![q.pit].given = TRUE]
             /\ UNCHANGED faults
        ELSE Reply(items, NoCursor, walk.basis) /\ Close(q.pit)
  /\ UNCHANGED world

-----------------------------------------------------------------------------
(***************************************************************************)
(* A hybrid page.                                                          *)
(***************************************************************************)
(* Both recalls of one PIT; the semantic one may be missing.               *)
Recall ==
  /\ request.phase = "recall" /\ Open(request.pit)
  /\ LET docs == pits[request.pit].docs
         near == Top(Semantic(docs), KNNCandidates) IN
       \E semantic \in BOOLEAN :
         request' = [request EXCEPT !.phase = "fuse", !.bm = Top(Keyword(docs), BM25Candidates),
           !.knn = IF semantic THEN [k \in DOMAIN near |-> [id |-> near[k], vector |-> docs[near[k]].vector]]
                   ELSE <<>>]
  /\ UNCHANGED <<world, pits, cursor, walk, faults>>

(* The reciprocal ranks of i in the lists that have it, as a fraction.     *)
Score(bm, knn, i) ==
  LET rank(s) == 60 + CHOOSE k \in DOMAIN s : s[k] = i
  IN CASE i \notin Range(knn) -> <<1, rank(bm)>>
       [] i \notin Range(bm)  -> <<1, rank(knn)>>
       [] OTHER -> <<rank(bm) + rank(knn), rank(bm) * rank(knn)>>

FuseRRF(bm, knn) ==
  LET before(i, j) == LET a == Score(bm, knn, i)
                          b == Score(bm, knn, j)
                      IN a[1] * b[2] > b[1] * a[2] \/ (a[1] * b[2] = b[1] * a[2] /\ i > j)
      ids == Range(bm) \cup Range(knn)
  IN Ordered(ids, {ij \in ids \X ids : before(ij[1], ij[2])})

(* The keyword candidates that are public, the semantic ones whose vector  *)
(* is current too, fused; each remembers the vector it was found by.       *)
Fused(q) ==
  LET current(c) == articles[c.id].public /\ c.vector = articles[c.id].vector
      bm  == At(q.bm, {k \in DOMAIN q.bm : Visible(q.bm[k])})
      knn == At(q.knn, {k \in DOMAIN q.knn : current(q.knn[k])})
      ids == [k \in DOMAIN knn |-> knn[k].id]
      all == FuseRRF(bm, ids)
  IN [k \in DOMAIN all |-> [id |-> all[k],
        vector |-> IF all[k] \in Range(ids) THEN articles[all[k]].vector ELSE 0]]

(* Mutant: a frozen candidate only has to be public.                       *)
ShowableFrozen(c) == articles[c.id].public

(* Public, and still at the vector it was found by, if it was.             *)
Showable(c) == articles[c.id].public /\ (c.vector # 0 => c.vector = articles[c.id].vector)

(* Mutant: the page after starts with the last one shown.                  *)
OffsetBack(shown, next) == next - 2

(* Mutant: the page after starts behind its first candidate.               *)
OffsetAhead(shown, next) == next

(* The frozen candidates before the first one not shown.                   *)
Offset(shown, next) == next - 1

(* pageFromCurrent: the first Limit candidates that still hold, and where  *)
(* the next one is.                                                        *)
Page(plan, basis) ==
  LET good == {k \in plan.offset + 1..Len(plan.items) : Showable(plan.items[k])}
      shown == Min({Limit, Cardinality(good)})
  IN Reply([n \in 1..shown |-> plan.items[Nth(good, n)]],
           IF Cardinality(good) > Limit
           THEN [plan EXCEPT !.offset = Offset(Nth(good, Limit), Nth(good, Limit + 1))] ELSE NoCursor,
           basis)

(* The end of a first query: its PIT is closed, whatever was found.        *)
Fuse ==
  /\ request.phase = "fuse" /\ Close(request.pit)
  /\ LET items == Fused(request) IN
       Page([NoCursor EXCEPT !.items = items, !.expires = clock + HybridTTL],
            [k \in DOMAIN items |-> items[k].id])
  /\ UNCHANGED world

Current ==
  /\ request.phase = "current" /\ Page(request.plan, walk.basis)
  /\ UNCHANGED <<world, pits, faults>>

-----------------------------------------------------------------------------
Init ==
  /\ articles = [i \in Articles |-> [public |-> TRUE, vector |-> 1, mark |-> 0]]
  /\ index = [i \in Articles |-> [visible |-> TRUE, vector |-> 1]]
  /\ hybrid \in BOOLEAN
  /\ pits = [n \in 1..MaxWalks |-> NoPit]
  /\ request = Idle /\ cursor = NoCursor /\ walk = NoWalk
  /\ clock = 0 /\ writes = 0 /\ faults = 0

Next ==
  \/ \E i \in Articles : Toggle(i) \/ Reselect(i) \/ Project(i)
  \/ Tick \/ Redeploy \/ First \/ Continue \/ Fail
  \/ Search \/ Gone \/ Read \/ Answer
  \/ Recall \/ Fuse \/ Current

Spec == Init /\ [][Next]_vars

-----------------------------------------------------------------------------
(***************************************************************************)
(* Properties.                                                             *)
(***************************************************************************)
(* A walk shows its candidates in the order they were found in, none of    *)
(* them twice, whatever changed, failed or was asked again between pages.  *)
KeepsOrder ==
  LET place(i) == CHOOSE k \in DOMAIN walk.basis : walk.basis[k] = i IN
    \A j, k \in DOMAIN walk.items : j < k => place(walk.items[j].id) < place(walk.items[k].id)

(* A walk that ends has shown every candidate that nothing happened to     *)
(* since it began: batches, scan limits, look-ahead, gaps of withdrawn     *)
(* articles and answers that were lost skip none.                          *)
SkipsNone ==
  walk.over => \A i \in Range(walk.basis) :
    articles[i].public /\ articles[i].mark <= walk.began
      => \E c \in Range(walk.items) : c.id = i

(* A response shows no article withdrawn before its request, and none for  *)
(* a vector that was replaced before it: neither the index nor a frozen    *)
(* order decides what is public or what is near.                           *)
NothingStale ==
  request.phase = "idle" => \A c \in Range(request.items) :
    articles[c.id].mark <= request.began =>
      articles[c.id].public /\ c.vector \in {0, articles[c.id].vector}

(* Every PIT that is open is the one of the request under way, or is named *)
(* by a cursor that was handed out, unless closing it failed.  (The        *)
(* converse does not hold: a request that fails closes the PIT although    *)
(* the client's cursor still names it.)                                    *)
PitsAccounted ==
  \A n \in DOMAIN pits : Open(n) => \/ pits[n].given \/ pits[n].stray
                                   \/ (request.phase # "idle" /\ request.pit = n)
===============================================================================
