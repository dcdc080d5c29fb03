-------------------------------- MODULE Reading --------------------------------
(***************************************************************************)
(* The public list: GET /articles pages through the published articles by  *)
(* a keyset cursor, newest first.  The candidates of a page come from the  *)
(* Redis cache or from PostgreSQL, the facts always from a REPEATABLE READ *)
(* snapshot of PostgreSQL; article writes commit under the readers' feet   *)
(* and try to invalidate the first pages afterwards.                       *)
(*                                                                         *)
(* An article is its id, a number; its position is its sort time, then its *)
(* id, both descending.  Every client asks for the same page size, so a    *)
(* cache key is a position.                                                *)
(***************************************************************************)
EXTENDS Integers, Sequences, FiniteSets, SequencesExt, Ordering

CONSTANTS Articles,     \* ids, positive numbers
          Sorts,        \* sort times, positive numbers
          Readers,      \* clients, each walking the list page by page
          Limit,        \* the page size
          MaxChecked,   \* 500 candidates checked by one request
          LatestTTL,    \* cache.latest_ttl
          MaxRead,      \* bound on the duration of one read snapshot
          MaxTime,      \* bound on the clock
          MaxWrites,    \* bound on the writes
          MaxWalks      \* bound on the walks of one reader

ReadingAssumption ==
  /\ Articles \subseteq Nat \ {0} /\ IsFiniteSet(Articles)
  /\ Sorts \subseteq Nat \ {0} /\ Sorts # {}
  /\ Limit \in Nat \ {0} /\ MaxChecked \in Nat /\ MaxChecked > Limit
  /\ LatestTTL \in Nat \ {0} /\ MaxRead \in Nat
  /\ MaxTime \in Nat \ {0} /\ MaxWrites \in Nat /\ MaxWalks \in Nat

VARIABLES articles,   \* article -> whether it is public, its sort time, when that was
                      \* last written and by which write
          latest,     \* position -> the cached page of candidates after it
          owed,       \* an article write has committed, its invalidation has not run
          clock,
          writes,     \* writes made
          request,    \* reader -> the request under way
          walk        \* reader -> the pages it has got, glued together

vars == <<articles, latest, owed, clock, writes, request, walk>>

Position(i, sort) == [sort |-> sort, id |-> i]
First    == [sort |-> 0, id |-> 0]    \* no cursor
Cursors  == {First} \cup {Position(i, s) : i \in Articles, s \in Sorts}
(* The keyset predicate (sort_at, id) < ($2, $3).                          *)
Below(p, q) == q = First \/ p.sort < q.sort \/ (p.sort = q.sort /\ p.id < q.id)

LongAgo == -LatestTTL - MaxRead
NoPage  == [candidates |-> <<>>, exhausted |-> TRUE, created |-> 0]
NoView  == [i \in Articles |-> [public |-> FALSE, sort |-> 0, since |-> 0, mark |-> 0]]
Idle    == [phase |-> "idle", position |-> First, page |-> NoPage, filling |-> FALSE,
            view |-> NoView, items |-> <<>>, checked |-> 0, taken |-> 0, began |-> 0]
NoWalk  == [position |-> First, items |-> <<>>, started |-> 0, over |-> TRUE, count |-> 0]

TypeOK ==
  /\ articles \in [Articles -> [public : BOOLEAN, sort : Sorts, since : LongAgo..MaxTime,
                             mark : 0..MaxWrites]]
  /\ \A p \in Cursors : /\ Range(latest[p].candidates) \subseteq Cursors
                        /\ Len(latest[p].candidates) <= Limit + 1
                        /\ latest[p].created \in 0..MaxTime
  /\ owed \in BOOLEAN
  /\ clock \in 0..MaxTime /\ writes \in 0..MaxWrites
  /\ \A r \in Readers : /\ request[r].phase \in {"idle", "cache", "read", "reload", "answer"}
                        /\ request[r].position \in Cursors
                        /\ Len(request[r].items) <= Limit
                        /\ request[r].checked \in 0..MaxChecked
                        /\ walk[r].position \in Cursors

InitialSort == CHOOSE s \in Sorts : \A t \in Sorts : s <= t

Init ==
  /\ articles = [i \in Articles |-> [public |-> TRUE, sort |-> InitialSort, since |-> LongAgo, mark |-> 0]]
  /\ latest = [p \in Cursors |-> NoPage]
  /\ owed = FALSE /\ clock = 1 /\ writes = 0
  /\ request = [r \in Readers |-> Idle]
  /\ walk = [r \in Readers |-> NoWalk]

-----------------------------------------------------------------------------
(***************************************************************************)
(* Writers.                                                                *)
(***************************************************************************)
(* A public transition or a change of a public article commits, with the   *)
(* invalidation registered in its transaction.                             *)
Write(i, public, sort) ==
  /\ ~owed /\ writes < MaxWrites /\ writes' = writes + 1
  /\ articles[i].public \/ public
  /\ articles[i].public # public \/ articles[i].sort # sort
  /\ articles' = [articles EXCEPT ![i] = [public |-> public, sort |-> sort, since |-> clock,
                                          mark |-> writes']]
  /\ owed' = TRUE
  /\ UNCHANGED <<latest, clock, request, walk>>

(* The after-commit action deletes the first pages; it may fail, time out  *)
(* or be cut by the shutdown, which the write does not notice.             *)
Invalidate ==
  /\ owed /\ owed' = FALSE
  /\ \/ latest' = [latest EXCEPT ![First] = NoPage]
     \/ UNCHANGED latest
  /\ UNCHANGED <<articles, clock, writes, request, walk>>

Fresh(page, at) == page # NoPage /\ page.created <= at /\ at < page.created + LatestTTL

(* Time passes, but no further than MaxRead into a read snapshot; Redis    *)
(* drops the entries that expire.                                          *)
Tick ==
  /\ clock < MaxTime /\ clock' = clock + 1
  /\ \A r \in Readers : request[r].phase = "reload" => clock < request[r].taken + MaxRead
  /\ latest' = [p \in Cursors |-> IF Fresh(latest[p], clock') THEN latest[p] ELSE NoPage]
  /\ UNCHANGED <<articles, owed, writes, request, walk>>

-----------------------------------------------------------------------------
(***************************************************************************)
(* One request: batches of candidates until the page is full, the list is  *)
(* exhausted or MaxChecked candidates were checked.                        *)
(***************************************************************************)
(* The request that opens a walk, or the one that continues it.            *)
Opened(r) ==
  CASE request[r].phase = "cache" -> <<walk[r], request[r]>>
    [] walk[r].over ->
         <<[NoWalk EXCEPT !.started = clock, !.over = FALSE, !.count = walk[r].count + 1],
           [Idle EXCEPT !.began = writes]>>
    [] OTHER -> <<walk[r], [Idle EXCEPT !.began = writes, !.position = walk[r].position]>>

(* Mutant: the entry is stamped when it is written back, not when it was   *)
(* read.                                                                   *)
StampNow(page) == [page EXCEPT !.created = clock]

(* CreatedAt of the envelope, which its absolute expiry counts from.       *)
Stamp(page) == page

(* GetLatest, or the bypass of a cache that fails or has spent its budget; *)
(* a miss is stamped before the database is asked.                         *)
Look(r) ==
  /\ request[r].phase \in {"idle", "cache"}
  /\ request[r].phase = "idle" /\ walk[r].over => walk[r].count < MaxWalks
  /\ LET w == Opened(r)[1]
         q == Opened(r)[2]
         cached == latest[q.position]
     IN /\ walk' = [walk EXCEPT ![r] = w]
        /\ \/ /\ Fresh(cached, clock)
              /\ request' = [request EXCEPT ![r] = [q EXCEPT !.phase = "read", !.page = cached]]
           \/ request' = [request EXCEPT ![r] = [q EXCEPT !.phase = "read", !.filling = TRUE,
                                                       !.page.created = clock]]
  /\ UNCHANGED <<articles, latest, owed, clock, writes>>

(* ListLatestCandidates: one more than the page, in keyset order.          *)
Candidates(view, position, created) ==
  LET public == {Position(i, view[i].sort) : i \in {j \in Articles : view[j].public}}
      below  == {p \in public : Below(p, position)}
      all    == Ordered(below, {pq \in below \X below : Below(pq[2], pq[1])})
  IN [candidates |-> Top(all, Limit + 1), exhausted |-> Len(all) < Limit + 1,
      created |-> created]

(* Mutant: the candidates of a hit are taken as they were cached.          *)
MovedNever(view, page) == FALSE

(* A public candidate of the cached page no longer sorts where it did.     *)
Moved(view, page) ==
  \E p \in Range(page.candidates) : view[p.id].public /\ view[p.id].sort # p.sort

(* The first statement of the transaction fixes its snapshot: the          *)
(* candidates on a miss, the facts of the cached candidates on a hit.      *)
View(r) ==
  /\ request[r].phase = "read"
  /\ LET q == request[r] IN
       request' = [request EXCEPT ![r].view = articles,
         ![r].page  = IF q.filling THEN Candidates(articles, q.position, q.page.created) ELSE @,
         ![r].phase = IF ~q.filling /\ Moved(articles, q.page) THEN "reload" ELSE "answer",
         ![r].taken = IF ~q.filling /\ Moved(articles, q.page) THEN clock ELSE 0]
  /\ UNCHANGED <<articles, latest, owed, clock, writes, walk>>

(* The page does not fit the facts: the candidates are read again, in the  *)
(* snapshot already taken, stamped with the time of this second read.      *)
Reload(r) ==
  /\ request[r].phase = "reload"
  /\ request' = [request EXCEPT ![r].phase = "answer", ![r].filling = TRUE,
                   ![r].page = Candidates(request[r].view, request[r].position, clock)]
  /\ UNCHANGED <<articles, latest, owed, clock, writes, walk>>

(* PutLatest after the transaction: an entry already past its expiry is    *)
(* not written, and a write that fails is forgotten.                       *)
Fill(r) ==
  LET q == request[r] IN
    \/ /\ q.filling /\ Fresh(Stamp(q.page), clock)
       /\ latest' = [latest EXCEPT ![q.position] = Stamp(q.page)]
    \/ UNCHANGED latest

(* Mutant: every candidate of the page was published, so it is shown.      *)
VisibleAsCached(view, p) == TRUE

(* ListPublicFacts has the candidate.                                      *)
Visible(view, p) == view[p.id].public

(* How many candidates the batch consumes: it stops before the visible one *)
(* that no longer fits the page, and at MaxChecked.                        *)
Consumed(q) ==
  LET c == q.page.candidates
      shown(k) == Cardinality({j \in 1..k : Visible(q.view, c[j])})
  IN Max({k \in 0..Len(c) : /\ q.checked + k <= MaxChecked
                            /\ Len(q.items) + shown(k) <= Limit})

(* The response: the items, and a cursor unless the list was exhausted.    *)
Reply(r, items, position, over) ==
  /\ request' = [request EXCEPT ![r] = [Idle EXCEPT !.items = items, !.began = request[r].began]]
  /\ walk' = [walk EXCEPT ![r].items = @ \o items, ![r].over = over,
                          ![r].position = IF over THEN First ELSE position]

Answer(r) ==
  /\ request[r].phase = "answer" /\ Fill(r)
  /\ LET q == request[r]
         c == q.page.candidates
         n == Consumed(q)
         position == IF n = 0 THEN q.position ELSE c[n]
         shown == At(c, {k \in 1..n : Visible(q.view, c[k])})
         items == q.items \o [k \in DOMAIN shown |-> Position(shown[k].id, q.view[shown[k].id].sort)]
         over == n = Len(c) /\ q.page.exhausted
     IN IF over \/ n < Len(c) \/ q.checked + n = MaxChecked
        THEN Reply(r, items, position, over)
        ELSE /\ request' = [request EXCEPT ![r] = [Idle EXCEPT !.phase = "cache", !.items = items,
                              !.position = position, !.checked = q.checked + n, !.began = q.began]]
             /\ UNCHANGED walk
  /\ UNCHANGED <<articles, owed, clock, writes>>

(* A database error or a cancelled request: the client may ask again from  *)
(* the cursor it has.                                                      *)
Abort(r) ==
  /\ request[r].phase \in {"read", "reload"}
  /\ request' = [request EXCEPT ![r] = Idle]
  /\ UNCHANGED <<articles, latest, owed, clock, writes, walk>>

Serve(r) == Look(r) \/ View(r) \/ Reload(r) \/ Answer(r)

Next ==
  \/ \E i \in Articles, public \in BOOLEAN, s \in Sorts : Write(i, public, s)
  \/ Invalidate
  \/ Tick
  \/ \E r \in Readers : Serve(r) \/ Abort(r)

Spec == Init /\ [][Next]_vars

-----------------------------------------------------------------------------
(***************************************************************************)
(* Properties.                                                             *)
(***************************************************************************)
(* An article whose place in the list has not changed for a cache lifetime *)
(* before a walk began (and a read snapshot's length, because a reload     *)
(* stamps an older snapshot) is in the walk when it ends, whatever was     *)
(* cached, withdrawn, moved or written back late meanwhile.                *)
WalkComplete ==
  \A r \in Readers : walk[r].over /\ walk[r].count > 0 =>
    \A i \in Articles :
      articles[i].public /\ articles[i].since + LatestTTL + MaxRead <= walk[r].started
        => Position(i, articles[i].sort) \in Range(walk[r].items)

(* A walk lists strictly downwards: no article twice at one position, none *)
(* above what was listed before, across pages of different ages.           *)
WalkDescends ==
  \A r \in Readers : \A j, k \in DOMAIN walk[r].items :
    j < k => Below(walk[r].items[k], walk[r].items[j])

(* What was withdrawn before a request began, and not published again, is  *)
(* not in its response: a cached page decides what is looked at, never     *)
(* what is public.                                                         *)
NothingWithdrawn ==
  \A r \in Readers : \A j \in DOMAIN request[r].items :
    LET a == articles[request[r].items[j].id] IN a.public \/ a.mark > request[r].began
================================================================================
