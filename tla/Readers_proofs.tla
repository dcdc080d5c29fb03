---------------------------- MODULE Readers_proofs ----------------------------
(***************************************************************************)
(* Proofs about what readers see, for every set of articles, every page    *)
(* size, lifetime and bound: first what sorting and filtering return, then *)
(* one inductive invariant per component.                                  *)
(*                                                                         *)
(*   ListInv       the latest list and its cache       (Reading)           *)
(*   SearchInv     the pages of a search               (ArticleSearch)     *)
(*   FeedbackInv   feedback under its share lock       (Recommend)         *)
(*   RecommendInv  the pages of recommendations        (Recommend)         *)
(*                                                                         *)
(* Each follows a walk from page to page: where its cursor, or the request *)
(* in flight, stands, that what was shown lies before that place, and that *)
(* what nothing happened to lies behind it or was shown.                   *)
(***************************************************************************)
EXTENDS Readers, Ordering, FiniteSetTheorems, SequenceTheorems, WellFoundedInduction, TLAPS

-----------------------------------------------------------------------------
(***************************************************************************)
(* Sorting and filtering.                                                  *)
(***************************************************************************)
(* Before is a strict total order of X.                                         *)
Orders(Before, X) ==
  /\ \A x \in X : <<x, x>> \notin Before
  /\ \A x, y \in X : x = y \/ <<x, y>> \in Before \/ <<y, x>> \in Before
  /\ \A x, y, z \in X : <<x, y>> \in Before /\ <<y, z>> \in Before => <<x, z>> \in Before

LEMMA PlaceGrows ==
  ASSUME NEW X, IsFiniteSet(X), NEW Before, Orders(Before, X), NEW x \in X
  PROVE  /\ Place(X, Before, x) \in 1..Cardinality(X)
         /\ \A y \in X : <<x, y>> \in Before => Place(X, Before, x) < Place(X, Before, y)
<1> DEFINE upto(y) == {z \in X : z = y \/ <<z, y>> \in Before}
<1>1. \A y \in X : IsFiniteSet(upto(y)) /\ Cardinality(upto(y)) <= Cardinality(X)
  BY FS_Subset
<1>2. \A y \in X : Cardinality(upto(y)) \in Nat
  BY <1>1, FS_CardinalityType
<1>3. Cardinality(upto(x)) # 0
  BY <1>1, FS_EmptySet
<1>4. ASSUME NEW y \in X, <<x, y>> \in Before
      PROVE  Cardinality(upto(x)) < Cardinality(upto(y))
  <2>1. upto(x) \in SUBSET upto(y)
    BY <1>4 DEF Orders
  <2>2. y \in upto(y) /\ y \notin upto(x)
    BY <1>4 DEF Orders
  <2>3. Cardinality(upto(x)) <= Cardinality(upto(y)) /\ Cardinality(upto(x)) # Cardinality(upto(y))
    BY <1>1, <2>1, <2>2, FS_Subset
  <2> QED
    BY <1>2, <2>3
<1>5. Cardinality(X) \in Nat
  BY FS_CardinalityType
<1> QED
  BY <1>1, <1>2, <1>3, <1>4, <1>5 DEF Place

LEMMA OrderedLists ==
  ASSUME NEW X, IsFiniteSet(X), NEW Before, Orders(Before, X)
  PROVE  /\ Ordered(X, Before) \in Seq(X) /\ Len(Ordered(X, Before)) = Cardinality(X)
         /\ Cardinality(X) \in Nat
         /\ \A x \in X : Place(X, Before, x) \in 1..Cardinality(X) /\ Ordered(X, Before)[Place(X, Before, x)] = x
         /\ \A m, n \in 1..Cardinality(X) :
              m < n => <<Ordered(X, Before)[m], Ordered(X, Before)[n]>> \in Before
<1> DEFINE c == Cardinality(X)
           f == [x \in X |-> Place(X, Before, x)]
<1>1. c \in Nat
  BY FS_CardinalityType
<1>2. f \in Injection(X, 1..c)
  <2>1. f \in [X -> 1..c]
    BY PlaceGrows
  <2>2. ASSUME NEW x \in X, NEW y \in X, f[x] = f[y] PROVE x = y
    <3>1. <<x, y>> \in Before => f[x] < f[y]
      BY PlaceGrows
    <3>2. <<y, x>> \in Before => f[y] < f[x]
      BY PlaceGrows
    <3>3. f[x] \in Int /\ f[y] \in Int
      BY <2>1
    <3> QED
      BY <2>2, <3>1, <3>2, <3>3 DEF Orders
  <2> QED
    BY <2>1, <2>2 DEF Injection, IsInjective
<1>3. IsFiniteSet(1..c) /\ Cardinality(1..c) = c
  BY <1>1, FS_Interval
<1>4. f \in Surjection(X, 1..c)
  BY <1>2, <1>3, FS_Injection
<1>5. \A n \in 1..c : \E x \in X : Place(X, Before, x) = n
  BY <1>4 DEF Surjection
<1>6. \A n \in 1..c : Ordered(X, Before)[n] \in X /\ Place(X, Before, Ordered(X, Before)[n]) = n
  BY <1>5 DEF Ordered
<1>7. Ordered(X, Before) \in [1..c -> X]
  BY <1>6 DEF Ordered
<1>8. Ordered(X, Before) \in Seq(X) /\ Len(Ordered(X, Before)) = c
  BY <1>1, <1>7
<1>9. \A x, y \in X : Place(X, Before, x) = Place(X, Before, y) => x = y
  <2> SUFFICES ASSUME NEW x \in X, NEW y \in X, Place(X, Before, x) = Place(X, Before, y) PROVE x = y
    OBVIOUS
  <2>1. f[x] = f[y]
    OBVIOUS
  <2> QED
    BY <1>2, <2>1 DEF Injection, IsInjective
<1>10. \A x \in X : Place(X, Before, x) \in 1..c
  BY PlaceGrows
<1>11. \A m, n \in 1..c : m < n => <<Ordered(X, Before)[m], Ordered(X, Before)[n]>> \in Before
  <2> SUFFICES ASSUME NEW m \in 1..c, NEW n \in 1..c, m < n
               PROVE  <<Ordered(X, Before)[m], Ordered(X, Before)[n]>> \in Before
    OBVIOUS
  <2>1. PICK x \in X, y \in X : x = Ordered(X, Before)[m] /\ y = Ordered(X, Before)[n]
    BY <1>6
  <2>2. Place(X, Before, x) = m /\ Place(X, Before, y) = n
    BY <1>6, <2>1
  <2>3. ~(<<y, x>> \in Before)
    BY <2>2, PlaceGrows
  <2>4. x # y
    BY <2>2
  <2> QED
    BY <2>1, <2>3, <2>4 DEF Orders
<1> QED
  BY <1>1, <1>6, <1>8, <1>9, <1>10, <1>11

(* The nth of a set of numbers.                                            *)
LEMMA NthCounts ==
  ASSUME NEW K \in SUBSET Int, IsFiniteSet(K)
  PROVE  /\ Cardinality(K) \in Nat
         /\ \A n \in 1..Cardinality(K) : Nth(K, n) \in K
         /\ \A k \in K : \E n \in 1..Cardinality(K) : Nth(K, n) = k
         /\ \A m, n \in 1..Cardinality(K) : m < n => Nth(K, m) < Nth(K, n)
<1> DEFINE less == {ab \in K \X K : ab[1] < ab[2]}
<1>1. \A a, b \in K : <<a, b>> \in less <=> a < b
  OBVIOUS
<1> HIDE DEF less
<1>2. Orders(less, K)
  BY <1>1 DEF Orders
<1>3. \A n \in 1..Cardinality(K) : Nth(K, n) = Ordered(K, less)[n]
  <2>1. \A k \in K : {j \in K : j <= k} = {j \in K : j = k \/ <<j, k>> \in less}
    <3>1. \A j, k \in K : j <= k <=> (j = k \/ j < k)
      OBVIOUS
    <3> QED
      BY <1>1, <3>1
  <2>2. \A k \in K : Place(K, less, k) = Cardinality({j \in K : j <= k})
    BY <2>1 DEF Place
  <2> SUFFICES ASSUME NEW n \in 1..Cardinality(K) PROVE Nth(K, n) = Ordered(K, less)[n]
    OBVIOUS
  <2>3. \A k \in K : (Place(K, less, k) = n) <=> (Cardinality({j \in K : j <= k}) = n)
    BY <2>2
  <2>4. Ordered(K, less)[n] = CHOOSE k \in K : Place(K, less, k) = n
    BY DEF Ordered
  <2> QED
    BY <2>3, <2>4 DEF Nth
<1>4. /\ Cardinality(K) \in Nat /\ Ordered(K, less) \in Seq(K)
      /\ Len(Ordered(K, less)) = Cardinality(K)
      /\ \A k \in K : \E n \in 1..Cardinality(K) : Ordered(K, less)[n] = k
      /\ \A m, n \in 1..Cardinality(K) : m < n => <<Ordered(K, less)[m], Ordered(K, less)[n]>> \in less
  BY <1>2, OrderedLists
<1>5. \A n \in 1..Cardinality(K) : Ordered(K, less)[n] \in K
  BY <1>4, ElementOfSeq
<1> QED
  BY <1>1, <1>3, <1>4, <1>5, ZenonT(60)

LEMMA AtSelects ==
  ASSUME NEW T, NEW s \in Seq(T), NEW K \in SUBSET (1..Len(s))
  PROVE  /\ At(s, K) \in Seq(T) /\ Len(At(s, K)) = Cardinality(K)
         /\ Cardinality(K) \in 0..Len(s) /\ IsFiniteSet(K)
         /\ \A n \in 1..Cardinality(K) : Nth(K, n) \in K /\ At(s, K)[n] = s[Nth(K, n)]
         /\ \A k \in K : \E n \in 1..Cardinality(K) : Nth(K, n) = k
         /\ \A m, n \in 1..Cardinality(K) : m < n => Nth(K, m) < Nth(K, n)
<1>1. Len(s) \in Nat /\ IsFiniteSet(1..Len(s)) /\ Cardinality(1..Len(s)) = Len(s)
  BY FS_Interval
<1>2. IsFiniteSet(K) /\ Cardinality(K) <= Len(s) /\ Cardinality(K) \in Nat
  BY <1>1, FS_Subset, FS_CardinalityType
<1>3. K \in SUBSET Int
  BY <1>1
<1>4. \A n \in 1..Cardinality(K) : Nth(K, n) \in K
  BY <1>2, <1>3, NthCounts
<1>5. \A k \in K : s[k] \in T
  BY ElementOfSeq
<1>6. At(s, K) \in [1..Cardinality(K) -> T]
  BY <1>4, <1>5 DEF At
<1>7. At(s, K) \in Seq(T) /\ Len(At(s, K)) = Cardinality(K)
  BY <1>2, <1>6
<1> QED
  BY <1>1, <1>2, <1>3, <1>4, <1>7, NthCounts DEF At

LEMMA TopIsPrefix ==
  ASSUME NEW T, NEW s \in Seq(T), NEW n \in Nat
  PROVE  /\ Top(s, n) \in Seq(T)
         /\ Len(Top(s, n)) = IF n < Len(s) THEN n ELSE Len(s)
         /\ \A k \in 1..Len(Top(s, n)) : Top(s, n)[k] = s[k]
<1> DEFINE m == IF n < Len(s) THEN n ELSE Len(s)
<1>1. m \in Nat /\ m <= Len(s) /\ \A i \in 1..m : s[i] \in T
  BY ElementOfSeq
<1>2. /\ SubSeq(s, 1, m) \in Seq(T)
      /\ Len(SubSeq(s, 1, m)) = IF 1 <= m THEN m - 1 + 1 ELSE 0
      /\ \A i \in 1..m - 1 + 1 : SubSeq(s, 1, m)[i] = s[1 + i - 1]
  BY <1>1, SubSeqProperties
<1> QED
  BY <1>1, <1>2 DEF Top

-----------------------------------------------------------------------------
(***************************************************************************)
(* The latest list.                                                        *)
(***************************************************************************)
ListPlace == [sort : ListSorts, id : ListIds]
ListPage  == [candidates : Seq(ListPlace), exhausted : BOOLEAN, created : 0..MaxMinute]
ListRow   == [public : BOOLEAN, sort : ListSorts \cup {0}, since : R!LongAgo..MaxMinute,
              mark : 0..MaxEdits]
ListWalk  == [position : R!Cursors, items : Seq(ListPlace), started : 0..MaxMinute,
              over : BOOLEAN, count : 0..MaxScrolls]
ListRequest ==
  [phase : {"idle", "cache", "read", "reload", "answer"}, position : R!Cursors, page : ListPage,
   filling : BOOLEAN, view : [ListIds -> ListRow], items : Seq(ListPlace),
   checked : 0..MaxChecked, taken : 0..MaxMinute, began : 0..MaxEdits]

ListTypes ==
  /\ listed \in [ListIds -> ListRow]
  /\ \A i \in ListIds : /\ listed[i].sort \in ListSorts
                        /\ listed[i].since <= minute /\ listed[i].mark <= edits
  /\ latest \in [R!Cursors -> ListPage]
  /\ owed \in BOOLEAN
  /\ minute \in 1..MaxMinute /\ edits \in 0..MaxEdits
  /\ listing \in [Clients -> ListRequest]
  /\ scroll \in [Clients -> ListWalk]
  /\ \A r \in Clients : /\ scroll[r].started <= minute /\ listing[r].began <= edits
                        /\ Len(listing[r].items) <= ListSize

(* Strictly down the list, and not above an item once it was listed.       *)
Descends(items) ==
  \A j, k \in 1..Len(items) : j < k => R!Below(items[k], items[j])
AtOrAbove(p, position) ==
  position # R!First /\ (p = position \/ R!Below(position, p))

(* The candidates of a page are a piece of the list under its position.    *)
Fits(page, position) ==
  /\ Len(page.candidates) <= ListSize + 1
  /\ Descends(page.candidates)
  /\ \A k \in 1..Len(page.candidates) : R!Below(page.candidates[k], position)

(* Whatever has not changed since a page was made, or a snapshot's length   *)
(* before, is on the page or beyond it.                                    *)
Where(i) == R!Position(i, listed[i].sort)
Right(page, position) ==
  \A i \in ListIds :
    listed[i].public /\ listed[i].since + MaxRead < page.created /\ R!Below(Where(i), position)
      => \/ \E k \in 1..Len(page.candidates) : page.candidates[k] = Where(i)
         \/ ~page.exhausted /\ \A k \in 1..Len(page.candidates) :
                                 R!Below(Where(i), page.candidates[k])

CacheHolds ==
  \A p \in R!Cursors :
    /\ Fits(latest[p], p) /\ latest[p].created <= minute
    /\ latest[p] # R!NoPage => Right(latest[p], p)

(* What a request works on: a page not too old for its walk, and facts not  *)
(* older than the request.                                                 *)
PageHolds(q, w) ==
  /\ q.phase \in {"idle", "cache"} => q.page = R!NoPage
  /\ q.phase \in {"read", "reload", "answer"} =>
       /\ Fits(q.page, q.position) /\ q.page.created <= minute
       /\ w.started < q.page.created + LatestTTL
  /\ q.phase = "answer" \/ (q.phase = "read" /\ ~q.filling) => Right(q.page, q.position)

ViewHolds(q, w) ==
  /\ q.phase \in {"reload", "answer"} =>
       \A i \in ListIds : /\ q.view[i].sort \in ListSorts
                          /\ q.view[i].public => listed[i].public \/ listed[i].mark > q.began
  /\ q.phase = "reload" =>
       /\ w.started <= q.taken /\ q.taken <= minute /\ minute <= q.taken + MaxRead
       /\ \A i \in ListIds : listed[i].since < q.taken => q.view[i] = listed[i]
  /\ q.phase = "answer" =>
       /\ ~R!Moved(q.view, q.page)
       /\ \A i \in ListIds : listed[i].since < w.started => q.view[i] = listed[i]

(* Where a request stands in its walk.                                     *)
Under(q, w) ==
  /\ ~w.over
  /\ q.position = w.position \/ (q.position # R!First /\ R!Below(q.position, w.position))
  /\ \A k \in 1..Len(q.items) :
       R!Below(q.items[k], w.position) /\ AtOrAbove(q.items[k], q.position)

(* What the walk has to list: all of it is listed, or still below.         *)
Lists(items, p) == \E k \in 1..Len(items) : items[k] = p
Sought(i, w) == listed[i].public /\ listed[i].since + LatestTTL + MaxRead <= w.started

WalkCovers(w) ==
  /\ w.over \/ w.count > 0
  /\ \A i \in ListIds : w.count > 0 /\ Sought(i, w) =>
       Lists(w.items, Where(i)) \/ (~w.over /\ R!Below(Where(i), w.position))
Covers(q, w) ==
  \A i \in ListIds : Sought(i, w) =>
    Lists(w.items, Where(i)) \/ Lists(q.items, Where(i)) \/ R!Below(Where(i), q.position)

(* What has been listed.                                                   *)
WalkDown(w) ==
  /\ Descends(w.items)
  /\ ~w.over => \A k \in 1..Len(w.items) : AtOrAbove(w.items[k], w.position)
Shows(q) ==
  /\ Descends(q.items)
  /\ \A k \in 1..Len(q.items) :
       listed[q.items[k].id].public \/ listed[q.items[k].id].mark > q.began

ClientHolds(q, w) ==
  /\ PageHolds(q, w) /\ ViewHolds(q, w) /\ Shows(q)
  /\ WalkDown(w) /\ WalkCovers(w)
  /\ q.phase # "idle" => Under(q, w) /\ Covers(q, w)

ListInv == ListTypes /\ CacheHolds /\ \A r \in Clients : ClientHolds(listing[r], scroll[r])

-----------------------------------------------------------------------------
(* The operators.                                                          *)

LEMMA ListBounds ==
  /\ ListIds \subseteq Nat \ {0} /\ IsFiniteSet(ListIds)
  /\ ListSorts \subseteq Nat \ {0} /\ ListSorts # {}
  /\ ListSize \in Nat \ {0} /\ MaxChecked \in Nat /\ MaxChecked > ListSize
  /\ LatestTTL \in Nat \ {0} /\ MaxRead \in Nat
  /\ MaxMinute \in Nat \ {0} /\ MaxEdits \in Nat /\ MaxScrolls \in Nat
  /\ R!LongAgo \in Int /\ R!LongAgo <= 0 /\ R!LongAgo + MaxRead <= 0
<1>1. R!IsFiniteSet(ListIds) = IsFiniteSet(ListIds)
  BY Zenon DEF R!IsFiniteSet, IsFiniteSet
<1> QED
  BY <1>1, ReadersAssumption DEF R!ReadingAssumption, R!LongAgo

(* The same of the numbers alone.                                          *)
LEMMA ListNumbers ==
  /\ ListSize \in Nat /\ ListSize > 0 /\ MaxChecked \in Nat /\ MaxChecked > ListSize
  /\ LatestTTL \in Nat /\ LatestTTL > 0 /\ MaxRead \in Nat
  /\ MaxMinute \in Nat /\ MaxMinute > 0 /\ MaxEdits \in Nat /\ MaxScrolls \in Nat
  /\ R!LongAgo \in Int /\ R!LongAgo <= 0 /\ R!LongAgo + MaxRead <= 0
  BY ListBounds

LEMMA SameInReading ==
  /\ \A X : R!Cardinality(X) = Cardinality(X)
  /\ \A X, B : R!Ordered(X, B) = Ordered(X, B)
  /\ \A s, K : R!At(s, K) = At(s, K)
  /\ \A s, n : R!Top(s, n) = Top(s, n)
<1>1. \A X : R!Cardinality(X) = Cardinality(X)
  BY Zenon DEF R!Cardinality, Cardinality
<1>2. \A X, B : R!Ordered(X, B) = Ordered(X, B)
  <2>1. \A X, B, x : R!Place(X, B, x) = Place(X, B, x)
    BY <1>1 DEF R!Place, Place
  <2> QED
    BY <1>1, <2>1 DEF R!Ordered, Ordered
<1>3. \A s, K : R!At(s, K) = At(s, K)
  <2>1. \A K, n : R!Nth(K, n) = Nth(K, n)
    BY <1>1 DEF R!Nth, Nth
  <2> QED
    BY <1>1, <2>1 DEF R!At, At
<1>4. \A s, n : R!Top(s, n) = Top(s, n)
  BY Zenon DEF R!Top, Top
<1> QED
  BY <1>1, <1>2, <1>3, <1>4

LEMMA CursorsAre ==
  /\ R!Cursors = {R!First} \cup ListPlace /\ R!First \notin ListPlace
  /\ \A i \in ListIds, s \in ListSorts : R!Position(i, s) \in ListPlace
  /\ \A p \in ListPlace : p = R!Position(p.id, p.sort) /\ p.id \in ListIds /\ p.sort \in ListSorts
<1>1. \A i \in ListIds, s \in ListSorts : R!Position(i, s) \in ListPlace
  BY DEF R!Position, ListPlace
<1>2. \A p \in ListPlace : p = R!Position(p.id, p.sort) /\ p.id \in ListIds /\ p.sort \in ListSorts
  BY DEF R!Position, ListPlace
<1>3. R!First \notin ListPlace
  BY ListBounds DEF R!First, ListPlace
<1> QED
  BY <1>1, <1>2, <1>3 DEF R!Cursors

LEMMA BelowOrders ==
  /\ \A p \in ListPlace : ~R!Below(p, p)
  /\ \A p, q \in ListPlace : p = q \/ R!Below(p, q) \/ R!Below(q, p)
  /\ \A p, q \in ListPlace, s \in R!Cursors : R!Below(p, q) /\ R!Below(q, s) => R!Below(p, s)
  /\ \A p : R!Below(p, R!First)
<1>1. \A p \in ListPlace : p.sort \in Nat /\ p.id \in Nat /\ p # R!First
  BY ListBounds, CursorsAre DEF ListPlace
<1>2. \A p, q \in ListPlace : R!Below(p, q) <=> (p.sort < q.sort \/ (p.sort = q.sort /\ p.id < q.id))
  BY <1>1 DEF R!Below
<1>3. \A p, q \in ListPlace : p.sort = q.sort /\ p.id = q.id => p = q
  BY CursorsAre
<1>4. \A p : R!Below(p, R!First)
  BY DEF R!Below
<1>5. \A p \in ListPlace : ~R!Below(p, p)
  BY <1>1, <1>2
<1>6. \A p, q \in ListPlace : p = q \/ R!Below(p, q) \/ R!Below(q, p)
  BY <1>1, <1>2, <1>3
<1>7. \A p, q, s \in ListPlace : R!Below(p, q) /\ R!Below(q, s) => R!Below(p, s)
  BY <1>1, <1>2
<1> QED
  BY <1>4, <1>5, <1>6, <1>7, CursorsAre

LEMMA CandidatesFit ==
  ASSUME NEW view \in [ListIds -> ListRow], \A i \in ListIds : view[i].sort \in ListSorts,
         NEW position \in R!Cursors, NEW created \in 0..MaxMinute
  PROVE  LET page == R!Candidates(view, position, created) IN
           /\ page \in ListPage /\ page.created = created
           /\ Fits(page, position) /\ ~R!Moved(view, page)
           /\ \A i \in ListIds :
                LET p == R!Position(i, view[i].sort) IN
                  view[i].public /\ R!Below(p, position)
                    => \/ \E k \in 1..Len(page.candidates) : page.candidates[k] = p
                       \/ ~page.exhausted /\ \A k \in 1..Len(page.candidates) :
                                               R!Below(p, page.candidates[k])
<1> DEFINE place == [i \in ListIds |-> R!Position(i, view[i].sort)]
           public == {R!Position(i, view[i].sort) : i \in {j \in ListIds : view[j].public}}
           below == {p \in public : R!Below(p, position)}
           newer == {pq \in below \X below : R!Below(pq[2], pq[1])}
           list == Ordered(below, newer)
           c == Top(list, ListSize + 1)
           page == R!Candidates(view, position, created)
<1>1. \A i \in ListIds : place[i] \in ListPlace
  BY CursorsAre
<1>2. below \subseteq ListPlace /\ \A p \in below : \E i \in ListIds : view[i].public /\ p = place[i]
  BY <1>1
<1>3. IsFiniteSet(below)
  <2>1. place \in Surjection(ListIds, {place[i] : i \in ListIds})
    BY DEF Surjection
  <2>2. IsFiniteSet({place[i] : i \in ListIds})
    BY <2>1, ListBounds, FS_Surjection
  <2> QED
    BY <1>2, <2>2, FS_Subset
<1>4. \A p, q \in below : <<p, q>> \in newer <=> R!Below(q, p)
  OBVIOUS
<1>5. Orders(newer, below)
  <2> HIDE DEF newer, below
  <2> QED
    BY <1>2, <1>4, BelowOrders, CursorsAre DEF Orders
<1>6. /\ list \in Seq(below) /\ Len(list) = Cardinality(below) /\ Cardinality(below) \in Nat
      /\ \A x \in below : \E n \in 1..Len(list) : list[n] = x
      /\ \A m, n \in 1..Len(list) : m < n => <<list[m], list[n]>> \in newer
  <2> HIDE DEF newer, below
  <2> QED
    BY <1>3, <1>5, OrderedLists
<1>7. page = [candidates |-> c, exhausted |-> Len(list) < ListSize + 1, created |-> created]
  BY SameInReading DEF R!Candidates
<1> HIDE DEF page, list, newer
<1>8. /\ c \in Seq(below) /\ Len(c) = IF ListSize + 1 < Len(list) THEN ListSize + 1 ELSE Len(list)
      /\ \A k \in 1..Len(c) : c[k] = list[k]
  <2> HIDE DEF below
  <2> QED
    BY <1>6, ListBounds, TopIsPrefix
<1> HIDE DEF c
<1>9. Len(c) \in Nat /\ Len(list) \in Nat /\ \A k \in 1..Len(c) : c[k] \in below
  <2> HIDE DEF below
  <2> QED
    BY <1>6, <1>8, ElementOfSeq
<1>10. /\ page \in ListPage /\ page.created = created /\ page.candidates = c
       /\ page.exhausted <=> Len(list) < ListSize + 1
  <2>1. c \in Seq(ListPlace)
    <3> HIDE DEF below
    <3> QED
      BY <1>2, <1>8, SeqMonotonic
  <2> DEFINE e == Len(list) < ListSize + 1
  <2>2. e \in BOOLEAN
    OBVIOUS
  <2>3. page.candidates = c /\ page.created = created /\ page.exhausted = e
    BY <1>7, Zenon
  <2>4. page = [candidates |-> c, exhausted |-> e, created |-> created]
    BY <1>7, Zenon
  <2> HIDE DEF e
  <2>5. page \in ListPage
    BY <2>1, <2>2, <2>4 DEF ListPage
  <2>6. page.exhausted <=> e
    BY <2>3, Zenon
  <2> QED
    BY <2>3, <2>5, <2>6 DEF e
<1>11. Fits(page, position)
  <2>1. \A j, k \in 1..Len(c) : j < k => R!Below(c[k], c[j])
    <3> SUFFICES ASSUME NEW j \in 1..Len(c), NEW k \in 1..Len(c), j < k PROVE R!Below(c[k], c[j])
      OBVIOUS
    <3>1. j \in 1..Len(list) /\ k \in 1..Len(list)
      BY <1>8, <1>9, ListBounds
    <3>2. <<c[j], c[k]>> \in newer
      BY <1>6, <1>8, <3>1
    <3> QED
      BY <1>4, <1>9, <3>2
  <2> QED
    BY <1>8, <1>9, <1>10, <2>1, ListBounds DEF Fits, Descends
<1>12. ~R!Moved(view, page)
  <2> SUFFICES ASSUME NEW k \in 1..Len(c) PROVE c[k].sort = view[c[k].id].sort
    BY <1>8, <1>10 DEF R!Moved, R!Range
  <2>1. PICK i \in ListIds : c[k] = place[i]
    BY <1>2, <1>9
  <2> QED
    BY <2>1 DEF R!Position
<1>13. ASSUME NEW i \in ListIds, view[i].public, R!Below(place[i], position)
       PROVE  \/ \E k \in 1..Len(c) : c[k] = place[i]
              \/ ~page.exhausted /\ \A k \in 1..Len(c) : R!Below(place[i], c[k])
  <2>1. place[i] \in below
    BY <1>13
  <2>2. PICK n \in 1..Len(list) : list[n] = place[i]
    BY <1>6, <2>1
  <2>3. CASE n \in 1..Len(c)
    BY <1>8, <2>2, <2>3
  <2>4. CASE n \notin 1..Len(c)
    <3>1. ListSize + 1 < Len(list) /\ \A k \in 1..Len(c) : k < n /\ k \in 1..Len(list)
      BY <1>8, <1>9, <2>4, ListBounds
    <3>2. \A k \in 1..Len(c) : <<c[k], place[i]>> \in newer
      BY <1>6, <1>8, <2>2, <3>1
    <3>3. \A k \in 1..Len(c) : R!Below(place[i], c[k])
      BY <1>4, <1>9, <2>1, <3>2
    <3> QED
      BY <1>9, <1>10, <3>1, <3>3, ListBounds
  <2> QED
    BY <2>3, <2>4
<1> QED
  BY <1>10, <1>11, <1>12, <1>13 DEF page

LEMMA EmptyItems ==
  /\ <<>> \in Seq(ListPlace) /\ Len(<<>>) = 0
  /\ Descends(<<>>) /\ \A p : ~Lists(<<>>, p)
  BY DEF Descends, Lists

LEMMA NoPageFits ==
  /\ R!NoPage \in ListPage /\ R!NoPage.created = 0 /\ R!NoPage.candidates = <<>>
  /\ \A p : Fits(R!NoPage, p)
  /\ \A t \in 0..MaxMinute : \E page \in ListPage :
       page = [R!NoPage EXCEPT !.created = t] /\ page.created = t /\ \A p : Fits(page, p)
<1>1. R!NoPage \in ListPage /\ R!NoPage.created = 0 /\ R!NoPage.candidates = <<>>
  BY EmptyItems, ListBounds DEF R!NoPage, ListPage
<1>2. \A page, p : page.candidates = <<>> => Fits(page, p)
  BY EmptyItems, ListBounds DEF Fits, Descends
<1>3. \A t \in 0..MaxMinute :
        LET page == [R!NoPage EXCEPT !.created = t]
        IN  page \in ListPage /\ page.created = t /\ page.candidates = <<>>
  BY <1>1 DEF ListPage
<1> QED
  BY <1>1, <1>2, <1>3, Zenon

LEMMA IdleRequest ==
  /\ R!Idle \in ListRequest
  /\ R!Idle.phase = "idle" /\ R!Idle.position = R!First /\ R!Idle.page = R!NoPage
  /\ R!Idle.items = <<>> /\ R!Idle.checked = 0 /\ R!Idle.began = 0
<1>1. R!NoView \in [ListIds -> ListRow]
  BY ListBounds DEF R!NoView, ListRow
<1>2. R!First \in R!Cursors
  BY CursorsAre
<1> QED
  BY <1>1, <1>2, NoPageFits, EmptyItems, ListBounds DEF R!Idle, ListRequest

LEMMA NoWalkType ==
  /\ R!NoWalk \in ListWalk
  /\ R!NoWalk.over = TRUE /\ R!NoWalk.items = <<>> /\ R!NoWalk.position = R!First
  /\ R!NoWalk.started = 0 /\ R!NoWalk.count = 0
<1>1. R!First \in R!Cursors
  BY CursorsAre
<1> QED
  BY <1>1, EmptyItems, ListBounds DEF R!NoWalk, ListWalk

LEMMA LeastExists ==
  ASSUME NEW X \in SUBSET Nat, X # {}
  PROVE  \E x \in X : \A y \in X : x <= y
<1>1. PICK x \in X : \A y \in X : ~(<<y, x>> \in OpToRel(<, Nat))
  BY NatLessThanWellFounded, WFMin
<1>2. \A y \in X : ~(y < x)
  BY <1>1 DEF OpToRel
<1> QED
  BY <1>2

LEMMA ListInit == R!Init => ListInv
<1> SUFFICES ASSUME R!Init PROVE ListInv
  OBVIOUS
<1>1. R!InitialSort \in ListSorts
  <2>1. ListSorts \in SUBSET Nat
    BY ListBounds
  <2>2. \E s \in ListSorts : \A t \in ListSorts : s <= t
    BY <2>1, ListBounds, LeastExists
  <2> QED
    BY <2>2 DEF R!InitialSort
<1>2. /\ listed \in [ListIds -> ListRow]
      /\ \A i \in ListIds : /\ listed[i].sort \in ListSorts
                            /\ listed[i].since <= minute /\ listed[i].mark <= edits
  <2>1. R!LongAgo \in R!LongAgo..MaxMinute /\ 0 \in 0..MaxEdits
    BY ListBounds
  <2>2. PICK row \in ListRow :
          row = [public |-> TRUE, sort |-> R!InitialSort, since |-> R!LongAgo, mark |-> 0]
    BY <1>1, <2>1 DEF ListRow
  <2>3. listed = [i \in ListIds |-> row] /\ minute = 1 /\ edits = 0
    BY <2>2 DEF R!Init
  <2>4. row.sort \in ListSorts /\ row.since <= 0 /\ row.mark = 0
    BY <1>1, <2>2, ListBounds
  <2>5. row.since \in Int
    BY <2>2, ListBounds
  <2> QED
    BY <2>3, <2>4, <2>5
<1>3. /\ \A p \in R!Cursors : latest[p] = R!NoPage
      /\ \A r \in Clients : listing[r] = R!Idle /\ scroll[r] = R!NoWalk
      /\ latest \in [R!Cursors -> {R!NoPage}] /\ owed = FALSE /\ minute = 1 /\ edits = 0
      /\ listing \in [Clients -> {R!Idle}] /\ scroll \in [Clients -> {R!NoWalk}]
  BY DEF R!Init
<1>4. ListTypes
  <2>1. latest \in [R!Cursors -> ListPage] /\ listing \in [Clients -> ListRequest]
        /\ scroll \in [Clients -> ListWalk]
    BY <1>3, NoPageFits, IdleRequest, NoWalkType
  <2>2. minute \in 1..MaxMinute /\ edits \in 0..MaxEdits
    BY <1>3, ListBounds
  <2>4. owed \in BOOLEAN
    BY <1>3, Zenon
  <2>3. \A r \in Clients : /\ scroll[r].started <= minute /\ listing[r].began <= edits
                          /\ Len(listing[r].items) <= ListSize
    BY <1>3, IdleRequest, NoWalkType, EmptyItems, ListBounds
  <2> QED
    BY <1>2, <2>1, <2>2, <2>3, <2>4 DEF ListTypes
<1>5. CacheHolds
  BY <1>3, NoPageFits, ListBounds DEF CacheHolds
<1>6. ASSUME NEW r \in Clients PROVE ClientHolds(listing[r], scroll[r])
  BY <1>3, IdleRequest, NoWalkType, EmptyItems
  DEF ClientHolds, PageHolds, ViewHolds, Shows, WalkDown, WalkCovers, Descends
<1> QED
  BY <1>4, <1>5, <1>6 DEF ListInv

-----------------------------------------------------------------------------
(* The requests.                                                           *)

(* A step of one request, which changes no article.                        *)
LEMMA ClientStep ==
  ASSUME ListInv, NEW r \in Clients, NEW q \in ListRequest, NEW w \in ListWalk,
         UNCHANGED <<listed, owed, minute, edits>>,
         listing' = [listing EXCEPT ![r] = q], scroll' = [scroll EXCEPT ![r] = w],
         \/ latest' = latest
         \/ \E p \in R!Cursors, page \in ListPage :
              /\ latest' = [latest EXCEPT ![p] = page]
              /\ Fits(page, p) /\ Right(page, p) /\ page.created <= minute,
         w.started <= minute, q.began <= edits, Len(q.items) <= ListSize,
         ClientHolds(q, w)
  PROVE  ListInv'
<1>1. ListTypes /\ CacheHolds
  BY DEF ListInv
<1>2. /\ latest' \in [R!Cursors -> ListPage]
      /\ listing' \in [Clients -> ListRequest] /\ scroll' \in [Clients -> ListWalk]
      /\ listing'[r] = q /\ scroll'[r] = w
      /\ \A c \in Clients : c # r => listing'[c] = listing[c] /\ scroll'[c] = scroll[c]
  BY <1>1 DEF ListTypes
<1>3. ListTypes'
  BY <1>1, <1>2 DEF ListTypes
<1>4. CacheHolds'
  BY <1>1 DEF ListTypes, CacheHolds, Right, Where
<1>5. \A x, y : ClientHolds(x, y)' <=> ClientHolds(x, y)
  BY DEF ClientHolds, PageHolds, ViewHolds, Shows, WalkDown, WalkCovers, Under, Covers, Sought,
         Right, Where
<1>6. ASSUME NEW c \in Clients
      PROVE  ClientHolds(listing[c], scroll[c])'
  BY <1>2, <1>5 DEF ListInv
<1> QED
  BY <1>3, <1>4, <1>6 DEF ListInv

(* The walk a list request opens: the first of the client's, or the next.  *)
StartedWalk(t, n) == [R!NoWalk EXCEPT !.started = t, !.over = FALSE, !.count = n]

LEMMA WalkStarts ==
  ASSUME NEW t \in 0..MaxMinute, NEW n \in 0..MaxScrolls
  PROVE  /\ StartedWalk(t, n) \in ListWalk
         /\ StartedWalk(t, n).started = t /\ StartedWalk(t, n).over = FALSE
         /\ StartedWalk(t, n).count = n
         /\ StartedWalk(t, n).items = <<>> /\ StartedWalk(t, n).position = R!First
<1> PICK w \in ListWalk : w = R!NoWalk
  BY NoWalkType
<1>1. /\ [w EXCEPT !.started = t, !.over = FALSE, !.count = n] \in ListWalk
      /\ LET v == [w EXCEPT !.started = t, !.over = FALSE, !.count = n] IN
           /\ v.started = t /\ v.over = FALSE /\ v.count = n
           /\ v.items = w.items /\ v.position = w.position
  BY DEF ListWalk
<1>2. StartedWalk(t, n) = [w EXCEPT !.started = t, !.over = FALSE, !.count = n]
  BY DEF StartedWalk
<1> QED
  BY <1>1, <1>2, NoWalkType

LEMMA RequestStarts ==
  ASSUME NEW b \in 0..MaxEdits, NEW p \in R!Cursors
  PROVE  /\ \E q \in ListRequest :
              /\ q = [R!Idle EXCEPT !.began = b]
              /\ q.began = b /\ q.position = R!First /\ q.items = <<>> /\ q.page = R!NoPage
         /\ \E q \in ListRequest :
              /\ q = [R!Idle EXCEPT !.began = b, !.position = p]
              /\ q.began = b /\ q.position = p /\ q.items = <<>> /\ q.page = R!NoPage
<1> PICK z \in ListRequest : z = R!Idle
  BY IdleRequest
<1>1. /\ [z EXCEPT !.began = b] \in ListRequest
      /\ LET q == [z EXCEPT !.began = b] IN
           q.began = b /\ q.position = z.position /\ q.items = z.items /\ q.page = z.page
  BY DEF ListRequest
<1>2. /\ [z EXCEPT !.began = b, !.position = p] \in ListRequest
      /\ LET q == [z EXCEPT !.began = b, !.position = p] IN
           q.began = b /\ q.position = p /\ q.items = z.items /\ q.page = z.page
  BY DEF ListRequest
<1> QED
  BY <1>1, <1>2, IdleRequest

LEMMA ListingTypes ==
  ASSUME ListInv, NEW r \in Clients
  PROVE  /\ listing[r] \in ListRequest /\ scroll[r] \in ListWalk
         /\ scroll[r].started <= minute /\ listing[r].began <= edits
         /\ Len(listing[r].items) <= ListSize
         /\ ClientHolds(listing[r], scroll[r])
         /\ minute \in 1..MaxMinute /\ edits \in 0..MaxEdits
         /\ listing \in [Clients -> ListRequest] /\ scroll \in [Clients -> ListWalk]
  BY DEF ListInv, ListTypes

LEMMA Opens ==
  ASSUME ListInv, NEW r \in Clients, listing[r].phase \in {"idle", "cache"},
         listing[r].phase = "idle" /\ scroll[r].over => scroll[r].count < MaxScrolls
  PROVE  \E q \in ListRequest, w \in ListWalk :
           /\ R!Opened(r)[1] = w /\ R!Opened(r)[2] = q
           /\ q.page = R!NoPage /\ q.began <= edits /\ Len(q.items) <= ListSize
           /\ w.started <= minute
           /\ Shows(q) /\ WalkDown(w) /\ WalkCovers(w) /\ Under(q, w) /\ Covers(q, w)
<1>0. PICK q0 \in ListRequest, w0 \in ListWalk : q0 = listing[r] /\ w0 = scroll[r]
  BY ListingTypes
<1>1. /\ w0.started <= minute /\ q0.began <= edits /\ Len(q0.items) <= ListSize
      /\ PageHolds(q0, w0) /\ Shows(q0) /\ WalkDown(w0) /\ WalkCovers(w0)
      /\ q0.phase # "idle" => Under(q0, w0) /\ Covers(q0, w0)
      /\ minute \in 0..MaxMinute /\ edits \in 0..MaxEdits /\ edits <= edits /\ minute <= minute
  BY <1>0, ListingTypes DEF ClientHolds
<1>a. minute \in 0..MaxMinute /\ edits \in 0..MaxEdits
  BY <1>1
<1>2. CASE q0.phase = "cache"
  <2>1. R!Opened(r) = <<w0, q0>>
    BY <1>0, <1>1, <1>2 DEF R!Opened, Under
  <2>2. q0.page = R!NoPage
    BY <1>1, <1>2 DEF PageHolds
  <2> QED
    BY <1>1, <1>2, <2>1, <2>2
<1>3. CASE q0.phase # "cache" /\ w0.over
  <2>1. PICK m \in 0..MaxScrolls : m = w0.count + 1
    <3>1. w0.count \in 0..MaxScrolls
      BY DEF ListWalk
    <3>2. w0.count < MaxScrolls
      BY <1>0, <1>3
    <3> QED
      BY <3>1, <3>2, ListNumbers
  <2>2. PICK w \in ListWalk :
          /\ w = StartedWalk(minute, m)
          /\ w.started = minute /\ w.over = FALSE /\ w.count = m
          /\ w.items = <<>> /\ w.position = R!First
    <3>1. /\ StartedWalk(minute, m) \in ListWalk
          /\ StartedWalk(minute, m).started = minute /\ StartedWalk(minute, m).over = FALSE
          /\ StartedWalk(minute, m).count = m
          /\ StartedWalk(minute, m).items = <<>> /\ StartedWalk(minute, m).position = R!First
      BY <1>a, WalkStarts
    <3> QED
      BY <3>1
  <2>3. PICK q \in ListRequest :
          /\ q = [R!Idle EXCEPT !.began = edits]
          /\ q.began = edits /\ q.position = R!First /\ q.items = <<>> /\ q.page = R!NoPage
    BY <1>a, RequestStarts, CursorsAre, Zenon
  <2>4. R!Opened(r) = <<w, q>>
    BY <1>0, <1>3, <2>1, <2>2, <2>3 DEF R!Opened, StartedWalk
  <2>5. Shows(q) /\ WalkDown(w) /\ Under(q, w)
    BY <2>2, <2>3, EmptyItems DEF Shows, WalkDown, Under
  <2>6. WalkCovers(w) /\ Covers(q, w)
    <3>1. \A p : R!Below(p, R!First)
      BY BelowOrders
    <3>2. w.count > 0
      BY <2>1, <2>2 DEF ListWalk
    <3> QED
      BY <2>2, <2>3, <3>1, <3>2 DEF WalkCovers, Covers
  <2> QED
    <3>1. R!Opened(r)[1] = w /\ R!Opened(r)[2] = q
      BY <2>4
    <3>2. q.began <= edits /\ Len(q.items) <= ListSize /\ w.started <= minute
      BY <1>1, <2>2, <2>3, EmptyItems, ListBounds
    <3> QED
      BY <2>3, <2>5, <2>6, <3>1, <3>2, Zenon
<1>4. CASE q0.phase # "cache" /\ ~w0.over
  <2>1. PICK p \in R!Cursors : p = w0.position
    BY DEF ListWalk
  <2>2. PICK q \in ListRequest :
          /\ q = [R!Idle EXCEPT !.began = edits, !.position = p]
          /\ q.began = edits /\ q.position = p /\ q.items = <<>> /\ q.page = R!NoPage
    BY <1>a, <2>1, RequestStarts, ZenonT(40)
  <2>3. R!Opened(r) = <<w0, q>>
    BY <1>0, <1>4, <2>1, <2>2 DEF R!Opened
  <2>4. Shows(q) /\ Under(q, w0)
    BY <1>4, <2>1, <2>2, EmptyItems DEF Shows, Under
  <2>5. Covers(q, w0)
    BY <1>1, <1>4, <2>1, <2>2 DEF WalkCovers, Covers
  <2> QED
    <3>1. R!Opened(r)[1] = w0 /\ R!Opened(r)[2] = q
      BY <2>3
    <3>2. q.began <= edits /\ Len(q.items) <= ListSize
      BY <1>1, <2>2, EmptyItems, ListBounds
    <3> QED
      BY <1>1, <2>2, <2>4, <2>5, <3>1, <3>2, Zenon
<1> QED
  BY <1>2, <1>3, <1>4

LEMMA LookKeeps ==
  ASSUME ListInv, NEW r \in Clients, R!Look(r)
  PROVE  ListInv'
<1> PICK q \in ListRequest, w \in ListWalk :
      /\ R!Opened(r)[1] = w /\ R!Opened(r)[2] = q
      /\ q.page = R!NoPage /\ q.began <= edits /\ Len(q.items) <= ListSize
      /\ w.started <= minute
      /\ Shows(q) /\ WalkDown(w) /\ WalkCovers(w) /\ Under(q, w) /\ Covers(q, w)
  BY Opens DEF R!Look
<1>1. /\ UNCHANGED <<listed, latest, owed, minute, edits>>
      /\ scroll' = [scroll EXCEPT ![r] = w]
  BY DEF R!Look
<1>2. minute \in 0..MaxMinute /\ minute > 0
  BY ListingTypes
<1>3. PICK cached \in ListPage :
        /\ cached = latest[q.position] /\ Fits(cached, q.position) /\ cached.created <= minute
        /\ cached # R!NoPage => Right(cached, q.position)
  BY DEF ListInv, ListTypes, CacheHolds, ListRequest
<1>4. ASSUME NEW q1 \in ListRequest, listing' = [listing EXCEPT ![r] = q1], q1.phase = "read",
             q1.position = q.position, q1.items = q.items, q1.began = q.began, PageHolds(q1, w)
      PROVE  ListInv'
  <2>1. Shows(q1) /\ Under(q1, w) /\ Covers(q1, w) /\ ViewHolds(q1, w)
    BY <1>4 DEF Shows, Under, Covers, ViewHolds
  <2>2. ClientHolds(q1, w)
    BY <1>4, <2>1 DEF ClientHolds
  <2> QED
    BY <1>1, <1>4, <2>2, ClientStep
<1>5. CASE R!Fresh(cached, minute)
           /\ listing' = [listing EXCEPT ![r] = [q EXCEPT !.phase = "read", !.page = cached]]
  <2>0. PICK q1 \in ListRequest : q1 = [q EXCEPT !.phase = "read", !.page = cached]
    BY DEF ListRequest
  <2>1. /\ q1.phase = "read" /\ q1.page = cached
        /\ q1.position = q.position /\ q1.items = q.items /\ q1.began = q.began
    BY <2>0 DEF ListRequest
  <2>2. cached # R!NoPage /\ minute < cached.created + LatestTTL
    BY <1>5 DEF R!Fresh
  <2>3. w.started < cached.created + LatestTTL
    BY <1>2, <2>2, ListBounds DEF ListWalk, ListPage
  <2>4. PageHolds(q1, w)
    BY <1>3, <2>1, <2>2, <2>3 DEF PageHolds
  <2> QED
    BY <1>4, <1>5, <2>0, <2>1, <2>4
<1>6. CASE listing' = [listing EXCEPT ![r] = [q EXCEPT !.phase = "read", !.filling = TRUE,
                                                       !.page.created = minute]]
  <2>a. PICK t \in 0..MaxMinute, none \in ListPage :
          /\ t = minute /\ none = [R!NoPage EXCEPT !.created = t]
          /\ none.created = t /\ \A at : Fits(none, at)
    BY <1>2, NoPageFits
  <2>b. PICK q1 \in ListRequest : q1 = [q EXCEPT !.phase = "read", !.filling = TRUE, !.page = none]
    BY DEF ListRequest
  <2>0. q1 = [q EXCEPT !.phase = "read", !.filling = TRUE, !.page.created = t]
    BY <2>a, <2>b DEF ListRequest
  <2>1. /\ q1.phase = "read" /\ q1.filling = TRUE
        /\ q1.page.created = minute /\ \A at : Fits(q1.page, at)
        /\ q1.position = q.position /\ q1.items = q.items /\ q1.began = q.began
    BY <2>a, <2>b, ZenonT(60) DEF ListRequest
  <2>2. q1.page.created = minute /\ Fits(q1.page, q1.position)
    BY <2>1
  <2>3. w.started < minute + LatestTTL /\ minute <= minute
    BY <1>2, ListBounds DEF ListWalk
  <2>4. PageHolds(q1, w)
    BY <2>1, <2>2, <2>3 DEF PageHolds
  <2> QED
    BY <1>4, <1>6, <2>a, <2>0, <2>1, <2>4
<1> QED
  BY <1>3, <1>5, <1>6 DEF R!Look

LEMMA ViewKeeps ==
  ASSUME ListInv, NEW r \in Clients, R!View(r)
  PROVE  ListInv'
<1>1. PICK q \in ListRequest, w \in ListWalk : q = listing[r] /\ w = scroll[r]
  BY ListingTypes
<1>2. /\ w.started <= minute /\ q.began <= edits /\ Len(q.items) <= ListSize
      /\ PageHolds(q, w) /\ Shows(q) /\ WalkDown(w) /\ WalkCovers(w) /\ Under(q, w) /\ Covers(q, w)
      /\ q.phase = "read"
  BY <1>1, ListingTypes DEF ClientHolds, R!View
<1>3. PICK view \in [ListIds -> ListRow] :
        view = listed /\ \A i \in ListIds : view[i].sort \in ListSorts /\ view[i].since <= minute
  BY DEF ListInv, ListTypes
<1>4. listing \in [Clients -> ListRequest] /\ scroll \in [Clients -> ListWalk]
      /\ minute \in 1..MaxMinute
  BY ListingTypes
<1>5. UNCHANGED <<listed, latest, owed, minute, edits>> /\ scroll' = [scroll EXCEPT ![r] = w]
  BY <1>1, <1>4 DEF R!View
<1>6. ASSUME NEW q1 \in ListRequest, listing' = [listing EXCEPT ![r] = q1],
             q1.position = q.position, q1.view = view, q1.items = q.items, q1.began = q.began,
             Fits(q1.page, q.position), q1.page.created = q.page.created,
             \/ q1.phase = "answer" /\ Right(q1.page, q.position) /\ ~R!Moved(view, q1.page)
             \/ q1.phase = "reload" /\ q1.taken = minute
      PROVE  ListInv'
  <2>2. Shows(q1) /\ Under(q1, w) /\ Covers(q1, w)
    BY <1>2, <1>6 DEF Shows, Under, Covers
  <2>3. PageHolds(q1, w)
    BY <1>2, <1>6 DEF PageHolds
  <2>4. ViewHolds(q1, w)
    <3>1. minute <= minute + MaxRead /\ minute <= minute
      BY <1>4, ListBounds
    <3>2. \A i \in ListIds : q1.view[i].sort \in ListSorts /\ q1.view[i] = listed[i]
      BY <1>3, <1>6
    <3> QED
      BY <1>2, <1>6, <3>1, <3>2 DEF ViewHolds
  <2>5. ClientHolds(q1, w)
    BY <1>2, <2>2, <2>3, <2>4 DEF ClientHolds
  <2>6. q1.began <= edits /\ Len(q1.items) <= ListSize /\ w.started <= minute
    BY <1>2, <1>6
  <2> QED
    BY <1>5, <1>6, <2>5, <2>6, ClientStep
<1>8. q.position \in R!Cursors /\ q.page \in ListPage /\ q.page.created \in 0..MaxMinute
      /\ minute \in 0..MaxMinute /\ 0 \in 0..MaxMinute
  <2>1. q.position \in R!Cursors /\ q.page \in ListPage
    BY DEF ListRequest
  <2>2. q.page.created \in 0..MaxMinute
    BY <2>1 DEF ListPage
  <2> QED
    BY <1>4, <2>1, <2>2, ListNumbers
<1>7. \A page \in ListPage, phase \in {"reload", "answer"}, t \in 0..MaxMinute :
        [q EXCEPT !.view = view, !.page = page, !.phase = phase, !.taken = t] \in ListRequest
  BY DEF ListRequest
<1>9. CASE q.filling
  <2>1. PICK page \in ListPage :
          /\ page = R!Candidates(view, q.position, q.page.created)
          /\ page.created = q.page.created
          /\ Fits(page, q.position) /\ ~R!Moved(view, page) /\ Right(page, q.position)
    <3> DEFINE page == R!Candidates(view, q.position, q.page.created)
    <3>1. page \in ListPage /\ page.created = q.page.created
          /\ Fits(page, q.position) /\ ~R!Moved(view, page)
      BY <1>3, <1>8, CandidatesFit
    <3>2. Right(page, q.position)
      BY <1>3, <1>8, CandidatesFit DEF Right, Where
    <3> HIDE DEF page
    <3> QED
      BY <3>1, <3>2 DEF page
  <2>2. PICK q1 \in ListRequest :
          q1 = [q EXCEPT !.view = view, !.page = page, !.phase = "answer", !.taken = 0]
    BY <1>7, <1>8, Zenon
  <2>3. listing' = [listing EXCEPT ![r] = q1]
    BY <1>1, <1>3, <1>4, <1>9, <2>1, <2>2 DEF R!View, ListRequest
  <2>4. /\ q1.position = q.position /\ q1.view = view /\ q1.items = q.items
        /\ q1.began = q.began /\ q1.page = page /\ q1.phase = "answer"
    BY <2>2 DEF ListRequest
  <2> QED
    BY <1>6, <2>1, <2>3, <2>4
<1>10. CASE ~q.filling /\ R!Moved(listed, q.page)
  <2>1. PICK q1 \in ListRequest :
          q1 = [q EXCEPT !.view = view, !.page = q.page, !.phase = "reload", !.taken = minute]
    BY <1>7, <1>8, Zenon
  <2>2. listing' = [listing EXCEPT ![r] = q1]
    BY <1>1, <1>3, <1>4, <1>10, <2>1 DEF R!View, ListRequest
  <2>3. /\ q1.position = q.position /\ q1.view = view /\ q1.items = q.items
        /\ q1.began = q.began /\ q1.page = q.page /\ q1.phase = "reload" /\ q1.taken = minute
    BY <2>1 DEF ListRequest
  <2>4. Fits(q.page, q.position)
    BY <1>2 DEF PageHolds
  <2> QED
    BY <1>6, <2>2, <2>3, <2>4
<1>11. CASE ~q.filling /\ ~R!Moved(listed, q.page)
  <2>1. PICK q1 \in ListRequest :
          q1 = [q EXCEPT !.view = view, !.page = q.page, !.phase = "answer", !.taken = 0]
    BY <1>7, <1>8, Zenon
  <2>2. listing' = [listing EXCEPT ![r] = q1]
    BY <1>1, <1>3, <1>4, <1>11, <2>1 DEF R!View, ListRequest
  <2>3. /\ q1.position = q.position /\ q1.view = view /\ q1.items = q.items
        /\ q1.began = q.began /\ q1.page = q.page /\ q1.phase = "answer"
    BY <2>1 DEF ListRequest
  <2>4. Fits(q.page, q.position) /\ Right(q.page, q.position) /\ ~R!Moved(view, q.page)
    BY <1>2, <1>3, <1>11 DEF PageHolds
  <2> QED
    BY <1>6, <2>2, <2>3, <2>4
<1> QED
  BY <1>9, <1>10, <1>11

LEMMA ReloadKeeps ==
  ASSUME ListInv, NEW r \in Clients, R!Reload(r)
  PROVE  ListInv'
<1>1. PICK q \in ListRequest, w \in ListWalk : q = listing[r] /\ w = scroll[r]
  BY ListingTypes
<1>2. /\ w.started <= minute /\ q.began <= edits /\ Len(q.items) <= ListSize
      /\ PageHolds(q, w) /\ ViewHolds(q, w) /\ Shows(q)
      /\ WalkDown(w) /\ WalkCovers(w) /\ Under(q, w) /\ Covers(q, w)
      /\ q.phase = "reload"
  BY <1>1, ListingTypes DEF ClientHolds, R!Reload
<1>3. listing \in [Clients -> ListRequest] /\ scroll \in [Clients -> ListWalk]
      /\ minute \in 1..MaxMinute
      /\ \A i \in ListIds : listed[i].since \in Int
  <2>1. \A i \in ListIds : listed[i] \in ListRow
    BY DEF ListInv, ListTypes
  <2> QED
    BY <2>1, ListingTypes, ListBounds DEF ListRow
<1>4. UNCHANGED <<listed, latest, owed, minute, edits>> /\ scroll' = [scroll EXCEPT ![r] = w]
  BY <1>1, <1>3 DEF R!Reload
<1>5. PICK view \in [ListIds -> ListRow], position \in R!Cursors, t \in 0..MaxMinute :
        /\ view = q.view /\ position = q.position /\ t = minute
        /\ \A i \in ListIds : view[i].sort \in ListSorts
  BY <1>2, <1>3 DEF ListRequest, ViewHolds
<1>6. PICK page \in ListPage :
        /\ page = R!Candidates(view, position, t) /\ page.created = t
        /\ Fits(page, position) /\ ~R!Moved(view, page)
        /\ \A i \in ListIds :
             view[i].public /\ R!Below(R!Position(i, view[i].sort), position)
               => \/ \E k \in 1..Len(page.candidates) : page.candidates[k] = R!Position(i, view[i].sort)
                  \/ ~page.exhausted /\ \A k \in 1..Len(page.candidates) :
                       R!Below(R!Position(i, view[i].sort), page.candidates[k])
  <2> DEFINE page == R!Candidates(view, position, t)
  <2>1. page \in ListPage /\ page.created = t /\ Fits(page, position) /\ ~R!Moved(view, page)
    BY <1>5, CandidatesFit
  <2>2. \A i \in ListIds :
          view[i].public /\ R!Below(R!Position(i, view[i].sort), position)
            => \/ \E k \in 1..Len(page.candidates) : page.candidates[k] = R!Position(i, view[i].sort)
               \/ ~page.exhausted /\ \A k \in 1..Len(page.candidates) :
                    R!Below(R!Position(i, view[i].sort), page.candidates[k])
    BY <1>5, CandidatesFit
  <2> HIDE DEF page
  <2> QED
    BY <2>1, <2>2 DEF page
<1>7. /\ q.taken \in Int /\ w.started <= q.taken /\ minute <= q.taken + MaxRead
      /\ \A i \in ListIds : listed[i].since < q.taken => view[i] = listed[i]
      /\ \A i \in ListIds : view[i].public => listed[i].public \/ listed[i].mark > q.began
      /\ w.started \in Int
  <2>1. q.taken \in Int /\ w.started \in Int
    BY ListNumbers DEF ListRequest, ListWalk
  <2> QED
    BY <1>2, <1>5, <2>1 DEF ViewHolds
<1>8. Right(page, position)
  <2> SUFFICES ASSUME NEW i \in ListIds, listed[i].public, listed[i].since + MaxRead < page.created,
                      R!Below(Where(i), position)
               PROVE  \/ \E k \in 1..Len(page.candidates) : page.candidates[k] = Where(i)
                      \/ ~page.exhausted /\ \A k \in 1..Len(page.candidates) :
                                              R!Below(Where(i), page.candidates[k])
    BY DEF Right
  <2>1. listed[i].since < q.taken
    BY <1>3, <1>5, <1>6, <1>7, ListNumbers, SMTT(30)
  <2>2. view[i] = listed[i]
    BY <1>7, <2>1
  <2> QED
    BY <1>6, <2>2 DEF Where
<1>9. PICK q1 \in ListRequest :
        q1 = [q EXCEPT !.phase = "answer", !.filling = TRUE, !.page = page]
  BY DEF ListRequest
<1>10. /\ q1.phase = "answer" /\ q1.page = page /\ q1.position = position /\ q1.view = view
       /\ q1.items = q.items /\ q1.began = q.began
  BY <1>5, <1>9 DEF ListRequest
<1>11. listing' = [listing EXCEPT ![r] = q1]
  BY <1>1, <1>3, <1>5, <1>6, <1>9 DEF R!Reload, ListRequest
<1>12. PageHolds(q1, w)
  <2>1. w.started < minute + LatestTTL
    BY <1>2, <1>3, <1>7, ListNumbers
  <2> QED
    BY <1>3, <1>5, <1>6, <1>8, <1>10, <2>1 DEF PageHolds
<1>13. ViewHolds(q1, w)
  <2>1. \A i \in ListIds : listed[i].since < w.started => listed[i].since < q.taken
    BY <1>3, <1>7
  <2> QED
    BY <1>5, <1>6, <1>7, <1>10, <2>1 DEF ViewHolds
<1>14. Shows(q1) /\ Under(q1, w) /\ Covers(q1, w)
  BY <1>2, <1>5, <1>10 DEF Shows, Under, Covers
<1>15. ClientHolds(q1, w)
  BY <1>2, <1>12, <1>13, <1>14 DEF ClientHolds
<1>16. q1.began <= edits /\ Len(q1.items) <= ListSize /\ w.started <= minute
  BY <1>2, <1>10
<1> QED
  BY <1>4, <1>11, <1>15, <1>16, ClientStep

LEMMA GreatestExists ==
  ASSUME NEW m \in Nat, NEW X \in SUBSET (0..m), X # {}
  PROVE  \E x \in X : \A y \in X : x >= y
<1> DEFINE Y == {m - x : x \in X}
<1>1. Y \in SUBSET Nat /\ Y # {} /\ \A z \in Y : \E x \in X : z = m - x
  <2>1. \A x \in X : m - x \in Nat
    OBVIOUS
  <2>2. PICK x \in X : TRUE
    OBVIOUS
  <2> QED
    BY <2>1, <2>2
<1>0. \A x \in X : m - x \in Y
  OBVIOUS
<1> HIDE DEF Y
<1>2. PICK z \in Y : \A y \in Y : z <= y
  BY <1>1, LeastExists
<1>3. PICK x \in X : z = m - x
  BY <1>1
<1>4. \A y \in X : m - x <= m - y
  BY <1>0, <1>2, <1>3
<1> QED
  BY <1>4

LEMMA ConsumedBounds ==
  ASSUME NEW q \in ListRequest, Len(q.items) <= ListSize
  PROVE  LET c == q.page.candidates
             n == R!Consumed(q)
         IN  /\ c \in Seq(ListPlace) /\ n \in 0..Len(c) /\ q.checked + n \in 0..MaxChecked
             /\ Len(q.items) + Cardinality({k \in 1..n : R!Visible(q.view, c[k])}) <= ListSize
<1> DEFINE c == q.page.candidates
           seen(k) == Cardinality({j \in 1..k : R!Visible(q.view, c[j])})
           X == {k \in 0..Len(c) : q.checked + k <= MaxChecked /\ Len(q.items) + seen(k) <= ListSize}
<1>1. c \in Seq(ListPlace) /\ Len(c) \in Nat /\ q.checked \in 0..MaxChecked /\ Len(q.items) \in Nat
  BY DEF ListRequest, ListPage
<1>2. seen(0) = 0
  BY FS_EmptySet
<1>3. 0 \in X
  BY <1>1, <1>2, ListBounds
<1>4. \E x \in X : \A y \in X : x >= y
  BY <1>1, <1>3, GreatestExists
<1>5. R!Consumed(q) = CHOOSE x \in X : \A y \in X : x >= y
  BY SameInReading DEF R!Consumed, R!Max
<1>6. R!Consumed(q) \in X
  BY <1>4, <1>5
<1> QED
  BY <1>1, <1>6, ListBounds

(* What a batch adds to the response.                                      *)
Shown(q, n) == R!At(q.page.candidates, {k \in 1..n : R!Visible(q.view, q.page.candidates[k])})
Added(q, n) == [k \in DOMAIN Shown(q, n) |->
                 R!Position(Shown(q, n)[k].id, q.view[Shown(q, n)[k].id].sort)]

LEMMA AddedAre ==
  ASSUME NEW q \in ListRequest, ~R!Moved(q.view, q.page), Descends(q.page.candidates),
         NEW n \in 0..Len(q.page.candidates)
  PROVE  LET c == q.page.candidates IN
           /\ Added(q, n) \in Seq(ListPlace)
           /\ Len(Added(q, n)) = Cardinality({k \in 1..n : R!Visible(q.view, c[k])})
           /\ Descends(Added(q, n))
           /\ \A k \in 1..Len(Added(q, n)) :
                \E j \in 1..n : Added(q, n)[k] = c[j] /\ q.view[c[j].id].public
           /\ \A j \in 1..n : q.view[c[j].id].public => Lists(Added(q, n), c[j])
<1> DEFINE c == q.page.candidates
           K == {k \in 1..n : R!Visible(q.view, c[k])}
           s == At(c, K)
           a == Added(q, n)
<1>1. c \in Seq(ListPlace) /\ Len(c) \in Nat /\ \A k \in 1..Len(c) : c[k] \in ListPlace
  BY ElementOfSeq DEF ListRequest, ListPage
<1>2. K \in SUBSET (1..Len(c)) /\ \A k \in K : k \in 1..n /\ q.view[c[k].id].public
  BY <1>1 DEF R!Visible
<1>2a. \A k \in 1..n : q.view[c[k].id].public => k \in K
  BY DEF R!Visible
<1> HIDE DEF c, K
<1>3. /\ s \in Seq(ListPlace) /\ Len(s) = Cardinality(K) /\ Cardinality(K) \in 0..Len(c)
      /\ \A m \in 1..Cardinality(K) : Nth(K, m) \in K /\ s[m] = c[Nth(K, m)]
      /\ \A k \in K : \E m \in 1..Cardinality(K) : Nth(K, m) = k
      /\ \A l, m \in 1..Cardinality(K) : l < m => Nth(K, l) < Nth(K, m)
  BY <1>1, <1>2, AtSelects
<1>4. Shown(q, n) = s
  BY SameInReading DEF Shown, c, K
<1> HIDE DEF s
<1>5. \A m \in 1..Len(s) : R!Position(s[m].id, q.view[s[m].id].sort) = s[m]
  <2> SUFFICES ASSUME NEW m \in 1..Len(s) PROVE R!Position(s[m].id, q.view[s[m].id].sort) = s[m]
    OBVIOUS
  <2>1. PICK k \in 1..Len(c) : k \in K /\ s[m] = c[k]
    BY <1>2, <1>3
  <2>a. c[k] \in R!Range(q.page.candidates)
    BY <1>1 DEF R!Range, c
  <2>b. \A p \in R!Range(q.page.candidates) : q.view[p.id].public => q.view[p.id].sort = p.sort
    BY DEF R!Moved
  <2>2. q.view[c[k].id].sort = c[k].sort
    BY <1>2, <2>1, <2>a, <2>b
  <2> QED
    BY <1>1, <2>1, <2>2, CursorsAre
<1>6. a = s
  <2>1. DOMAIN s = 1..Len(s) /\ s = [m \in 1..Len(s) |-> s[m]]
    BY <1>3
  <2>2. a = [m \in 1..Len(s) |-> R!Position(s[m].id, q.view[s[m].id].sort)]
    BY <1>4, <2>1 DEF Added
  <2> QED
    BY <1>5, <2>1, <2>2
<1>7. Descends(s)
  <2> SUFFICES ASSUME NEW l \in 1..Len(s), NEW m \in 1..Len(s), l < m PROVE R!Below(s[m], s[l])
    BY DEF Descends
  <2>1. Nth(K, l) < Nth(K, m) /\ Nth(K, l) \in K /\ Nth(K, m) \in K
        /\ s[l] = c[Nth(K, l)] /\ s[m] = c[Nth(K, m)]
    BY <1>3
  <2> QED
    BY <1>2, <2>1 DEF Descends, c
<1>8. \A m \in 1..Len(s) : \E j \in 1..n : s[m] = c[j] /\ q.view[c[j].id].public
  <2> SUFFICES ASSUME NEW m \in 1..Len(s)
               PROVE  \E j \in 1..n : s[m] = c[j] /\ q.view[c[j].id].public
    OBVIOUS
  <2>1. PICK j \in K : s[m] = c[j]
    BY <1>3
  <2> QED
    BY <1>2, <2>1
<1>9. \A j \in 1..n : q.view[c[j].id].public => Lists(s, c[j])
  BY <1>2a, <1>3 DEF Lists
<1> QED
  BY <1>3, <1>6, <1>7, <1>8, <1>9 DEF c, K

LEMMA Glued ==
  ASSUME NEW s \in Seq(ListPlace), NEW t \in Seq(ListPlace)
  PROVE  /\ s \o t \in Seq(ListPlace) /\ Len(s \o t) = Len(s) + Len(t)
         /\ \A k \in 1..Len(s \o t) :
              \/ k \in 1..Len(s) /\ (s \o t)[k] = s[k]
              \/ k > Len(s) /\ k - Len(s) \in 1..Len(t) /\ (s \o t)[k] = t[k - Len(s)]
         /\ \A p : Lists(s, p) \/ Lists(t, p) => Lists(s \o t, p)
         /\ (/\ Descends(s) /\ Descends(t)
             /\ \A j \in 1..Len(s), k \in 1..Len(t) : R!Below(t[k], s[j]))
            => Descends(s \o t)
<1>1. /\ s \o t \in Seq(ListPlace) /\ Len(s \o t) = Len(s) + Len(t)
      /\ \A k \in 1..Len(s) + Len(t) : (s \o t)[k] = IF k <= Len(s) THEN s[k] ELSE t[k - Len(s)]
      /\ Len(s) \in Nat /\ Len(t) \in Nat
  BY ConcatProperties
<1>2. \A k \in 1..Len(s \o t) :
        \/ k \in 1..Len(s) /\ (s \o t)[k] = s[k]
        \/ k > Len(s) /\ k - Len(s) \in 1..Len(t) /\ (s \o t)[k] = t[k - Len(s)]
  BY <1>1
<1>3. ASSUME NEW p, Lists(s, p) PROVE Lists(s \o t, p)
  BY <1>1, <1>3 DEF Lists
<1>4. ASSUME NEW p, Lists(t, p) PROVE Lists(s \o t, p)
  <2>1. PICK k \in 1..Len(t) : t[k] = p
    BY <1>4 DEF Lists
  <2>2. k + Len(s) \in 1..Len(s) + Len(t) /\ k + Len(s) - Len(s) = k /\ ~(k + Len(s) <= Len(s))
    BY <1>1
  <2> QED
    BY <1>1, <2>1, <2>2 DEF Lists
<1>5. ASSUME Descends(s), Descends(t), \A j \in 1..Len(s), k \in 1..Len(t) : R!Below(t[k], s[j])
      PROVE  Descends(s \o t)
  <2> SUFFICES ASSUME NEW j \in 1..Len(s \o t), NEW k \in 1..Len(s \o t), j < k
               PROVE  R!Below((s \o t)[k], (s \o t)[j])
    BY DEF Descends
  <2>1. CASE k \in 1..Len(s)
    <3>1. j \in 1..Len(s) /\ (s \o t)[j] = s[j] /\ (s \o t)[k] = s[k]
      BY <1>1, <2>1
    <3> QED
      BY <1>5, <2>1, <3>1 DEF Descends
  <2>2. CASE k \notin 1..Len(s) /\ j \in 1..Len(s)
    <3>1. (s \o t)[j] = s[j] /\ k - Len(s) \in 1..Len(t) /\ (s \o t)[k] = t[k - Len(s)]
      BY <1>1, <2>2
    <3> QED
      BY <1>5, <2>2, <3>1
  <2>3. CASE k \notin 1..Len(s) /\ j \notin 1..Len(s)
    <3>1. /\ j - Len(s) \in 1..Len(t) /\ (s \o t)[j] = t[j - Len(s)]
          /\ k - Len(s) \in 1..Len(t) /\ (s \o t)[k] = t[k - Len(s)]
          /\ j - Len(s) < k - Len(s)
      BY <1>1, <2>3
    <3> QED
      BY <1>5, <3>1 DEF Descends
  <2> QED
    BY <2>1, <2>2, <2>3
<1> QED
  BY <1>1, <1>2, <1>3, <1>4, <1>5, Zenon

(* What a response or the next batch starts from.                          *)
Items(q, n) == q.items \o Added(q, n)
Reached(q, n) == IF n = 0 THEN q.position ELSE q.page.candidates[n]

LEMMA Earlier ==
  ASSUME NEW a \in Int, NEW b \in Int, NEW d \in Int, NEW t \in Int, t > 0, NEW m \in Int, m >= 0,
         a + t + m <= b, b < d + t
  PROVE  a < b /\ a + m < d
  OBVIOUS

LEMMA Batch ==
  ASSUME ListTypes, NEW q \in ListRequest, NEW w \in ListWalk, q.phase = "answer",
         PageHolds(q, w), ViewHolds(q, w), Shows(q), Under(q, w), Covers(q, w),
         NEW n \in 0..Len(q.page.candidates)
  PROVE  /\ Items(q, n) \in Seq(ListPlace) /\ Descends(Items(q, n))
         /\ \A k \in 1..Len(Items(q, n)) :
              /\ LET a == listed[Items(q, n)[k].id] IN a.public \/ a.mark > q.began
              /\ R!Below(Items(q, n)[k], w.position)
              /\ AtOrAbove(Items(q, n)[k], Reached(q, n))
         /\ Reached(q, n) \in R!Cursors
         /\ \/ Reached(q, n) = w.position
            \/ Reached(q, n) # R!First /\ R!Below(Reached(q, n), w.position)
         /\ \A i \in ListIds : Sought(i, w) =>
              \/ Lists(w.items, Where(i)) \/ Lists(Items(q, n), Where(i))
              \/ /\ R!Below(Where(i), Reached(q, n))
                 /\ ~(n = Len(q.page.candidates) /\ q.page.exhausted)
<1> DEFINE c == q.page.candidates
           new == Added(q, n)
           items == Items(q, n)
           to == Reached(q, n)
<1>1. c \in Seq(ListPlace) /\ Len(c) \in Nat /\ \A k \in 1..Len(c) : c[k] \in ListPlace
  BY ElementOfSeq DEF ListRequest, ListPage
<1>2. /\ \A j, k \in 1..Len(c) : j < k => R!Below(c[k], c[j])
      /\ \A k \in 1..Len(c) : R!Below(c[k], q.position)
      /\ w.started < q.page.created + LatestTTL
      /\ Right(q.page, q.position) /\ ~R!Moved(q.view, q.page) /\ Descends(c)
  BY DEF PageHolds, Fits, Descends, ViewHolds
<1>3. /\ new \in Seq(ListPlace) /\ Len(new) \in Nat /\ Descends(new)
      /\ \A k \in 1..Len(new) : \E j \in 1..n : new[k] = c[j] /\ q.view[c[j].id].public
      /\ \A j \in 1..n : q.view[c[j].id].public => Lists(new, c[j])
  <2>1. Descends(q.page.candidates) /\ ~R!Moved(q.view, q.page)
    BY <1>2
  <2>2. Added(q, n) \in Seq(ListPlace) /\ Descends(Added(q, n))
    BY <2>1, AddedAre
  <2>3. /\ \A k \in 1..Len(Added(q, n)) :
             \E j \in 1..n : Added(q, n)[k] = c[j] /\ q.view[c[j].id].public
        /\ \A j \in 1..n : q.view[c[j].id].public => Lists(Added(q, n), c[j])
    BY <2>1, AddedAre
  <2>4. Len(Added(q, n)) \in Nat
    BY <2>2, LenProperties
  <2> QED
    BY <2>2, <2>3, <2>4
<1>4. q.items \in Seq(ListPlace) /\ q.position \in R!Cursors /\ w.position \in R!Cursors
      /\ Len(q.items) \in Nat /\ \A k \in 1..Len(q.items) : q.items[k] \in ListPlace
  BY ElementOfSeq DEF ListRequest, ListWalk
<1>5. \A j \in 1..Len(q.items) : R!Below(q.items[j], w.position) /\ AtOrAbove(q.items[j], q.position)
  BY DEF Under
<1>6. q.position = w.position \/ (q.position # R!First /\ R!Below(q.position, w.position))
  BY DEF Under
<1>7. \A p, o, s \in ListPlace \cup {R!First} :
        R!Below(p, o) /\ R!Below(o, s) /\ p # R!First /\ o # R!First => R!Below(p, s)
  BY BelowOrders, CursorsAre
<1>8. to \in R!Cursors /\ (n = 0 => to = q.position) /\ (n # 0 => to = c[n] /\ to \in ListPlace)
  BY <1>1, <1>4, CursorsAre DEF Reached
<1>9. \A k \in 1..n : k \in 1..Len(c) /\ (c[k] = to \/ R!Below(to, c[k])) /\ to # R!First
  BY <1>1, <1>2, <1>8, CursorsAre
<1>10. ASSUME NEW p \in ListPlace, AtOrAbove(p, q.position) PROVE AtOrAbove(p, to)
  <2>1. CASE n = 0
    BY <1>8, <1>10, <2>1
  <2>2. CASE n # 0
    <3>1. n \in 1..Len(c) /\ to = c[n] /\ to \in ListPlace /\ to # R!First
      BY <1>1, <1>8, <2>2, CursorsAre
    <3>2. R!Below(to, q.position)
      BY <1>2, <3>1
    <3>3. q.position # R!First /\ (p = q.position \/ R!Below(q.position, p))
      BY <1>10 DEF AtOrAbove
    <3>4. R!Below(to, p)
      BY <1>4, <1>7, <3>1, <3>2, <3>3, CursorsAre
    <3> QED
      BY <3>1, <3>4 DEF AtOrAbove
  <2> QED
    BY <2>1, <2>2
<1> HIDE DEF c, new, to
<1>11. ASSUME NEW k \in 1..Len(new)
       PROVE  /\ listed[new[k].id].public \/ listed[new[k].id].mark > q.began
              /\ new[k] \in ListPlace
              /\ R!Below(new[k], w.position) /\ AtOrAbove(new[k], to)
              /\ \A j \in 1..Len(q.items) : R!Below(new[k], q.items[j])
  <2>1. PICK j \in 1..n : new[k] = c[j] /\ q.view[c[j].id].public
    BY <1>3
  <2>2. j \in 1..Len(c) /\ c[j] \in ListPlace /\ c[j].id \in ListIds /\ c[j] # R!First
    BY <1>1, <1>9, CursorsAre
  <2>3. listed[c[j].id].public \/ listed[c[j].id].mark > q.began
    BY <2>1, <2>2 DEF ViewHolds
  <2>4. AtOrAbove(c[j], to)
    BY <1>9, <2>1 DEF AtOrAbove
  <2>5. R!Below(c[j], q.position)
    BY <1>2, <2>2
  <2>6. R!Below(c[j], w.position)
    BY <1>4, <1>6, <1>7, <2>2, <2>5, CursorsAre
  <2>7. ASSUME NEW l \in 1..Len(q.items) PROVE R!Below(c[j], q.items[l])
    <3>1. q.position # R!First /\ (q.items[l] = q.position \/ R!Below(q.position, q.items[l]))
      BY <1>5 DEF AtOrAbove
    <3> QED
      BY <1>4, <1>7, <2>2, <2>5, <3>1, CursorsAre
  <2> QED
    BY <2>1, <2>2, <2>3, <2>4, <2>6, <2>7
<1>12. items \in Seq(ListPlace) /\ Descends(items)
  BY <1>3, <1>4, <1>11, Glued DEF Items, Shows, new
<1>13. ASSUME NEW k \in 1..Len(items)
       PROVE  /\ listed[items[k].id].public \/ listed[items[k].id].mark > q.began
              /\ R!Below(items[k], w.position) /\ AtOrAbove(items[k], to)
  <2>1. \/ k \in 1..Len(q.items) /\ items[k] = q.items[k]
        \/ k - Len(q.items) \in 1..Len(new) /\ items[k] = new[k - Len(q.items)]
    BY <1>3, <1>4, Glued DEF Items, new
  <2>2. CASE k \in 1..Len(q.items) /\ items[k] = q.items[k]
    BY <1>4, <1>5, <1>10, <2>2 DEF Shows
  <2>3. CASE k - Len(q.items) \in 1..Len(new) /\ items[k] = new[k - Len(q.items)]
    BY <1>11, <2>3
  <2> QED
    BY <2>1, <2>2, <2>3
<1>14. to = w.position \/ (to # R!First /\ R!Below(to, w.position))
  <2>1. CASE n = 0
    BY <1>6, <1>8, <2>1
  <2>2. CASE n # 0
    <3>1. n \in 1..Len(c) /\ to = c[n] /\ to \in ListPlace /\ to # R!First
      BY <1>1, <1>8, <2>2, CursorsAre DEF c
    <3>2. R!Below(to, q.position)
      BY <1>2, <3>1
    <3> QED
      BY <1>4, <1>6, <1>7, <3>1, <3>2, CursorsAre
  <2> QED
    BY <2>1, <2>2
<1>15. ASSUME NEW i \in ListIds, Sought(i, w), ~Lists(w.items, Where(i)), ~Lists(items, Where(i))
       PROVE  R!Below(Where(i), to) /\ ~(n = Len(c) /\ q.page.exhausted)
  <2>1. /\ listed[i] \in ListRow /\ listed[i].sort \in ListSorts /\ listed[i].public
        /\ listed[i].since + LatestTTL + MaxRead <= w.started
    BY <1>15 DEF Sought, ListTypes
  <2>2. listed[i].since \in Int /\ w.started \in Int /\ q.page.created \in Int
    <3>1. listed[i].since \in Int
      BY <2>1, ListNumbers DEF ListRow
    <3>2. w.started \in Int
      BY DEF ListWalk
    <3>3. q.page \in ListPage
      BY DEF ListRequest
    <3>4. q.page.created \in Int
      BY <3>3 DEF ListPage
    <3> QED
      BY <3>1, <3>2, <3>4
  <2>3. listed[i].since < w.started /\ listed[i].since + MaxRead < q.page.created
    <3> PICK a \in Int, b \in Int, d \in Int :
          a = listed[i].since /\ b = w.started /\ d = q.page.created
      BY <2>2
    <3>1. a + LatestTTL + MaxRead <= b /\ b < d + LatestTTL
      BY <1>2, <2>1
    <3>0. LatestTTL \in Int /\ LatestTTL > 0 /\ MaxRead \in Int /\ MaxRead >= 0
      BY ListBounds
    <3>2. a < b /\ a + MaxRead < d
      BY <3>0, <3>1, Earlier
    <3> QED
      BY <3>2
  <2>4. q.view[i] = listed[i]
    BY <2>3 DEF ViewHolds
  <2>5. ~Lists(q.items, Where(i)) /\ ~Lists(new, Where(i))
    BY <1>3, <1>4, <1>15, Glued DEF Items, new
  <2>6. R!Below(Where(i), q.position)
    BY <1>15, <2>5 DEF Covers
  <2>7. \/ \E k \in 1..Len(c) : c[k] = Where(i)
        \/ ~q.page.exhausted /\ \A k \in 1..Len(c) : R!Below(Where(i), c[k])
    BY <1>2, <2>1, <2>3, <2>6 DEF Right, c
  <2>8. CASE \E k \in 1..Len(c) : c[k] = Where(i)
    <3>1. PICK k \in 1..Len(c) : c[k] = Where(i)
      BY <2>8
    <3>2. c[k].id = i
      BY <3>1 DEF Where, R!Position
    <3>3. k \notin 1..n
      BY <1>3, <2>1, <2>4, <2>5, <3>1, <3>2
    <3>4. n < k /\ n # Len(c)
      BY <1>1, <3>3 DEF c
    <3>5. CASE n = 0
      BY <1>8, <2>6, <3>4, <3>5
    <3>6. CASE n # 0
      <4>1. n \in 1..Len(c) /\ to = c[n]
        BY <1>1, <1>8, <3>6 DEF c
      <4> QED
        BY <1>2, <3>1, <3>4, <4>1
    <3> QED
      BY <3>5, <3>6
  <2>9. CASE ~q.page.exhausted /\ \A k \in 1..Len(c) : R!Below(Where(i), c[k])
    <3>1. n # 0 => n \in 1..Len(c) /\ to = c[n]
      BY <1>1, <1>8 DEF c
    <3> QED
      BY <1>8, <2>6, <2>9, <3>1
  <2> QED
    BY <2>7, <2>8, <2>9
<1> QED
  BY <1>8, <1>12, <1>13, <1>14, <1>15 DEF c, to

LEMMA FillKeeps ==
  ASSUME ListInv, NEW r \in Clients, listing[r].phase = "answer", R!Fill(r)
  PROVE  \/ latest' = latest
         \/ \E p \in R!Cursors, page \in ListPage :
              /\ latest' = [latest EXCEPT ![p] = page]
              /\ Fits(page, p) /\ Right(page, p) /\ page.created <= minute
<1>1. PICK q \in ListRequest, w \in ListWalk : q = listing[r] /\ w = scroll[r]
  BY ListingTypes
<1>2. PageHolds(q, w) /\ q.phase = "answer"
  BY <1>1, ListingTypes DEF ClientHolds
<1>3. Fits(q.page, q.position) /\ Right(q.page, q.position) /\ q.page.created <= minute
  BY <1>2 DEF PageHolds
<1>4. latest' = [latest EXCEPT ![q.position] = q.page] \/ latest' = latest
  BY <1>1 DEF R!Fill, R!Stamp
<1>5. q.position \in R!Cursors /\ q.page \in ListPage
  BY DEF ListRequest
<1> QED
  BY <1>3, <1>4, <1>5

LEMMA AnswerKeeps ==
  ASSUME ListInv, NEW r \in Clients, R!Answer(r)
  PROVE  ListInv'
<1>1. PICK q \in ListRequest, w \in ListWalk : q = listing[r] /\ w = scroll[r]
  BY ListingTypes, SMTT(30)
<1>2. /\ w.started <= minute /\ q.began <= edits /\ Len(q.items) <= ListSize
      /\ PageHolds(q, w) /\ ViewHolds(q, w) /\ Shows(q)
      /\ WalkDown(w) /\ WalkCovers(w) /\ Under(q, w) /\ Covers(q, w)
      /\ q.phase = "answer"
  BY <1>1, ListingTypes DEF ClientHolds, R!Answer
<1>3. listing \in [Clients -> ListRequest] /\ scroll \in [Clients -> ListWalk] /\ ListTypes
  <2>1. ListTypes
    BY ZenonT(60) DEF ListInv
  <2> QED
    BY <2>1 DEF ListTypes
<1>4. /\ UNCHANGED <<listed, owed, minute, edits>>
      /\ \/ latest' = latest
         \/ \E p \in R!Cursors, page \in ListPage :
              /\ latest' = [latest EXCEPT ![p] = page]
              /\ Fits(page, p) /\ Right(page, p) /\ page.created <= minute
  BY <1>1, <1>2, FillKeeps DEF R!Answer
<1>5. PICK n \in 0..Len(q.page.candidates) :
        /\ n = R!Consumed(q) /\ q.checked + n \in 0..MaxChecked
        /\ Len(q.items) + Cardinality({k \in 1..n : R!Visible(q.view, q.page.candidates[k])})
             <= ListSize
        /\ Len(q.page.candidates) \in Nat
  <2>1. /\ R!Consumed(q) \in 0..Len(q.page.candidates)
        /\ q.checked + R!Consumed(q) \in 0..MaxChecked
        /\ Len(q.items) + Cardinality({k \in 1..R!Consumed(q) :
             R!Visible(q.view, q.page.candidates[k])}) <= ListSize
    BY <1>2, ConsumedBounds
  <2>2. Len(q.page.candidates) \in Nat
    BY LenProperties DEF ListRequest, ListPage
  <2> QED
    BY <2>1, <2>2
<1> DEFINE over == n = Len(q.page.candidates) /\ q.page.exhausted
<1>6. PICK items \in Seq(ListPlace), to \in R!Cursors :
        /\ items = Items(q, n) /\ to = Reached(q, n) /\ Descends(items) /\ Len(items) <= ListSize
        /\ \A k \in 1..Len(items) :
             /\ listed[items[k].id].public \/ listed[items[k].id].mark > q.began
             /\ R!Below(items[k], w.position) /\ AtOrAbove(items[k], to)
        /\ to = w.position \/ (to # R!First /\ R!Below(to, w.position))
        /\ \A i \in ListIds : Sought(i, w) =>
              \/ Lists(w.items, Where(i)) \/ Lists(items, Where(i))
              \/ R!Below(Where(i), to) /\ ~over
  <2>1. Items(q, n) \in Seq(ListPlace) /\ Descends(Items(q, n)) /\ Reached(q, n) \in R!Cursors
    BY <1>2, <1>3, Batch
  <2>2. Len(Items(q, n)) <= ListSize
    <3>1. ~R!Moved(q.view, q.page) /\ Descends(q.page.candidates)
      BY <1>2 DEF PageHolds, ViewHolds, Fits
    <3>2. /\ Added(q, n) \in Seq(ListPlace)
          /\ Len(Added(q, n)) = Cardinality({k \in 1..n : R!Visible(q.view, q.page.candidates[k])})
      BY <3>1, AddedAre
    <3>3. q.items \in Seq(ListPlace)
      BY DEF ListRequest
    <3>4. Len(Items(q, n)) = Len(q.items) + Len(Added(q, n))
      BY <3>2, <3>3, Glued DEF Items
    <3> QED
      BY <1>5, <3>2, <3>4
  <2>3. \A k \in 1..Len(Items(q, n)) :
          /\ listed[Items(q, n)[k].id].public \/ listed[Items(q, n)[k].id].mark > q.began
          /\ R!Below(Items(q, n)[k], w.position) /\ AtOrAbove(Items(q, n)[k], Reached(q, n))
    BY <1>2, <1>3, Batch
  <2>4. /\ \/ Reached(q, n) = w.position
           \/ Reached(q, n) # R!First /\ R!Below(Reached(q, n), w.position)
        /\ \A i \in ListIds : Sought(i, w) =>
              \/ Lists(w.items, Where(i)) \/ Lists(Items(q, n), Where(i))
              \/ R!Below(Where(i), Reached(q, n)) /\ ~over
    BY <1>2, <1>3, Batch, SMTT(30)
  <2> QED
    BY <2>1, <2>2, <2>3, <2>4
<1>7. IF over \/ n < Len(q.page.candidates) \/ q.checked + n = MaxChecked
      THEN R!Reply(r, items, to, over)
      ELSE /\ listing' = [listing EXCEPT ![r] = [R!Idle EXCEPT !.phase = "cache", !.items = items,
                            !.position = to, !.checked = q.checked + n, !.began = q.began]]
           /\ UNCHANGED scroll
  <2>1. LET m    == R!Consumed(listing[r])
            done == m = Len(listing[r].page.candidates) /\ listing[r].page.exhausted
        IN  IF done \/ m < Len(listing[r].page.candidates) \/ listing[r].checked + m = MaxChecked
            THEN R!Reply(r, Items(listing[r], m), Reached(listing[r], m), done)
            ELSE /\ listing' = [listing EXCEPT ![r] =
                      [R!Idle EXCEPT !.phase = "cache", !.items = Items(listing[r], m),
                                     !.position = Reached(listing[r], m),
                                     !.checked = listing[r].checked + m, !.began = listing[r].began]]
                 /\ UNCHANGED scroll
    BY Zenon DEF R!Answer, Items, Reached, Added, Shown
  <2> QED
    BY <1>1, <1>5, <1>6, <2>1
<1>8. R!Idle \in ListRequest /\ q.began \in 0..MaxEdits
  BY IdleRequest DEF ListRequest
<1>9. CASE over \/ n < Len(q.page.candidates) \/ q.checked + n = MaxChecked
  <2>1. PICK q1 \in ListRequest : q1 = [R!Idle EXCEPT !.items = items, !.began = q.began]
    BY <1>8 DEF ListRequest
  <2>2. q1.items = items /\ q1.began = q.began /\ q1.phase = "idle" /\ q1.page = R!NoPage
    BY <1>8, <2>1, IdleRequest DEF ListRequest
  <2>3. listing' = [listing EXCEPT ![r] = q1]
    BY <1>1, <1>7, <1>9, <2>1 DEF R!Reply
  <2>4. PICK to1 \in R!Cursors, done \in BOOLEAN :
          to1 = (IF over THEN R!First ELSE to) /\ (done <=> over)
    BY CursorsAre
  <2>5. w.items \in Seq(ListPlace) /\ w.position \in R!Cursors
        /\ \A k \in 1..Len(w.items) : w.items[k] \in ListPlace
    BY ElementOfSeq DEF ListWalk
  <2>6. PICK glued \in Seq(ListPlace) : glued = w.items \o items
    BY <2>5, Glued
  <2>7. PICK w1 \in ListWalk :
          w1 = [w EXCEPT !.items = glued, !.over = done, !.position = to1]
    BY DEF ListWalk
  <2>8. /\ w1.items = glued /\ (w1.over <=> over) /\ w1.position = to1
        /\ w1.started = w.started /\ w1.count = w.count
    BY <2>4, <2>7 DEF ListWalk
  <2>9. scroll' = [scroll EXCEPT ![r] = w1]
    <3>1. done = over
      BY <2>4
    <3>2. scroll' = [scroll EXCEPT ![r].items = @ \o items, ![r].over = over,
                                   ![r].position = to1]
      BY <1>7, <1>9, <2>4 DEF R!Reply
    <3> HIDE DEF over
    <3> QED
      BY <1>1, <1>3, <2>6, <2>7, <3>1, <3>2 DEF ListWalk
  <2>10. PageHolds(q1, w1) /\ ViewHolds(q1, w1) /\ Shows(q1)
    BY <1>6, <2>2 DEF PageHolds, ViewHolds, Shows
  <2>11. WalkDown(w1)
    <3>1. ~w.over /\ \A j \in 1..Len(w.items) : AtOrAbove(w.items[j], w.position)
      BY <1>2 DEF WalkDown, Under
    <3>2. \A k \in 1..Len(items) : items[k] \in ListPlace /\ items[k] # R!First
      BY ElementOfSeq, CursorsAre
    <3>3. \A j \in 1..Len(w.items), k \in 1..Len(items) : R!Below(items[k], w.items[j])
      BY <1>6, <2>5, <3>1, <3>2, BelowOrders, CursorsAre DEF AtOrAbove
    <3>4. Descends(glued)
      BY <1>2, <1>6, <2>5, <2>6, <3>3, Glued DEF WalkDown
    <3>5. ASSUME ~over, NEW k \in 1..Len(glued) PROVE AtOrAbove(glued[k], to)
      <4>1. \/ k \in 1..Len(w.items) /\ glued[k] = w.items[k]
            \/ k - Len(w.items) \in 1..Len(items) /\ glued[k] = items[k - Len(w.items)]
        BY <2>5, <2>6, Glued
      <4>2. CASE k - Len(w.items) \in 1..Len(items) /\ glued[k] = items[k - Len(w.items)]
        BY <1>6, <4>2
      <4>3. CASE k \in 1..Len(w.items) /\ glued[k] = w.items[k]
        <5>1. AtOrAbove(glued[k], w.position) /\ glued[k] \in ListPlace
          BY <2>5, <3>1, <4>3
        <5> QED
          BY <1>6, <2>5, <5>1, BelowOrders, CursorsAre DEF AtOrAbove
      <4> QED
        BY <4>1, <4>2, <4>3
    <3> QED
      BY <2>4, <2>8, <3>4, <3>5 DEF WalkDown
  <2>12. WalkCovers(w1)
    <3>1. w.count > 0
      BY <1>2 DEF Under, WalkCovers
    <3>2. \A p : Lists(w.items, p) \/ Lists(items, p) => Lists(glued, p)
      BY <2>5, <2>6, Glued
    <3>3. \A i \in ListIds : Sought(i, w1) => Sought(i, w)
      BY <2>8 DEF Sought
    <3> QED
      BY <1>6, <2>4, <2>8, <3>1, <3>2, <3>3 DEF WalkCovers
  <2>13. ClientHolds(q1, w1)
    BY <2>2, <2>10, <2>11, <2>12 DEF ClientHolds
  <2>14. w1.started <= minute /\ q1.began <= edits /\ Len(q1.items) <= ListSize
    BY <1>2, <1>6, <2>2, <2>8
  <2> QED
    BY <1>4, <2>3, <2>9, <2>13, <2>14, ClientStep
<1>10. CASE ~(over \/ n < Len(q.page.candidates) \/ q.checked + n = MaxChecked)
  <2>1. PICK checked \in 0..MaxChecked : checked = q.checked + n
    BY <1>5
  <2>2. PICK q1 \in ListRequest :
          q1 = [R!Idle EXCEPT !.phase = "cache", !.items = items, !.position = to,
                              !.checked = checked, !.began = q.began]
    BY <1>8 DEF ListRequest
  <2>3. /\ q1.items = items /\ q1.began = q.began /\ q1.phase = "cache" /\ q1.page = R!NoPage
        /\ q1.position = to
    BY <1>8, <2>2, IdleRequest DEF ListRequest
  <2>4. listing' = [listing EXCEPT ![r] = q1] /\ scroll' = [scroll EXCEPT ![r] = w]
    BY <1>1, <1>3, <1>7, <1>10, <2>1, <2>2
  <2>5. PageHolds(q1, w) /\ ViewHolds(q1, w) /\ Shows(q1)
    BY <1>6, <2>3 DEF PageHolds, ViewHolds, Shows
  <2>6. Under(q1, w) /\ Covers(q1, w)
    BY <1>2, <1>6, <2>3 DEF Under, Covers
  <2>7. ClientHolds(q1, w)
    BY <1>2, <2>5, <2>6 DEF ClientHolds
  <2>8. w.started <= minute /\ q1.began <= edits /\ Len(q1.items) <= ListSize
    BY <1>2, <1>6, <2>3
  <2> QED
    BY <1>4, <2>4, <2>7, <2>8, ClientStep
<1> QED
  BY <1>9, <1>10, ZenonT(40)

LEMMA AbortKeeps ==
  ASSUME ListInv, NEW r \in Clients, R!Abort(r)
  PROVE  ListInv'
<1>1. PICK w \in ListWalk : w = scroll[r] /\ w.started <= minute /\ WalkDown(w) /\ WalkCovers(w)
  BY ListingTypes DEF ClientHolds
<1>2. /\ listing' = [listing EXCEPT ![r] = R!Idle] /\ scroll' = [scroll EXCEPT ![r] = w]
      /\ UNCHANGED <<listed, latest, owed, minute, edits>>
  BY <1>1, ListingTypes DEF R!Abort
<1>3. ClientHolds(R!Idle, w)
  BY <1>1, IdleRequest, EmptyItems DEF ClientHolds, PageHolds, ViewHolds, Shows, Descends
<1>4. R!Idle \in ListRequest /\ R!Idle.began <= edits /\ Len(R!Idle.items) <= ListSize
  BY IdleRequest, EmptyItems, ListingTypes, ListBounds
<1> QED
  BY <1>1, <1>2, <1>3, <1>4, ClientStep

LEMMA WriteKeeps ==
  ASSUME ListInv, NEW i \in ListIds, NEW public \in BOOLEAN, NEW sort \in ListSorts,
         R!Write(i, public, sort)
  PROVE  ListInv'
<1>1. ListTypes /\ CacheHolds
  BY DEF ListInv
<1>2. /\ UNCHANGED <<latest, minute, listing, scroll>> /\ owed' = TRUE
      /\ edits' = edits + 1 /\ edits < MaxEdits
      /\ edits \in 0..MaxEdits /\ minute \in 1..MaxMinute
      /\ listed \in [ListIds -> ListRow]
  BY <1>1 DEF R!Write, ListTypes
<1>3. PICK row \in ListRow :
        row = [public |-> public, sort |-> sort, since |-> minute, mark |-> edits']
  <2>1. edits' \in 0..MaxEdits /\ minute \in R!LongAgo..MaxMinute
    BY <1>2, ListBounds
  <2> QED
    BY <2>1 DEF ListRow
<1>4. /\ listed' \in [ListIds -> ListRow] /\ listed'[i] = row
      /\ \A j \in ListIds : j # i => listed'[j] = listed[j]
  BY <1>2, <1>3 DEF R!Write
<1>5. row.sort \in ListSorts /\ row.since = minute /\ row.mark = edits + 1
  BY <1>2, <1>3
<1>6. ListTypes'
  <2>1. \A j \in ListIds : /\ listed'[j].sort \in ListSorts
                           /\ listed'[j].since <= minute /\ listed'[j].mark <= edits + 1
    <3>1. \A j \in ListIds : listed[j].mark \in Int /\ listed[j].mark <= edits
      BY <1>1, <1>2 DEF ListTypes, ListRow
    <3> QED
      BY <1>1, <1>2, <1>4, <1>5, <3>1 DEF ListTypes
  <2>2. edits + 1 \in 0..MaxEdits
    BY <1>2, ListBounds
  <2>3. \A r \in Clients : listing[r].began <= edits + 1
    BY <1>1, <1>2 DEF ListTypes, ListRequest
  <2>4. owed' \in BOOLEAN
    BY <1>2, Zenon
  <2> QED
    BY <1>1, <1>2, <1>4, <2>1, <2>2, <2>3, <2>4 DEF ListTypes
<1>7. ASSUME NEW page \in ListPage, NEW p, page.created <= minute, Right(page, p)
      PROVE  Right(page, p)'
  <2> SUFFICES ASSUME NEW j \in ListIds, listed'[j].public, listed'[j].since + MaxRead < page.created,
                      R!Below(Where(j)', p)
               PROVE  \/ \E k \in 1..Len(page.candidates) : page.candidates[k] = Where(j)'
                      \/ ~page.exhausted /\ \A k \in 1..Len(page.candidates) :
                                              R!Below(Where(j)', page.candidates[k])
    BY DEF Right
  <2>1. j # i
    BY <1>2, <1>4, <1>5, <1>7, ListBounds DEF ListPage
  <2>2. listed'[j] = listed[j] /\ Where(j)' = Where(j)
    BY <1>4, <2>1 DEF Where
  <2> QED
    BY <1>7, <2>2 DEF Right
<1>8. CacheHolds'
  <2> SUFFICES ASSUME NEW p \in R!Cursors
               PROVE  (/\ Fits(latest[p], p) /\ latest[p].created <= minute
                       /\ latest[p] # R!NoPage => Right(latest[p], p))'
    BY DEF CacheHolds
  <2>1. PICK page \in ListPage :
          /\ page = latest[p] /\ Fits(page, p) /\ page.created <= minute
          /\ page # R!NoPage => Right(page, p)
    BY <1>1 DEF ListTypes, CacheHolds
  <2>2. page # R!NoPage => Right(page, p)'
    BY <1>7, <2>1
  <2> QED
    BY <1>2, <2>1, <2>2
<1>9. ASSUME NEW r \in Clients PROVE ClientHolds(listing[r], scroll[r])'
  <2>1. PICK q \in ListRequest, w \in ListWalk : q = listing[r] /\ w = scroll[r]
    BY ListingTypes
  <2>2. /\ w.started <= minute /\ q.began <= edits
        /\ PageHolds(q, w) /\ ViewHolds(q, w) /\ Shows(q) /\ WalkDown(w) /\ WalkCovers(w)
        /\ q.phase # "idle" => Under(q, w) /\ Covers(q, w)
    BY <2>1, ListingTypes DEF ClientHolds
  <2>3. w.started \in Int /\ q.taken \in Int /\ q.began \in Int /\ q.page \in ListPage
    BY ListBounds DEF ListWalk, ListRequest
  <2>4. PageHolds(q, w)'
    <3>1. Right(q.page, q.position) /\ q.page.created <= minute => Right(q.page, q.position)'
      BY <1>7, <2>3
    <3> QED
      BY <1>2, <2>2, <3>1 DEF PageHolds
  <2>5. ViewHolds(q, w)'
    <3>1. ~(listed'[i].since < w.started) /\ (q.taken <= minute => ~(listed'[i].since < q.taken))
          /\ listed'[i].mark > q.began
      BY <1>2, <1>4, <1>5, <2>2, <2>3
    <3>2. ASSUME q.phase \in {"reload", "answer"}
          PROVE  \A j \in ListIds : /\ q.view[j].sort \in ListSorts
                                    /\ q.view[j].public => listed'[j].public \/ listed'[j].mark > q.began
      BY <1>4, <2>2, <3>1, <3>2 DEF ViewHolds
    <3>3. ASSUME q.phase = "reload"
          PROVE  /\ w.started <= q.taken /\ q.taken <= minute /\ minute <= q.taken + MaxRead
                 /\ \A j \in ListIds : listed'[j].since < q.taken => q.view[j] = listed'[j]
      BY <1>4, <2>2, <3>1, <3>3 DEF ViewHolds
    <3>4. ASSUME q.phase = "answer"
          PROVE  /\ ~R!Moved(q.view, q.page)
                 /\ \A j \in ListIds : listed'[j].since < w.started => q.view[j] = listed'[j]
      BY <1>4, <2>2, <3>1, <3>4 DEF ViewHolds
    <3> QED
      BY <1>2, <3>2, <3>3, <3>4 DEF ViewHolds
  <2>6. Shows(q)'
    <3>1. \A k \in 1..Len(q.items) : q.items[k].id \in ListIds
      <4>1. q.items \in Seq(ListPlace)
        BY DEF ListRequest
      <4> QED
        BY <4>1, ElementOfSeq, CursorsAre
    <3>2. listed'[i].mark > q.began
      BY <1>2, <1>4, <1>5, <2>2, <2>3
    <3> QED
      BY <1>4, <2>2, <3>1, <3>2 DEF Shows
  <2>7. WalkDown(w)'
    BY <2>2 DEF WalkDown
  <2>8. \A j \in ListIds : Sought(j, w)' => Sought(j, w) /\ Where(j)' = Where(j)
    <3> SUFFICES ASSUME NEW j \in ListIds, Sought(j, w)' PROVE Sought(j, w) /\ Where(j)' = Where(j)
      OBVIOUS
    <3>1. listed'[j].since + LatestTTL + MaxRead <= w.started
      BY DEF Sought
    <3>2. j # i
      BY <1>2, <1>4, <1>5, <2>2, <2>3, <3>1, ListBounds
    <3>3. listed'[j] = listed[j]
      BY <1>4, <3>2
    <3> QED
      BY <3>3 DEF Sought, Where
  <2>9. WalkCovers(w)'
    BY <2>2, <2>8 DEF WalkCovers
  <2>10. q.phase # "idle" => Under(q, w)' /\ Covers(q, w)'
    BY <2>2, <2>8 DEF Under, Covers
  <2>11. ClientHolds(q, w)'
    BY <2>4, <2>5, <2>6, <2>7, <2>9, <2>10 DEF ClientHolds
  <2> QED
    BY <1>2, <2>1, <2>11
<1> QED
  BY <1>6, <1>8, <1>9 DEF ListInv

LEMMA InvalidateKeeps ==
  ASSUME ListInv, R!Invalidate
  PROVE  ListInv'
<1>1. ListTypes /\ CacheHolds
  BY DEF ListInv
<1>2. /\ UNCHANGED <<listed, minute, edits, listing, scroll>> /\ owed' = FALSE
      /\ \A p \in R!Cursors : latest'[p] = latest[p] \/ latest'[p] = R!NoPage
      /\ latest' \in [R!Cursors -> ListPage]
  BY <1>1, NoPageFits DEF R!Invalidate, ListTypes
<1>3. ListTypes'
  <2>1. owed' \in BOOLEAN
    BY <1>2, Zenon
  <2>2. \A i \in ListIds : /\ listed'[i].sort \in ListSorts
                           /\ listed'[i].since <= minute' /\ listed'[i].mark <= edits'
    BY <1>1, <1>2 DEF ListTypes
  <2>3. \A r \in Clients : /\ scroll'[r].started <= minute' /\ listing'[r].began <= edits'
                          /\ Len(listing'[r].items) <= ListSize
    BY <1>1, <1>2 DEF ListTypes
  <2>4. /\ listed' \in [ListIds -> ListRow] /\ latest' \in [R!Cursors -> ListPage]
        /\ minute' \in 1..MaxMinute /\ edits' \in 0..MaxEdits
        /\ listing' \in [Clients -> ListRequest] /\ scroll' \in [Clients -> ListWalk]
    BY <1>1, <1>2 DEF ListTypes
  <2> QED
    BY <2>1, <2>2, <2>3, <2>4, Zenon DEF ListTypes
<1>4. CacheHolds'
  <2>1. 0 <= minute
    BY <1>1, SMTT(30) DEF ListTypes
  <2> QED
    BY <1>1, <1>2, <2>1, NoPageFits DEF CacheHolds, Right, Where
<1>5. ASSUME NEW r \in Clients PROVE ClientHolds(listing[r], scroll[r])'
  <2>1. ClientHolds(listing[r], scroll[r])
    BY DEF ListInv
  <2> QED
    BY <1>2, <2>1 DEF ClientHolds, PageHolds, ViewHolds, Shows, WalkDown, WalkCovers, Under, Covers,
         Sought, Right, Where
<1> QED
  BY <1>3, <1>4, <1>5 DEF ListInv

LEMMA TickKeeps ==
  ASSUME ListInv, R!Tick
  PROVE  ListInv'
<1>1. ListTypes /\ CacheHolds /\ minute \in 1..MaxMinute
  BY DEF ListInv, ListTypes
<1>2. /\ UNCHANGED <<listed, owed, edits, listing, scroll>> /\ minute' = minute + 1
      /\ minute + 1 \in 1..MaxMinute
      /\ \A p \in R!Cursors : latest'[p] = latest[p] \/ latest'[p] = R!NoPage
      /\ latest' \in [R!Cursors -> ListPage]
      /\ \A r \in Clients : listing[r].phase = "reload" => minute < listing[r].taken + MaxRead
  BY <1>1, NoPageFits, ListBounds DEF R!Tick, ListTypes
<1>3. ListTypes'
  <2>1. \A i \in ListIds : listed[i].since <= minute + 1
    <3>1. \A i \in ListIds : listed[i].since \in Int
      BY <1>1, ListBounds DEF ListTypes, ListRow
    <3> QED
      BY <1>1, <3>1 DEF ListTypes
  <2>2. \A r \in Clients : scroll[r].started <= minute + 1
    <3>1. \A r \in Clients : scroll[r].started \in Int
      BY <1>1, ListBounds DEF ListTypes, ListWalk
    <3> QED
      BY <1>1, <3>1 DEF ListTypes
  <2> QED
    BY <1>1, <1>2, <2>1, <2>2 DEF ListTypes
<1>4. CacheHolds'
  <2> SUFFICES ASSUME NEW p \in R!Cursors
               PROVE  (/\ Fits(latest[p], p) /\ latest[p].created <= minute
                       /\ latest[p] # R!NoPage => Right(latest[p], p))'
    BY DEF CacheHolds
  <2>1. PICK page \in ListPage :
          /\ page = latest'[p] /\ Fits(page, p) /\ page.created <= minute
          /\ page # R!NoPage => Right(page, p)
    <3>1. CASE latest'[p] = R!NoPage
      BY <1>1, <3>1, NoPageFits
    <3>2. CASE latest'[p] = latest[p]
      BY <1>1, <3>2 DEF CacheHolds, ListTypes
    <3> QED
      BY <1>2, <3>1, <3>2
  <2>2. page.created <= minute + 1
    BY <1>1, <2>1 DEF ListPage
  <2>3. Right(page, p)' <=> Right(page, p)
    BY <1>2 DEF Right, Where
  <2> QED
    BY <1>2, <2>1, <2>2, <2>3
<1>5. ASSUME NEW r \in Clients PROVE ClientHolds(listing[r], scroll[r])'
  <2>1. PICK q \in ListRequest, w \in ListWalk : q = listing[r] /\ w = scroll[r]
    BY ListingTypes
  <2>2. ClientHolds(q, w)
    BY <2>1 DEF ListInv
  <2>3. Right(q.page, q.position)' <=> Right(q.page, q.position)
    BY <1>2 DEF Right, Where
  <2>4. q.page.created <= minute => q.page.created <= minute + 1
    BY <1>1 DEF ListRequest, ListPage
  <2>5. PageHolds(q, w)'
    BY <1>2, <2>2, <2>3, <2>4 DEF ClientHolds, PageHolds
  <2>6. ViewHolds(q, w)'
    <3>1. q.phase = "reload" /\ q.taken <= minute => minute + 1 <= q.taken + MaxRead /\ q.taken <= minute + 1
      BY <1>1, <1>2, <2>1, ListNumbers, SMTT(30) DEF ListRequest
    <3> QED
      BY <1>2, <2>2, <3>1 DEF ClientHolds, ViewHolds
  <2>7. (Shows(q) /\ WalkDown(w) /\ WalkCovers(w))' /\ (q.phase # "idle" => Under(q, w)' /\ Covers(q, w)')
    BY <1>2, <2>2 DEF ClientHolds, Shows, WalkDown, WalkCovers, Under, Covers, Sought, Where
  <2>8. ClientHolds(q, w)'
    BY <2>5, <2>6, <2>7 DEF ClientHolds
  <2> QED
    BY <1>2, <2>1, <2>8
<1> QED
  BY <1>3, <1>4, <1>5 DEF ListInv

LEMMA ListStep == ListInv /\ [R!Next]_reading => ListInv'
<1> SUFFICES ASSUME ListInv, [R!Next]_reading PROVE ListInv'
  OBVIOUS
<1>1. ASSUME NEW i \in ListIds, NEW public \in BOOLEAN, NEW sort \in ListSorts,
             R!Write(i, public, sort)
      PROVE  ListInv'
  BY <1>1, WriteKeeps
<1>2. CASE R!Invalidate
  BY <1>2, InvalidateKeeps
<1>3. CASE R!Tick
  BY <1>3, TickKeeps
<1>4. ASSUME NEW r \in Clients, R!Serve(r) \/ R!Abort(r) PROVE ListInv'
  BY <1>4, LookKeeps, ViewKeeps, ReloadKeeps, AnswerKeeps, AbortKeeps, SMTT(30)
     DEF R!Serve
<1>5. CASE UNCHANGED reading
  BY <1>5 DEF reading, ListInv, ListTypes, CacheHolds, ClientHolds, PageHolds, ViewHolds, Shows,
       WalkDown, WalkCovers, Under, Covers, Sought, Right, Where
<1> QED
  BY <1>1, <1>2, <1>3, <1>4, <1>5 DEF R!Next

LEMMA ListHolds == AllSpec => []ListInv
<1>1. AllInit => ListInv
  BY ListInit DEF AllInit
<1>2. ListInv /\ [AllNext]_all => ListInv'
  <2>1. [AllNext]_all => [R!Next]_reading
    BY DEF AllNext, all, reading
  <2> QED
    BY <2>1, ListStep
<1> QED
  BY <1>1, <1>2, PTL DEF AllSpec

(* The walk through the latest list: WalkComplete and WalkDescends.        *)
THEOREM LatestWalkHolds == AllSpec => []LatestWalk
<1>1. ListInv => LatestWalk
  <2> SUFFICES ASSUME ListInv PROVE LatestWalk
    OBVIOUS
  <2>1. ASSUME NEW r \in Clients
        PROVE  /\ WalkDown(scroll[r]) /\ WalkCovers(scroll[r])
               /\ DOMAIN scroll[r].items = 1..Len(scroll[r].items)
    BY ListingTypes DEF ClientHolds, ListWalk
  <2>2. R!WalkDescends
    BY <2>1 DEF R!WalkDescends, WalkDown, Descends
  <2>3. R!WalkComplete
    <3> SUFFICES ASSUME NEW r \in Clients, scroll[r].over, scroll[r].count > 0, NEW i \in ListIds,
                        listed[i].public, listed[i].since + LatestTTL + MaxRead <= scroll[r].started
                 PROVE  R!Position(i, listed[i].sort) \in R!Range(scroll[r].items)
      BY DEF R!WalkComplete
    <3>1. Lists(scroll[r].items, Where(i))
      BY <2>1 DEF WalkCovers, Sought
    <3> QED
      BY <2>1, <3>1 DEF Lists, Where, R!Range
  <2> QED
    BY <2>2, <2>3 DEF LatestWalk
<1> QED
  BY <1>1, ListHolds, PTL

(* No response lists an article withdrawn before its request.              *)
THEOREM NothingWithdrawnHolds == AllSpec => []NothingWithdrawn
<1>1. ListInv => NothingWithdrawn
  <2> SUFFICES ASSUME ListInv PROVE NothingWithdrawn
    OBVIOUS
  <2>1. \A r \in Clients : /\ Shows(listing[r])
                           /\ DOMAIN listing[r].items = 1..Len(listing[r].items)
    BY ListingTypes DEF ClientHolds, ListRequest
  <2> QED
    BY <2>1 DEF NothingWithdrawn, R!NothingWithdrawn, Shows
<1> QED
  BY <1>1, ListHolds, PTL

LEMMA ListTypesOK == AllSpec => []R!TypeOK
<1>1. ListInv => R!TypeOK
  <2> SUFFICES ASSUME ListInv PROVE R!TypeOK
    OBVIOUS
  <2>1. listed \in [ListIds -> [public : BOOLEAN, sort : ListSorts, since : R!LongAgo..MaxMinute,
                                mark : 0..MaxEdits]]
    <3>1. \A i \in ListIds : listed[i] \in [public : BOOLEAN, sort : ListSorts,
                                            since : R!LongAgo..MaxMinute, mark : 0..MaxEdits]
      <4> SUFFICES ASSUME NEW i \in ListIds
                   PROVE  listed[i] \in [public : BOOLEAN, sort : ListSorts,
                                         since : R!LongAgo..MaxMinute, mark : 0..MaxEdits]
        OBVIOUS
      <4>1. PICK row \in ListRow : row = listed[i] /\ row.sort \in ListSorts
        BY DEF ListInv, ListTypes
      <4> QED
        BY <4>1 DEF ListRow
    <3> QED
      BY <3>1 DEF ListInv, ListTypes
  <2>2. ASSUME NEW p \in R!Cursors
        PROVE  /\ R!Range(latest[p].candidates) \subseteq R!Cursors
               /\ Len(latest[p].candidates) <= ListSize + 1
               /\ latest[p].created \in 0..MaxMinute
    <3>1. PICK page \in ListPage : page = latest[p] /\ Fits(page, p)
      BY DEF ListInv, ListTypes, CacheHolds
    <3>2. page.candidates \in Seq(ListPlace) /\ page.created \in 0..MaxMinute
      BY DEF ListPage
    <3>3. R!Range(page.candidates) \subseteq ListPlace
      BY <3>2, ElementOfSeq DEF R!Range
    <3> QED
      BY <3>1, <3>2, <3>3, CursorsAre DEF Fits
  <2>3. ASSUME NEW r \in Clients
        PROVE  /\ listing[r].phase \in {"idle", "cache", "read", "reload", "answer"}
               /\ listing[r].position \in R!Cursors /\ Len(listing[r].items) <= ListSize
               /\ listing[r].checked \in 0..MaxChecked /\ scroll[r].position \in R!Cursors
    BY ListingTypes DEF ListRequest, ListWalk
  <2>4. owed \in BOOLEAN /\ minute \in 0..MaxMinute /\ edits \in 0..MaxEdits
    <3>1. owed \in BOOLEAN
      BY Zenon DEF ListInv, ListTypes
    <3> QED
      BY <3>1 DEF ListInv, ListTypes
  <2> QED
    BY <2>1, <2>2, <2>3, <2>4 DEF R!TypeOK
<1> QED
  BY <1>1, ListHolds, PTL

-----------------------------------------------------------------------------
(***************************************************************************)
(* The search.                                                             *)
(***************************************************************************)
SearchItem   == [id : HitIds, vector : Nat]
SearchFact   == [public : BOOLEAN, vector : Nat, mark : 0..MaxUpdates]
SearchDocs   == [HitIds -> [visible : BOOLEAN, vector : Nat]]
SearchPit    == [open : BOOLEAN, docs : SearchDocs \cup {<<>>}, expires : 0..MaxHour + KeepAlive,
                 given : BOOLEAN, stray : BOOLEAN]
SearchCursor == [pit : 0..MaxSearches, after : 0..Len(Hits), items : Seq(SearchItem), offset : Nat,
                 expires : Nat]
Paging       == {"search", "read", "reply"}
SearchRequest ==
  [phase : Paging \cup {"idle", "recall", "fuse", "current"}, pit : 0..MaxSearches,
   after : 0..Len(Hits), scanned : 0..MaxCandidates, exhausted : BOOLEAN, batch : Seq(HitIds),
   visible : Seq(HitIds), bm : Seq(HitIds), knn : Seq(SearchItem), plan : SearchCursor,
   items : Seq(SearchItem), began : 0..MaxUpdates]
FoundWalk    == [basis : Seq(HitIds), items : Seq(SearchItem), began : 0..MaxUpdates,
                 over : BOOLEAN, count : 0..MaxSearches]

SearchTypes ==
  /\ docs \in [HitIds -> SearchFact] /\ \A i \in HitIds : docs[i].mark <= updates
  /\ index \in SearchDocs /\ hybrid \in BOOLEAN
  /\ pits \in [1..MaxSearches -> SearchPit]
  /\ \A n \in 1..found.count : pits[n].docs \in SearchDocs
  /\ search \in SearchRequest /\ search.began <= updates
  /\ Len(search.items) <= SearchSize /\ Len(search.visible) <= SearchSize + 1
  /\ cursor \in SearchCursor
  /\ found \in FoundWalk /\ found.began <= updates
  /\ hour \in 0..MaxHour /\ updates \in 0..MaxUpdates /\ mishaps \in 0..MaxMishaps

(* Which PIT is whose.                                                     *)
PitHolds ==
  /\ search.phase = "current" => search.pit = 0
  /\ search.phase \in Paging \cup {"recall", "fuse"} => search.pit = found.count /\ found.count > 0
  /\ S!PitsAccounted

In(s, i)  == \E k \in 1..Len(s) : s[k] = i
Has(s, i) == \E k \in 1..Len(s) : s[k].id = i
Rising(s) == \A j, k \in 1..Len(s) : j < k => S!Rank(s[j]) < S!Rank(s[k])
Distinct(s) == \A j, k \in 1..Len(s) : s[j] = s[k] => j = k

(* What a cursor has passed, and an article nothing happened to.           *)
Passed(c, i) == IF c.items = <<>> THEN S!Rank(i) <= c.after
                                  ELSE \E k \in 1..c.offset : c.items[k].id = i
Old(i, w)    == docs[i].public /\ docs[i].mark <= w.began

(* The walk has shown what its cursor has passed, and nothing else.        *)
WalkAt(c, w) ==
  /\ \A k \in 1..Len(w.items) : Passed(c, w.items[k].id)
  /\ \A i \in HitIds : In(w.basis, i) /\ Old(i, w) /\ Passed(c, i) => Has(w.items, i)

InBasis(w) ==
  /\ Distinct(w.basis)
  /\ \A k \in 1..Len(w.items) : In(w.basis, w.items[k].id)
  /\ \A j, k \in 1..Len(w.items) : j < k =>
       \E a, b \in 1..Len(w.basis) : a < b /\ w.basis[a] = w.items[j].id /\ w.basis[b] = w.items[k].id
  /\ w.over => \A i \in HitIds : In(w.basis, i) /\ Old(i, w) => Has(w.items, i)

(* A cursor over the frozen order of a hybrid query.                       *)
FrozenHolds(c, w) ==
  /\ c.offset < Len(c.items) /\ Len(w.basis) = Len(c.items)
  /\ \A k \in 1..Len(c.items) :
       /\ w.basis[k] = c.items[k].id
       /\ c.items[k].vector # 0 /\ docs[c.items[k].id].mark <= w.began
            => c.items[k].vector = docs[c.items[k].id].vector
  /\ WalkAt(c, w)

(* A cursor into a PIT, or the beginning of a walk through one.            *)
PagedHolds(c, w) ==
  /\ c.items = <<>> /\ c.offset = 0
  /\ w.count > 0 /\ (c # S!NoCursor => c.pit = w.count)
  /\ w.basis = S!Keyword(pits[w.count].docs)
  /\ WalkAt(c, w)

(* A request that pages through a PIT.                                     *)
Between(i, c, q) == c.after < S!Rank(i) /\ S!Rank(i) <= q.after
BatchHolds(q, c, w) ==
  /\ c.after <= q.after
  /\ Rising(q.visible)
  /\ \A k \in 1..Len(q.visible) :
       /\ In(w.basis, q.visible[k]) /\ Between(q.visible[k], c, q)
       /\ docs[q.visible[k]].mark <= q.began => docs[q.visible[k]].public
  /\ \A i \in HitIds : In(w.basis, i) /\ Old(i, w) /\ Between(i, c, q) =>
       \/ In(q.visible, i)
       \/ Len(q.visible) > SearchSize /\ S!Rank(i) > S!Rank(q.visible[SearchSize + 1])
  /\ q.phase \in {"search", "read"} => Len(q.visible) <= SearchSize
  /\ q.phase = "search" => q.scanned < MaxCandidates
  /\ q.phase = "read" =>
       /\ Len(q.batch) > 0 /\ Rising(q.batch)
       /\ \A k \in 1..Len(q.batch) : In(w.basis, q.batch[k]) /\ S!Rank(q.batch[k]) > q.after
       /\ \A i \in HitIds : In(w.basis, i) /\ S!Rank(i) > q.after =>
            In(q.batch, i) \/ (~q.exhausted /\ S!Rank(i) > S!Rank(q.batch[Len(q.batch)]))
  /\ q.phase = "reply" =>
       /\ Len(q.visible) > SearchSize \/ q.scanned = MaxCandidates \/ q.exhausted
       /\ q.exhausted => \A i \in HitIds : In(w.basis, i) => S!Rank(i) <= q.after

(* A response.                                                             *)
Fresh(q) ==
  \A k \in 1..Len(q.items) :
    docs[q.items[k].id].mark <= q.began =>
      docs[q.items[k].id].public /\ q.items[k].vector \in {0, docs[q.items[k].id].vector}

RequestHolds(q, c, w) ==
  /\ q.phase = "idle" => Fresh(q)
  /\ q.phase \in Paging => PagedHolds(c, w) /\ BatchHolds(q, c, w)
  /\ q.phase \in {"recall", "fuse"} => c = S!NoCursor /\ w.items = <<>>
  /\ q.phase = "current" => q.plan = c /\ c.items # <<>>

WalkHolds(q, c, w) ==
  /\ InBasis(w)
  /\ c # S!NoCursor /\ c.items = <<>> => PagedHolds(c, w)
  /\ c.items # <<>> => FrozenHolds(c, w)
  /\ RequestHolds(q, c, w)

SearchInv == SearchTypes /\ PitHolds /\ WalkHolds(search, cursor, found)

-----------------------------------------------------------------------------
(* Ranks, and what a query finds.                                          *)

LEMMA SearchBounds ==
  /\ HitIds \subseteq Nat \ {0}
  /\ Hits \in Seq(HitIds) /\ Distinct(Hits) /\ Len(Hits) \in Nat
  /\ Near \in Seq(HitIds)
  /\ SearchSize \in Nat \ {0} /\ BatchSize \in Nat \ {0}
  /\ MaxCandidates \in Nat /\ MaxCandidates >= BatchSize
  /\ BM25Candidates \in Nat \ {0} /\ KNNCandidates \in Nat \ {0}
  /\ KeepAlive \in Nat \ {0} /\ HybridTTL \in Nat \ {0}
  /\ MaxHour \in Nat /\ MaxUpdates \in Nat /\ MaxSearches \in Nat /\ MaxMishaps \in Nat
<1>1. S!ArticleSearchAssumption
  BY ReadersAssumption
<1>2. Hits \in Seq(HitIds) /\ S!IsInjective(Hits) /\ Near \in Seq(HitIds)
  BY <1>1 DEF S!ArticleSearchAssumption
<1>3. Distinct(Hits) /\ Len(Hits) \in Nat
  BY <1>2 DEF S!IsInjective, Distinct
<1> QED
  BY <1>1, <1>2, <1>3 DEF S!ArticleSearchAssumption

(* The same of the numbers alone.                                          *)
LEMMA SearchNumbers ==
  /\ SearchSize \in Nat /\ SearchSize > 0 /\ BatchSize \in Nat /\ BatchSize > 0
  /\ MaxCandidates \in Nat /\ MaxCandidates >= BatchSize
  /\ KeepAlive \in Nat /\ KeepAlive > 0 /\ HybridTTL \in Nat /\ HybridTTL > 0
  /\ MaxHour \in Nat /\ MaxUpdates \in Nat /\ MaxSearches \in Nat /\ MaxMishaps \in Nat
  BY SearchBounds

LEMMA SameInSearch ==
  /\ \A X : S!Cardinality(X) = Cardinality(X)
  /\ \A X, B : S!Ordered(X, B) = Ordered(X, B)
  /\ \A s, K : S!At(s, K) = At(s, K)
  /\ \A K, n : S!Nth(K, n) = Nth(K, n)
  /\ \A s, n : S!Top(s, n) = Top(s, n)
<1>1. \A X : S!Cardinality(X) = Cardinality(X)
  BY Zenon DEF S!Cardinality, Cardinality
<1>2. \A X, B : S!Ordered(X, B) = Ordered(X, B)
  <2>1. \A X, B, x : S!Place(X, B, x) = Place(X, B, x)
    BY <1>1 DEF S!Place, Place
  <2> QED
    BY <1>1, <2>1 DEF S!Ordered, Ordered
<1>3. \A K, n : S!Nth(K, n) = Nth(K, n)
  BY <1>1 DEF S!Nth, Nth
<1>4. \A s, K : S!At(s, K) = At(s, K)
  BY <1>1, <1>3 DEF S!At, At
<1>5. \A s, n : S!Top(s, n) = Top(s, n)
  BY Zenon DEF S!Top, Top
<1> QED
  BY <1>1, <1>2, <1>3, <1>4, <1>5

LEMMA Ranks ==
  /\ \A k \in 1..Len(Hits) : S!Rank(Hits[k]) = k
  /\ \A i : In(Hits, i) => S!Rank(i) \in 1..Len(Hits) /\ Hits[S!Rank(i)] = i
  /\ Rising(Hits)
<1>1. DOMAIN Hits = 1..Len(Hits)
  BY SearchBounds
<1>2. \A i : In(Hits, i) => S!Rank(i) \in 1..Len(Hits) /\ Hits[S!Rank(i)] = i
  BY <1>1 DEF S!Rank, In
<1>3. \A k \in 1..Len(Hits) : S!Rank(Hits[k]) = k
  BY <1>2, SearchBounds DEF In, Distinct
<1> QED
  BY <1>2, <1>3 DEF Rising

LEMMA Selected ==
  ASSUME NEW T, NEW s \in Seq(T), NEW K \in SUBSET (1..Len(s))
  PROVE  /\ S!At(s, K) \in Seq(T) /\ Len(S!At(s, K)) <= Len(s)
         /\ \A m \in 1..Len(S!At(s, K)) : \E k \in K : S!At(s, K)[m] = s[k]
         /\ \A k \in K : In(S!At(s, K), s[k])
         /\ \A l, m \in 1..Len(S!At(s, K)) : l < m =>
              \E j, k \in K : j < k /\ S!At(s, K)[l] = s[j] /\ S!At(s, K)[m] = s[k]
<1> DEFINE t == At(s, K)
<1>1. S!At(s, K) = t
  BY SameInSearch
<1>2. /\ t \in Seq(T) /\ Len(t) = Cardinality(K) /\ Cardinality(K) \in 0..Len(s)
      /\ \A n \in 1..Cardinality(K) : Nth(K, n) \in K /\ t[n] = s[Nth(K, n)]
      /\ \A k \in K : \E n \in 1..Cardinality(K) : Nth(K, n) = k
      /\ \A m, n \in 1..Cardinality(K) : m < n => Nth(K, m) < Nth(K, n)
  BY AtSelects
<1> HIDE DEF t
<1>3. \A k \in K : In(t, s[k])
  BY <1>2 DEF In
<1>4. \A m \in 1..Len(t) : \E k \in K : t[m] = s[k]
  BY <1>2
<1>5. \A l, m \in 1..Len(t) : l < m => \E j, k \in K : j < k /\ t[l] = s[j] /\ t[m] = s[k]
  <2> SUFFICES ASSUME NEW l \in 1..Len(t), NEW m \in 1..Len(t), l < m
               PROVE  \E j, k \in K : j < k /\ t[l] = s[j] /\ t[m] = s[k]
    OBVIOUS
  <2>1. /\ Nth(K, l) \in K /\ Nth(K, m) \in K /\ Nth(K, l) < Nth(K, m)
        /\ t[l] = s[Nth(K, l)] /\ t[m] = s[Nth(K, m)]
    BY <1>2
  <2> QED
    BY <2>1
<1>6. Len(t) <= Len(s)
  BY <1>2
<1> QED
  BY <1>1, <1>2, <1>3, <1>4, <1>5, <1>6

LEMMA SelectedRises ==
  ASSUME NEW s \in Seq(HitIds), NEW K \in SUBSET (1..Len(s)), Rising(s)
  PROVE  Rising(S!At(s, K))
<1>1. \A l, m \in 1..Len(S!At(s, K)) : l < m =>
        \E j, k \in K : j < k /\ S!At(s, K)[l] = s[j] /\ S!At(s, K)[m] = s[k]
  BY Selected
<1> QED
  BY <1>1 DEF Rising

LEMMA CutRises ==
  ASSUME NEW s \in Seq(HitIds), NEW n \in Nat
  PROVE  /\ S!Top(s, n) \in Seq(HitIds)
         /\ Len(S!Top(s, n)) = IF n < Len(s) THEN n ELSE Len(s)
         /\ \A k \in 1..Len(S!Top(s, n)) : k \in 1..Len(s) /\ S!Top(s, n)[k] = s[k]
         /\ Rising(s) => Rising(S!Top(s, n))
<1>1. S!Top(s, n) = Top(s, n)
  BY SameInSearch
<1>2. /\ Top(s, n) \in Seq(HitIds)
      /\ Len(Top(s, n)) = IF n < Len(s) THEN n ELSE Len(s)
      /\ \A k \in 1..Len(Top(s, n)) : Top(s, n)[k] = s[k]
  BY TopIsPrefix
<1>3. \A k \in 1..Len(Top(s, n)) : k \in 1..Len(s)
  BY <1>2
<1>4. Rising(s) => Rising(Top(s, n))
  BY <1>2, <1>3 DEF Rising
<1> QED
  BY <1>1, <1>2, <1>3, <1>4

LEMMA RisingGlued ==
  ASSUME NEW s \in Seq(HitIds), NEW t \in Seq(HitIds)
  PROVE  /\ s \o t \in Seq(HitIds) /\ Len(s \o t) = Len(s) + Len(t)
         /\ \A k \in 1..Len(s \o t) :
              \/ k \in 1..Len(s) /\ (s \o t)[k] = s[k]
              \/ k > Len(s) /\ k - Len(s) \in 1..Len(t) /\ (s \o t)[k] = t[k - Len(s)]
         /\ \A i : In(s, i) \/ In(t, i) => In(s \o t, i)
         /\ (/\ Rising(s) /\ Rising(t)
             /\ \A j \in 1..Len(s), k \in 1..Len(t) : S!Rank(s[j]) < S!Rank(t[k]))
            => Rising(s \o t)
<1>1. /\ s \o t \in Seq(HitIds) /\ Len(s \o t) = Len(s) + Len(t)
      /\ \A k \in 1..Len(s) + Len(t) : (s \o t)[k] = IF k <= Len(s) THEN s[k] ELSE t[k - Len(s)]
      /\ Len(s) \in Nat /\ Len(t) \in Nat
  BY ConcatProperties
<1>2. \A k \in 1..Len(s \o t) :
        \/ k \in 1..Len(s) /\ (s \o t)[k] = s[k]
        \/ k > Len(s) /\ k - Len(s) \in 1..Len(t) /\ (s \o t)[k] = t[k - Len(s)]
  BY <1>1
<1>3. ASSUME NEW i, In(s, i) PROVE In(s \o t, i)
  BY <1>1, <1>3 DEF In
<1>4. ASSUME NEW i, In(t, i) PROVE In(s \o t, i)
  <2>1. PICK k \in 1..Len(t) : t[k] = i
    BY <1>4 DEF In
  <2>2. k + Len(s) \in 1..Len(s) + Len(t) /\ k + Len(s) - Len(s) = k /\ ~(k + Len(s) <= Len(s))
    BY <1>1
  <2> QED
    BY <1>1, <2>1, <2>2 DEF In
<1>5. ASSUME Rising(s), Rising(t),
             \A j \in 1..Len(s), k \in 1..Len(t) : S!Rank(s[j]) < S!Rank(t[k])
      PROVE  Rising(s \o t)
  <2> SUFFICES ASSUME NEW j \in 1..Len(s \o t), NEW k \in 1..Len(s \o t), j < k
               PROVE  S!Rank((s \o t)[j]) < S!Rank((s \o t)[k])
    BY DEF Rising
  <2>1. CASE k \in 1..Len(s)
    <3>1. j \in 1..Len(s) /\ (s \o t)[j] = s[j] /\ (s \o t)[k] = s[k]
      BY <1>1, <2>1
    <3> QED
      BY <1>5, <2>1, <3>1 DEF Rising
  <2>2. CASE k \notin 1..Len(s) /\ j \in 1..Len(s)
    <3>1. (s \o t)[j] = s[j] /\ k - Len(s) \in 1..Len(t) /\ (s \o t)[k] = t[k - Len(s)]
      BY <1>1, <2>2
    <3> QED
      BY <1>5, <2>2, <3>1
  <2>3. CASE k \notin 1..Len(s) /\ j \notin 1..Len(s)
    <3>1. /\ j - Len(s) \in 1..Len(t) /\ (s \o t)[j] = t[j - Len(s)]
          /\ k - Len(s) \in 1..Len(t) /\ (s \o t)[k] = t[k - Len(s)]
          /\ j - Len(s) < k - Len(s)
      BY <1>1, <2>3
    <3> QED
      BY <1>5, <3>1 DEF Rising
  <2> QED
    BY <2>1, <2>2, <2>3
<1> QED
  BY <1>1, <1>2, <1>3, <1>4, <1>5, Zenon

LEMMA KeywordFinds ==
  ASSUME NEW d \in SearchDocs
  PROVE  /\ S!Keyword(d) \in Seq(HitIds) /\ Rising(S!Keyword(d)) /\ Distinct(S!Keyword(d))
         /\ \A k \in 1..Len(S!Keyword(d)) : In(Hits, S!Keyword(d)[k])
<1> DEFINE K == {k \in DOMAIN Hits : d[Hits[k]].visible}
           t == S!Keyword(d)
<1>1. DOMAIN Hits = 1..Len(Hits) /\ Hits \in Seq(HitIds)
  BY SearchBounds
<1>2. K \in SUBSET (1..Len(Hits))
  BY <1>1
<1>3. t = S!At(Hits, K)
  BY DEF S!Keyword, S!Found
<1> HIDE DEF K
<1>4. t \in Seq(HitIds) /\ Rising(t)
  BY <1>1, <1>2, <1>3, Selected, SelectedRises, Ranks
<1>5. \A m \in 1..Len(t) : \E k \in K : t[m] = Hits[k]
  BY <1>1, <1>2, <1>3, Selected
<1>6. \A k \in 1..Len(t) : In(Hits, t[k])
  BY <1>2, <1>5 DEF In
<1> HIDE DEF t
<1>7. Distinct(t)
  <2> SUFFICES ASSUME NEW j \in 1..Len(t), NEW k \in 1..Len(t), t[j] = t[k] PROVE j = k
    BY DEF Distinct
  <2>1. S!Rank(t[j]) \in Int
    BY <1>6, Ranks
  <2>2. ~(j < k) /\ ~(k < j)
    BY <1>4, <2>1 DEF Rising
  <2>3. j \in Int /\ k \in Int
    OBVIOUS
  <2> QED
    BY <2>2, <2>3
<1> QED
  BY <1>4, <1>6, <1>7 DEF t

-----------------------------------------------------------------------------
(* The steps of the search.                                                *)

LEMMA IdleSearch ==
  /\ S!NoCursor \in SearchCursor /\ S!NoCursor.items = <<>> /\ S!NoCursor.offset = 0
  /\ S!NoCursor.pit = 0 /\ S!NoCursor.after = 0
  /\ S!Idle \in SearchRequest /\ S!Idle.phase = "idle" /\ S!Idle.items = <<>>
  /\ S!Idle.visible = <<>> /\ S!Idle.batch = <<>> /\ S!Idle.pit = 0 /\ S!Idle.began = 0
  /\ S!Idle.after = 0 /\ S!Idle.scanned = 0 /\ S!Idle.exhausted = FALSE
  /\ S!NoWalk \in FoundWalk /\ S!NoWalk.items = <<>> /\ S!NoWalk.basis = <<>>
  /\ S!NoWalk.count = 0 /\ S!NoWalk.began = 0 /\ S!NoWalk.over = FALSE
  /\ S!NoPit \in SearchPit /\ S!NoPit.open = FALSE
  /\ Len(<<>>) = 0
<1>1. <<>> \in Seq(SearchItem) /\ <<>> \in Seq(HitIds) /\ Len(<<>>) = 0
  OBVIOUS
<1>2. 0 \in 0..MaxSearches /\ 0 \in 0..Len(Hits) /\ 0 \in 0..MaxCandidates /\ 0 \in 0..MaxUpdates
      /\ 0 \in 0..MaxHour + KeepAlive /\ 0 \in Nat
  BY SearchBounds
<1>3. S!NoCursor \in SearchCursor /\ S!NoCursor.items = <<>> /\ S!NoCursor.offset = 0
      /\ S!NoCursor.pit = 0 /\ S!NoCursor.after = 0
  BY <1>1, <1>2 DEF S!NoCursor, SearchCursor
<1>4. /\ S!Idle \in SearchRequest /\ S!Idle.phase = "idle" /\ S!Idle.items = <<>>
      /\ S!Idle.visible = <<>> /\ S!Idle.batch = <<>> /\ S!Idle.pit = 0 /\ S!Idle.began = 0
      /\ S!Idle.after = 0 /\ S!Idle.scanned = 0 /\ S!Idle.exhausted = FALSE
  BY <1>1, <1>2, <1>3 DEF S!Idle, SearchRequest
<1>5. /\ S!NoWalk \in FoundWalk /\ S!NoWalk.items = <<>> /\ S!NoWalk.basis = <<>>
      /\ S!NoWalk.count = 0 /\ S!NoWalk.began = 0 /\ S!NoWalk.over = FALSE
  BY <1>1, <1>2 DEF S!NoWalk, FoundWalk
<1>6. S!NoPit \in SearchPit /\ S!NoPit.open = FALSE
  BY <1>2 DEF S!NoPit, SearchPit
<1> QED
  BY <1>1, <1>3, <1>4, <1>5, <1>6

LEMMA Empties ==
  /\ \A i : ~In(<<>>, i) /\ ~Has(<<>>, i)
  /\ Rising(<<>>) /\ Distinct(<<>>)
  BY DEF In, Has, Rising, Distinct

LEMMA SearchInit == S!Init => SearchInv
<1> SUFFICES ASSUME S!Init PROVE SearchInv
  OBVIOUS
<1>1. /\ search = S!Idle /\ cursor = S!NoCursor /\ found = S!NoWalk
      /\ hour = 0 /\ updates = 0 /\ mishaps = 0 /\ hybrid \in BOOLEAN
  BY Zenon DEF S!Init
<1>2. docs \in [HitIds -> SearchFact] /\ (\A i \in HitIds : docs[i].mark = 0)
      /\ index \in SearchDocs
  BY SearchBounds DEF S!Init, SearchFact, SearchDocs
<1>3. pits \in [1..MaxSearches -> SearchPit] /\ \A n \in 1..MaxSearches : pits[n].open = FALSE
  BY IdleSearch DEF S!Init
<1>4. SearchTypes
  <2>1. hybrid \in BOOLEAN
    BY <1>1, Zenon
  <2>2. docs \in [HitIds -> SearchFact] /\ (\A i \in HitIds : docs[i].mark <= updates)
        /\ index \in SearchDocs
    BY <1>1, <1>2
  <2>3. search \in SearchRequest /\ cursor \in SearchCursor /\ found \in FoundWalk
    BY <1>1, IdleSearch
  <2>4. /\ \A n \in 1..found.count : pits[n].docs \in SearchDocs
        /\ search.began <= updates /\ found.began <= updates
        /\ Len(search.items) <= SearchSize /\ Len(search.visible) <= SearchSize + 1
    BY <1>1, IdleSearch, SearchBounds
  <2>5. hour \in 0..MaxHour /\ updates \in 0..MaxUpdates /\ mishaps \in 0..MaxMishaps
    BY <1>1, SearchBounds
  <2> QED
    BY <1>3, <2>1, <2>2, <2>3, <2>4, <2>5, Zenon DEF SearchTypes
<1>5. PitHolds
  <2>1. S!PitsAccounted
    BY <1>3 DEF S!PitsAccounted, S!Open
  <2> QED
    BY <1>1, <2>1, IdleSearch DEF PitHolds, Paging
<1>6. WalkHolds(search, cursor, found)
  <2>1. InBasis(found)
    BY <1>1, IdleSearch, Empties DEF InBasis
  <2>2. RequestHolds(search, cursor, found)
    BY <1>1, IdleSearch DEF RequestHolds, Fresh, Paging
  <2> QED
    BY <1>1, <2>1, <2>2, IdleSearch DEF WalkHolds
<1> QED
  BY <1>4, <1>5, <1>6 DEF SearchInv

LEMMA SearchParts ==
  ASSUME SearchInv
  PROVE  /\ search \in SearchRequest /\ cursor \in SearchCursor /\ found \in FoundWalk
         /\ WalkHolds(search, cursor, found)
         /\ search.began <= updates /\ Len(search.items) <= SearchSize
         /\ Len(search.visible) <= SearchSize + 1 /\ found.began <= updates
         /\ search.phase = "current" => search.pit = 0
         /\ search.phase \in Paging \cup {"recall", "fuse"} => search.pit = found.count /\ found.count > 0
         /\ pits \in [1..MaxSearches -> SearchPit]
         /\ \A n \in 1..found.count : pits[n].docs \in SearchDocs
         /\ docs \in [HitIds -> SearchFact] /\ index \in SearchDocs
         /\ \A i \in HitIds : docs[i].mark <= updates
         /\ hour \in 0..MaxHour /\ updates \in 0..MaxUpdates /\ mishaps \in 0..MaxMishaps
  BY DEF SearchInv, SearchTypes, PitHolds

(* What the walk promises depends on the articles, the index, the request   *)
(* and the cursor, and on nothing else.                                    *)
LEMMA WalkUnseen ==
  ASSUME UNCHANGED <<docs, pits, search, cursor, found>>, WalkHolds(search, cursor, found)
  PROVE  WalkHolds(search, cursor, found)'
<1>1. docs' = docs /\ pits' = pits /\ search' = search /\ cursor' = cursor /\ found' = found
  OBVIOUS
<1>2. InBasis(found)' <=> InBasis(found)
  BY <1>1 DEF InBasis, Old
<1>3. WalkAt(cursor, found)' <=> WalkAt(cursor, found)
  BY <1>1 DEF WalkAt, Old
<1>4. PagedHolds(cursor, found)' <=> PagedHolds(cursor, found)
  BY <1>1, <1>3 DEF PagedHolds
<1>5. FrozenHolds(cursor, found)' <=> FrozenHolds(cursor, found)
  BY <1>1, <1>3 DEF FrozenHolds
<1>6. BatchHolds(search, cursor, found)' <=> BatchHolds(search, cursor, found)
  BY <1>1 DEF BatchHolds, Old
<1>7. Fresh(search)' <=> Fresh(search)
  BY <1>1 DEF Fresh
<1>8. RequestHolds(search, cursor, found)' <=> RequestHolds(search, cursor, found)
  BY <1>1, <1>4, <1>6, <1>7 DEF RequestHolds
<1> QED
  BY <1>1, <1>2, <1>4, <1>5, <1>8 DEF WalkHolds

(* A step of the request, which changes no article.                        *)
LEMMA SearchMoves ==
  ASSUME SearchInv, NEW q \in SearchRequest, NEW c \in SearchCursor, NEW w \in FoundWalk,
         search' = q, cursor' = c, found' = w, UNCHANGED <<docs, index, hybrid, hour, updates>>,
         q.began <= updates, Len(q.items) <= SearchSize, Len(q.visible) <= SearchSize + 1,
         w.began <= updates, w.count = found.count, mishaps' \in 0..MaxMishaps,
         pits' \in [1..MaxSearches -> SearchPit],
         \A n \in 1..MaxSearches : pits'[n].docs = pits[n].docs,
         q.phase = "current" => q.pit = 0,
         q.phase \in Paging \cup {"recall", "fuse"} => q.pit = w.count /\ w.count > 0,
         S!PitsAccounted', WalkHolds(q, c, w)
  PROVE  SearchInv'
<1>1. SearchTypes
  BY DEF SearchInv
<1>2. w.count \in 0..MaxSearches /\ \A n \in 1..w.count : n \in 1..MaxSearches
  BY SearchBounds DEF FoundWalk
<1>3. SearchTypes'
  <2>1. hybrid' \in BOOLEAN
    BY <1>1, Zenon DEF SearchTypes
  <2>2. /\ docs' \in [HitIds -> SearchFact] /\ \A i \in HitIds : docs'[i].mark <= updates'
        /\ index' \in SearchDocs
        /\ hour' \in 0..MaxHour /\ updates' \in 0..MaxUpdates
    BY <1>1 DEF SearchTypes
  <2>3. \A n \in 1..found'.count : pits'[n].docs \in SearchDocs
    BY <1>1, <1>2 DEF SearchTypes
  <2>4. /\ search' \in SearchRequest /\ search'.began <= updates'
        /\ Len(search'.items) <= SearchSize /\ Len(search'.visible) <= SearchSize + 1
        /\ cursor' \in SearchCursor /\ found' \in FoundWalk /\ found'.began <= updates'
    OBVIOUS
  <2> QED
    BY <2>1, <2>2, <2>3, <2>4, Zenon DEF SearchTypes
<1>4. PitHolds'
  BY DEF PitHolds
<1>5. PagedHolds(c, w)' <=> PagedHolds(c, w)
  BY <1>2, SMTT(30) DEF PagedHolds, WalkAt, Old
<1>6. WalkHolds(q, c, w)'
  BY <1>5 DEF WalkHolds, InBasis, FrozenHolds, WalkAt, Old, RequestHolds, BatchHolds, Fresh
<1> QED
  BY <1>3, <1>4, <1>6 DEF SearchInv

LEMMA WrittenKeeps ==
  ASSUME SearchInv, NEW i \in HitIds, NEW row \in SearchFact,
         updates < MaxUpdates, updates' = updates + 1, row.mark = updates + 1,
         docs' = [docs EXCEPT ![i] = row],
         UNCHANGED <<index, hybrid, pits, search, cursor, found, hour, mishaps>>
  PROVE  SearchInv'
<1>1. PICK q \in SearchRequest, c \in SearchCursor, w \in FoundWalk :
        q = search /\ c = cursor /\ w = found
  BY SearchParts
<1>2. WalkHolds(q, c, w) /\ q.began <= updates /\ w.began <= updates
  BY <1>1, SearchParts
<1>3. /\ docs' \in [HitIds -> SearchFact] /\ docs'[i] = row
      /\ \A j \in HitIds : j # i => docs'[j] = docs[j]
      /\ updates \in Nat /\ updates + 1 \in 0..MaxUpdates
  BY SearchParts, SearchBounds, SMTT(30)
<1>4. /\ \A j \in HitIds : docs'[j].mark <= q.began => docs'[j] = docs[j]
      /\ \A j \in HitIds : docs'[j].mark <= w.began => docs'[j] = docs[j]
      /\ \A j \in HitIds : Old(j, w)' => Old(j, w)
  <2>1. ~(docs'[i].mark <= q.began) /\ ~(docs'[i].mark <= w.began)
    <3>1. q.began \in Int /\ w.began \in Int
      BY SearchBounds DEF SearchRequest, FoundWalk
    <3> QED
      BY <1>2, <1>3, <3>1
  <2> QED
    BY <1>3, <2>1 DEF Old
<1>5. SearchTypes'
  <2>1. hybrid' \in BOOLEAN
    BY Zenon DEF SearchInv, SearchTypes
  <2>2. \A j \in HitIds : docs'[j].mark <= updates + 1
    <3>1. \A j \in HitIds : docs[j].mark \in Nat /\ docs[j].mark <= updates
      BY SearchParts, SearchBounds, SMTT(30) DEF SearchFact
    <3> QED
      BY <1>3, <3>1
  <2>3. q.began <= updates + 1 /\ w.began <= updates + 1
    <3>1. q.began \in Int /\ w.began \in Int
      BY SearchBounds DEF SearchRequest, FoundWalk
    <3> QED
      BY <1>2, <1>3, <3>1
  <2>4. /\ docs' \in [HitIds -> SearchFact] /\ \A j \in HitIds : docs'[j].mark <= updates'
        /\ index' \in SearchDocs
        /\ hour' \in 0..MaxHour /\ updates' \in 0..MaxUpdates /\ mishaps' \in 0..MaxMishaps
    BY <1>3, <2>2, SearchParts
  <2>5. pits' \in [1..MaxSearches -> SearchPit] /\ \A n \in 1..found'.count : pits'[n].docs \in SearchDocs
    BY SearchParts
  <2>6. /\ search' \in SearchRequest /\ search'.began <= updates'
        /\ Len(search'.items) <= SearchSize /\ Len(search'.visible) <= SearchSize + 1
        /\ cursor' \in SearchCursor /\ found' \in FoundWalk /\ found'.began <= updates'
    BY <1>1, <2>3, SearchParts
  <2> QED
    BY <2>1, <2>4, <2>5, <2>6, Zenon DEF SearchTypes
<1>6. PitHolds'
  BY DEF SearchInv, PitHolds, S!PitsAccounted, S!Open
<1>7. /\ \A k \in 1..Len(q.visible) : q.visible[k] \in HitIds
      /\ \A k \in 1..Len(q.items) : q.items[k].id \in HitIds
      /\ \A k \in 1..Len(c.items) : c.items[k].id \in HitIds
  <2>1. q.visible \in Seq(HitIds) /\ q.items \in Seq(SearchItem) /\ c.items \in Seq(SearchItem)
    BY DEF SearchRequest, SearchCursor
  <2>2. \A x \in SearchItem : x.id \in HitIds
    BY DEF SearchItem
  <2> QED
    BY <2>1, <2>2, ElementOfSeq
<1>8. InBasis(w)'
  BY <1>2, <1>4 DEF WalkHolds, InBasis
<1>9. WalkAt(c, w) => WalkAt(c, w)'
  BY <1>4 DEF WalkAt
<1>10. PagedHolds(c, w) => PagedHolds(c, w)'
  BY <1>9 DEF PagedHolds
<1>11. FrozenHolds(c, w) => FrozenHolds(c, w)'
  BY <1>4, <1>7, <1>9 DEF FrozenHolds
<1>12. BatchHolds(q, c, w) => BatchHolds(q, c, w)'
  BY <1>4, <1>7 DEF BatchHolds
<1>13. Fresh(q) => Fresh(q)'
  BY <1>4, <1>7 DEF Fresh
<1>14. WalkHolds(q, c, w)'
  BY <1>2, <1>8, <1>10, <1>11, <1>12, <1>13 DEF WalkHolds, RequestHolds
<1> QED
  BY <1>1, <1>5, <1>6, <1>14 DEF SearchInv

LEMMA ChangeKeeps ==
  ASSUME SearchInv, NEW i \in HitIds, S!Toggle(i) \/ S!Reselect(i) \/ S!Project(i)
  PROVE  SearchInv'
<1>1. PICK row \in SearchFact : row = docs[i]
  BY SearchParts
<1>2. updates + 1 \in 0..MaxUpdates \/ ~(updates < MaxUpdates)
  BY SearchParts, SearchNumbers, SMTT(30)
<1>3. CASE S!Toggle(i)
  <2>1. updates < MaxUpdates /\ updates' = updates + 1
        /\ UNCHANGED <<index, hybrid, pits, search, cursor, found, hour, mishaps>>
    BY <1>3 DEF S!Toggle, S!Written
  <2>a. PICK flag \in BOOLEAN, m \in 0..MaxUpdates : flag = (~row.public) /\ m = updates + 1
    BY <1>2, <2>1
  <2>2. PICK to \in SearchFact : to = [[row EXCEPT !.public = flag] EXCEPT !.mark = m]
    BY DEF SearchFact
  <2>3. to.mark = updates + 1
    BY <2>a, <2>2 DEF SearchFact
  <2>4. docs' = [docs EXCEPT ![i] = to]
    <3>1. docs' = [docs EXCEPT ![i] = [[docs[i] EXCEPT !.public = ~@] EXCEPT !.mark = updates']]
      BY <1>3 DEF S!Toggle, S!Written
    <3>2. [row EXCEPT !.public = ~@] = [row EXCEPT !.public = flag]
      BY <2>a DEF SearchFact
    <3> QED
      BY <1>1, <2>1, <2>a, <2>2, <3>1, <3>2
  <2> QED
    BY <2>1, <2>3, <2>4, WrittenKeeps
<1>4. CASE S!Reselect(i)
  <2>1. updates < MaxUpdates /\ updates' = updates + 1
        /\ UNCHANGED <<index, hybrid, pits, search, cursor, found, hour, mishaps>>
    BY <1>4 DEF S!Reselect, S!Written
  <2>a. PICK v \in Nat, m \in 0..MaxUpdates : v = row.vector + 1 /\ m = updates + 1
    BY <1>2, <2>1 DEF SearchFact
  <2>2. PICK to \in SearchFact : to = [[row EXCEPT !.vector = v] EXCEPT !.mark = m]
    BY DEF SearchFact
  <2>3. to.mark = updates + 1
    BY <2>a, <2>2 DEF SearchFact
  <2>4. docs' = [docs EXCEPT ![i] = to]
    <3>1. docs' = [docs EXCEPT ![i] = [[docs[i] EXCEPT !.vector = @ + 1] EXCEPT !.mark = updates']]
      BY <1>4 DEF S!Reselect, S!Written
    <3>2. [row EXCEPT !.vector = @ + 1] = [row EXCEPT !.vector = v]
      BY <2>a DEF SearchFact
    <3> QED
      BY <1>1, <2>1, <2>a, <2>2, <3>1, <3>2
  <2> QED
    BY <2>1, <2>3, <2>4, WrittenKeeps
<1>5. CASE S!Project(i)
  <2>1. UNCHANGED <<docs, hybrid, pits, search, cursor, found, hour, updates, mishaps>>
    BY <1>5 DEF S!Project
  <2>2. index' \in SearchDocs
    <3>1. row.public \in BOOLEAN /\ row.vector \in Nat
      BY DEF SearchFact
    <3>2. [visible |-> row.public, vector |-> row.vector] \in [visible : BOOLEAN, vector : Nat]
      BY <3>1
    <3> QED
      BY <1>1, <1>5, <3>2, SearchParts DEF S!Project, SearchDocs
  <2>3. SearchTypes'
    BY <2>1, <2>2 DEF SearchInv, SearchTypes
  <2>4. PitHolds'
    BY <2>1, SMTT(30) DEF SearchInv, PitHolds, S!PitsAccounted, S!Open
  <2>5. WalkHolds(search, cursor, found)'
    BY <2>1, SearchParts, WalkUnseen
  <2> QED
    BY <2>3, <2>4, <2>5 DEF SearchInv
<1> QED
  BY <1>3, <1>4, <1>5

LEMMA HourKeeps ==
  ASSUME SearchInv, S!Tick
  PROVE  SearchInv'
<1>1. /\ hour' = hour + 1 /\ hour < MaxHour /\ hour \in 0..MaxHour
      /\ UNCHANGED <<docs, index, hybrid, pits, search, cursor, found, updates, mishaps>>
  BY SearchParts DEF S!Tick
<1>2. SearchTypes'
  <2>1. hour' \in 0..MaxHour
    BY <1>1, SearchBounds
  <2> QED
    BY <1>1, <2>1 DEF SearchInv, SearchTypes
<1>3. PitHolds'
  <2>1. \A n \in 1..MaxSearches : pits[n].expires \in Int
    BY SearchParts, SearchBounds DEF SearchPit
  <2>2. DOMAIN pits = 1..MaxSearches
    BY SearchParts, SMTT(30)
  <2> QED
    BY <1>1, <2>1, <2>2, SearchBounds DEF SearchInv, PitHolds, S!PitsAccounted, S!Open
<1>4. WalkHolds(search, cursor, found)'
  BY <1>1, SearchParts, WalkUnseen
<1> QED
  BY <1>2, <1>3, <1>4 DEF SearchInv

(* A step that ends a request without an answer.                           *)
LEMMA Ended ==
  ASSUME SearchInv
  PROVE  WalkHolds(S!Idle, cursor, found)
<1>1. WalkHolds(search, cursor, found)
  BY SearchParts
<1>2. RequestHolds(S!Idle, cursor, found)
  BY IdleSearch DEF RequestHolds, Fresh, Paging
<1> QED
  BY <1>1, <1>2 DEF WalkHolds

LEMMA RedeployKeeps ==
  ASSUME SearchInv, S!Redeploy
  PROVE  SearchInv'
<1>1. /\ mishaps < MaxMishaps /\ mishaps' = mishaps + 1 /\ hybrid' = ~hybrid
      /\ search' = S!Idle /\ UNCHANGED <<docs, index, cursor, found, hour, updates>>
      /\ pits' = [n \in DOMAIN pits |-> IF n = search.pit THEN [pits[n] EXCEPT !.stray = TRUE]
                                                         ELSE pits[n]]
  BY DEF S!Redeploy
<1>2. DOMAIN pits = 1..MaxSearches
  BY SearchParts
<1>3. ASSUME NEW n \in 1..MaxSearches
      PROVE  /\ pits'[n] \in SearchPit /\ pits'[n].docs = pits[n].docs
             /\ pits'[n].open = pits[n].open /\ pits'[n].expires = pits[n].expires
             /\ pits'[n].given = pits[n].given
             /\ pits'[n].stray <=> pits[n].stray \/ n = search.pit
  <2>1. PICK p \in SearchPit : p = pits[n]
    BY SearchParts
  <2>2. CASE n = search.pit
    <3>1. PICK p1 \in SearchPit : p1 = [p EXCEPT !.stray = TRUE]
      BY DEF SearchPit
    <3>2. pits'[n] = p1
      BY <1>1, <1>2, <2>1, <2>2, <3>1
    <3>3. /\ p1.docs = p.docs /\ p1.open = p.open /\ p1.expires = p.expires /\ p1.given = p.given
          /\ p1.stray = TRUE
      BY <3>1 DEF SearchPit
    <3> QED
      BY <2>1, <2>2, <3>2, <3>3
  <2>3. CASE n # search.pit
    BY <1>1, <1>2, <2>1, <2>3
  <2> QED
    BY <2>2, <2>3
<1>4. pits' \in [1..MaxSearches -> SearchPit] /\ DOMAIN pits' = 1..MaxSearches
  BY <1>1, <1>2, <1>3
<1>5. S!PitsAccounted'
  <2> SUFFICES ASSUME NEW n \in 1..MaxSearches, S!Open(n)'
               PROVE  pits'[n].given \/ pits'[n].stray
    BY <1>4 DEF S!PitsAccounted
  <2>1. S!Open(n)
    BY <1>1, <1>3 DEF S!Open
  <2>2. pits[n].given \/ pits[n].stray \/ search.pit = n
    BY <1>2, <2>1 DEF SearchInv, PitHolds, S!PitsAccounted
  <2> QED
    BY <1>3, <2>2
<1>6. SearchTypes'
  <2>1. hybrid' \in BOOLEAN
    BY <1>1, Zenon
  <2>2. mishaps' \in 0..MaxMishaps
    <3>1. mishaps < MaxMishaps /\ mishaps' = mishaps + 1
      BY <1>1
    <3>2. mishaps \in 0..MaxMishaps
      BY SearchParts
    <3> QED
      BY <3>1, <3>2, SearchBounds
  <2>3. S!Idle.began <= updates /\ Len(S!Idle.items) <= SearchSize
        /\ Len(S!Idle.visible) <= SearchSize + 1
    BY IdleSearch, SearchParts, SearchBounds
  <2>4. /\ docs' \in [HitIds -> SearchFact] /\ \A j \in HitIds : docs'[j].mark <= updates'
        /\ index' \in SearchDocs
        /\ hour' \in 0..MaxHour /\ updates' \in 0..MaxUpdates
    BY <1>1, SearchParts
  <2>5. \A n \in 1..found'.count : pits'[n].docs \in SearchDocs
    <3>1. \A n \in 1..found.count : n \in 1..MaxSearches
      BY SearchParts, SearchBounds, SMTT(30) DEF FoundWalk
    <3> QED
      BY <1>1, <1>3, <3>1, SearchParts
  <2>6. /\ search' \in SearchRequest /\ search'.began <= updates'
        /\ Len(search'.items) <= SearchSize /\ Len(search'.visible) <= SearchSize + 1
        /\ cursor' \in SearchCursor /\ found' \in FoundWalk /\ found'.began <= updates'
    BY <1>1, <2>3, SearchParts, IdleSearch
  <2> QED
    BY <1>4, <2>1, <2>2, <2>4, <2>5, <2>6, Zenon DEF SearchTypes
<1>7. PitHolds'
  BY <1>1, <1>5, IdleSearch DEF PitHolds, Paging
<1>8. WalkHolds(search, cursor, found)'
  <2>1. PICK q \in SearchRequest, c \in SearchCursor, w \in FoundWalk :
          q = S!Idle /\ c = cursor /\ w = found /\ WalkHolds(q, c, w)
    BY Ended, SearchParts, IdleSearch
  <2>2. w.count \in 0..MaxSearches /\ (w.count > 0 => w.count \in 1..MaxSearches)
    BY SearchBounds DEF FoundWalk
  <2>3. PagedHolds(c, w)' <=> PagedHolds(c, w)
    BY <1>1, <1>3, <2>2 DEF PagedHolds, WalkAt, Old
  <2>4. WalkHolds(q, c, w)'
    BY <1>1, <2>1, <2>3 DEF WalkHolds, InBasis, FrozenHolds, WalkAt, Old, RequestHolds, BatchHolds, Fresh
  <2> QED
    BY <1>1, <2>1, <2>4
<1> QED
  BY <1>6, <1>7, <1>8 DEF SearchInv

LEMMA Closes ==
  ASSUME SearchInv, S!Close(search.pit), hour' = hour
  PROVE  /\ pits' \in [1..MaxSearches -> SearchPit] /\ mishaps' \in 0..MaxMishaps
         /\ \A n \in 1..MaxSearches : pits'[n].docs = pits[n].docs
         /\ S!PitsAccounted'
<1>1. PICK p \in 0..MaxSearches : p = search.pit
  BY SearchParts DEF SearchRequest
<1>2. pits \in [1..MaxSearches -> SearchPit] /\ mishaps \in 0..MaxMishaps
  BY SearchParts
<1>3. ASSUME pits' \in [1..MaxSearches -> SearchPit],
             \A n \in 1..MaxSearches : n # p => pits'[n] = pits[n],
             p # 0 => ~pits'[p].open \/ pits'[p].stray
      PROVE  S!PitsAccounted'
  <2> SUFFICES ASSUME NEW n \in 1..MaxSearches, S!Open(n)' PROVE pits'[n].given \/ pits'[n].stray
    BY <1>3 DEF S!PitsAccounted
  <2>1. CASE n = p
    BY <1>3, <2>1 DEF S!Open
  <2>2. CASE n # p
    <3>1. pits'[n] = pits[n]
      BY <1>3, <2>2
    <3>2. S!Open(n) /\ search.pit # n
      BY <1>1, <2>2, <3>1 DEF S!Open
    <3> QED
      BY <1>2, <3>1, <3>2 DEF SearchInv, PitHolds, S!PitsAccounted
  <2> QED
    BY <2>1, <2>2
<1>4. CASE p = 0
  <2>1. pits' = pits /\ mishaps' = mishaps
    BY <1>1, <1>4 DEF S!Close
  <2> QED
    BY <1>2, <1>3, <1>4, <2>1
<1>5. CASE p # 0
  <2>1. PICK old \in SearchPit : old = pits[p] /\ p \in 1..MaxSearches
    BY <1>2, <1>5, SearchBounds
  <2>2. CASE pits' = [pits EXCEPT ![p].open = FALSE] /\ UNCHANGED mishaps
    <3>1. PICK new \in SearchPit : new = [old EXCEPT !.open = FALSE]
      BY DEF SearchPit
    <3>2. new.open = FALSE /\ new.docs = old.docs
      BY <3>1 DEF SearchPit
    <3>3. pits' = [pits EXCEPT ![p] = new]
      BY <1>2, <2>1, <2>2, <3>1 DEF SearchPit
    <3> QED
      BY <1>2, <1>3, <2>1, <2>2, <3>2, <3>3
  <2>3. CASE /\ mishaps < MaxMishaps /\ mishaps' = mishaps + 1
             /\ pits' = [pits EXCEPT ![p].stray = TRUE]
    <3>1. PICK new \in SearchPit : new = [old EXCEPT !.stray = TRUE]
      BY DEF SearchPit
    <3>2. new.stray = TRUE /\ new.docs = old.docs
      BY <3>1 DEF SearchPit
    <3>3. pits' = [pits EXCEPT ![p] = new]
      BY <1>2, <2>1, <2>3, <3>1 DEF SearchPit
    <3>4. mishaps' \in 0..MaxMishaps
      BY <1>2, <2>3, SearchNumbers, SMTT(30)
    <3> QED
      BY <1>2, <1>3, <2>1, <3>2, <3>3, <3>4
  <2> QED
    BY <1>1, <1>5, <2>2, <2>3 DEF S!Close
<1> QED
  BY <1>4, <1>5

LEMMA FailKeeps ==
  ASSUME SearchInv, S!Fail
  PROVE  SearchInv'
<1>1. /\ search' = S!Idle /\ S!Close(search.pit)
      /\ UNCHANGED <<docs, index, hybrid, hour, updates, cursor, found>>
  BY DEF S!Fail, S!CloseAfterError, S!world
<1>2. /\ pits' \in [1..MaxSearches -> SearchPit] /\ mishaps' \in 0..MaxMishaps
      /\ \A n \in 1..MaxSearches : pits'[n].docs = pits[n].docs
      /\ S!PitsAccounted'
  BY <1>1, Closes
<1>3. PICK q \in SearchRequest, c \in SearchCursor, w \in FoundWalk :
        /\ q = S!Idle /\ c = cursor /\ w = found /\ WalkHolds(q, c, w)
        /\ q.phase = "idle" /\ q.items = <<>> /\ q.visible = <<>> /\ q.began = 0
        /\ w.began <= updates
  BY Ended, SearchParts, IdleSearch
<1>4. q.began <= updates /\ Len(q.items) <= SearchSize /\ Len(q.visible) <= SearchSize + 1
  BY <1>3, IdleSearch, SearchParts, SearchBounds
<1>5. q.phase # "current" /\ q.phase \notin Paging \cup {"recall", "fuse"}
  BY <1>3 DEF Paging
<1> QED
  BY <1>1, <1>2, <1>3, <1>4, <1>5, SearchMoves

LEMMA GoneKeeps ==
  ASSUME SearchInv, S!Gone
  PROVE  SearchInv'
<1>1. /\ search' = S!Idle /\ cursor' = S!NoCursor /\ S!Close(search.pit)
      /\ UNCHANGED <<docs, index, hybrid, hour, updates, found>>
  BY DEF S!Gone, S!world
<1>2. /\ pits' \in [1..MaxSearches -> SearchPit] /\ mishaps' \in 0..MaxMishaps
      /\ \A n \in 1..MaxSearches : pits'[n].docs = pits[n].docs
      /\ S!PitsAccounted'
  BY <1>1, Closes
<1>3. PICK q \in SearchRequest, c \in SearchCursor, w \in FoundWalk :
        /\ q = S!Idle /\ c = S!NoCursor /\ w = found /\ InBasis(w)
        /\ q.phase = "idle" /\ q.items = <<>> /\ q.visible = <<>> /\ q.began = 0
        /\ c.items = <<>> /\ w.began <= updates
  BY SearchParts, IdleSearch DEF WalkHolds
<1>4. q.began <= updates /\ Len(q.items) <= SearchSize /\ Len(q.visible) <= SearchSize + 1
  BY <1>3, IdleSearch, SearchParts, SearchBounds
<1>5. q.phase # "current" /\ q.phase \notin Paging \cup {"recall", "fuse"}
  BY <1>3 DEF Paging
<1>6. WalkHolds(q, c, w)
  BY <1>3, <1>5, IdleSearch DEF WalkHolds, RequestHolds, Fresh, Paging
<1> QED
  BY <1>1, <1>2, <1>3, <1>4, <1>5, <1>6, SearchMoves

(* A request that begins.                                                  *)
LEMMA Requests ==
  ASSUME NEW x \in SearchRequest, NEW phase \in Paging \cup {"recall", "current"},
         NEW n \in 0..MaxSearches, NEW u \in 0..MaxUpdates
  PROVE  [x EXCEPT !.phase = phase, !.pit = n, !.began = u] \in SearchRequest
<1>1. phase \in Paging \cup {"idle", "recall", "fuse", "current"}
  OBVIOUS
<1> QED
  BY <1>1 DEF SearchRequest

(* A first query opens a PIT and forgets the walk before it.               *)
LEMMA FirstKeeps ==
  ASSUME SearchInv, S!First
  PROVE  SearchInv'
<1>1. /\ search.phase = "idle" /\ cursor' = S!NoCursor
      /\ UNCHANGED <<docs, index, hybrid, hour, updates, mishaps>>
  BY DEF S!First, S!world
<1>2. PICK n \in 1..MaxSearches : n = found.count + 1 /\ found.count < MaxSearches
                                 /\ found.count = n - 1
  <2>1. PICK b \in 0..MaxSearches : b = found.count
    BY SearchParts DEF FoundWalk
  <2>2. b < MaxSearches
    BY <2>1 DEF S!First
  <2>3. b + 1 \in 1..MaxSearches /\ b = (b + 1) - 1
    BY <2>2, SearchBounds
  <2> QED
    BY <2>1, <2>2, <2>3
<1>a. n \in 0..MaxSearches /\ updates \in 0..MaxUpdates
  BY SearchParts, SearchBounds
<1>3. PICK p \in SearchPit :
        p = [open |-> TRUE, docs |-> index, expires |-> hour + KeepAlive, given |-> FALSE,
             stray |-> FALSE]
  <2>1. hour + KeepAlive \in 0..MaxHour + KeepAlive /\ index \in SearchDocs
    BY SearchParts, SearchNumbers, SMTT(30)
  <2> QED
    BY <2>1 DEF SearchPit
<1>4. pits' = [pits EXCEPT ![n] = p] /\ p.docs = index
  BY <1>2, <1>3 DEF S!First
<1>5. /\ pits' \in [1..MaxSearches -> SearchPit] /\ pits'[n] = p
      /\ \A m \in 1..MaxSearches : m # n => pits'[m] = pits[m]
  BY <1>4, SearchParts
<1>6. PICK q \in SearchRequest, phase \in {"recall", "search"} :
        /\ q = [S!Idle EXCEPT !.phase = phase, !.pit = n, !.began = updates]
        /\ phase = IF hybrid THEN "recall" ELSE "search"
  <2>1. PICK phase \in {"recall", "search"} : phase = IF hybrid THEN "recall" ELSE "search"
    BY SMTT(30)
  <2>2. PICK q \in SearchRequest : q = [S!Idle EXCEPT !.phase = phase, !.pit = n, !.began = updates]
    BY <1>a, Requests, IdleSearch DEF Paging
  <2> QED
    BY <2>1, <2>2
<1>7. /\ q.phase = phase /\ q.pit = n /\ q.began = updates /\ q.items = <<>> /\ q.visible = <<>>
      /\ q.after = 0 /\ q.scanned = 0
  BY <1>6, IdleSearch DEF SearchRequest
<1>8. search' = q
  BY <1>2, <1>6 DEF S!First
<1>9. PICK basis \in Seq(HitIds) :
        /\ basis = (IF hybrid THEN <<>> ELSE S!Keyword(index)) /\ Distinct(basis)
  <2>1. S!Keyword(index) \in Seq(HitIds) /\ Distinct(S!Keyword(index))
    BY KeywordFinds, SearchParts
  <2>2. <<>> \in Seq(HitIds) /\ Distinct(<<>>)
    BY Empties
  <2> QED
    BY <2>1, <2>2
<1>10. PICK w \in FoundWalk :
         w = [S!NoWalk EXCEPT !.count = n, !.began = updates, !.basis = basis]
  <2>1. \A z \in FoundWalk, b \in 0..MaxSearches, u \in 0..MaxUpdates, s \in Seq(HitIds) :
          [z EXCEPT !.count = b, !.began = u, !.basis = s] \in FoundWalk
    BY DEF FoundWalk
  <2> QED
    BY <1>a, <2>1, IdleSearch
<1>11. /\ w.count = n /\ w.began = updates /\ w.basis = basis /\ w.items = <<>> /\ w.over = FALSE
  BY <1>10, IdleSearch DEF FoundWalk
<1>12. found' = w
  BY <1>2, <1>9, <1>10 DEF S!First
<1>13. SearchTypes'
  <2>1. hybrid' \in BOOLEAN
    BY <1>1, Zenon DEF SearchInv, SearchTypes
  <2>2. /\ docs' \in [HitIds -> SearchFact] /\ \A j \in HitIds : docs'[j].mark <= updates'
        /\ index' \in SearchDocs
        /\ hour' \in 0..MaxHour /\ updates' \in 0..MaxUpdates /\ mishaps' \in 0..MaxMishaps
    BY <1>1, SearchParts
  <2>3. \A m \in 1..found'.count : pits'[m].docs \in SearchDocs
    <3>1. \A m \in 1..n : m = n \/ (m \in 1..found.count /\ m # n /\ m \in 1..MaxSearches)
      BY <1>2, SearchBounds
    <3> QED
      BY <1>4, <1>5, <1>11, <1>12, <3>1, SearchParts
  <2>4. Len(q.items) <= SearchSize /\ Len(q.visible) <= SearchSize + 1
        /\ q.began <= updates /\ w.began <= updates
    BY <1>7, <1>11, IdleSearch, SearchParts, SearchBounds
  <2>5. /\ search' \in SearchRequest /\ search'.began <= updates'
        /\ Len(search'.items) <= SearchSize /\ Len(search'.visible) <= SearchSize + 1
        /\ cursor' \in SearchCursor /\ found' \in FoundWalk /\ found'.began <= updates'
    BY <1>1, <1>8, <1>12, <2>4, IdleSearch
  <2> QED
    BY <1>5, <2>1, <2>2, <2>3, <2>5, Zenon DEF SearchTypes
<1>14. PitHolds'
  <2>1. S!PitsAccounted'
    <3> SUFFICES ASSUME NEW m \in 1..MaxSearches, S!Open(m)', m # n
                 PROVE  pits'[m].given \/ pits'[m].stray
      BY <1>5, <1>7, <1>8 DEF S!PitsAccounted
    <3>1. pits'[m] = pits[m] /\ S!Open(m)
      BY <1>1, <1>5 DEF S!Open
    <3>2. DOMAIN pits = 1..MaxSearches
      BY SearchParts
    <3> QED
      BY <1>1, <3>1, <3>2 DEF SearchInv, PitHolds, S!PitsAccounted
  <2>2. n > 0
    OBVIOUS
  <2> QED
    BY <1>7, <1>8, <1>11, <1>12, <2>1, <2>2 DEF PitHolds, Paging
<1>15. WalkHolds(q, S!NoCursor, w)'
  <2>1. InBasis(w)'
    BY <1>9, <1>11, IdleSearch DEF InBasis
  <2>2. q.phase = "search" => PagedHolds(S!NoCursor, w)'
    <3>1. q.phase = "search" => basis = S!Keyword(pits'[n].docs)
      BY <1>4, <1>5, <1>6, <1>7, <1>9
    <3>2. \A i : In(basis, i) => In(Hits, i) \/ q.phase # "search"
      BY <1>6, <1>7, <1>9, KeywordFinds, SearchParts, SMTT(30) DEF In
    <3>3. \A i : In(Hits, i) => ~(S!Rank(i) <= 0)
      BY Ranks
    <3> QED
      BY <1>11, <3>1, <3>2, <3>3, IdleSearch, SearchBounds DEF PagedHolds, WalkAt, Passed
  <2>3. q.phase = "search" => BatchHolds(q, S!NoCursor, w)'
    <3>1. 0 < MaxCandidates /\ 0 <= 0
      BY SearchBounds
    <3>2. \A i \in HitIds : ~(0 < S!Rank(i) /\ S!Rank(i) <= 0) \/ ~In(basis, i) \/ q.phase # "search"
      <4>1. \A i : In(basis, i) => In(Hits, i) \/ q.phase # "search"
        BY <1>6, <1>7, <1>9, KeywordFinds, SearchParts DEF In
      <4> QED
        BY <4>1, Ranks
    <3> QED
      BY <1>7, <1>11, <3>1, <3>2, IdleSearch, Empties, SearchBounds DEF BatchHolds, Between
  <2>4. RequestHolds(q, S!NoCursor, w)'
    BY <1>7, <1>11, <2>2, <2>3 DEF RequestHolds, Paging
  <2> QED
    BY <2>1, <2>4, IdleSearch DEF WalkHolds
<1> QED
  BY <1>1, <1>8, <1>12, <1>13, <1>14, <1>15 DEF SearchInv

(* What a walk through a PIT may show.                                     *)
LEMMA PagedBasis ==
  ASSUME SearchInv, NEW c, PagedHolds(c, found)
  PROVE  /\ found.basis \in Seq(HitIds) /\ Rising(found.basis)
         /\ found.basis = S!Keyword(pits[found.count].docs)
         /\ pits[found.count].docs \in SearchDocs /\ found.count \in 1..MaxSearches
         /\ \A i : In(found.basis, i) => i \in HitIds /\ In(Hits, i) /\ S!Rank(i) \in 1..Len(Hits)
<1>1. found.count \in 1..MaxSearches /\ found.count \in 1..found.count
  BY SearchParts, SearchBounds, SMTT(30) DEF PagedHolds, FoundWalk
<1>2. PICK d \in SearchDocs : d = pits[found.count].docs /\ found.basis = S!Keyword(d)
  BY <1>1, SearchParts DEF PagedHolds
<1>3. /\ found.basis \in Seq(HitIds) /\ Rising(found.basis)
      /\ \A k \in 1..Len(found.basis) : In(Hits, found.basis[k])
  BY <1>2, KeywordFinds
<1>4. \A i : In(found.basis, i) => In(Hits, i)
  BY <1>3 DEF In
<1>5. \A i : In(found.basis, i) => i \in HitIds
  BY <1>3, ElementOfSeq DEF In
<1> QED
  BY <1>1, <1>2, <1>3, <1>4, <1>5, Ranks

(* The next page, or none when its cursor is too old.                      *)
LEMMA ContinueKeeps ==
  ASSUME SearchInv, S!Continue
  PROVE  SearchInv'
<1>1. /\ search.phase = "idle" /\ cursor # S!NoCursor
      /\ UNCHANGED <<docs, index, hybrid, hour, updates, found, mishaps>>
  BY DEF S!Continue, S!world
<1>2. PICK q0 \in SearchRequest, c \in SearchCursor, w \in FoundWalk :
        q0 = search /\ c = cursor /\ w = found /\ WalkHolds(q0, c, w)
  BY SearchParts
<1>3. updates \in 0..MaxUpdates /\ updates <= updates /\ w.began <= updates
      /\ Len(<<>>) <= SearchSize /\ Len(<<>>) <= SearchSize + 1
  BY <1>2, SearchParts, SearchBounds
<1>4. PICK x \in SearchRequest :
        /\ x = S!Idle /\ x.items = <<>> /\ x.visible = <<>> /\ x.batch = <<>> /\ x.scanned = 0
        /\ x.pit = 0
  BY IdleSearch
<1>5. CASE ~S!Accepted(cursor)
  <2>1. cursor' = S!NoCursor /\ pits' = pits /\ search' = q0
    BY <1>2, <1>5 DEF S!Continue
  <2>2. q0.phase = "idle" /\ q0.phase # "current" /\ q0.phase \notin Paging \cup {"recall", "fuse"}
    BY <1>1, <1>2 DEF Paging
  <2>3. WalkHolds(q0, S!NoCursor, w)
    BY <1>2, <2>2, IdleSearch DEF WalkHolds, RequestHolds
  <2>4. S!PitsAccounted'
    BY <1>1, <1>2, <2>1 DEF SearchInv, PitHolds, S!PitsAccounted, S!Open
  <2>5. q0.began <= updates /\ Len(q0.items) <= SearchSize /\ Len(q0.visible) <= SearchSize + 1
    BY <1>2, SearchParts
  <2> QED
    BY <1>1, <1>2, <1>3, <2>1, <2>2, <2>3, <2>4, <2>5, SearchMoves, SearchParts, IdleSearch
<1>6. CASE S!Accepted(cursor) /\ S!Frozen(cursor)
  <2>1. /\ cursor' = c /\ pits' = pits
        /\ search' = [x EXCEPT !.phase = "current", !.plan = c, !.began = updates]
    BY <1>2, <1>4, <1>6 DEF S!Continue
  <2>2. PICK q \in SearchRequest : q = [x EXCEPT !.phase = "current", !.plan = c, !.began = updates]
    BY <1>3 DEF SearchRequest
  <2>3. /\ q.phase = "current" /\ q.plan = c /\ q.began = updates /\ q.pit = 0
        /\ q.items = <<>> /\ q.visible = <<>>
    BY <1>4, <2>2 DEF SearchRequest
  <2>4. c.items # <<>>
    BY <1>2, <1>6 DEF S!Frozen
  <2>5. WalkHolds(q, c, w)
    BY <1>2, <2>3, <2>4 DEF WalkHolds, RequestHolds, Paging
  <2>6. S!PitsAccounted'
    BY <1>1, <1>2, <2>1 DEF SearchInv, PitHolds, S!PitsAccounted, S!Open
  <2>7. q.phase \notin Paging \cup {"recall", "fuse"}
    BY <2>3 DEF Paging
  <2> QED
    BY <1>1, <1>2, <1>3, <2>1, <2>2, <2>3, <2>5, <2>6, <2>7, SearchMoves, SearchParts
<1>7. CASE S!Accepted(cursor) /\ ~S!Frozen(cursor)
  <2>1. /\ cursor' = c /\ pits' = pits
        /\ search' = [x EXCEPT !.phase = "search", !.pit = c.pit, !.after = c.after, !.began = updates]
    BY <1>2, <1>4, <1>7 DEF S!Continue
  <2>2. PagedHolds(c, w) /\ c.pit = w.count
    BY <1>1, <1>2, <1>7 DEF WalkHolds, S!Frozen, PagedHolds
  <2>3. PICK n \in 1..MaxSearches, after \in 0..Len(Hits) :
          n = w.count /\ after = c.after /\ n \in 0..MaxSearches
    BY <1>2, <2>2, PagedBasis, SearchBounds DEF SearchCursor
  <2>4. PICK q \in SearchRequest :
          q = [x EXCEPT !.phase = "search", !.pit = n, !.after = after, !.began = updates]
    BY <1>3, <2>3 DEF SearchRequest, Paging
  <2>5. /\ q.phase = "search" /\ q.pit = n /\ q.after = after /\ q.began = updates
        /\ q.items = <<>> /\ q.visible = <<>> /\ q.batch = <<>> /\ q.scanned = 0
    BY <1>4, <2>4 DEF SearchRequest
  <2>6. BatchHolds(q, c, w)
    <3>1. \A i : In(w.basis, i) => ~(c.after < S!Rank(i) /\ S!Rank(i) <= q.after)
      <4>1. \A i : In(w.basis, i) => S!Rank(i) \in Int
        BY <1>2, <2>2, PagedBasis
      <4> QED
        BY <2>3, <2>5, <4>1, SearchBounds
    <3>2. 0 < MaxCandidates /\ c.after <= q.after /\ Len(<<>>) = 0 /\ 0 <= SearchSize
      BY <2>3, <2>5, SearchBounds
    <3> QED
      BY <2>5, <3>1, <3>2, Empties DEF BatchHolds, Between
  <2>7. WalkHolds(q, c, w)
    BY <1>2, <2>2, <2>5, <2>6 DEF WalkHolds, RequestHolds, Paging
  <2>8. search' = q
    BY <2>1, <2>2, <2>3, <2>4
  <2>9. S!PitsAccounted'
    BY <1>1, <1>2, <2>1 DEF SearchInv, PitHolds, S!PitsAccounted, S!Open
  <2>10. q.began <= updates /\ Len(q.items) <= SearchSize /\ Len(q.visible) <= SearchSize + 1
    BY <1>3, <2>5
  <2>11. q.phase # "current" /\ q.pit = w.count /\ w.count > 0
    BY <2>3, <2>5
  <2> QED
    BY <1>1, <1>2, <1>3, <2>1, <2>7, <2>8, <2>9, <2>10, <2>11, SearchMoves, SearchParts
<1> QED
  BY <1>5, <1>6, <1>7

LEMMA Lesser ==
  ASSUME NEW a \in Int, NEW b \in Int
  PROVE  S!Min({a, b}) = IF a <= b THEN a ELSE b
<1>1. \E x \in {a, b} : \A y \in {a, b} : x <= y
  OBVIOUS
<1> QED
  BY <1>1 DEF S!Min

(* A batch of candidates: the next of the basis after a position.          *)
Beyond(s, after) == S!At(s, {k \in DOMAIN s : S!Rank(s[k]) > after})
IsNext(batch, left, basis, after, size) ==
  /\ batch \in Seq(HitIds) /\ Rising(batch) /\ Len(batch) <= size
  /\ left = <<>> <=> Len(batch) = 0
  /\ \A k \in 1..Len(batch) : In(basis, batch[k]) /\ S!Rank(batch[k]) > after
  /\ \A i : In(basis, i) /\ S!Rank(i) > after =>
       In(batch, i) \/ (~(Len(left) < size) /\ S!Rank(i) > S!Rank(batch[Len(batch)]))
  /\ left = <<>> => \A i : In(basis, i) => S!Rank(i) <= after

LEMMA NextBatch ==
  ASSUME NEW basis \in Seq(HitIds), Rising(basis), \A i : In(basis, i) => S!Rank(i) \in Int,
         NEW after \in Int, NEW size \in Nat \ {0},
         NEW left, left = Beyond(basis, after)
  PROVE  IsNext(S!Top(left, size), left, basis, after, size)
<1> DEFINE batch == S!Top(left, size)
<1> DEFINE K == {k \in DOMAIN basis : S!Rank(basis[k]) > after}
<1>1. K \in SUBSET (1..Len(basis)) /\ \A k \in K : S!Rank(basis[k]) > after
  OBVIOUS
<1>2. \A k \in 1..Len(basis) : S!Rank(basis[k]) > after => k \in K
  OBVIOUS
<1>3. left = S!At(basis, K)
  BY DEF Beyond
<1> HIDE DEF K
<1> HIDE DEF batch
<1>4. /\ left \in Seq(HitIds) /\ Rising(left)
      /\ \A m \in 1..Len(left) : \E k \in K : left[m] = basis[k]
      /\ \A k \in K : In(left, basis[k])
  <2>1. K \in SUBSET (1..Len(basis))
    BY <1>1
  <2>2. /\ S!At(basis, K) \in Seq(HitIds)
        /\ \A m \in 1..Len(S!At(basis, K)) : \E k \in K : S!At(basis, K)[m] = basis[k]
        /\ \A k \in K : In(S!At(basis, K), basis[k])
    BY <2>1, Selected
  <2>3. Rising(S!At(basis, K))
    BY <2>1, SelectedRises
  <2> QED
    BY <1>3, <2>2, <2>3
<1>5. \A m \in 1..Len(left) : In(basis, left[m]) /\ S!Rank(left[m]) > after
  BY <1>1, <1>4 DEF In
<1>6. \A i : In(basis, i) /\ S!Rank(i) > after => In(left, i)
  BY <1>2, <1>4 DEF In
<1>7. /\ batch \in Seq(HitIds) /\ Rising(batch)
      /\ Len(batch) = IF size < Len(left) THEN size ELSE Len(left)
      /\ \A k \in 1..Len(batch) : k \in 1..Len(left) /\ batch[k] = left[k]
  BY <1>4, CutRises DEF batch
<1>8. Len(left) \in Nat /\ (left = <<>> <=> Len(left) = 0)
  BY <1>4, EmptySeq
<1>9. Len(batch) <= size /\ (left = <<>> <=> Len(batch) = 0)
  BY <1>7, <1>8
<1>10. ASSUME NEW i, In(basis, i), S!Rank(i) > after
       PROVE  In(batch, i) \/ (~(Len(left) < size) /\ S!Rank(i) > S!Rank(batch[Len(batch)]))
  <2>1. PICK m \in 1..Len(left) : left[m] = i
    BY <1>6, <1>10 DEF In
  <2>2. CASE m <= Len(batch)
    <3>1. m \in 1..Len(batch)
      BY <1>7, <1>8, <2>2
    <3> QED
      BY <1>7, <2>1, <3>1 DEF In
  <2>3. CASE ~(m <= Len(batch))
    <3>1. /\ Len(batch) = size /\ size \in 1..Len(left) /\ size < m /\ size \in 1..Len(batch)
      BY <1>7, <1>8, <2>3
    <3>2. batch[size] = left[size]
      BY <1>7, <3>1
    <3>3. S!Rank(left[size]) < S!Rank(left[m])
      BY <1>4, <3>1 DEF Rising
    <3>4. S!Rank(left[size]) \in Int /\ S!Rank(i) \in Int
      BY <1>5, <1>10, <3>1
    <3> QED
      BY <1>8, <2>1, <3>1, <3>2, <3>3, <3>4
  <2> QED
    BY <2>2, <2>3
<1>11. left = <<>> => \A i : In(basis, i) => S!Rank(i) <= after
  <2> SUFFICES ASSUME left = <<>>, NEW i, In(basis, i) PROVE S!Rank(i) <= after
    OBVIOUS
  <2>1. ~In(left, i)
    BY Empties
  <2>2. ~(S!Rank(i) > after)
    BY <1>6, <2>1, Zenon
  <2>3. S!Rank(i) \in Int
    BY Zenon
  <2>4. PICK r \in Int : r = S!Rank(i)
    BY <2>3
  <2> QED
    BY <2>2, <2>4
<1> QED
  BY <1>4, <1>5, <1>7, <1>9, <1>10, <1>11 DEF IsNext, batch

(* A batch is fetched, and its PIT lives on.                               *)
LEMMA SearchKeeps ==
  ASSUME SearchInv, S!Search
  PROVE  SearchInv'
<1>1. PICK q \in SearchRequest, c \in SearchCursor, w \in FoundWalk :
        q = search /\ c = cursor /\ w = found /\ WalkHolds(q, c, w) /\ q.phase = "search"
  BY SearchParts DEF S!Search
<1>2. /\ cursor' = c /\ found' = w
      /\ UNCHANGED <<docs, index, hybrid, hour, updates, mishaps>>
  BY <1>1 DEF S!Search, S!world
<1>3. PagedHolds(c, w) /\ BatchHolds(q, c, w) /\ w.began <= updates /\ q.began <= updates
      /\ Len(q.items) <= SearchSize /\ Len(q.visible) <= SearchSize + 1
  BY <1>1, SearchParts DEF WalkHolds, RequestHolds, Paging
<1>4. PICK n \in 1..MaxSearches :
        /\ n = q.pit /\ n = w.count /\ w.basis \in Seq(HitIds) /\ Rising(w.basis)
        /\ w.basis = S!Keyword(pits[n].docs)
        /\ \A i : In(w.basis, i) => S!Rank(i) \in Int
  <2>1. q.pit = w.count
    BY <1>1, SearchParts DEF Paging
  <2> QED
    BY <1>1, <1>3, <2>1, PagedBasis
<1>5. PICK after \in Int, scanned \in 0..MaxCandidates :
        after = q.after /\ scanned = q.scanned /\ scanned < MaxCandidates
  BY <1>1, <1>3, SearchBounds DEF BatchHolds, SearchRequest
<1>6. PICK size \in Nat \ {0} : size = S!Min({BatchSize, MaxCandidates - scanned})
                               /\ size <= MaxCandidates - scanned
  <2>1. BatchSize \in Nat \ {0} /\ MaxCandidates - scanned \in Nat \ {0}
    BY <1>5, SearchBounds
  <2> QED
    BY <2>1, Lesser
<1>7. PICK left, batch :
        /\ left = Beyond(w.basis, after)
        /\ batch = S!Top(left, size)
  OBVIOUS
<1>8. /\ batch \in Seq(HitIds) /\ Rising(batch) /\ Len(batch) <= size
      /\ left = <<>> <=> Len(batch) = 0
      /\ \A k \in 1..Len(batch) : In(w.basis, batch[k]) /\ S!Rank(batch[k]) > after
      /\ \A i : In(w.basis, i) /\ S!Rank(i) > after =>
           In(batch, i) \/ (~(Len(left) < size) /\ S!Rank(i) > S!Rank(batch[Len(batch)]))
      /\ left = <<>> => \A i : In(w.basis, i) => S!Rank(i) <= after
  <2>1. IsNext(batch, left, w.basis, after, size)
    BY <1>4, <1>7, NextBatch
  <2> QED
    BY <2>1 DEF IsNext
<1>9. PICK last \in BOOLEAN, sum \in 0..MaxCandidates, phase \in Paging :
        /\ last <=> Len(left) < size
        /\ sum = scanned + Len(batch)
        /\ phase = IF left = <<>> THEN "reply" ELSE "read"
  <2>1. scanned + Len(batch) \in 0..MaxCandidates
    <3>1. Len(batch) \in Nat /\ Len(batch) <= size
      BY <1>8
    <3>2. size \in Nat /\ scanned \in Nat /\ size <= MaxCandidates - scanned
      BY <1>5, <1>6
    <3> QED
      BY <3>1, <3>2, SearchNumbers
  <2>2. (IF left = <<>> THEN "reply" ELSE "read") \in Paging
    BY DEF Paging
  <2>3. (Len(left) < size) \in BOOLEAN
    OBVIOUS
  <2> QED
    BY <2>1, <2>2, <2>3
<1>10. search' = [q EXCEPT !.batch = batch, !.exhausted = last, !.scanned = sum, !.phase = phase]
  <2>1. search' = [search EXCEPT
          !.batch = S!Top(Beyond(S!Keyword(pits[search.pit].docs), search.after),
                    S!Min({BatchSize, MaxCandidates - search.scanned})),
          !.exhausted = Len(Beyond(S!Keyword(pits[search.pit].docs), search.after))
                    < S!Min({BatchSize, MaxCandidates - search.scanned}),
          !.scanned = @ + Len(S!Top(Beyond(S!Keyword(pits[search.pit].docs), search.after),
                    S!Min({BatchSize, MaxCandidates - search.scanned}))),
          !.phase = IF Beyond(S!Keyword(pits[search.pit].docs), search.after) = <<>>
                    THEN "reply" ELSE "read"]
    BY DEF S!Search, Beyond
  <2>2. search' = [q EXCEPT !.batch = batch, !.exhausted = Len(left) < size,
                            !.scanned = @ + Len(batch),
                            !.phase = IF left = <<>> THEN "reply" ELSE "read"]
    BY <1>1, <1>4, <1>5, <1>6, <1>7, <2>1
  <2>3. (Len(left) < size) = last
    BY <1>9
  <2> QED
    BY <1>5, <1>9, <2>2, <2>3 DEF SearchRequest
<1>11. PICK q1 \in SearchRequest :
         q1 = [q EXCEPT !.batch = batch, !.exhausted = last, !.scanned = sum, !.phase = phase]
  <2>1. phase \in Paging \cup {"idle", "recall", "fuse", "current"}
    OBVIOUS
  <2> QED
    BY <1>8, <2>1 DEF SearchRequest
<1>12. /\ q1.batch = batch /\ (q1.exhausted <=> last) /\ q1.phase = phase
       /\ q1.visible = q.visible /\ q1.after = after /\ q1.began = q.began
       /\ q1.items = q.items /\ q1.pit = n
  BY <1>4, <1>5, <1>11 DEF SearchRequest
<1>13. BatchHolds(q1, c, w)
  <2>1. /\ c.after <= q1.after /\ Rising(q1.visible)
        /\ \A k \in 1..Len(q1.visible) :
             /\ In(w.basis, q1.visible[k]) /\ Between(q1.visible[k], c, q1)
             /\ docs[q1.visible[k]].mark <= q1.began => docs[q1.visible[k]].public
        /\ \A i \in HitIds : In(w.basis, i) /\ Old(i, w) /\ Between(i, c, q1) =>
             \/ In(q1.visible, i)
             \/ Len(q1.visible) > SearchSize /\ S!Rank(i) > S!Rank(q1.visible[SearchSize + 1])
    BY <1>3, <1>5, <1>12 DEF BatchHolds, Between
  <2>2. Len(q1.visible) <= SearchSize
    BY <1>1, <1>3, <1>12 DEF BatchHolds
  <2>3. q1.phase = "read" =>
          /\ Len(q1.batch) > 0 /\ Rising(q1.batch)
          /\ \A k \in 1..Len(q1.batch) : In(w.basis, q1.batch[k]) /\ S!Rank(q1.batch[k]) > q1.after
          /\ \A i \in HitIds : In(w.basis, i) /\ S!Rank(i) > q1.after =>
               In(q1.batch, i) \/ (~q1.exhausted /\ S!Rank(i) > S!Rank(q1.batch[Len(q1.batch)]))
    <3> SUFFICES ASSUME q1.phase = "read"
                 PROVE  /\ Len(q1.batch) > 0 /\ Rising(q1.batch)
                        /\ \A k \in 1..Len(q1.batch) :
                             In(w.basis, q1.batch[k]) /\ S!Rank(q1.batch[k]) > q1.after
                        /\ \A i \in HitIds : In(w.basis, i) /\ S!Rank(i) > q1.after =>
                             \/ In(q1.batch, i)
                             \/ ~q1.exhausted /\ S!Rank(i) > S!Rank(q1.batch[Len(q1.batch)])
      OBVIOUS
    <3>1. Len(batch) # 0 /\ Len(batch) \in Nat
      BY <1>8, <1>9, <1>12
    <3>2. Len(batch) > 0
      BY <3>1
    <3> QED
      BY <1>8, <1>9, <1>12, <3>2
  <2>4. q1.phase = "reply" =>
          /\ q1.exhausted
          /\ \A i \in HitIds : In(w.basis, i) => S!Rank(i) <= q1.after
    <3> SUFFICES ASSUME q1.phase = "reply"
                 PROVE  q1.exhausted /\ \A i \in HitIds : In(w.basis, i) => S!Rank(i) <= q1.after
      OBVIOUS
    <3>1. left = <<>>
      BY <1>9, <1>12
    <3>2. Len(left) < size
      BY <3>1
    <3> QED
      BY <1>8, <1>9, <1>12, <3>1, <3>2
  <2>5. q1.phase # "search"
    BY <1>9, <1>12
  <2> QED
    BY <2>1, <2>2, <2>3, <2>4, <2>5, Zenon DEF BatchHolds
<1>14. WalkHolds(q1, c, w)
  <2>1. q1.phase \in {"read", "reply"}
    BY <1>9, <1>12
  <2> QED
    BY <1>1, <1>3, <1>13, <2>1 DEF WalkHolds, RequestHolds, Paging
<1>15. PICK old \in SearchPit : old = pits[n]
  BY SearchParts
<1>16. PICK ends \in 0..MaxHour + KeepAlive : ends = hour + KeepAlive
  BY SearchParts, SearchBounds
<1>17. PICK new \in SearchPit : new = [old EXCEPT !.expires = ends]
  BY DEF SearchPit
<1>18. new.docs = old.docs /\ pits' = [pits EXCEPT ![n] = new]
  <2>1. new.docs = old.docs
    BY <1>17 DEF SearchPit
  <2>2. pits' = [pits EXCEPT ![search.pit].expires = hour + KeepAlive]
    BY DEF S!Search
  <2> QED
    BY <1>1, <1>4, <1>15, <1>16, <1>17, <2>1, <2>2, SearchParts
<1>19. /\ pits' \in [1..MaxSearches -> SearchPit]
       /\ \A m \in 1..MaxSearches : pits'[m].docs = pits[m].docs
       /\ \A m \in 1..MaxSearches : m # n => pits'[m] = pits[m]
  BY <1>15, <1>18, SearchParts
<1>20. search' = q1
  BY <1>10, <1>11
<1>21. S!PitsAccounted'
  <2> SUFFICES ASSUME NEW m \in 1..MaxSearches, S!Open(m)', m # n
               PROVE  pits'[m].given \/ pits'[m].stray
    BY <1>9, <1>12, <1>19, <1>20 DEF S!PitsAccounted, Paging
  <2>1. pits'[m] = pits[m] /\ S!Open(m)
    BY <1>2, <1>19 DEF S!Open
  <2>2. DOMAIN pits = 1..MaxSearches
    BY SearchParts
  <2> QED
    BY <1>1, <1>4, <2>1, <2>2 DEF SearchInv, PitHolds, S!PitsAccounted
<1>22. q1.phase # "current" /\ w.count > 0 /\ q1.pit = w.count
  BY <1>4, <1>9, <1>12 DEF Paging
<1> QED
  BY <1>1, <1>2, <1>3, <1>12, <1>14, <1>19, <1>20, <1>21, <1>22, SearchMoves, SearchParts

(* The candidates of a batch that are public join those found before.      *)
LEMMA ReadKeeps ==
  ASSUME SearchInv, S!Read
  PROVE  SearchInv'
<1>1. PICK q \in SearchRequest, c \in SearchCursor, w \in FoundWalk :
        q = search /\ c = cursor /\ w = found /\ WalkHolds(q, c, w) /\ q.phase = "read"
  BY SearchParts DEF S!Read
<1>2. /\ cursor' = c /\ found' = w /\ pits' = pits
      /\ UNCHANGED <<docs, index, hybrid, hour, updates, mishaps>>
  BY <1>1 DEF S!Read, S!world
<1>3. PagedHolds(c, w) /\ BatchHolds(q, c, w) /\ w.began <= updates /\ q.began <= updates
      /\ Len(q.items) <= SearchSize /\ q.pit = w.count /\ w.count > 0
  BY <1>1, SearchParts DEF WalkHolds, RequestHolds, Paging
<1>4. \A i : In(w.basis, i) => i \in HitIds /\ S!Rank(i) \in 1..Len(Hits)
  BY <1>1, <1>3, PagedBasis
<1>5. PICK batch \in Seq(HitIds), seen \in Seq(HitIds), after \in 0..Len(Hits), from \in 0..Len(Hits) :
        batch = q.batch /\ seen = q.visible /\ after = q.after /\ from = c.after
  BY DEF SearchRequest, SearchCursor
<1>6. /\ from <= after /\ Rising(seen) /\ Len(seen) <= SearchSize
      /\ \A k \in 1..Len(seen) :
           /\ In(w.basis, seen[k]) /\ from < S!Rank(seen[k]) /\ S!Rank(seen[k]) <= after
           /\ docs[seen[k]].mark <= q.began => docs[seen[k]].public
      /\ \A i \in HitIds : In(w.basis, i) /\ Old(i, w) /\ from < S!Rank(i) /\ S!Rank(i) <= after =>
           \/ In(seen, i)
           \/ Len(seen) > SearchSize /\ S!Rank(i) > S!Rank(seen[SearchSize + 1])
      /\ Len(batch) > 0 /\ Rising(batch)
      /\ \A k \in 1..Len(batch) : In(w.basis, batch[k]) /\ S!Rank(batch[k]) > after
      /\ \A i \in HitIds : In(w.basis, i) /\ S!Rank(i) > after =>
           In(batch, i) \/ (~q.exhausted /\ S!Rank(i) > S!Rank(batch[Len(batch)]))
  BY <1>1, <1>3, <1>5 DEF BatchHolds, Between
<1>7. PICK z \in 1..Len(Hits) :
        /\ z = S!Rank(batch[Len(batch)]) /\ z > after
        /\ \A k \in 1..Len(batch) : S!Rank(batch[k]) <= z
  <2>1. Len(batch) \in 1..Len(batch)
    BY <1>6
  <2>2. \A k \in 1..Len(batch) : S!Rank(batch[k]) \in 1..Len(Hits)
    BY <1>4, <1>6
  <2>3. \A k \in 1..Len(batch) : k = Len(batch) \/ k < Len(batch)
    OBVIOUS
  <2>4. \A k \in 1..Len(batch) : k < Len(batch) => S!Rank(batch[k]) < S!Rank(batch[Len(batch)])
    BY <1>6, <2>1 DEF Rising
  <2>5. PICK z \in 1..Len(Hits) : z = S!Rank(batch[Len(batch)])
    BY <2>1, <2>2
  <2>6. \A k \in 1..Len(batch) : S!Rank(batch[k]) <= z
    <3> SUFFICES ASSUME NEW k \in 1..Len(batch) PROVE S!Rank(batch[k]) <= z
      OBVIOUS
    <3>1. PICK a \in Int : a = S!Rank(batch[k])
      BY <2>2
    <3>2. a = z \/ a < z
      BY <2>3, <2>4, <2>5, <3>1
    <3> QED
      BY <3>1, <3>2
  <2>7. z > after
    BY <1>6, <2>1, <2>5
  <2> QED
    BY <2>5, <2>6, <2>7
<1>8. PICK found0 \in Seq(HitIds) :
        /\ found0 = S!At(batch, {k \in DOMAIN batch : S!Visible(batch[k])})
        /\ Rising(found0)
        /\ \A m \in 1..Len(found0) : In(batch, found0[m]) /\ docs[found0[m]].public
        /\ \A i : In(batch, i) /\ docs[i].public => In(found0, i)
  <2> DEFINE K == {k \in DOMAIN batch : S!Visible(batch[k])}
             s == S!At(batch, K)
  <2>1. K \in SUBSET (1..Len(batch)) /\ (\A k \in K : docs[batch[k]].public)
        /\ \A k \in 1..Len(batch) : docs[batch[k]].public => k \in K
    BY DEF S!Visible
  <2> HIDE DEF K
  <2>2. /\ s \in Seq(HitIds)
        /\ \A m \in 1..Len(s) : \E k \in K : s[m] = batch[k]
        /\ \A k \in K : In(s, batch[k])
    BY <2>1, Selected
  <2>3. Rising(s)
    BY <1>6, <2>1, SelectedRises
  <2> HIDE DEF s
  <2>4. \A m \in 1..Len(s) : In(batch, s[m]) /\ docs[s[m]].public
    BY <2>1, <2>2 DEF In
  <2>5. \A i : In(batch, i) /\ docs[i].public => In(s, i)
    BY <2>1, <2>2 DEF In
  <2> QED
    BY <2>2, <2>3, <2>4, <2>5 DEF s, K
<1>9. PICK both \in Seq(HitIds) :
        /\ both = seen \o found0 /\ Rising(both)
        /\ \A k \in 1..Len(both) :
             /\ In(w.basis, both[k]) /\ from < S!Rank(both[k]) /\ S!Rank(both[k]) <= z
             /\ docs[both[k]].mark <= q.began => docs[both[k]].public
        /\ \A i : In(seen, i) \/ In(found0, i) => In(both, i)
  <2>1. \A k \in 1..Len(found0) : In(w.basis, found0[k]) /\ S!Rank(found0[k]) > after /\ S!Rank(found0[k]) <= z
    <3> SUFFICES ASSUME NEW k \in 1..Len(found0), NEW i, i = found0[k]
                 PROVE  In(w.basis, i) /\ S!Rank(i) > after /\ S!Rank(i) <= z
      OBVIOUS
    <3>1. PICK j \in 1..Len(batch) : batch[j] = i
      BY <1>8 DEF In
    <3> QED
      BY <1>6, <1>7, <3>1
  <2>2. \A k \in 1..Len(found0) : S!Rank(found0[k]) \in Int
    BY <1>4, <2>1
  <2>3. \A k \in 1..Len(seen) : S!Rank(seen[k]) \in Int
    BY <1>4, <1>6
  <2>4. \A j \in 1..Len(seen), k \in 1..Len(found0) : S!Rank(seen[j]) < S!Rank(found0[k])
    <3> SUFFICES ASSUME NEW j \in 1..Len(seen), NEW k \in 1..Len(found0)
                 PROVE  S!Rank(seen[j]) < S!Rank(found0[k])
      OBVIOUS
    <3>1. PICK a \in Int, b \in Int : a = S!Rank(seen[j]) /\ b = S!Rank(found0[k])
      BY <2>2, <2>3
    <3>2. a <= after /\ after < b
      BY <1>6, <2>1, <3>1
    <3> QED
      BY <3>1, <3>2
  <2>5. /\ seen \o found0 \in Seq(HitIds) /\ Rising(seen \o found0)
        /\ \A k \in 1..Len(seen \o found0) :
             \/ k \in 1..Len(seen) /\ (seen \o found0)[k] = seen[k]
             \/ k > Len(seen) /\ k - Len(seen) \in 1..Len(found0)
                  /\ (seen \o found0)[k] = found0[k - Len(seen)]
        /\ \A i : In(seen, i) \/ In(found0, i) => In(seen \o found0, i)
    BY <1>6, <1>8, <2>4, RisingGlued
  <2>6. \A k \in 1..Len(seen) : S!Rank(seen[k]) <= z
    BY <1>6, <1>7, <2>3
  <2>7. \A k \in 1..Len(found0) : from < S!Rank(found0[k])
    BY <1>6, <2>1, <2>2
  <2>8. \A k \in 1..Len(seen \o found0) :
          /\ In(w.basis, (seen \o found0)[k])
          /\ from < S!Rank((seen \o found0)[k]) /\ S!Rank((seen \o found0)[k]) <= z
          /\ docs[(seen \o found0)[k]].mark <= q.began => docs[(seen \o found0)[k]].public
    <3> SUFFICES ASSUME NEW k \in 1..Len(seen \o found0), NEW x, x = (seen \o found0)[k]
                 PROVE  /\ In(w.basis, x) /\ from < S!Rank(x) /\ S!Rank(x) <= z
                        /\ docs[x].mark <= q.began => docs[x].public
      OBVIOUS
    <3>1. CASE k \in 1..Len(seen) /\ x = seen[k]
      BY <1>6, <2>6, <3>1
    <3>2. CASE k - Len(seen) \in 1..Len(found0) /\ x = found0[k - Len(seen)]
      BY <1>8, <2>1, <2>7, <3>2
    <3> QED
      BY <2>5, <3>1, <3>2
  <2> QED
    BY <2>5, <2>8
<1>10. PICK shows \in Seq(HitIds) :
         /\ shows = S!Top(both, SearchSize + 1) /\ Rising(shows)
         /\ Len(shows) = IF SearchSize + 1 < Len(both) THEN SearchSize + 1 ELSE Len(both)
         /\ \A k \in 1..Len(shows) : k \in 1..Len(both) /\ shows[k] = both[k]
  <2>1. SearchSize + 1 \in Nat
    BY SearchBounds
  <2> QED
    BY <1>9, <2>1, CutRises
<1>11. ASSUME NEW i \in HitIds, In(w.basis, i), Old(i, w), from < S!Rank(i), S!Rank(i) <= z
       PROVE  In(both, i)
  <2>1. S!Rank(i) \in Int /\ docs[i].public
    BY <1>4, <1>11 DEF Old
  <2>2. CASE S!Rank(i) <= after
    <3>1. ~(Len(seen) > SearchSize)
      BY <1>6, SearchBounds
    <3>2. In(seen, i) \/ Len(seen) > SearchSize
      BY <1>6, <1>11, <2>2
    <3> QED
      BY <1>9, <3>1, <3>2
  <2>3. CASE S!Rank(i) > after
    <3>1. In(batch, i) \/ S!Rank(i) > z
      BY <1>6, <1>7, <1>11, <2>3
    <3>2. ~(S!Rank(i) > z)
      BY <1>11, <2>1
    <3> QED
      BY <1>8, <1>9, <2>1, <3>1, <3>2
  <2> QED
    BY <2>1, <2>2, <2>3
<1>12. ASSUME NEW i, In(both, i)
       PROVE  \/ In(shows, i)
              \/ Len(shows) > SearchSize /\ S!Rank(i) > S!Rank(shows[SearchSize + 1])
  <2>1. PICK m \in 1..Len(both) : both[m] = i
    BY <1>12 DEF In
  <2>2. CASE m <= Len(shows)
    <3>1. m \in 1..Len(shows)
      BY <1>10, <2>2
    <3> QED
      BY <1>10, <2>1, <3>1 DEF In
  <2>3. CASE ~(m <= Len(shows))
    <3>1. Len(shows) = SearchSize + 1 /\ SearchSize + 1 \in 1..Len(both)
          /\ SearchSize + 1 \in 1..Len(shows) /\ SearchSize + 1 < m /\ Len(shows) > SearchSize
      BY <1>10, <2>3, SearchBounds
    <3>2. S!Rank(both[SearchSize + 1]) < S!Rank(both[m])
      BY <1>9, <3>1 DEF Rising
    <3>3. shows[SearchSize + 1] = both[SearchSize + 1]
      BY <1>10, <3>1
    <3>4. PICK a \in Int, b \in Int : a = S!Rank(both[SearchSize + 1]) /\ b = S!Rank(i)
      <4>1. In(w.basis, both[SearchSize + 1]) /\ In(w.basis, i)
        BY <1>9, <2>1, <3>1
      <4> QED
        BY <1>4, <4>1
    <3> QED
      BY <2>1, <3>1, <3>2, <3>3, <3>4
  <2> QED
    BY <2>2, <2>3
<1>13. PICK full \in BOOLEAN, phase \in Paging :
         /\ full <=> Len(shows) = SearchSize + 1 \/ q.scanned = MaxCandidates \/ q.exhausted
         /\ phase = IF full THEN "reply" ELSE "search"
  <2>1. \A x \in BOOLEAN : (IF x THEN "reply" ELSE "search") \in Paging
    BY DEF Paging
  <2> QED
    BY <2>1
<1>14. search' = [q EXCEPT !.visible = shows, !.after = z, !.batch = <<>>, !.phase = phase]
  <2>1. search' = [q EXCEPT !.visible = S!Top(q.visible \o S!At(q.batch, {k \in DOMAIN q.batch : S!Visible(q.batch[k])}), SearchSize + 1),
                   !.after = S!Rank(S!Last(q.batch)), !.batch = <<>>,
                   !.phase = IF \/ Len(S!Top(q.visible \o S!At(q.batch, {k \in DOMAIN q.batch : S!Visible(q.batch[k])}), SearchSize + 1)) = SearchSize + 1
                                \/ q.scanned = MaxCandidates \/ q.exhausted
                             THEN "reply" ELSE "search"]
    BY <1>1, SMTT(30) DEF S!Read
  <2>2. S!Top(q.visible \o S!At(q.batch, {k \in DOMAIN q.batch : S!Visible(q.batch[k])}), SearchSize + 1) = shows
    BY <1>5, <1>8, <1>9, <1>10
  <2>3. S!Rank(S!Last(q.batch)) = z
    BY <1>5, <1>7 DEF S!Last
  <2> QED
    BY <1>13, <2>1, <2>2, <2>3
<1>15. PICK q1 \in SearchRequest :
         q1 = [q EXCEPT !.visible = shows, !.after = z, !.batch = <<>>, !.phase = phase]
  <2>1. phase \in Paging \cup {"idle", "recall", "fuse", "current"} /\ <<>> \in Seq(HitIds)
        /\ z \in 0..Len(Hits)
    BY SearchBounds
  <2> QED
    BY <2>1 DEF SearchRequest
<1>16. /\ q1.visible = shows /\ q1.after = z /\ q1.batch = <<>> /\ q1.phase = phase
       /\ q1.scanned = q.scanned /\ (q1.exhausted <=> q.exhausted) /\ q1.began = q.began
       /\ q1.items = q.items /\ q1.pit = q.pit
  BY <1>15 DEF SearchRequest
<1>17. BatchHolds(q1, c, w)
  <2>1. c.after <= q1.after /\ Rising(q1.visible)
    BY <1>5, <1>6, <1>7, <1>10, <1>16, SearchBounds, SMTT(30)
  <2>2. \A k \in 1..Len(q1.visible) :
          /\ In(w.basis, q1.visible[k]) /\ Between(q1.visible[k], c, q1)
          /\ docs[q1.visible[k]].mark <= q1.began => docs[q1.visible[k]].public
    <3> SUFFICES ASSUME NEW k \in 1..Len(shows), NEW x, x = shows[k]
                 PROVE  /\ In(w.basis, x) /\ from < S!Rank(x) /\ S!Rank(x) <= z
                        /\ docs[x].mark <= q.began => docs[x].public
      BY <1>5, <1>16 DEF Between
    <3>1. k \in 1..Len(both) /\ both[k] = x
      BY <1>10
    <3> QED
      BY <1>9, <3>1
  <2>3. \A i \in HitIds : In(w.basis, i) /\ Old(i, w) /\ Between(i, c, q1) =>
          \/ In(q1.visible, i)
          \/ Len(q1.visible) > SearchSize /\ S!Rank(i) > S!Rank(q1.visible[SearchSize + 1])
    BY <1>5, <1>11, <1>12, <1>16 DEF Between
  <2>4. q1.phase = "search" => Len(q1.visible) <= SearchSize /\ q1.scanned < MaxCandidates
    <3>1. Len(shows) \in Nat /\ Len(shows) <= SearchSize + 1 /\ Len(both) \in Nat
      BY <1>10, SearchBounds
    <3>2. q.scanned \in 0..MaxCandidates
      BY DEF SearchRequest
    <3>3. ~full => Len(shows) # SearchSize + 1 /\ q.scanned # MaxCandidates
      BY <1>13
    <3>4. ~full => Len(shows) <= SearchSize
      BY <3>1, <3>3, SearchBounds
    <3>5. ~full => q.scanned < MaxCandidates
      BY <3>2, <3>3, SearchBounds, SMTT(30)
    <3>6. q1.phase = "search" => ~full
      BY <1>13, <1>16
    <3> QED
      BY <1>16, <3>4, <3>5, <3>6
  <2>5. q1.phase = "reply" =>
          /\ Len(q1.visible) > SearchSize \/ q1.scanned = MaxCandidates \/ q1.exhausted
          /\ q1.exhausted => \A i \in HitIds : In(w.basis, i) => S!Rank(i) <= q1.after
    <3>1. q1.phase = "reply" => full
      BY <1>13, <1>16
    <3>2. full => Len(shows) > SearchSize \/ q.scanned = MaxCandidates \/ q.exhausted
      BY <1>13, SearchBounds
    <3>3. ASSUME q.exhausted, NEW i \in HitIds, In(w.basis, i) PROVE S!Rank(i) <= z
      <4>1. PICK a \in Int : a = S!Rank(i)
        BY <1>4, <3>3
      <4>2. CASE a > after
        <5>1. In(batch, i)
          BY <1>6, <3>3, <4>1, <4>2
        <5> QED
          BY <1>7, <5>1 DEF In
      <4>3. CASE ~(a > after)
        BY <1>7, <4>1, <4>3
      <4> QED
        BY <4>2, <4>3
    <3> QED
      BY <1>16, <3>1, <3>2, <3>3
  <2>6. q1.phase # "read"
    BY <1>13, <1>16
  <2> QED
    BY <2>1, <2>2, <2>3, <2>4, <2>5, <2>6, Zenon DEF BatchHolds
<1>18. q1.phase \in {"search", "reply"}
  BY <1>13, <1>16
<1>19. WalkHolds(q1, c, w)
  BY <1>1, <1>3, <1>17, <1>18 DEF WalkHolds, RequestHolds, Paging
<1>20. search' = q1
  BY <1>14, <1>15
<1>21. S!PitsAccounted'
  <2>1. q.phase # "idle" /\ q1.phase # "idle"
    BY <1>1, <1>18
  <2> QED
    BY <1>1, <1>2, <1>16, <1>20, <2>1 DEF SearchInv, PitHolds, S!PitsAccounted, S!Open
<1>22. /\ q1.phase # "current" /\ q1.began <= updates /\ Len(q1.items) <= SearchSize
       /\ q1.pit = w.count
  BY <1>3, <1>16, <1>18
<1>23. Len(q1.visible) <= SearchSize + 1
  BY <1>10, <1>16, SearchBounds
<1>24. pits' \in [1..MaxSearches -> SearchPit] /\ mishaps' \in 0..MaxMishaps
       /\ \A m \in 1..MaxSearches : pits'[m].docs = pits[m].docs
  BY <1>2, SearchParts
<1> QED
  BY <1>1, <1>2, <1>3, <1>19, <1>20, <1>21, <1>22, <1>23, <1>24, SearchMoves

(* The order of a walk: s after s, and t after s, in the order of basis.   *)
Climbs(s, basis) == \A j, k \in 1..Len(s) : j < k =>
  \E a, b \in 1..Len(basis) : a < b /\ basis[a] = s[j].id /\ basis[b] = s[k].id
Follows(t, s, basis) == \A j \in 1..Len(s), k \in 1..Len(t) :
  \E a, b \in 1..Len(basis) : a < b /\ basis[a] = s[j].id /\ basis[b] = t[k].id

LEMMA ItemsGlued ==
  ASSUME NEW s \in Seq(SearchItem), NEW t \in Seq(SearchItem), NEW basis \in Seq(HitIds)
  PROVE  /\ s \o t \in Seq(SearchItem)
         /\ \A k \in 1..Len(s \o t) :
              \/ k \in 1..Len(s) /\ (s \o t)[k] = s[k]
              \/ k > Len(s) /\ k - Len(s) \in 1..Len(t) /\ (s \o t)[k] = t[k - Len(s)]
         /\ \A i : Has(s, i) \/ Has(t, i) => Has(s \o t, i)
         /\ Climbs(s, basis) /\ Climbs(t, basis) /\ Follows(t, s, basis) => Climbs(s \o t, basis)
<1>1. /\ s \o t \in Seq(SearchItem) /\ Len(s \o t) = Len(s) + Len(t)
      /\ \A k \in 1..Len(s) + Len(t) : (s \o t)[k] = IF k <= Len(s) THEN s[k] ELSE t[k - Len(s)]
      /\ Len(s) \in Nat /\ Len(t) \in Nat
  BY ConcatProperties
<1>2. \A k \in 1..Len(s \o t) :
        \/ k \in 1..Len(s) /\ (s \o t)[k] = s[k]
        \/ k > Len(s) /\ k - Len(s) \in 1..Len(t) /\ (s \o t)[k] = t[k - Len(s)]
  BY <1>1
<1>3. ASSUME NEW i, Has(s, i) PROVE Has(s \o t, i)
  BY <1>1, <1>3 DEF Has
<1>4. ASSUME NEW i, Has(t, i) PROVE Has(s \o t, i)
  <2>1. PICK k \in 1..Len(t) : t[k].id = i
    BY <1>4 DEF Has
  <2>2. k + Len(s) \in 1..Len(s) + Len(t) /\ k + Len(s) - Len(s) = k /\ ~(k + Len(s) <= Len(s))
    BY <1>1
  <2> QED
    BY <1>1, <2>1, <2>2 DEF Has
<1>5. ASSUME Climbs(s, basis), Climbs(t, basis), Follows(t, s, basis)
      PROVE  Climbs(s \o t, basis)
  <2> SUFFICES ASSUME NEW j \in 1..Len(s \o t), NEW k \in 1..Len(s \o t), j < k
               PROVE  \E a, b \in 1..Len(basis) :
                        a < b /\ basis[a] = (s \o t)[j].id /\ basis[b] = (s \o t)[k].id
    BY DEF Climbs
  <2> PICK x \in SearchItem, y \in SearchItem : x = (s \o t)[j] /\ y = (s \o t)[k]
    BY <1>1, ElementOfSeq
  <2>1. CASE k \in 1..Len(s)
    <3>1. j \in 1..Len(s) /\ x = s[j] /\ y = s[k]
      BY <1>1, <2>1
    <3> QED
      BY <1>5, <2>1, <3>1, SMTT(30) DEF Climbs
  <2>2. CASE k \notin 1..Len(s) /\ j \in 1..Len(s)
    <3>1. PICK m \in 1..Len(t) : m = k - Len(s) /\ x = s[j] /\ y = t[m]
      BY <1>1, <2>2
    <3>2. \E a, b \in 1..Len(basis) : a < b /\ basis[a] = s[j].id /\ basis[b] = t[m].id
      BY <1>5, <2>2 DEF Follows
    <3> QED
      BY <3>1, <3>2
  <2>3. CASE k \notin 1..Len(s) /\ j \notin 1..Len(s)
    <3>1. PICK l \in 1..Len(t), m \in 1..Len(t) : x = t[l] /\ y = t[m] /\ l < m
      <4>1. /\ j - Len(s) \in 1..Len(t) /\ x = t[j - Len(s)]
            /\ k - Len(s) \in 1..Len(t) /\ y = t[k - Len(s)]
            /\ j - Len(s) < k - Len(s)
        BY <1>1, <2>3
      <4> QED
        BY <4>1
    <3>2. \E a, b \in 1..Len(basis) : a < b /\ basis[a] = t[l].id /\ basis[b] = t[m].id
      BY <1>5, <3>1 DEF Climbs
    <3> QED
      BY <3>1, <3>2
  <2> QED
    BY <2>1, <2>2, <2>3
<1> QED
  BY <1>1, <1>2, <1>3, <1>4, <1>5, Zenon

LEMMA Positions ==
  ASSUME NEW basis \in Seq(HitIds), Rising(basis)
  PROVE  \A i, j \in HitIds :
           /\ In(basis, i) /\ In(basis, j)
           /\ S!Rank(i) \in Int /\ S!Rank(j) \in Int /\ S!Rank(i) < S!Rank(j)
           => \E a, b \in 1..Len(basis) : a < b /\ basis[a] = i /\ basis[b] = j
<1> SUFFICES ASSUME NEW i \in HitIds, NEW j \in HitIds, In(basis, i), In(basis, j),
                    S!Rank(i) \in Int, S!Rank(j) \in Int, S!Rank(i) < S!Rank(j)
             PROVE  \E a, b \in 1..Len(basis) : a < b /\ basis[a] = i /\ basis[b] = j
  OBVIOUS
<1>1. PICK a \in 1..Len(basis), b \in 1..Len(basis) : basis[a] = i /\ basis[b] = j
  BY DEF In
<1>2. ~(b < a) /\ a # b
  BY <1>1 DEF Rising
<1> QED
  BY <1>1, <1>2

(* The page of a PIT, up to the position z of the next one.                *)
Taken(items, w, z) ==
  /\ Climbs(items, w.basis)
  /\ \A k \in 1..Len(items) : In(w.basis, items[k].id) /\ S!Rank(items[k].id) <= z
  /\ \A i \in HitIds : In(w.basis, i) /\ Old(i, w) /\ S!Rank(i) <= z => Has(items, i)

LEMMA PageTaken ==
  ASSUME SearchInv, NEW q \in SearchRequest, NEW c \in SearchCursor, NEW w \in FoundWalk,
         q = search, c = cursor, w = found, q.phase = "reply",
         NEW t \in Seq(SearchItem), NEW z,
         Len(t) = IF SearchSize < Len(q.visible) THEN SearchSize ELSE Len(q.visible),
         \A k \in 1..Len(t) : t[k].id = q.visible[k],
         z = IF Len(q.visible) > SearchSize THEN S!Rank(q.visible[SearchSize]) ELSE q.after
  PROVE  Taken(w.items \o t, w, z) /\ z \in 0..Len(Hits)
<1>1. WalkHolds(q, c, w) /\ PagedHolds(c, w) /\ BatchHolds(q, c, w)
  BY SearchParts DEF WalkHolds, RequestHolds, Paging
<1>2. /\ w.basis \in Seq(HitIds) /\ Rising(w.basis)
      /\ \A i : In(w.basis, i) => i \in HitIds /\ S!Rank(i) \in 1..Len(Hits)
      /\ \A i, j \in HitIds :
           /\ In(w.basis, i) /\ In(w.basis, j)
           /\ S!Rank(i) \in Int /\ S!Rank(j) \in Int /\ S!Rank(i) < S!Rank(j)
           => \E a, b \in 1..Len(w.basis) : a < b /\ w.basis[a] = i /\ w.basis[b] = j
  <2>1. /\ w.basis \in Seq(HitIds) /\ Rising(w.basis)
        /\ \A i : In(w.basis, i) => i \in HitIds /\ S!Rank(i) \in 1..Len(Hits)
    BY <1>1, PagedBasis
  <2> QED
    BY <2>1, Positions
<1>3. PICK seen \in Seq(HitIds), after \in 0..Len(Hits), from \in 0..Len(Hits), s \in Seq(SearchItem) :
        seen = q.visible /\ after = q.after /\ from = c.after /\ s = w.items
  BY DEF SearchRequest, SearchCursor, FoundWalk
<1>4. /\ from <= after /\ Rising(seen)
      /\ \A k \in 1..Len(seen) :
           In(w.basis, seen[k]) /\ from < S!Rank(seen[k]) /\ S!Rank(seen[k]) <= after
      /\ \A i \in HitIds : In(w.basis, i) /\ Old(i, w) /\ from < S!Rank(i) /\ S!Rank(i) <= after =>
           \/ In(seen, i)
           \/ Len(seen) > SearchSize /\ S!Rank(i) > S!Rank(seen[SearchSize + 1])
  BY <1>1, <1>3 DEF BatchHolds, Between
<1>5. /\ \A k \in 1..Len(s) : S!Rank(s[k].id) <= from /\ In(w.basis, s[k].id)
      /\ \A i \in HitIds : In(w.basis, i) /\ Old(i, w) /\ S!Rank(i) <= from => Has(s, i)
      /\ Climbs(s, w.basis)
  BY <1>1, <1>3 DEF PagedHolds, WalkAt, Passed, WalkHolds, InBasis, Climbs
<1>6. /\ \A k \in 1..Len(t) : k \in 1..Len(seen) /\ t[k].id = seen[k]
      /\ Len(seen) \in Nat
  BY <1>3, SearchBounds
<1>7. /\ \A k \in 1..Len(seen) : S!Rank(seen[k]) \in Int
      /\ \A k \in 1..Len(s) : S!Rank(s[k].id) \in Int
  BY <1>2, <1>4, <1>5
<1>8. /\ z \in 0..Len(Hits) /\ from <= z /\ z <= after
      /\ \A k \in 1..Len(t) : S!Rank(seen[k]) <= z
  <2>1. CASE Len(seen) > SearchSize
    <3>1. SearchSize \in 1..Len(seen) /\ Len(t) = SearchSize
      BY <1>3, <1>6, <2>1, SearchBounds
    <3>2. PICK y \in 1..Len(Hits) : y = S!Rank(seen[SearchSize]) /\ from < y /\ y <= after
      BY <1>2, <1>4, <3>1
    <3>3. z = y
      BY <1>3, <2>1, <3>2
    <3>4. \A k \in 1..Len(t) : S!Rank(seen[k]) <= z
      <4> SUFFICES ASSUME NEW k \in 1..SearchSize PROVE S!Rank(seen[k]) <= y
        BY <3>1, <3>3
      <4>1. CASE k = SearchSize
        BY <3>2, <4>1
      <4>2. CASE k < SearchSize
        <5>1. k \in 1..Len(seen)
          BY <1>6, <3>1
        <5>2. S!Rank(seen[k]) < S!Rank(seen[SearchSize])
          BY <1>4, <3>1, <4>2, <5>1 DEF Rising
        <5>3. PICK x \in Int : x = S!Rank(seen[k])
          BY <1>7, <5>1
        <5> QED
          BY <3>2, <5>2, <5>3
      <4> QED
        BY <4>1, <4>2, SearchBounds
    <3> QED
      BY <3>2, <3>3, <3>4
  <2>2. CASE ~(Len(seen) > SearchSize)
    <3>1. z = after
      BY <1>3, <2>2
    <3> QED
      BY <1>4, <1>6, <3>1, SMTT(30)
  <2> QED
    BY <2>1, <2>2
<1>9. Follows(t, s, w.basis)
  <2> SUFFICES ASSUME NEW j \in 1..Len(s), NEW k \in 1..Len(t)
               PROVE  \E a, b \in 1..Len(w.basis) :
                        a < b /\ w.basis[a] = s[j].id /\ w.basis[b] = t[k].id
    BY DEF Follows
  <2>1. k \in 1..Len(seen) /\ t[k].id = seen[k]
    BY <1>6
  <2>2. PICK x \in Int, y \in Int : x = S!Rank(s[j].id) /\ y = S!Rank(seen[k])
    BY <1>7, <2>1
  <2>3. x <= from /\ from < y
    BY <1>4, <1>5, <2>1, <2>2
  <2>4. x < y
    BY <2>3
  <2>5. In(w.basis, s[j].id) /\ In(w.basis, t[k].id)
    BY <1>4, <1>5, <2>1
  <2> QED
    <3>1. PICK i \in HitIds, h \in HitIds : i = s[j].id /\ h = t[k].id
      BY <1>2, <2>5
    <3>2. /\ In(w.basis, i) /\ In(w.basis, h)
          /\ S!Rank(i) \in Int /\ S!Rank(h) \in Int /\ S!Rank(i) < S!Rank(h)
      BY <2>1, <2>2, <2>4, <2>5, <3>1
    <3>3. \E a, b \in 1..Len(w.basis) : a < b /\ w.basis[a] = i /\ w.basis[b] = h
      BY <1>2, <3>2
    <3> QED
      BY <3>1, <3>3, SMTT(30)
<1>10. Climbs(t, w.basis)
  <2> SUFFICES ASSUME NEW j \in 1..Len(t), NEW k \in 1..Len(t), j < k
               PROVE  \E a, b \in 1..Len(w.basis) :
                        a < b /\ w.basis[a] = t[j].id /\ w.basis[b] = t[k].id
    BY DEF Climbs
  <2>1. k \in 1..Len(seen) /\ t[k].id = seen[k] /\ j \in 1..Len(seen) /\ t[j].id = seen[j]
    BY <1>6
  <2>2. S!Rank(seen[j]) < S!Rank(seen[k]) /\ S!Rank(seen[j]) \in Int /\ S!Rank(seen[k]) \in Int
    BY <1>4, <1>7, <2>1 DEF Rising
  <2>3. In(w.basis, seen[j]) /\ In(w.basis, seen[k])
    BY <1>4, <2>1
  <2> QED
    <3>1. PICK i \in HitIds, h \in HitIds : i = seen[j] /\ h = seen[k]
      BY <1>2, <2>3
    <3>2. /\ In(w.basis, i) /\ In(w.basis, h)
          /\ S!Rank(i) \in Int /\ S!Rank(h) \in Int /\ S!Rank(i) < S!Rank(h)
      BY <2>2, <2>3, <3>1
    <3>3. \E a, b \in 1..Len(w.basis) : a < b /\ w.basis[a] = i /\ w.basis[b] = h
      BY <1>2, <3>2
    <3> QED
      <4>1. t[j].id = i /\ t[k].id = h
        BY <2>1, <3>1
      <4> QED
        BY <3>3, <4>1
<1>11. /\ \A k \in 1..Len(s \o t) :
            \/ k \in 1..Len(s) /\ (s \o t)[k] = s[k]
            \/ k > Len(s) /\ k - Len(s) \in 1..Len(t) /\ (s \o t)[k] = t[k - Len(s)]
       /\ \A i : Has(s, i) \/ Has(t, i) => Has(s \o t, i)
       /\ Climbs(s \o t, w.basis)
  BY <1>2, <1>5, <1>9, <1>10, ItemsGlued, SMTT(30)
<1>12. ASSUME NEW k \in 1..Len(s \o t)
       PROVE  In(w.basis, (s \o t)[k].id) /\ S!Rank((s \o t)[k].id) <= z
  <2>1. CASE k \in 1..Len(s) /\ (s \o t)[k] = s[k]
    <3>1. PICK x \in Int : x = S!Rank(s[k].id)
      BY <1>7, <2>1
    <3>2. x <= from /\ In(w.basis, s[k].id)
      BY <1>5, <2>1, <3>1
    <3>3. x <= z
      BY <1>8, <3>2, SMTT(30)
    <3> QED
      BY <2>1, <3>1, <3>2, <3>3
  <2>2. CASE k - Len(s) \in 1..Len(t) /\ (s \o t)[k] = t[k - Len(s)]
    BY <1>4, <1>6, <1>8, <2>2
  <2> QED
    BY <1>11, <2>1, <2>2
<1>13. ASSUME NEW i \in HitIds, In(w.basis, i), Old(i, w), S!Rank(i) <= z
       PROVE  Has(s \o t, i)
  <2>1. PICK r \in Int : r = S!Rank(i)
    BY <1>2, <1>13
  <2>2. CASE r <= from
    BY <1>5, <1>11, <1>13, <2>1, <2>2
  <2>3. CASE ~(r <= from)
    <3>1. from < r /\ r <= after
      BY <1>8, <1>13, <2>1, <2>3, SMTT(30)
    <3>2. In(seen, i)
      <4>1. CASE Len(seen) > SearchSize
        <5>1. SearchSize \in 1..Len(seen) /\ SearchSize + 1 \in 1..Len(seen) /\ SearchSize < SearchSize + 1
          <6>1. \A m, n \in Nat : n > m /\ m > 0 => m \in 1..n /\ m + 1 \in 1..n /\ m < m + 1
            OBVIOUS
          <6>2. SearchSize \in Nat /\ SearchSize > 0
            BY SearchBounds
          <6>3. Len(seen) \in Nat
            BY <1>6
          <6> QED
            BY <4>1, <6>1, <6>2, <6>3
        <5>2. S!Rank(seen[SearchSize]) < S!Rank(seen[SearchSize + 1])
          BY <1>4, <5>1 DEF Rising
        <5>3. PICK y \in Int, x \in Int : y = S!Rank(seen[SearchSize + 1]) /\ x = S!Rank(seen[SearchSize])
          BY <1>7, <5>1
        <5>4. z = x
          BY <1>3, <4>1, <5>3
        <5>5. ~(r > y)
          BY <1>13, <2>1, <5>2, <5>3, <5>4, SMTT(30)
        <5> QED
          BY <1>4, <1>13, <2>1, <3>1, <5>3, <5>5
      <4>2. CASE ~(Len(seen) > SearchSize)
        BY <1>4, <1>13, <2>1, <3>1, <4>2
      <4> QED
        BY <4>1, <4>2
    <3>3. PICK m \in 1..Len(seen) : seen[m] = i
      BY <3>2 DEF In
    <3>4. m <= Len(t)
      <4>1. CASE Len(seen) > SearchSize
        <5>1. SearchSize \in 1..Len(seen) /\ Len(t) = SearchSize
          BY <1>3, <1>6, <4>1, SearchBounds
        <5>2. z = S!Rank(seen[SearchSize])
          BY <1>3, <4>1
        <5>3. SearchSize < m => S!Rank(seen[SearchSize]) < S!Rank(seen[m])
          BY <1>4, <5>1 DEF Rising
        <5>4. ~(z < r)
          BY <1>8, <1>13, <2>1
        <5> QED
          BY <2>1, <3>3, <5>1, <5>2, <5>3, <5>4
      <4>2. CASE ~(Len(seen) > SearchSize)
        <5>1. Len(t) = Len(seen)
          BY <1>3, <1>6, <4>2, SearchBounds
        <5> QED
          BY <5>1
      <4> QED
        BY <4>1, <4>2
    <3>5. m \in 1..Len(t) /\ t[m].id = i
      BY <1>6, <3>3, <3>4
    <3> QED
      BY <1>11, <3>5 DEF Has
  <2> QED
    BY <2>2, <2>3
<1> QED
  BY <1>3, <1>8, <1>11, <1>12, <1>13 DEF Taken

(* A response, which the client gets or not.                               *)
LEMMA Replies ==
  ASSUME SearchInv, NEW q \in SearchRequest, NEW c \in SearchCursor, NEW w \in FoundWalk,
         q = search, c = cursor, w = found,
         NEW t \in Seq(SearchItem), NEW next \in SearchCursor, NEW basis \in Seq(HitIds),
         S!Reply(t, next, basis)
  PROVE  \E q1 \in SearchRequest, c1 \in SearchCursor, w1 \in FoundWalk :
           /\ search' = q1 /\ cursor' = c1 /\ found' = w1
           /\ q1.phase = "idle" /\ q1.items = t /\ q1.began = q.began /\ q1.visible = <<>>
           /\ w1.began = w.began /\ w1.count = w.count
           /\ \/ /\ c1 = next /\ w1.basis = basis /\ w1.items = w.items \o t
                 /\ w1.over <=> next = S!NoCursor
              \/ c1 = c /\ w1 = w
<1>1. PICK x \in SearchRequest : x = S!Idle /\ x.phase = "idle" /\ x.visible = <<>>
  BY IdleSearch
<1>2. PICK u \in 0..MaxUpdates : u = q.began
  BY DEF SearchRequest
<1>3. PICK q1 \in SearchRequest : q1 = [x EXCEPT !.items = t, !.began = u]
  BY DEF SearchRequest
<1>4. /\ q1.phase = "idle" /\ q1.items = t /\ q1.began = u /\ q1.visible = <<>>
  BY <1>1, <1>3 DEF SearchRequest
<1>5. search' = q1
  BY <1>1, <1>2, <1>3 DEF S!Reply
<1>6. PICK glued \in Seq(SearchItem) : glued = w.items \o t
  BY ItemsGlued DEF FoundWalk
<1>7. PICK over \in BOOLEAN : over <=> next = S!NoCursor
  OBVIOUS
<1>8. PICK w1 \in FoundWalk : w1 = [w EXCEPT !.items = glued, !.basis = basis, !.over = over]
  BY DEF FoundWalk
<1>9. /\ w1.items = glued /\ w1.basis = basis /\ (w1.over <=> over)
      /\ w1.began = w.began /\ w1.count = w.count
  BY <1>8 DEF FoundWalk
<1>10. CASE /\ cursor' = next
            /\ found' = [found EXCEPT !.items = @ \o t, !.basis = basis, !.over = next = S!NoCursor]
  <2>1. (next = S!NoCursor) = over
    BY <1>7
  <2>2. [w EXCEPT !.items = @ \o t, !.basis = basis, !.over = over] = w1
    BY <1>6, <1>8 DEF FoundWalk
  <2>3. found' = w1
    BY <1>10, <2>1, <2>2
  <2>4. w1.over <=> next = S!NoCursor
    BY <1>7, <1>9
  <2>5. cursor' = next /\ w1.items = w.items \o t
    BY <1>6, <1>9, <1>10
  <2>6. /\ search' = q1 /\ cursor' = next /\ found' = w1
        /\ q1.phase = "idle" /\ q1.items = t /\ q1.began = q.began /\ q1.visible = <<>>
        /\ w1.began = w.began /\ w1.count = w.count
        /\ next = next /\ w1.basis = basis /\ w1.items = w.items \o t
        /\ w1.over <=> next = S!NoCursor
    BY <1>2, <1>4, <1>5, <1>9, <2>3, <2>4, <2>5
  <2> QED
    BY <2>6, Zenon
<1>11. CASE UNCHANGED <<cursor, found>>
  <2>1. /\ search' = q1 /\ cursor' = c /\ found' = w
        /\ q1.phase = "idle" /\ q1.items = t /\ q1.began = q.began /\ q1.visible = <<>>
        /\ w.began = w.began /\ w.count = w.count /\ c = c /\ w = w
    BY <1>2, <1>4, <1>5, <1>11
  <2> QED
    BY <2>1, Zenon
<1> QED
  BY <1>10, <1>11 DEF S!Reply

(* The last page of a walk closes its PIT, the others hand it out.         *)
LEMMA PageAnswered ==
  ASSUME SearchInv, S!Answer
  PROVE  SearchInv'
<1>1. PICK q \in SearchRequest, c \in SearchCursor, w \in FoundWalk :
        q = search /\ c = cursor /\ w = found /\ WalkHolds(q, c, w) /\ q.phase = "reply"
  BY SearchParts DEF S!Answer
<1>2. UNCHANGED <<docs, index, hybrid, hour, updates>>
  BY DEF S!Answer, S!world
<1>3. /\ PagedHolds(c, w) /\ BatchHolds(q, c, w) /\ w.began <= updates /\ q.began <= updates
      /\ q.pit = w.count /\ w.count > 0
  BY <1>1, SearchParts DEF WalkHolds, RequestHolds, Paging
<1>4. PICK seen \in Seq(HitIds) : seen = q.visible
  BY DEF SearchRequest
<1>5. PICK size \in Nat :
        /\ size = S!Min({SearchSize, Len(seen)})
        /\ size = IF SearchSize < Len(seen) THEN SearchSize ELSE Len(seen)
  <2>1. SearchSize \in Int /\ Len(seen) \in Nat /\ SearchSize \in Nat
    BY SearchBounds
  <2>2. S!Min({SearchSize, Len(seen)}) = IF SearchSize <= Len(seen) THEN SearchSize ELSE Len(seen)
    BY <2>1, Lesser
  <2> QED
    BY <2>1, <2>2
<1>6. PICK t \in Seq(SearchItem) :
        /\ t = [k \in 1..size |-> [id |-> seen[k], vector |-> 0]]
        /\ Len(t) = size /\ \A k \in 1..size : t[k].id = seen[k] /\ t[k].vector = 0
  <2>1. size <= Len(seen)
    BY <1>5, SearchBounds
  <2>2. \A k \in 1..size : [id |-> seen[k], vector |-> 0] \in SearchItem
    BY <2>1, ElementOfSeq DEF SearchItem
  <2>3. PICK t : t = [k \in 1..size |-> [id |-> seen[k], vector |-> 0]]
    OBVIOUS
  <2>4. t \in [1..size -> SearchItem]
    BY <2>2, <2>3
  <2>5. t \in Seq(SearchItem) /\ Len(t) = size
    BY <2>4
  <2>6. \A k \in 1..size : t[k].id = seen[k] /\ t[k].vector = 0
    BY <2>3
  <2> QED
    BY <2>3, <2>5, <2>6
<1>7. PICK z : z = IF Len(q.visible) > SearchSize THEN S!Rank(q.visible[SearchSize]) ELSE q.after
  OBVIOUS
<1>10. w.basis \in Seq(HitIds) /\ w.count \in 0..MaxSearches
  BY DEF FoundWalk
<1>8. PICK items \in Seq(SearchItem) :
        items = w.items \o t /\ Taken(items, w, z) /\ z \in 0..Len(Hits)
  <2>1. /\ Len(t) = IF SearchSize < Len(q.visible) THEN SearchSize ELSE Len(q.visible)
        /\ \A k \in 1..Len(t) : t[k].id = q.visible[k]
    BY <1>4, <1>5, <1>6
  <2>2. Taken(w.items \o t, w, z) /\ z \in 0..Len(Hits)
    BY <1>1, <1>7, <2>1, PageTaken
  <2>3. w.items \o t \in Seq(SearchItem)
    BY <1>10, ItemsGlued DEF FoundWalk
  <2> QED
    BY <2>2, <2>3
<1>9. ASSUME NEW q1 \in SearchRequest, q1.phase = "idle", q1.items = t, q1.began = q.began
      PROVE  Fresh(q1) /\ Len(q1.items) <= SearchSize
  <2>1. \A k \in 1..Len(t) : k \in 1..Len(seen)
    BY <1>5, <1>6, SearchBounds
  <2>2. \A k \in 1..Len(seen) : docs[seen[k]].mark <= q.began => docs[seen[k]].public
    BY <1>3, <1>4 DEF BatchHolds
  <2>3. Len(t) <= SearchSize
    BY <1>5, <1>6, SearchBounds
  <2> QED
    <3>1. \A k \in 1..Len(t) :
            docs[t[k].id].mark <= q.began =>
              docs[t[k].id].public /\ t[k].vector \in {0, docs[t[k].id].vector}
      <4> SUFFICES ASSUME NEW k \in 1..Len(t), NEW i, i = t[k].id, docs[i].mark <= q.began
                   PROVE  docs[i].public /\ t[k].vector = 0
        OBVIOUS
      <4>1. i = seen[k] /\ k \in 1..Len(seen) /\ t[k].vector = 0
        BY <1>6, <2>1
      <4> QED
        BY <2>2, <4>1
    <3> QED
      BY <1>9, <2>3, <3>1 DEF Fresh
<1>11. mishaps' \in 0..MaxMishaps /\ pits' \in [1..MaxSearches -> SearchPit]
       /\ (\A n \in 1..MaxSearches : pits'[n].docs = pits[n].docs) /\ S!PitsAccounted'
       /\ \E next \in SearchCursor :
            /\ S!Reply(t, next, w.basis)
            /\ \/ next = S!NoCursor /\ \A i \in HitIds : In(w.basis, i) => S!Rank(i) <= z
               \/ next.items = <<>> /\ next.offset = 0 /\ next.pit = w.count /\ next.after = z
  <2>1. [k \in 1..S!Min({SearchSize, Len(search.visible)}) |-> [id |-> search.visible[k], vector |-> 0]] = t
    BY <1>1, <1>4, <1>5, <1>6
  <2>2. CASE Len(seen) > SearchSize \/ (~q.exhausted /\ q.scanned = MaxCandidates)
    <3>1. PICK ends \in Nat, n \in 1..MaxSearches :
            ends = hour + KeepAlive /\ n = w.count /\ n \in 0..MaxSearches
      <4>1. hour + KeepAlive \in Nat
        BY SearchParts, SearchBounds, SMTT(30)
      <4>2. w.count \in 1..MaxSearches
        BY <1>3, <1>10, SearchBounds
      <4> QED
        BY <1>10, <4>1, <4>2
    <3>2. PICK x \in SearchCursor : x = S!NoCursor /\ x.items = <<>> /\ x.offset = 0
      BY IdleSearch
    <3>3. PICK after \in 0..Len(Hits) : after = z
      BY <1>8
    <3>4. PICK next \in SearchCursor : next = [x EXCEPT !.pit = n, !.after = after, !.expires = ends]
      BY <3>1 DEF SearchCursor
    <3>5. next.items = <<>> /\ next.offset = 0 /\ next.pit = n /\ next.after = after
      BY <3>2, <3>4 DEF SearchCursor
    <3>6. S!NextPosition(search) = z
      BY <1>1, <1>7 DEF S!NextPosition
    <3>7. /\ S!Reply(t, [S!NoCursor EXCEPT !.pit = search.pit, !.after = S!NextPosition(search),
                                           !.expires = hour + KeepAlive], found.basis)
          /\ pits' = [pits EXCEPT ![search.pit].given = TRUE] /\ UNCHANGED mishaps
      BY <1>1, <1>4, <2>1, <2>2 DEF S!Answer
    <3>8. S!Reply(t, next, w.basis)
      BY <1>1, <1>3, <3>1, <3>2, <3>3, <3>4, <3>6, <3>7
    <3>9. PICK old \in SearchPit : old = pits[n]
      BY SearchParts
    <3>10. PICK new \in SearchPit : new = [old EXCEPT !.given = TRUE]
      BY DEF SearchPit
    <3>11. new.docs = old.docs /\ new.given = TRUE
      BY <3>10 DEF SearchPit
    <3>12. pits' = [pits EXCEPT ![n] = new]
      BY <1>1, <1>3, <3>1, <3>7, <3>9, <3>10, SearchParts
    <3>13. /\ pits' \in [1..MaxSearches -> SearchPit]
           /\ \A m \in 1..MaxSearches : pits'[m].docs = pits[m].docs
           /\ \A m \in 1..MaxSearches : m # n => pits'[m] = pits[m]
           /\ pits'[n].given = TRUE
      BY <3>9, <3>11, <3>12, SearchParts
    <3>14. S!PitsAccounted'
      <4> SUFFICES ASSUME NEW m \in 1..MaxSearches, S!Open(m)', m # n
                   PROVE  pits'[m].given \/ pits'[m].stray
        BY <3>13 DEF S!PitsAccounted
      <4>1. pits'[m] = pits[m] /\ S!Open(m)
        BY <1>2, <3>13 DEF S!Open
      <4>2. DOMAIN pits = 1..MaxSearches
        BY SearchParts
      <4> QED
        BY <1>1, <1>3, <3>1, <4>1, <4>2 DEF SearchInv, PitHolds, S!PitsAccounted
    <3> QED
      BY <3>1, <3>3, <3>5, <3>7, <3>8, <3>13, <3>14, SearchParts
  <2>3. CASE ~(Len(seen) > SearchSize \/ (~q.exhausted /\ q.scanned = MaxCandidates))
    <3>1. S!Reply(t, S!NoCursor, w.basis) /\ S!Close(search.pit)
      BY <1>1, <1>4, <2>1, <2>3 DEF S!Answer
    <3>2. q.exhausted /\ z = q.after
      BY <1>1, <1>3, <1>4, <1>7, <2>3 DEF BatchHolds
    <3>3. \A i \in HitIds : In(w.basis, i) => S!Rank(i) <= z
      BY <1>1, <1>3, <3>2 DEF BatchHolds
    <3> QED
      BY <1>2, <3>1, <3>3, Closes, IdleSearch
  <2> QED
    BY <2>2, <2>3
<1>12. PICK next \in SearchCursor :
         /\ S!Reply(t, next, w.basis)
         /\ \/ next = S!NoCursor /\ \A i \in HitIds : In(w.basis, i) => S!Rank(i) <= z
            \/ next.items = <<>> /\ next.offset = 0 /\ next.pit = w.count /\ next.after = z
  BY <1>11
<1>13. PICK q1 \in SearchRequest, c1 \in SearchCursor, w1 \in FoundWalk :
         /\ search' = q1 /\ cursor' = c1 /\ found' = w1
         /\ q1.phase = "idle" /\ q1.items = t /\ q1.began = q.began /\ q1.visible = <<>>
         /\ w1.began = w.began /\ w1.count = w.count
         /\ \/ /\ c1 = next /\ w1.basis = w.basis /\ w1.items = w.items \o t
               /\ w1.over <=> next = S!NoCursor
            \/ c1 = c /\ w1 = w
  BY <1>1, <1>10, <1>12, Replies
<1>14. RequestHolds(q1, c1, w1)
  BY <1>9, <1>13 DEF RequestHolds, Paging
<1>15. ASSUME c1 = c, w1 = w PROVE WalkHolds(q1, c1, w1)
  BY <1>1, <1>14, <1>15 DEF WalkHolds
<1>16. ASSUME c1 = next, w1.basis = w.basis, w1.items = items, w1.over <=> next = S!NoCursor
       PROVE  WalkHolds(q1, c1, w1)
  <2>1. \A i : Old(i, w1) <=> Old(i, w)
    BY <1>13 DEF Old
  <2>2. w1.over => \A i \in HitIds : In(w.basis, i) => S!Rank(i) <= z
    BY <1>3, <1>12, <1>16, IdleSearch
  <2>3. Distinct(w.basis)
    BY <1>1 DEF WalkHolds, InBasis
  <2>4. InBasis(w1)
    <3>1. w1.over => \A i \in HitIds : In(w1.basis, i) /\ Old(i, w1) => Has(w1.items, i)
      BY <1>8, <1>16, <2>1, <2>2 DEF Taken
    <3>2. \A j, k \in 1..Len(w1.items) : j < k =>
            \E a, b \in 1..Len(w1.basis) :
              a < b /\ w1.basis[a] = w1.items[j].id /\ w1.basis[b] = w1.items[k].id
      <4>1. Climbs(w1.items, w1.basis)
        BY <1>8, <1>16 DEF Taken
      <4> QED
        BY <4>1 DEF Climbs
    <3>3. \A k \in 1..Len(w1.items) : In(w1.basis, w1.items[k].id)
      BY <1>8, <1>16 DEF Taken
    <3> QED
      BY <1>16, <2>3, <3>1, <3>2, <3>3, Zenon DEF InBasis
  <2>5. c1.items = <<>>
    BY <1>12, <1>16, IdleSearch
  <2>6. c1 # S!NoCursor => PagedHolds(c1, w1)
    <3> SUFFICES ASSUME c1 # S!NoCursor PROVE PagedHolds(c1, w1)
      OBVIOUS
    <3>1. c1.offset = 0 /\ c1.pit = w.count /\ c1.after = z
      BY <1>12, <1>16
    <3>2. \A k \in 1..Len(w1.items) : Passed(c1, w1.items[k].id)
      BY <1>8, <1>16, <2>5, <3>1 DEF Passed, Taken
    <3>3. \A i \in HitIds : In(w1.basis, i) /\ Old(i, w1) /\ Passed(c1, i) => Has(w1.items, i)
      BY <1>8, <1>16, <2>1, <2>5, <3>1 DEF Passed, Taken
    <3> QED
      BY <1>3, <1>13, <1>16, <2>5, <3>1, <3>2, <3>3 DEF PagedHolds, WalkAt
  <2> QED
    BY <1>14, <2>4, <2>5, <2>6 DEF WalkHolds
<1>17. WalkHolds(q1, c1, w1)
  BY <1>8, <1>13, <1>15, <1>16
<1>18. /\ q1.phase # "current" /\ q1.phase \notin Paging \cup {"recall", "fuse"}
       /\ q1.began <= updates /\ w1.began <= updates
       /\ Len(q1.items) <= SearchSize /\ Len(q1.visible) <= SearchSize + 1
  <2>1. Len(<<>>) <= SearchSize + 1
    BY SearchBounds
  <2> QED
    BY <1>3, <1>9, <1>13, <2>1 DEF Paging
<1> QED
  BY <1>1, <1>2, <1>11, <1>13, <1>17, <1>18, SearchMoves

(* Both recalls of a hybrid query.                                         *)
LEMMA RecallKeeps ==
  ASSUME SearchInv, S!Recall
  PROVE  SearchInv'
<1>1. PICK q \in SearchRequest, c \in SearchCursor, w \in FoundWalk :
        q = search /\ c = cursor /\ w = found /\ WalkHolds(q, c, w) /\ q.phase = "recall"
  BY SearchParts DEF S!Recall
<1>2. /\ cursor' = c /\ found' = w /\ pits' = pits
      /\ UNCHANGED <<docs, index, hybrid, hour, updates, mishaps>>
  BY <1>1 DEF S!Recall, S!world
<1>3. /\ c = S!NoCursor /\ w.items = <<>> /\ w.began <= updates /\ q.began <= updates
      /\ Len(q.items) <= SearchSize /\ Len(q.visible) <= SearchSize + 1
      /\ q.pit = w.count /\ w.count > 0
  BY <1>1, SearchParts DEF WalkHolds, RequestHolds, Paging
<1>4. PICK d \in SearchDocs : d = pits[search.pit].docs
  <2>1. w.count \in 1..w.count
    BY <1>3 DEF FoundWalk
  <2> QED
    BY <1>1, <1>3, <2>1, SearchParts
<1>5. PICK bm \in Seq(HitIds), near \in Seq(HitIds) :
        bm = S!Top(S!Keyword(d), BM25Candidates) /\ near = S!Top(S!Semantic(d), KNNCandidates)
  <2>1. S!Keyword(d) \in Seq(HitIds)
    BY KeywordFinds
  <2>2. S!Semantic(d) \in Seq(HitIds)
    <3>1. {k \in DOMAIN Near : d[Near[k]].visible} \in SUBSET (1..Len(Near))
      BY SearchBounds, SMTT(30)
    <3>2. S!At(Near, {k \in DOMAIN Near : d[Near[k]].visible}) \in Seq(HitIds)
      BY <3>1, SearchBounds, Selected
    <3> QED
      BY <3>2 DEF S!Semantic, S!Found
  <2> QED
    BY <2>1, <2>2, CutRises, SearchBounds
<1>6. PICK semantic \in BOOLEAN :
        search' = [q EXCEPT !.phase = "fuse", !.bm = bm,
          !.knn = IF semantic THEN [k \in DOMAIN near |-> [id |-> near[k], vector |-> d[near[k]].vector]]
                  ELSE <<>>]
  BY <1>1, <1>4, <1>5 DEF S!Recall
<1>7. PICK knn \in Seq(SearchItem) :
        knn = IF semantic THEN [k \in DOMAIN near |-> [id |-> near[k], vector |-> d[near[k]].vector]]
              ELSE <<>>
  <2>1. \A k \in 1..Len(near) : near[k] \in HitIds
    BY ElementOfSeq
  <2>2. \A i \in HitIds : d[i].vector \in Nat
    BY DEF SearchDocs
  <2>3. \A k \in 1..Len(near) : [id |-> near[k], vector |-> d[near[k]].vector] \in SearchItem
    BY <2>1, <2>2 DEF SearchItem
  <2>4. PICK s : s = [k \in 1..Len(near) |-> [id |-> near[k], vector |-> d[near[k]].vector]]
    OBVIOUS
  <2>5. s \in [1..Len(near) -> SearchItem]
    BY <2>3, <2>4
  <2>6. s \in Seq(SearchItem) /\ <<>> \in Seq(SearchItem)
    BY <2>5
  <2>7. s = [k \in DOMAIN near |-> [id |-> near[k], vector |-> d[near[k]].vector]]
    BY <2>4
  <2> QED
    BY <2>6, <2>7
<1>8. PICK q1 \in SearchRequest : q1 = [q EXCEPT !.phase = "fuse", !.bm = bm, !.knn = knn]
  BY DEF SearchRequest
<1>9. /\ q1.phase = "fuse" /\ q1.began = q.began /\ q1.items = q.items
      /\ q1.visible = q.visible /\ q1.pit = q.pit
  BY <1>8 DEF SearchRequest
<1>10. search' = q1
  BY <1>6, <1>7, <1>8
<1>11. WalkHolds(q1, c, w)
  BY <1>1, <1>3, <1>9 DEF WalkHolds, RequestHolds, Paging
<1>12. S!PitsAccounted'
  BY <1>1, <1>2, <1>9, <1>10 DEF SearchInv, PitHolds, S!PitsAccounted, S!Open
<1>13. pits' \in [1..MaxSearches -> SearchPit] /\ mishaps' \in 0..MaxMishaps
       /\ \A m \in 1..MaxSearches : pits'[m].docs = pits[m].docs
  BY <1>2, SearchParts
<1>14. q1.phase # "current" /\ q1.pit = w.count
  BY <1>3, <1>9
<1> QED
  BY <1>1, <1>2, <1>3, <1>9, <1>10, <1>11, <1>12, <1>13, <1>14, SearchMoves

-----------------------------------------------------------------------------
(* The order of two rankings fused.                                        *)

LEMMA Cancels ==
  ASSUME NEW x \in Int, NEW y \in Int, NEW m \in Nat \ {0}
  PROVE  /\ x * m > y * m => x > y
         /\ x * m >= y * m => x >= y
         /\ x >= y => x * m >= y * m
         /\ x > y => x * m > y * m
  OBVIOUS

LEMMA FractionsCompare ==
  ASSUME NEW a1 \in Nat \ {0}, NEW a2 \in Nat \ {0}, NEW b1 \in Nat \ {0}, NEW b2 \in Nat \ {0},
         NEW c1 \in Nat \ {0}, NEW c2 \in Nat \ {0},
         a1 * b2 >= b1 * a2, b1 * c2 >= c1 * b2
  PROVE  /\ a1 * c2 >= c1 * a2
         /\ a1 * b2 > b1 * a2 \/ b1 * c2 > c1 * b2 => a1 * c2 > c1 * a2
<1>1. /\ a1 * b2 \in Int /\ b1 * a2 \in Int /\ b1 * c2 \in Int /\ c1 * b2 \in Int
      /\ a1 * c2 \in Int /\ c1 * a2 \in Int
  OBVIOUS
<1>2. /\ (a1 * b2) * c2 >= (b1 * a2) * c2
      /\ a1 * b2 > b1 * a2 => (a1 * b2) * c2 > (b1 * a2) * c2
  BY <1>1, Cancels
<1>3. /\ (b1 * c2) * a2 >= (c1 * b2) * a2
      /\ b1 * c2 > c1 * b2 => (b1 * c2) * a2 > (c1 * b2) * a2
  BY <1>1, Cancels
<1>4. /\ (a1 * b2) * c2 = (a1 * c2) * b2
      /\ (b1 * a2) * c2 = (b1 * c2) * a2
      /\ (c1 * b2) * a2 = (c1 * a2) * b2
  OBVIOUS
<1>5. /\ (a1 * c2) * b2 \in Int /\ (c1 * a2) * b2 \in Int /\ (b1 * c2) * a2 \in Int
  OBVIOUS
<1>6. /\ (a1 * c2) * b2 >= (c1 * a2) * b2
      /\ a1 * b2 > b1 * a2 \/ b1 * c2 > c1 * b2 => (a1 * c2) * b2 > (c1 * a2) * b2
  BY <1>2, <1>3, <1>4, <1>5
<1> QED
  BY <1>1, <1>6, Cancels

LEMMA Scores ==
  ASSUME NEW bm \in Seq(HitIds), NEW ids \in Seq(HitIds),
         NEW i \in S!Range(bm) \cup S!Range(ids)
  PROVE  \E a, b \in Nat \ {0} : S!Score(bm, ids, i) = <<a, b>>
<1>1. DOMAIN bm = 1..Len(bm) /\ DOMAIN ids = 1..Len(ids)
  OBVIOUS
<1>2. i \in S!Range(bm) => (CHOOSE k \in DOMAIN bm : bm[k] = i) \in 1..Len(bm)
  BY <1>1 DEF S!Range
<1>3. i \in S!Range(ids) => (CHOOSE k \in DOMAIN ids : ids[k] = i) \in 1..Len(ids)
  BY <1>1 DEF S!Range
<1>4. PICK x, y : x = (CHOOSE k \in DOMAIN bm : bm[k] = i) /\ y = (CHOOSE k \in DOMAIN ids : ids[k] = i)
  OBVIOUS
<1>5. CASE i \notin S!Range(ids)
  <2>1. x \in Nat
    BY <1>2, <1>4, <1>5
  <2>2. 60 + x \in Nat \ {0} /\ 1 \in Nat \ {0}
    BY <2>1
  <2>3. S!Score(bm, ids, i) = <<1, 60 + x>>
    BY <1>4, <1>5 DEF S!Score
  <2> QED
    BY <2>2, <2>3
<1>6. CASE i \notin S!Range(bm)
  <2>1. y \in Nat /\ i \in S!Range(ids)
    BY <1>3, <1>4, <1>6
  <2>2. 60 + y \in Nat \ {0} /\ 1 \in Nat \ {0}
    BY <2>1
  <2>3. S!Score(bm, ids, i) = <<1, 60 + y>>
    BY <1>4, <1>6, <2>1 DEF S!Score
  <2> QED
    BY <2>2, <2>3
<1>7. CASE i \in S!Range(ids) /\ i \in S!Range(bm)
  <2>1. x \in Nat /\ y \in Nat
    BY <1>2, <1>3, <1>4, <1>7
  <2>2. 60 + x \in Nat \ {0} /\ 60 + y \in Nat \ {0}
    BY <2>1
  <2>3. (60 + x) + (60 + y) \in Nat \ {0} /\ (60 + x) * (60 + y) \in Nat \ {0}
    BY <2>2
  <2>4. S!Score(bm, ids, i) = <<(60 + x) + (60 + y), (60 + x) * (60 + y)>>
    BY <1>4, <1>7 DEF S!Score
  <2> QED
    BY <2>3, <2>4
<1> QED
  BY <1>5, <1>6, <1>7

LEMMA Fuses ==
  ASSUME NEW bm \in Seq(HitIds), NEW ids \in Seq(HitIds)
  PROVE  S!FuseRRF(bm, ids) \in Seq(HitIds) /\ Distinct(S!FuseRRF(bm, ids))
<1> DEFINE X == S!Range(bm) \cup S!Range(ids)
           num(i) == S!Score(bm, ids, i)[1]
           den(i) == S!Score(bm, ids, i)[2]
           ahead(i, j) == \/ num(i) * den(j) > num(j) * den(i)
                          \/ num(i) * den(j) = num(j) * den(i) /\ i > j
           Ahead == {ij \in X \X X : ahead(ij[1], ij[2])}
<1>1. S!FuseRRF(bm, ids) = Ordered(X, Ahead)
  <2>1. S!FuseRRF(bm, ids) = S!Ordered(X, Ahead)
    BY DEF S!FuseRRF
  <2> QED
    BY <2>1, SameInSearch
<1>2. \A i \in X : num(i) \in Nat \ {0} /\ den(i) \in Nat \ {0}
  BY Scores
<1>3. X \subseteq HitIds /\ IsFiniteSet(X)
  <2>1. \A s \in Seq(HitIds) : S!Range(s) \subseteq HitIds /\ IsFiniteSet(S!Range(s))
    <3> SUFFICES ASSUME NEW s \in Seq(HitIds) PROVE S!Range(s) \subseteq HitIds /\ IsFiniteSet(S!Range(s))
      OBVIOUS
    <3>1. DOMAIN s = 1..Len(s) /\ Len(s) \in Nat /\ \A k \in 1..Len(s) : s[k] \in HitIds
      OBVIOUS
    <3>2. IsFiniteSet(DOMAIN s)
      BY <3>1, FS_Interval
    <3>3. S!Range(s) = {s[k] : k \in DOMAIN s}
      BY DEF S!Range
    <3>4. s \in Surjection(DOMAIN s, S!Range(s))
      <4>1. s \in [DOMAIN s -> S!Range(s)]
        BY <3>1, <3>3
      <4> QED
        BY <3>3, <4>1 DEF Surjection
    <3>5. IsFiniteSet(S!Range(s))
      BY <3>2, <3>4, FS_Surjection
    <3> QED
      BY <3>1, <3>3, <3>5
  <2> QED
    BY <2>1, FS_Union
<1>4. \A i, j \in X : <<i, j>> \in Ahead <=> ahead(i, j)
  OBVIOUS
<1> HIDE DEF X, num, den, Ahead
<1>5. \A i, j \in X : num(i) * den(j) \in Int /\ num(j) * den(i) \in Int /\ i \in Int
  BY <1>2, <1>3, SearchBounds
<1>6. \A i \in X : <<i, i>> \notin Ahead
  BY <1>4, <1>5
<1>7. ASSUME NEW i \in X, NEW j \in X
      PROVE  i = j \/ <<i, j>> \in Ahead \/ <<j, i>> \in Ahead
  <2>1. PICK x \in Int, y \in Int : x = num(i) * den(j) /\ y = num(j) * den(i)
    BY <1>5
  <2>2. i \in Int /\ j \in Int
    BY <1>5
  <2>3. (x > y \/ (x = y /\ i > j)) \/ (y > x \/ (y = x /\ j > i)) \/ i = j
    BY <2>2
  <2> QED
    BY <1>4, <2>1, <2>3
<1>8. ASSUME NEW i \in X, NEW j \in X, NEW k \in X, <<i, j>> \in Ahead, <<j, k>> \in Ahead
      PROVE  <<i, k>> \in Ahead
  <2>1. PICK a1 \in Nat \ {0}, a2 \in Nat \ {0}, b1 \in Nat \ {0}, b2 \in Nat \ {0},
             c1 \in Nat \ {0}, c2 \in Nat \ {0} :
          a1 = num(i) /\ a2 = den(i) /\ b1 = num(j) /\ b2 = den(j) /\ c1 = num(k) /\ c2 = den(k)
    BY <1>2
  <2>2. a1 * b2 > b1 * a2 \/ (a1 * b2 = b1 * a2 /\ i > j)
    BY <1>4, <1>8, <2>1
  <2>3. b1 * c2 > c1 * b2 \/ (b1 * c2 = c1 * b2 /\ j > k)
    BY <1>4, <1>8, <2>1
  <2>4. /\ a1 * b2 \in Int /\ b1 * a2 \in Int /\ b1 * c2 \in Int /\ c1 * b2 \in Int
        /\ a1 * c2 \in Int /\ c1 * a2 \in Int /\ i \in Int /\ j \in Int /\ k \in Int
    BY <1>3, SearchBounds
  <2>5. /\ a1 * c2 >= c1 * a2
        /\ a1 * b2 > b1 * a2 \/ b1 * c2 > c1 * b2 => a1 * c2 > c1 * a2
    BY <2>2, <2>3, <2>4, FractionsCompare
  <2>6. a1 * c2 > c1 * a2 \/ (a1 * c2 = c1 * a2 /\ i > k)
    BY <2>2, <2>3, <2>4, <2>5
  <2> QED
    BY <1>4, <2>1, <2>6
<1>9. Orders(Ahead, X)
  BY <1>6, <1>7, <1>8 DEF Orders
<1>10. /\ Ordered(X, Ahead) \in Seq(X) /\ Len(Ordered(X, Ahead)) = Cardinality(X)
       /\ Cardinality(X) \in Nat
       /\ \A m, n \in 1..Cardinality(X) :
            m < n => <<Ordered(X, Ahead)[m], Ordered(X, Ahead)[n]>> \in Ahead
  BY <1>3, <1>9, OrderedLists
<1>11. Ordered(X, Ahead) \in Seq(HitIds)
  <2>1. \A k \in 1..Len(Ordered(X, Ahead)) : Ordered(X, Ahead)[k] \in HitIds
    BY <1>3, <1>10, ElementOfSeq
  <2> QED
    BY <1>10, <2>1
<1>12. Distinct(Ordered(X, Ahead))
  <2> SUFFICES ASSUME NEW m \in 1..Cardinality(X), NEW n \in 1..Cardinality(X),
                      Ordered(X, Ahead)[m] = Ordered(X, Ahead)[n]
               PROVE  m = n
    BY <1>10 DEF Distinct
  <2>1. PICK x \in X : x = Ordered(X, Ahead)[m] /\ x = Ordered(X, Ahead)[n]
    BY <1>10, ElementOfSeq
  <2>2. ~(m < n) /\ ~(n < m)
    BY <1>6, <1>10, <2>1
  <2> QED
    BY <2>2
<1> QED
  BY <1>1, <1>11, <1>12

(* What a hybrid query freezes: distinct articles, at their vectors.       *)
LEMMA FusedHolds ==
  ASSUME SearchInv, NEW q \in SearchRequest
  PROVE  \E items \in Seq(SearchItem), ids \in Seq(HitIds) :
           /\ items = S!Fused(q) /\ ids = [k \in DOMAIN items |-> items[k].id]
           /\ Len(ids) = Len(items) /\ Distinct(ids)
           /\ \A k \in 1..Len(items) :
                /\ ids[k] = items[k].id
                /\ items[k].vector # 0 => items[k].vector = docs[items[k].id].vector
<1> DEFINE current(c) == docs[c.id].public /\ c.vector = docs[c.id].vector
           bm == S!At(q.bm, {k \in DOMAIN q.bm : S!Visible(q.bm[k])})
           knn == S!At(q.knn, {k \in DOMAIN q.knn : current(q.knn[k])})
           near == [k \in DOMAIN knn |-> knn[k].id]
           order == S!FuseRRF(bm, near)
           one(k) == [id |-> order[k],
                      vector |-> IF order[k] \in S!Range(near) THEN docs[order[k]].vector ELSE 0]
           items == [k \in DOMAIN order |-> one(k)]
<1>1. q.bm \in Seq(HitIds) /\ q.knn \in Seq(SearchItem)
  BY DEF SearchRequest
<1>2. bm \in Seq(HitIds)
  <2>1. {k \in DOMAIN q.bm : S!Visible(q.bm[k])} \in SUBSET (1..Len(q.bm))
    BY <1>1
  <2> QED
    BY <1>1, <2>1, Selected
<1>3. knn \in Seq(SearchItem)
  <2> DEFINE K == {k \in DOMAIN q.knn : current(q.knn[k])}
  <2>1. K \in SUBSET (1..Len(q.knn))
    BY <1>1
  <2> HIDE DEF K
  <2>2. S!At(q.knn, K) \in Seq(SearchItem)
    BY <1>1, <2>1, Selected
  <2> QED
    BY <2>2 DEF K
<1> HIDE DEF knn
<1>4. near \in Seq(HitIds)
  <2>1. \A k \in 1..Len(knn) : knn[k].id \in HitIds
    <3>1. \A z \in SearchItem : z.id \in HitIds
      BY DEF SearchItem
    <3> QED
      BY <1>3, <3>1, ElementOfSeq
  <2>2. DOMAIN knn = 1..Len(knn) /\ Len(knn) \in Nat
    BY <1>3
  <2>3. near \in [1..Len(knn) -> HitIds]
    BY <2>1, <2>2
  <2> QED
    BY <2>2, <2>3
<1> HIDE DEF bm, near
<1>5. order \in Seq(HitIds) /\ Distinct(order)
  BY <1>2, <1>4, Fuses
<1>6. S!Fused(q) = items
  BY DEF S!Fused, order, near, knn, bm
<1> HIDE DEF order
<1>7. DOMAIN order = 1..Len(order) /\ Len(order) \in Nat /\ \A k \in 1..Len(order) : order[k] \in HitIds
  BY <1>5
<1>8. ASSUME NEW k \in 1..Len(order)
      PROVE  one(k) \in SearchItem /\ one(k).id = order[k]
             /\ (one(k).vector # 0 => one(k).vector = docs[order[k]].vector)
  <2>1. docs[order[k]].vector \in Nat
    BY <1>7, SearchParts DEF SearchFact
  <2> QED
    BY <1>7, <2>1 DEF SearchItem
<1> HIDE DEF one
<1>9. PICK s : s = items
  OBVIOUS
<1>10. s \in [1..Len(order) -> SearchItem] /\ \A k \in 1..Len(order) : s[k] = one(k)
  BY <1>7, <1>8, <1>9
<1>11. s \in Seq(SearchItem) /\ Len(s) = Len(order) /\ DOMAIN s = 1..Len(order)
  BY <1>7, <1>10
<1>12. order = [k \in DOMAIN s |-> s[k].id]
  BY <1>5, <1>7, <1>8, <1>10, <1>11
<1>13. \A k \in 1..Len(s) : /\ order[k] = s[k].id
                            /\ s[k].vector # 0 => s[k].vector = docs[s[k].id].vector
  BY <1>8, <1>10, <1>11
<1> QED
  BY <1>5, <1>6, <1>9, <1>11, <1>12, <1>13, ZenonT(40)

(* A page of a frozen order, s being what the walk has shown.              *)
Done(i, items, n) == \E k \in 1..n : items[k].id = i
Good(x) == {k \in x.offset + 1..Len(x.items) : S!Showable(x.items[k])}
Chosen(x) == [n \in 1..S!Min({SearchSize, Cardinality(Good(x))}) |-> x.items[Nth(Good(x), n)]]

LEMMA FrozenPage ==
  ASSUME ReadersAssumption, NEW x \in SearchCursor, x.offset <= Len(x.items),
         NEW basis \in Seq(HitIds), Len(basis) = Len(x.items),
         \A k \in 1..Len(basis) : basis[k] = x.items[k].id,
         NEW s \in Seq(SearchItem), Climbs(s, basis),
         \A k \in 1..Len(s) : Done(s[k].id, x.items, x.offset)
  PROVE  \E t \in Seq(SearchItem), n \in Nat :
           /\ t = Chosen(x) /\ Len(t) <= SearchSize
           /\ \A k \in 1..Len(t) : \E j \in Good(x) : t[k] = x.items[j]
           /\ Cardinality(Good(x)) > SearchSize =>
                n = Nth(Good(x), SearchSize + 1) - 1 /\ n < Len(x.items)
           /\ ~(Cardinality(Good(x)) > SearchSize) => n = Len(x.items)
           /\ n <= Len(x.items)
           /\ Climbs(s \o t, basis)
           /\ \A k \in 1..Len(s \o t) : Done((s \o t)[k].id, x.items, n)
           /\ \A i : Has(s, i) => Has(s \o t, i)
           /\ \A j \in Good(x) : j <= n => Has(s \o t, x.items[j].id)
           /\ \A j \in 1..n : j \in 1..x.offset \/ j \in x.offset + 1..Len(x.items)
<1> DEFINE K == Good(x)
           c == Cardinality(K)
<1>0. PICK items \in Seq(SearchItem), off \in Nat : items = x.items /\ off = x.offset
  BY DEF SearchCursor
<1>1. K \subseteq off + 1..Len(items) /\ Len(items) \in Nat /\ off <= Len(items)
  BY <1>0 DEF Good
<1> HIDE DEF K
<1>2. K \in SUBSET Int /\ K \in SUBSET (1..Len(items)) /\ IsFiniteSet(K)
  <2>1. K \in SUBSET (1..Len(items))
    BY <1>1
  <2>2. IsFiniteSet(1..Len(items))
    BY <1>1, FS_Interval
  <2>3. IsFiniteSet(K)
    BY <2>1, <2>2, FS_Subset
  <2>4. 1..Len(items) \subseteq Int
    OBVIOUS
  <2> QED
    BY <2>1, <2>3, <2>4
<1>3. /\ c \in Nat
      /\ \A n \in 1..c : Nth(K, n) \in K
      /\ \A k \in K : \E n \in 1..c : Nth(K, n) = k
      /\ \A m, n \in 1..c : m < n => Nth(K, m) < Nth(K, n)
  BY <1>2, NthCounts
<1> HIDE DEF c
<1>4. PICK size \in Nat : size = S!Min({SearchSize, c}) /\ size <= c /\ size <= SearchSize
                          /\ (c > SearchSize => size = SearchSize) /\ (~(c > SearchSize) => size = c)
  <2>1. SearchSize \in Nat
    BY SearchBounds
  <2>2. S!Min({SearchSize, c}) = IF SearchSize <= c THEN SearchSize ELSE c
    BY <1>3, <2>1, Lesser
  <2> QED
    BY <1>3, <2>1, <2>2
<1>a. \A k \in 1..size : k \in 1..c
  <2>1. size <= c
    BY <1>4
  <2> QED
    BY <1>3, <2>1
<1>5. PICK t \in Seq(SearchItem) :
        /\ t = Chosen(x) /\ Len(t) = size
        /\ \A k \in 1..size : Nth(K, k) \in K /\ t[k] = items[Nth(K, k)]
  <2>1. \A k \in 1..size : Nth(K, k) \in K
    BY <1>3, <1>a
  <2>2. \A k \in K : items[k] \in SearchItem
    BY <1>2, ElementOfSeq
  <2>3. PICK t : t = [k \in 1..size |-> items[Nth(K, k)]]
    OBVIOUS
  <2>4. t \in [1..size -> SearchItem] /\ \A k \in 1..size : t[k] = items[Nth(K, k)]
    BY <2>1, <2>2, <2>3
  <2>5. t \in Seq(SearchItem) /\ Len(t) = size
    BY <2>4, SMTT(30)
  <2>6. t = Chosen(x)
    BY <1>0, <1>4, <2>3 DEF Chosen, K, c
  <2> QED
    BY <2>1, <2>4, <2>5, <2>6
<1>6. PICK n \in Nat :
        /\ c > SearchSize => n = Nth(K, SearchSize + 1) - 1 /\ n < Len(items)
        /\ ~(c > SearchSize) => n = Len(items)
        /\ off <= n /\ n <= Len(items)
        /\ \A k \in 1..size : Nth(K, k) <= n
        /\ \A k \in 1..c : Nth(K, k) <= n => k <= size
  <2>1. CASE c > SearchSize
    <3>1. SearchSize + 1 \in 1..c /\ SearchSize \in Nat
      BY <1>3, <2>1, SearchBounds
    <3>2. PICK z \in off + 1..Len(items) : z = Nth(K, SearchSize + 1)
      BY <1>1, <1>3, <3>1
    <3>3. \A k \in 1..size : Nth(K, k) < z
      <4>1. \A k \in 1..size : k \in 1..c /\ k < SearchSize + 1
        <5>1. size = SearchSize
          BY <1>4, <2>1
        <5>2. \A k \in 1..size : k < SearchSize + 1
          BY <3>1, <5>1
        <5> QED
          BY <1>a, <5>2
      <4> QED
        BY <1>3, <3>1, <3>2, <4>1
    <3>4. \A k \in 1..c : Nth(K, k) \in Int
      BY <1>2, <1>3
    <3>5. \A k \in 1..c : Nth(K, k) <= z - 1 => k <= size
      <4> SUFFICES ASSUME NEW k \in 1..c, Nth(K, k) <= z - 1, ~(k <= size) PROVE FALSE
        OBVIOUS
      <4>1. k = SearchSize + 1 \/ SearchSize + 1 < k
        BY <1>4, <2>1, <3>1
      <4>2. Nth(K, k) = z \/ z < Nth(K, k)
        BY <1>3, <3>1, <3>2, <4>1
      <4> QED
        BY <3>2, <3>4, <4>2
    <3>6. \A k \in 1..size : Nth(K, k) <= z - 1
      <4>1. \A k \in 1..size : Nth(K, k) \in Int
        BY <1>a, <3>4
      <4> QED
        BY <3>2, <3>3, <4>1
    <3>7. z - 1 \in Nat /\ z - 1 < Len(items) /\ off <= z - 1 /\ z - 1 <= Len(items)
      BY <1>1, <3>2
    <3> QED
      BY <2>1, <3>2, <3>5, <3>6, <3>7
  <2>2. CASE ~(c > SearchSize)
    <3>1. \A k \in 1..size : Nth(K, k) <= Len(items)
      <4>1. \A k \in K : k <= Len(items)
        BY <1>1
      <4> QED
        BY <1>3, <1>a, <4>1
    <3>2. \A k \in 1..c : k <= size
      <4>1. size = c
        BY <1>4, <2>2
      <4> QED
        BY <1>3, <4>1
    <3> QED
      BY <1>1, <2>2, <3>1, <3>2
  <2> QED
    BY <2>1, <2>2
<1>7. \A k \in 1..Len(basis) : basis[k] = items[k].id
  BY <1>0
<1>8. Climbs(t, basis)
  <2> SUFFICES ASSUME NEW j \in 1..size, NEW k \in 1..size, j < k
               PROVE  \E a, b \in 1..Len(basis) : a < b /\ basis[a] = t[j].id /\ basis[b] = t[k].id
    BY <1>5 DEF Climbs
  <2>1. PICK a \in 1..Len(basis), b \in 1..Len(basis) : a = Nth(K, j) /\ b = Nth(K, k)
    BY <1>0, <1>2, <1>5
  <2>2. a < b
    BY <1>3, <1>4, <2>1
  <2>3. t[j] = items[a] /\ t[k] = items[b]
    BY <1>5, <2>1
  <2> QED
    BY <1>7, <2>2, <2>3
<1>9. Follows(t, s, basis)
  <2> SUFFICES ASSUME NEW j \in 1..Len(s), NEW k \in 1..size
               PROVE  \E a, b \in 1..Len(basis) : a < b /\ basis[a] = s[j].id /\ basis[b] = t[k].id
    BY <1>5 DEF Follows
  <2>1. PICK a \in 1..off : items[a].id = s[j].id
    BY <1>0 DEF Done
  <2>2. PICK b \in off + 1..Len(items) : b = Nth(K, k)
    BY <1>1, <1>5
  <2>3. a \in 1..Len(basis) /\ b \in 1..Len(basis) /\ a < b
    BY <1>0, <1>1, <2>1, <2>2, SMTT(30)
  <2>4. t[k] = items[b]
    BY <1>5, <2>2
  <2> QED
    BY <1>7, <2>1, <2>3, <2>4
<1>10. /\ \A k \in 1..Len(s \o t) :
            \/ k \in 1..Len(s) /\ (s \o t)[k] = s[k]
            \/ k > Len(s) /\ k - Len(s) \in 1..Len(t) /\ (s \o t)[k] = t[k - Len(s)]
       /\ \A i : Has(s, i) \/ Has(t, i) => Has(s \o t, i)
       /\ Climbs(s \o t, basis)
  BY <1>8, <1>9, ItemsGlued
<1>11. ASSUME NEW k \in 1..Len(s \o t)
       PROVE  Done((s \o t)[k].id, items, n)
  <2>1. CASE k \in 1..Len(s) /\ (s \o t)[k] = s[k]
    <3>1. PICK a \in 1..off : items[a].id = s[k].id
      BY <1>0, <2>1 DEF Done
    <3>2. a \in 1..n
      BY <1>6, <3>1
    <3> QED
      BY <2>1, <3>1, <3>2 DEF Done
  <2>2. CASE k - Len(s) \in 1..Len(t) /\ (s \o t)[k] = t[k - Len(s)]
    <3>1. PICK m \in 1..size : m = k - Len(s) /\ (s \o t)[k] = t[m]
      BY <1>5, <2>2
    <3>2. PICK a \in 1..Len(items) : a = Nth(K, m) /\ t[m] = items[a]
      BY <1>2, <1>5, <3>1
    <3>3. a \in 1..n
      BY <1>6, <3>2
    <3> QED
      BY <3>1, <3>2, <3>3 DEF Done
  <2> QED
    BY <1>10, <2>1, <2>2
<1>12. ASSUME NEW j \in K, j <= n PROVE Has(s \o t, items[j].id)
  <2>1. PICK k \in 1..c : Nth(K, k) = j
    BY <1>3
  <2>2. k \in 1..size
    <3>1. k <= size
      BY <1>6, <1>12, <2>1
    <3> QED
      BY <3>1
  <2>3. t[k] = items[j] /\ k \in 1..Len(t)
    BY <1>5, <2>1, <2>2
  <2>4. Has(t, items[j].id)
    BY <2>3 DEF Has
  <2> QED
    BY <1>10, <2>4
<1>13. \A j \in 1..n : j \in 1..off \/ j \in off + 1..Len(items)
  BY <1>1, <1>6
<1>14. \A k \in 1..Len(t) : \E j \in K : t[k] = items[j]
  BY <1>5
<1>15. /\ t = Chosen(x) /\ Len(t) <= SearchSize
       /\ \A k \in 1..Len(t) : \E j \in Good(x) : t[k] = x.items[j]
       /\ Climbs(s \o t, basis)
       /\ \A k \in 1..Len(s \o t) : Done((s \o t)[k].id, x.items, n)
       /\ \A i : Has(s, i) => Has(s \o t, i)
  BY <1>0, <1>4, <1>5, <1>10, <1>11, <1>14 DEF K
<1>16. /\ Cardinality(Good(x)) > SearchSize =>
            n = Nth(Good(x), SearchSize + 1) - 1 /\ n < Len(x.items)
       /\ ~(Cardinality(Good(x)) > SearchSize) => n = Len(x.items)
       /\ n <= Len(x.items)
  BY <1>0, <1>6 DEF K, c
<1>17. /\ \A j \in Good(x) : j <= n => Has(s \o t, x.items[j].id)
       /\ \A j \in 1..n : j \in 1..x.offset \/ j \in x.offset + 1..Len(x.items)
  BY <1>0, <1>12, <1>13 DEF K
<1> QED
  BY <1>15, <1>16, <1>17, Zenon

(* What a page needs of a frozen order: the walk has what it has passed.   *)
Pageable(x, basis, w) ==
  /\ x.offset <= Len(x.items) /\ Distinct(basis) /\ Len(basis) = Len(x.items)
  /\ \A k \in 1..Len(basis) : basis[k] = x.items[k].id
  /\ \A k \in 1..Len(x.items) : x.items[k].vector # 0 /\ docs[x.items[k].id].mark <= w.began
                                 => x.items[k].vector = docs[x.items[k].id].vector
  /\ Climbs(w.items, basis)
  /\ \A k \in 1..Len(w.items) : Done(w.items[k].id, x.items, x.offset)
  /\ \A i \in HitIds : Old(i, w) /\ Done(i, x.items, x.offset) => Has(w.items, i)

(* The step of a page of a frozen order x, after what the walk has shown.  *)
LEMMA PageKeeps ==
  ASSUME SearchInv, NEW q \in SearchRequest, NEW c \in SearchCursor, NEW w \in FoundWalk,
         q = search, c = cursor, w = found,
         NEW x \in SearchCursor, NEW basis \in Seq(HitIds), Pageable(x, basis, w),
         S!Page(x, basis)
  PROVE  \E q1 \in SearchRequest, c1 \in SearchCursor, w1 \in FoundWalk :
           /\ search' = q1 /\ cursor' = c1 /\ found' = w1
           /\ q1.phase = "idle" /\ q1.began = q.began /\ q1.visible = <<>>
           /\ Len(q1.items) <= SearchSize
           /\ w1.began = w.began /\ w1.count = w.count
           /\ WalkHolds(q1, c1, w1)
<1>a. x.offset <= Len(x.items) /\ Distinct(basis) /\ Len(basis) = Len(x.items)
  BY DEF Pageable
<1>b. /\ \A k \in 1..Len(basis) : basis[k] = x.items[k].id
      /\ \A k \in 1..Len(x.items) : x.items[k].vector # 0 /\ docs[x.items[k].id].mark <= w.began
                                     => x.items[k].vector = docs[x.items[k].id].vector
  BY DEF Pageable
<1>c. /\ Climbs(w.items, basis)
      /\ \A k \in 1..Len(w.items) : Done(w.items[k].id, x.items, x.offset)
      /\ \A i \in HitIds : Old(i, w) /\ Done(i, x.items, x.offset) => Has(w.items, i)
  BY DEF Pageable
<1> USE <1>a, <1>b, <1>c
<1>0. ReadersAssumption /\ WalkHolds(q, c, w) /\ w.items \in Seq(SearchItem)
  BY ReadersAssumption, SearchParts DEF FoundWalk
<1>1. PICK t \in Seq(SearchItem), n \in Nat :
        /\ t = Chosen(x) /\ Len(t) <= SearchSize
        /\ \A k \in 1..Len(t) : \E j \in Good(x) : t[k] = x.items[j]
        /\ Cardinality(Good(x)) > SearchSize =>
             n = Nth(Good(x), SearchSize + 1) - 1 /\ n < Len(x.items)
        /\ ~(Cardinality(Good(x)) > SearchSize) => n = Len(x.items)
        /\ n <= Len(x.items)
        /\ Climbs(w.items \o t, basis)
        /\ \A k \in 1..Len(w.items \o t) : Done((w.items \o t)[k].id, x.items, n)
        /\ \A i : Has(w.items, i) => Has(w.items \o t, i)
        /\ \A j \in Good(x) : j <= n => Has(w.items \o t, x.items[j].id)
        /\ \A j \in 1..n : j \in 1..x.offset \/ j \in x.offset + 1..Len(x.items)
  BY <1>0, FrozenPage, ZenonT(40)
<1>2. PICK items \in Seq(SearchItem) : items = x.items
  BY DEF SearchCursor
<1>3. PICK both \in Seq(SearchItem) : both = w.items \o t
  BY <1>0, ItemsGlued
<1>4. PICK next \in SearchCursor :
        /\ S!Reply(t, next, basis)
        /\ Cardinality(Good(x)) > SearchSize => next.items = items /\ next.offset = n
        /\ ~(Cardinality(Good(x)) > SearchSize) => next = S!NoCursor
  <2>1. S!Page(x, basis) <=>
          S!Reply(Chosen(x), IF Cardinality(Good(x)) > SearchSize
                             THEN [x EXCEPT !.offset = Nth(Good(x), SearchSize + 1) - 1]
                             ELSE S!NoCursor, basis)
    BY SameInSearch DEF S!Page, Chosen, Good, S!Offset
  <2>2. CASE Cardinality(Good(x)) > SearchSize
    <3>1. PICK next \in SearchCursor : next = [x EXCEPT !.offset = n]
      BY DEF SearchCursor
    <3>2. next.items = items /\ next.offset = n
      BY <1>2, <3>1 DEF SearchCursor
    <3>3. S!Reply(t, next, basis)
      BY <1>1, <2>1, <2>2, <3>1
    <3> QED
      BY <2>2, <3>2, <3>3
  <2>3. CASE ~(Cardinality(Good(x)) > SearchSize)
    BY <1>1, <2>1, <2>3, IdleSearch
  <2> QED
    BY <2>2, <2>3
<1>5. PICK q1 \in SearchRequest, c1 \in SearchCursor, w1 \in FoundWalk :
        /\ search' = q1 /\ cursor' = c1 /\ found' = w1
        /\ q1.phase = "idle" /\ q1.items = t /\ q1.began = q.began /\ q1.visible = <<>>
        /\ w1.began = w.began /\ w1.count = w.count
        /\ \/ /\ c1 = next /\ w1.basis = basis /\ w1.items = w.items \o t
              /\ w1.over <=> next = S!NoCursor
           \/ c1 = c /\ w1 = w
  BY <1>4, Replies
<1>6. Fresh(q1)
  <2> SUFFICES ASSUME NEW k \in 1..Len(t), docs[t[k].id].mark <= q.began
               PROVE  docs[t[k].id].public /\ t[k].vector \in {0, docs[t[k].id].vector}
    BY <1>5 DEF Fresh
  <2>1. PICK j \in Good(x) : t[k] = x.items[j]
    BY <1>1
  <2>2. S!Showable(x.items[j])
    BY <2>1 DEF Good
  <2> QED
    BY <2>1, <2>2 DEF S!Showable
<1>7. RequestHolds(q1, c1, w1)
  BY <1>5, <1>6 DEF RequestHolds, Paging
<1>8. ASSUME c1 = c, w1 = w PROVE WalkHolds(q1, c1, w1)
  BY <1>0, <1>7, <1>8 DEF WalkHolds
<1>9. ASSUME NEW i \in HitIds, Old(i, w), Done(i, items, n)
      PROVE  Has(both, i)
  <2>1. PICK k \in 1..n : items[k].id = i
    BY <1>9 DEF Done
  <2>2. CASE k \in 1..x.offset
    <3>1. Done(i, x.items, x.offset)
      BY <1>2, <2>1, <2>2 DEF Done
    <3>2. Has(w.items, i)
      BY <1>9, <3>1
    <3> QED
      BY <1>1, <1>3, <3>2
  <2>3. CASE k \in x.offset + 1..Len(x.items)
    <3>1. k \in 1..Len(x.items) /\ k <= n
      BY <1>1, <2>1
    <3>2. items[k].vector # 0 => items[k].vector = docs[i].vector
      BY <1>2, <1>9, <2>1, <3>1 DEF Old
    <3>3. S!Showable(x.items[k])
      BY <1>2, <1>9, <2>1, <3>2 DEF Old, S!Showable
    <3>4. k \in Good(x)
      BY <2>3, <3>3 DEF Good
    <3> QED
      BY <1>1, <1>2, <1>3, <2>1, <3>1, <3>4
  <2> QED
    BY <1>1, <2>1, <2>2, <2>3
<1>10. ASSUME c1 = next, w1.basis = basis, w1.items = both, w1.over <=> next = S!NoCursor
       PROVE  WalkHolds(q1, c1, w1)
  <2>1. \A i : Old(i, w1) <=> Old(i, w)
    BY <1>5 DEF Old
  <2>2. \A k \in 1..Len(basis) : basis[k] = items[k].id
    BY <1>2
  <2>3. n <= Len(items) /\ Len(basis) = Len(items) /\ Len(items) \in Nat
    BY <1>1, <1>2
  <2>4. \A k \in 1..Len(both) : Done(both[k].id, items, n)
    BY <1>1, <1>2, <1>3
  <2>5. \A k \in 1..Len(both) : In(basis, both[k].id)
    <3> SUFFICES ASSUME NEW k \in 1..Len(both) PROVE In(basis, both[k].id)
      OBVIOUS
    <3>1. PICK j \in 1..n : items[j].id = both[k].id
      BY <2>4 DEF Done
    <3>2. j \in 1..Len(basis)
      BY <2>3, <3>1
    <3> QED
      BY <2>2, <3>1, <3>2 DEF In
  <2>6. Cardinality(Good(x)) > SearchSize => n < Len(items) /\ items # <<>>
    BY <1>1, <1>2
  <2>7. w1.over => n = Len(items)
    BY <1>1, <1>2, <1>4, <1>10, <2>6, IdleSearch
  <2>8. w1.over => \A i \in HitIds : In(w1.basis, i) /\ Old(i, w1) => Has(w1.items, i)
    <3> SUFFICES ASSUME w1.over, NEW i \in HitIds, In(basis, i), Old(i, w) PROVE Has(both, i)
      BY <1>10, <2>1
    <3>1. PICK k \in 1..Len(basis) : basis[k] = i
      BY DEF In
    <3>2. k \in 1..n /\ items[k].id = i
      BY <2>2, <2>3, <2>7, <3>1
    <3> QED
      BY <1>9, <3>2 DEF Done
  <2>9. \A j, k \in 1..Len(w1.items) : j < k =>
          \E a, b \in 1..Len(w1.basis) :
            a < b /\ w1.basis[a] = w1.items[j].id /\ w1.basis[b] = w1.items[k].id
    <3>1. Climbs(w1.items, w1.basis)
      BY <1>1, <1>3, <1>10
    <3> QED
      BY <3>1 DEF Climbs
  <2>10. InBasis(w1)
    <3>1. \A k \in 1..Len(w1.items) : In(w1.basis, w1.items[k].id)
      BY <1>10, <2>5
    <3>2. Distinct(w1.basis)
      BY <1>10
    <3> QED
      BY <2>8, <2>9, <3>1, <3>2, Zenon DEF InBasis
  <2>11. CASE Cardinality(Good(x)) > SearchSize
    <3>1. c1.items = items /\ c1.offset = n /\ items # <<>> /\ n < Len(items)
      BY <1>4, <1>10, <2>6, <2>11
    <3>2. \A i : Passed(c1, i) <=> Done(i, items, n)
      BY <3>1 DEF Passed, Done
    <3>3. WalkAt(c1, w1)
      <4>1. \A k \in 1..Len(w1.items) : Passed(c1, w1.items[k].id)
        BY <1>10, <2>4, <3>2
      <4>2. \A i \in HitIds : In(w1.basis, i) /\ Old(i, w1) /\ Passed(c1, i) => Has(w1.items, i)
        BY <1>9, <1>10, <2>1, <3>2
      <4> QED
        BY <4>1, <4>2 DEF WalkAt
    <3>4. \A k \in 1..Len(c1.items) :
            /\ w1.basis[k] = c1.items[k].id
            /\ c1.items[k].vector # 0 /\ docs[c1.items[k].id].mark <= w1.began
                 => c1.items[k].vector = docs[c1.items[k].id].vector
      BY <1>2, <1>5, <1>10, <2>2, <2>3, <3>1
    <3>5. FrozenHolds(c1, w1)
      BY <1>10, <2>3, <3>1, <3>3, <3>4 DEF FrozenHolds
    <3> QED
      BY <1>7, <2>10, <3>1, <3>5 DEF WalkHolds
  <2>12. CASE ~(Cardinality(Good(x)) > SearchSize)
    <3>1. c1 = S!NoCursor
      BY <1>4, <1>10, <2>12
    <3> QED
      BY <1>7, <2>10, <3>1, IdleSearch DEF WalkHolds
  <2> QED
    BY <2>11, <2>12
<1>11. WalkHolds(q1, c1, w1)
  BY <1>3, <1>5, <1>8, <1>10
<1>12. Len(q1.items) <= SearchSize
  BY <1>1, <1>5
<1> QED
  BY <1>5, <1>11, <1>12

(* A later page of a frozen order.                                         *)
LEMMA CurrentKeeps ==
  ASSUME SearchInv, S!Current
  PROVE  SearchInv'
<1>1. PICK q \in SearchRequest, c \in SearchCursor, w \in FoundWalk :
        q = search /\ c = cursor /\ w = found /\ WalkHolds(q, c, w) /\ q.phase = "current"
  BY SearchParts DEF S!Current
<1>2. pits' = pits /\ UNCHANGED <<docs, index, hybrid, hour, updates, mishaps>>
  BY DEF S!Current, S!world
<1>3. /\ q.plan = c /\ c.items # <<>> /\ FrozenHolds(c, w) /\ InBasis(w) /\ q.pit = 0
      /\ q.began <= updates /\ w.began <= updates
  BY <1>1, SearchParts DEF WalkHolds, RequestHolds, Paging
<1>4. PICK basis \in Seq(HitIds) : basis = w.basis
  BY DEF FoundWalk
<1>5. S!Page(c, basis)
  BY <1>1, <1>3, <1>4 DEF S!Current
<1>6. \A i : Passed(c, i) <=> Done(i, c.items, c.offset)
  BY <1>3 DEF Passed, Done
<1>7. c.offset <= Len(c.items)
  <2>1. c.offset \in Nat /\ Len(c.items) \in Nat
    BY DEF SearchCursor
  <2> QED
    BY <1>3, <2>1 DEF FrozenHolds
<1>8. /\ Len(basis) = Len(c.items)
      /\ \A k \in 1..Len(basis) : basis[k] = c.items[k].id
      /\ \A k \in 1..Len(c.items) : c.items[k].vector # 0 /\ docs[c.items[k].id].mark <= w.began
                                      => c.items[k].vector = docs[c.items[k].id].vector
  BY <1>3, <1>4 DEF FrozenHolds
<1>9. Climbs(w.items, basis) /\ Distinct(basis)
  BY <1>3, <1>4 DEF InBasis, Climbs
<1>10. \A k \in 1..Len(w.items) : Done(w.items[k].id, c.items, c.offset)
  BY <1>3, <1>6 DEF FrozenHolds, WalkAt
<1>11. \A i \in HitIds : Old(i, w) /\ Done(i, c.items, c.offset) => Has(w.items, i)
  <2> SUFFICES ASSUME NEW i \in HitIds, Old(i, w), Done(i, c.items, c.offset) PROVE Has(w.items, i)
    OBVIOUS
  <2>1. In(w.basis, i)
    <3>1. PICK k \in 1..c.offset : c.items[k].id = i
      BY DEF Done
    <3>2. c.offset \in Nat /\ Len(c.items) \in Nat
      BY DEF SearchCursor
    <3>3. k \in 1..Len(basis)
      BY <1>7, <1>8, <3>1, <3>2
    <3> QED
      BY <1>4, <1>8, <3>1, <3>3 DEF In
  <2> QED
    BY <1>3, <1>6, <2>1 DEF FrozenHolds, WalkAt
<1>a. Pageable(c, basis, w)
  BY <1>7, <1>8, <1>9, <1>10, <1>11 DEF Pageable
<1>12. PICK q1 \in SearchRequest, c1 \in SearchCursor, w1 \in FoundWalk :
         /\ search' = q1 /\ cursor' = c1 /\ found' = w1
         /\ q1.phase = "idle" /\ q1.began = q.began /\ q1.visible = <<>>
         /\ Len(q1.items) <= SearchSize
         /\ w1.began = w.began /\ w1.count = w.count
         /\ WalkHolds(q1, c1, w1)
  BY <1>1, <1>5, <1>a, PageKeeps
<1>13. S!PitsAccounted'
  <2>1. \A n \in 1..MaxSearches : n # 0
    OBVIOUS
  <2>2. DOMAIN pits = 1..MaxSearches
    BY SearchParts
  <2> QED
    BY <1>1, <1>2, <1>3, <2>1, <2>2 DEF SearchInv, PitHolds, S!PitsAccounted, S!Open
<1>14. /\ q1.phase # "current" /\ q1.phase \notin Paging \cup {"recall", "fuse"}
       /\ q1.began <= updates /\ w1.began <= updates /\ Len(q1.visible) <= SearchSize + 1
  BY <1>3, <1>12, SearchBounds, IdleSearch DEF Paging
<1>15. pits' \in [1..MaxSearches -> SearchPit] /\ mishaps' \in 0..MaxMishaps
       /\ \A m \in 1..MaxSearches : pits'[m].docs = pits[m].docs
  BY <1>2, SearchParts
<1> QED
  BY <1>1, <1>2, <1>12, <1>13, <1>14, <1>15, SearchMoves

(* The first page of a hybrid query.                                       *)
LEMMA FuseKeeps ==
  ASSUME SearchInv, S!Fuse
  PROVE  SearchInv'
<1>1. PICK q \in SearchRequest, c \in SearchCursor, w \in FoundWalk :
        q = search /\ c = cursor /\ w = found /\ WalkHolds(q, c, w) /\ q.phase = "fuse"
  BY SearchParts DEF S!Fuse
<1>2. S!Close(search.pit) /\ UNCHANGED <<docs, index, hybrid, hour, updates>>
  BY DEF S!Fuse, S!world
<1>3. w.items = <<>> /\ q.began <= updates /\ w.began <= updates
  BY <1>1, SearchParts DEF WalkHolds, RequestHolds, Paging
<1>4. PICK items \in Seq(SearchItem), basis \in Seq(HitIds) :
        /\ items = S!Fused(q) /\ basis = [k \in DOMAIN items |-> items[k].id]
        /\ Len(basis) = Len(items) /\ Distinct(basis)
        /\ \A k \in 1..Len(items) :
             /\ basis[k] = items[k].id
             /\ items[k].vector # 0 => items[k].vector = docs[items[k].id].vector
  BY FusedHolds
<1>5. PICK z \in SearchCursor : z = S!NoCursor /\ z.offset = 0
  BY IdleSearch
<1>6. PICK ends \in Nat : ends = hour + HybridTTL
  BY SearchParts, SearchBounds
<1>7. PICK x \in SearchCursor : x = [z EXCEPT !.items = items, !.expires = ends]
  BY DEF SearchCursor
<1>8. x.items = items /\ x.offset = 0
  BY <1>5, <1>7 DEF SearchCursor
<1>9. S!Page(x, basis)
  BY <1>1, <1>4, <1>5, <1>6, <1>7 DEF S!Fuse
<1>10. \A i : ~Done(i, x.items, x.offset)
  BY <1>8 DEF Done
<1>11. Climbs(w.items, basis) /\ (\A k \in 1..Len(w.items) : Done(w.items[k].id, x.items, x.offset))
       /\ \A i \in HitIds : Old(i, w) /\ Done(i, x.items, x.offset) => Has(w.items, i)
  BY <1>3, <1>10 DEF Climbs
<1>a. Len(basis) = Len(x.items) /\ x.offset <= Len(x.items)
  <2>1. Len(items) \in Nat
    OBVIOUS
  <2> QED
    BY <1>4, <1>8, <2>1
<1>b. \A k \in 1..Len(basis) : basis[k] = x.items[k].id
  BY <1>4, <1>8
<1>c. \A k \in 1..Len(x.items) : x.items[k].vector # 0 => x.items[k].vector = docs[x.items[k].id].vector
  BY <1>4, <1>8
<1>12. Pageable(x, basis, w)
  BY <1>4, <1>a, <1>b, <1>c, <1>11 DEF Pageable
<1>13. PICK q1 \in SearchRequest, c1 \in SearchCursor, w1 \in FoundWalk :
         /\ search' = q1 /\ cursor' = c1 /\ found' = w1
         /\ q1.phase = "idle" /\ q1.began = q.began /\ q1.visible = <<>>
         /\ Len(q1.items) <= SearchSize
         /\ w1.began = w.began /\ w1.count = w.count
         /\ WalkHolds(q1, c1, w1)
  BY <1>1, <1>9, <1>12, PageKeeps
<1>14. /\ pits' \in [1..MaxSearches -> SearchPit] /\ mishaps' \in 0..MaxMishaps
       /\ \A n \in 1..MaxSearches : pits'[n].docs = pits[n].docs
       /\ S!PitsAccounted'
  BY <1>2, Closes
<1>15. /\ q1.phase # "current" /\ q1.phase \notin Paging \cup {"recall", "fuse"}
       /\ q1.began <= updates /\ w1.began <= updates /\ Len(q1.visible) <= SearchSize + 1
  BY <1>3, <1>13, SearchBounds, IdleSearch DEF Paging
<1> QED
  BY <1>1, <1>2, <1>13, <1>14, <1>15, SearchMoves

-----------------------------------------------------------------------------
LEMMA SearchStep == SearchInv /\ [S!Next]_searching => SearchInv'
<1> SUFFICES ASSUME SearchInv, [S!Next]_searching PROVE SearchInv'
  OBVIOUS
<1>1. CASE S!Next
  BY <1>1, ChangeKeeps, HourKeeps, RedeployKeeps, FirstKeeps, ContinueKeeps, FailKeeps, SearchKeeps,
     GoneKeeps, ReadKeeps, PageAnswered, RecallKeeps, FuseKeeps, CurrentKeeps DEF S!Next
<1>2. CASE UNCHANGED searching
  <2>1. UNCHANGED <<docs, index, hybrid, pits, search, cursor, found, hour, updates, mishaps>>
    BY <1>2 DEF searching
  <2>2. SearchTypes' /\ PitHolds'
    BY <2>1, SMTT(30) DEF SearchInv, SearchTypes, PitHolds, S!PitsAccounted, S!Open
  <2>3. WalkHolds(search, cursor, found)'
    BY <2>1, SearchParts, WalkUnseen
  <2> QED
    BY <2>2, <2>3 DEF SearchInv
<1> QED
  BY <1>1, <1>2

LEMMA SearchHolds == AllSpec => []SearchInv
<1>1. AllInit => SearchInv
  BY SearchInit DEF AllInit
<1>2. SearchInv /\ [AllNext]_all => SearchInv'
  <2>1. [AllNext]_all => [S!Next]_searching
    BY DEF AllNext, all, searching
  <2> QED
    BY <2>1, SearchStep
<1> QED
  BY <1>1, <1>2, PTL DEF AllSpec

(* A point in time is never left open by a request that ends, for every    *)
(* number of searches, restarts and replies lost. (Search, closePIT.)      *)
THEOREM PitsAccountedHolds == AllSpec => []PitsAccounted
<1>1. SearchInv => PitsAccounted
  BY DEF SearchInv, PitHolds, PitsAccounted
<1> QED
  BY <1>1, SearchHolds, PTL

(* The pages of a search follow the order fixed by its first, show nothing *)
(* stale, and skip no hit that was public all along, for every order of    *)
(* the hits, every page and batch size, lifetime and bound.                *)
(* (Search, pageFromCurrent.)                                              *)
THEOREM SearchWalkHolds == AllSpec => []SearchWalk
<1>1. SearchInv => SearchWalk
  <2> SUFFICES ASSUME SearchInv PROVE SearchWalk
    OBVIOUS
  <2>1. PICK q \in SearchRequest, w \in FoundWalk :
          q = search /\ w = found /\ InBasis(w) /\ RequestHolds(q, cursor, w)
    BY SearchParts DEF WalkHolds
  <2>2. w.basis \in Seq(HitIds) /\ w.items \in Seq(SearchItem) /\ q.items \in Seq(SearchItem)
    BY DEF SearchRequest, FoundWalk
  <2>3. S!KeepsOrder
    <3> DEFINE place(i) == CHOOSE k \in DOMAIN w.basis : w.basis[k] = i
    <3>1. \A a \in 1..Len(w.basis) : place(w.basis[a]) = a
      <4>1. DOMAIN w.basis = 1..Len(w.basis)
        BY <2>2
      <4> QED
        BY <2>1, <4>1 DEF InBasis, Distinct
    <3> HIDE DEF place
    <3>2. ASSUME NEW j \in 1..Len(w.items), NEW k \in 1..Len(w.items), j < k
          PROVE  place(w.items[j].id) < place(w.items[k].id)
      <4>1. PICK a \in 1..Len(w.basis), b \in 1..Len(w.basis) :
              a < b /\ w.basis[a] = w.items[j].id /\ w.basis[b] = w.items[k].id
        BY <2>1, <3>2 DEF InBasis
      <4>2. place(w.items[j].id) = a /\ place(w.items[k].id) = b
        BY <3>1, <4>1
      <4> QED
        BY <4>1, <4>2
    <3>3. DOMAIN w.items = 1..Len(w.items)
      BY <2>2
    <3> QED
      BY <2>1, <3>2, <3>3 DEF S!KeepsOrder, place
  <2>4. S!NothingStale
    <3>1. S!Range(q.items) = {q.items[k] : k \in 1..Len(q.items)}
      BY <2>2 DEF S!Range
    <3> QED
      BY <2>1, <3>1 DEF S!NothingStale, RequestHolds, Fresh
  <2>5. S!SkipsNone
    <3> SUFFICES ASSUME w.over, NEW i \in S!Range(w.basis), docs[i].public, docs[i].mark <= w.began
                 PROVE  \E z \in S!Range(w.items) : z.id = i
      BY <2>1 DEF S!SkipsNone
    <3>1. i \in HitIds /\ In(w.basis, i) /\ Old(i, w)
      BY <2>2 DEF S!Range, In, Old
    <3>2. PICK k \in 1..Len(w.items) : w.items[k].id = i
      BY <2>1, <3>1 DEF InBasis, Has
    <3>3. w.items[k] \in S!Range(w.items)
      BY <2>2 DEF S!Range
    <3> QED
      BY <3>2, <3>3
  <2> QED
    BY <2>3, <2>4, <2>5 DEF SearchWalk
<1> QED
  BY <1>1, SearchHolds, PTL

LEMMA SearchTypesOK == AllSpec => []S!TypeOK
<1>1. SearchInv => S!TypeOK
  <2> SUFFICES ASSUME SearchInv PROVE S!TypeOK
    OBVIOUS
  <2>1. PICK q \in SearchRequest, c \in SearchCursor, w \in FoundWalk :
          q = search /\ c = cursor /\ w = found /\ WalkHolds(q, c, w)
    BY SearchParts
  <2>2. /\ docs \in [HitIds -> [public : BOOLEAN, vector : Nat, mark : 0..MaxUpdates]]
        /\ index \in [HitIds -> [visible : BOOLEAN, vector : Nat]]
    BY SearchParts DEF SearchFact, SearchDocs
  <2>3. hybrid \in BOOLEAN
    BY Zenon DEF SearchInv, SearchTypes
  <2>4. \A n \in 1..MaxSearches :
          pits[n].open \in BOOLEAN /\ pits[n].expires \in 0..MaxHour + KeepAlive
    BY SearchParts DEF SearchPit
  <2>5. /\ q.phase \in {"idle", "search", "read", "reply", "recall", "fuse", "current"}
        /\ q.scanned \in 0..MaxCandidates
        /\ Len(q.visible) <= SearchSize + 1 /\ Len(q.items) <= SearchSize
    BY <2>1, SearchParts DEF SearchRequest, Paging
  <2>6. /\ c.pit \in 0..MaxSearches /\ c.after \in 0..Len(Hits)
        /\ c.offset \in 0..Len(c.items) /\ (c.items # <<>> => c.offset < Len(c.items))
    <3>1. c.pit \in 0..MaxSearches /\ c.after \in 0..Len(Hits) /\ c.offset \in Nat /\ Len(c.items) \in Nat
      BY DEF SearchCursor
    <3>2. CASE c.items # <<>>
      <4>1. c.offset < Len(c.items)
        BY <2>1, <3>2 DEF WalkHolds, FrozenHolds
      <4> QED
        BY <3>1, <4>1
    <3>3. CASE c.items = <<>>
      <4>1. c.offset = 0
        BY <2>1, <3>3, IdleSearch DEF WalkHolds, PagedHolds
      <4> QED
        BY <3>1, <3>3, <4>1
    <3> QED
      BY <3>2, <3>3
  <2>7. w.count \in 0..MaxSearches
    BY DEF FoundWalk
  <2> QED
    BY <2>1, <2>2, <2>3, <2>4, <2>5, <2>6, <2>7, SearchParts DEF S!TypeOK
<1> QED
  BY <1>1, SearchHolds, PTL

-----------------------------------------------------------------------------
(***************************************************************************)
(* Feedback.                                                               *)
(***************************************************************************)
FeedbackTypes ==
  /\ DOMAIN facts = CardIds
  /\ reads \subseteq [article : CardIds, window : Nat]
  /\ dislikes \in [CardIds -> [row : BOOLEAN, expires : Nat, mark : Nat]]
  /\ window \in Nat /\ changes \in Nat

(* The article of an open feedback transaction stays public to its end.    *)
LockHolds ==
  writing # C!NoTx =>
    /\ writing.article \in CardIds /\ writing.at \in Nat
    /\ facts[writing.article].public

FeedbackInv == FeedbackTypes /\ LockHolds

LEMMA FeedbackInit == C!Init => FeedbackInv
<1> SUFFICES ASSUME C!Init PROVE FeedbackInv
  OBVIOUS
<1>1. DOMAIN facts = CardIds /\ reads = {} /\ window \in Nat /\ changes \in Nat
      /\ writing = C!NoTx
  BY DEF C!Init
<1>2. dislikes \in [CardIds -> [row : BOOLEAN, expires : Nat, mark : Nat]]
  BY DEF C!Init
<1> QED
  BY <1>1, <1>2 DEF FeedbackInv, FeedbackTypes, LockHolds

(* A write of an article waits for the share lock on it.                   *)
LEMMA LockedKeeps ==
  ASSUME FeedbackInv, NEW i \in CardIds, NEW a, C!Written(i, a)
  PROVE  FeedbackInv'
<1>1. /\ changes' = changes + 1 /\ writing.article # i
      /\ UNCHANGED <<reads, dislikes, writing, window>>
  BY DEF C!Written, C!Locked, C!feedback
<1>2. DOMAIN facts' = CardIds /\ \A j \in CardIds : j # i => facts'[j] = facts[j]
  BY DEF C!Written, FeedbackInv, FeedbackTypes
<1> QED
  BY <1>1, <1>2 DEF FeedbackInv, FeedbackTypes, LockHolds

LEMMA LockKeeps ==
  ASSUME FeedbackInv, NEW i \in CardIds, NEW kind \in C!Kinds, C!LockArticle(i, kind)
  PROVE  FeedbackInv'
  BY DEF C!LockArticle, C!feedback, C!reading, FeedbackInv, FeedbackTypes, LockHolds

LEMMA CommitKeeps ==
  ASSUME FeedbackInv, C!Commit
  PROVE  FeedbackInv'
<1>1. PICK i \in CardIds, at \in Nat : writing.article = i /\ writing.at = at
  BY DEF C!Commit, FeedbackInv, LockHolds
<1>2. /\ writing' = C!NoTx /\ changes' = changes + 1
      /\ UNCHANGED <<facts, window>>
  BY DEF C!Commit
<1>3. reads' \subseteq reads \cup {[article |-> i, window |-> at]}
  BY <1>1 DEF C!Commit
<1>4. at + DislikeTTL \in Nat
  BY <1>1, ReadersAssumption DEF C!RecommendAssumption
<1>5. \/ dislikes' = dislikes
      \/ dislikes' = [dislikes EXCEPT ![i] = [row |-> TRUE, expires |-> at + DislikeTTL,
                                              mark |-> changes']]
      \/ dislikes' = [dislikes EXCEPT ![i] = [row |-> FALSE, expires |-> 0, mark |-> changes']]
  BY <1>1 DEF C!Commit
<1>6. changes' \in Nat
  BY <1>2 DEF FeedbackInv, FeedbackTypes
<1>7. dislikes' \in [CardIds -> [row : BOOLEAN, expires : Nat, mark : Nat]]
  <2>1. /\ [row |-> TRUE, expires |-> at + DislikeTTL, mark |-> changes']
             \in [row : BOOLEAN, expires : Nat, mark : Nat]
        /\ [row |-> FALSE, expires |-> 0, mark |-> changes']
             \in [row : BOOLEAN, expires : Nat, mark : Nat]
    BY <1>4, <1>6
  <2> QED
    BY <1>5, <2>1 DEF FeedbackInv, FeedbackTypes
<1> QED
  BY <1>2, <1>3, <1>6, <1>7 DEF FeedbackInv, FeedbackTypes, LockHolds

(* A row the clean-up takes had expired; what it leaves is as it was.      *)
DislikeRow == [row : BOOLEAN, expires : Nat, mark : Nat]

CleanedRow(d, t) == IF d.expires <= t THEN [d EXCEPT !.row = FALSE] ELSE d

LEMMA RowIsCleaned ==
  ASSUME NEW d \in DislikeRow, NEW t \in Nat
  PROVE  /\ CleanedRow(d, t) \in DislikeRow
         /\ CleanedRow(d, t).expires = d.expires
         /\ d.expires > t => CleanedRow(d, t).row = d.row
<1>1. LET off == [d EXCEPT !.row = FALSE]
      IN  off \in DislikeRow /\ off.expires = d.expires
  BY DEF DislikeRow
<1>2. CASE d.expires <= t
  <2>1. CleanedRow(d, t) = [d EXCEPT !.row = FALSE]
    BY <1>2 DEF CleanedRow
  <2>2. ~(d.expires > t)
    BY <1>2 DEF DislikeRow
  <2> QED
    BY <1>1, <2>1, <2>2
<1>3. CASE ~(d.expires <= t)
  BY <1>3 DEF CleanedRow
<1> QED
  BY <1>2, <1>3

LEMMA CleanedDislikes ==
  ASSUME FeedbackInv, C!CleanupExpired
  PROVE  /\ dislikes' \in [CardIds -> DislikeRow]
         /\ \A i \in CardIds :
              /\ dislikes'[i].expires = dislikes[i].expires
              /\ dislikes[i].expires > window => dislikes'[i].row = dislikes[i].row
<1>1. dislikes' = [i \in CardIds |-> CleanedRow(dislikes[i], window)]
  BY DEF C!CleanupExpired, CleanedRow
<1>2. window \in Nat /\ \A i \in CardIds : dislikes[i] \in DislikeRow
  BY DEF FeedbackInv, FeedbackTypes, DislikeRow
<1>3. \A i \in CardIds :
        /\ CleanedRow(dislikes[i], window) \in DislikeRow
        /\ CleanedRow(dislikes[i], window).expires = dislikes[i].expires
        /\ dislikes[i].expires > window => CleanedRow(dislikes[i], window).row = dislikes[i].row
  BY <1>2, RowIsCleaned
<1> QED
  BY <1>1, <1>3

LEMMA CleanKeepsFeedback ==
  ASSUME FeedbackInv, C!CleanupExpired
  PROVE  FeedbackInv'
<1>1. reads' \subseteq reads /\ UNCHANGED <<facts, writing, window, changes>>
  BY DEF C!CleanupExpired
<1> QED
  BY <1>1, CleanedDislikes DEF FeedbackInv, FeedbackTypes, LockHolds, DislikeRow

LEMMA KindsKnown == FeedbackKinds \subseteq C!Kinds
  BY ReadersAssumption DEF C!RecommendAssumption

LEMMA FeedbackStep == FeedbackInv /\ [C!Next]_C!vars => FeedbackInv'
<1> SUFFICES ASSUME FeedbackInv, [C!Next]_C!vars PROVE FeedbackInv'
  OBVIOUS
<1>1. ASSUME NEW i \in CardIds,
             C!Toggle(i) \/ C!Reselect(i) \/ \E s \in CardSorts : C!Resort(i, s)
      PROVE  FeedbackInv'
  BY <1>1, LockedKeeps DEF C!Toggle, C!Reselect, C!Resort
<1>2. CASE C!Tick
  BY <1>2 DEF C!Tick, C!feedback, FeedbackInv, FeedbackTypes, LockHolds
<1>3. CASE C!Cancel
  BY <1>3 DEF C!Cancel, C!feedback, FeedbackInv, FeedbackTypes, LockHolds
<1>4. CASE UNCHANGED <<facts, C!feedback, writing, window, changes>>
  BY <1>4 DEF C!feedback, FeedbackInv, FeedbackTypes, LockHolds
<1>5. ASSUME NEW signed \in BOOLEAN, C!First(signed) \/ C!Continue(signed)
      PROVE  FeedbackInv'
  BY <1>4, <1>5, SMTT(30) DEF C!First, C!Continue
<1>6. CASE C!Recall \/ C!Rank \/ C!ReadFacts \/ C!FillPage \/ C!FillUp \/ C!Fail
  BY <1>4, <1>6 DEF C!Recall, C!Rank, C!ReadFacts, C!FillPage, C!FillUp, C!Fail
<1>7. CASE UNCHANGED C!vars
  BY <1>4, <1>7 DEF C!vars
<1>8. ASSUME NEW i \in CardIds, NEW kind \in FeedbackKinds, C!LockArticle(i, kind)
      PROVE  FeedbackInv'
  BY <1>8, KindsKnown, LockKeeps
<1> QED
  BY <1>1, <1>2, <1>3, <1>5, <1>6, <1>7, <1>8, CommitKeeps, CleanKeepsFeedback DEF C!Next

(* A forgotten read is older than any that counts.                         *)
LEMMA CleanedReads ==
  ASSUME FeedbackInv, C!CleanupExpired, NEW i
  PROVE  {r \in reads' : r.article = i /\ r.window >= window' - ReadRetention}
           = {r \in reads : r.article = i /\ r.window >= window - ReadRetention}
<1>1. reads' = {r \in reads : ~(r.window < window - ReadRetention)} /\ window' = window
  BY DEF C!CleanupExpired, C!Forgotten
<1>2. window - ReadRetention \in Int /\ \A r \in reads : r.window \in Nat
  BY ReadersAssumption DEF C!RecommendAssumption, FeedbackInv, FeedbackTypes
<1> QED
  BY <1>1, <1>2

LEMMA CleanedExcluded ==
  ASSUME FeedbackInv, C!CleanupExpired
  PROVE  C!Excluded(CardIds)' = C!Excluded(CardIds)
<1>1. UNCHANGED <<facts, window>>
  BY DEF C!CleanupExpired
<1>2. \A i \in CardIds : (dislikes'[i].row /\ dislikes'[i].expires > window)
                            <=> (dislikes[i].row /\ dislikes[i].expires > window)
  BY CleanedDislikes
<1> QED
  BY <1>1, <1>2 DEF C!Excluded

LEMMA CleanedProfile ==
  ASSUME FeedbackInv, C!CleanupExpired
  PROVE  C!Profile' = C!Profile
<1>1. /\ UNCHANGED <<facts, favorites, window>>
      /\ C!Excluded(CardIds)' = C!Excluded(CardIds)
  BY CleanedExcluded DEF C!CleanupExpired
<1>2. ASSUME NEW i
      PROVE  C!Days(i)' = C!Days(i)
  BY CleanedReads DEF C!Days
<1>3. ASSUME NEW i
      PROVE  C!Positive(i)' = C!Positive(i)
  BY <1>1, <1>2 DEF C!Positive
<1>4. C!Sampled' = C!Sampled
  BY <1>1 DEF C!Sampled
<1>5. ASSUME NEW t
      PROVE  C!Evidence(t)' = C!Evidence(t)
  BY <1>1, <1>3, <1>4 DEF C!Evidence
<1> QED
  BY <1>5 DEF C!Profile

(* withPublishedArticle, MarkNotInterested and Cleanup: whoever changes an  *)
(* article waits for the transaction that has checked it, and the retention *)
(* of reads and dislikes is what the profile and the exclusions ask for, so *)
(* feedback is committed on public articles only and the clean-up, whenever *)
(* it runs, changes neither the profile nor what is excluded.               *)
THEOREM FeedbackIsSafe == AllSpec => FeedbackHolds
<1>1. C!Init => FeedbackInv
  BY FeedbackInit
<1>2. FeedbackInv /\ [AllNext]_all => FeedbackInv'
  <2> SUFFICES ASSUME FeedbackInv, [AllNext]_all PROVE FeedbackInv'
    OBVIOUS
  <2>1. [C!Next]_C!vars
    BY DEF AllNext, all, recommending, C!vars, C!feedback, C!reading
  <2> QED
    BY <2>1, FeedbackStep
<1>3. FeedbackInv => (C!Commit => facts[writing.article].public)
  BY DEF FeedbackInv, LockHolds, C!Commit
<1>4. FeedbackInv =>
        (C!CleanupExpired => C!Profile' = C!Profile /\ C!Excluded(CardIds)' = C!Excluded(CardIds))
  BY CleanedProfile, CleanedExcluded
<1>5. AllSpec => []FeedbackInv
  BY <1>1, <1>2, PTL DEF AllSpec, AllInit
<1>6. AllSpec => C!FeedbackWhilePublic
  BY <1>3, <1>5, PTL DEF C!FeedbackWhilePublic
<1>7. AllSpec => C!CleanupUnseen
  BY <1>4, <1>5, PTL DEF C!CleanupUnseen
<1> QED
  BY <1>6, <1>7 DEF FeedbackHolds

-----------------------------------------------------------------------------
(***************************************************************************)
(* Recommend.  A walk is described by the position its cursor, or its       *)
(* request, has reached: whatever was shown is of the plan up to the offset *)
(* or of the latest articles down to the position, and of both everything   *)
(* that nothing happened to has been shown.                                *)
(***************************************************************************)
CardRow  == [public : BOOLEAN, sort : CardSorts, vector : Nat, first : 0..MaxWindow + 1, mark : Nat]
CardFact == [public : BOOLEAN, sort : CardSorts, vector : Nat]
Mark     == [row : BOOLEAN, expires : 0..MaxWindow + DislikeTTL, mark : Nat]
Card     == [id : CardIds, sort : CardSorts]
PlanItem == [id : CardIds, vector : Nat]
CardCursor ==
  [mode : C!Modes \cup {"none"}, signed : BOOLEAN, items : Seq(PlanItem), offset : Nat,
   latest : Seq(Card), latestEnd : BOOLEAN, started : Nat, basis : Nat, degraded : BOOLEAN]

(* The requests that hold the profile p, and the plans made for it.        *)
QueryOf(p) ==
  [phase : {"idle", "recall", "rank", "facts", "exclusions", "latest"}, state : CardCursor,
   began : Nat, profile : {p}, bm : SUBSET CardIds,
   knn : {<<>>} \cup UNION {[on -> Nat] : on \in SUBSET CardIds}, semantic : BOOLEAN,
   current : {<<>>} \cup [CardIds -> CardFact], items : Seq(Card), more : BOOLEAN]
PlanOf(p) ==
  [items : Seq(PlanItem), original : SUBSET CardIds, excluded : SUBSET CardIds, profile : {p},
   created : Nat, basis : Nat, degraded : BOOLEAN]
ShownWalk ==
  [items : Seq(Card), signed : BOOLEAN, began : Nat, started : Nat, basis : Nat, over : BOOLEAN,
   count : 0..MaxQueries]

WorldTypes ==
  /\ facts \in [CardIds -> CardRow] /\ dislikes \in [CardIds -> Mark]
  /\ \A i \in CardIds : facts[i].mark <= changes /\ dislikes[i].mark <= changes
  /\ reads \subseteq [article : CardIds, window : 0..MaxWindow] /\ favorites \subseteq CardIds
  /\ \/ writing = C!NoTx
     \/ /\ writing \in [article : CardIds, kind : C!Kinds, at : 0..MaxWindow]
        /\ feedbacks < MaxFeedback
  /\ window \in 0..MaxWindow /\ changes \in Nat
  /\ feedbacks \in 0..MaxFeedback /\ changes - feedbacks \in 0..MaxChanges

WalkTypes ==
  /\ query \in QueryOf(query.profile) /\ plan \in PlanOf(plan.profile)
  /\ token \in CardCursor /\ shown \in ShownWalk
  /\ query.began <= changes /\ shown.began <= changes /\ shown.basis <= changes
  /\ shown.started <= window
  /\ Len(query.items) <= PageSize

(* An order of candidates names none twice, and, of what nothing happened  *)
(* to since it was made, holds the current vector if any.                  *)
OrderHolds(items, basis) ==
  /\ \A j, k \in 1..Len(items) : items[j].id = items[k].id => j = k
  /\ \A k \in 1..Len(items) : items[k].vector # 0 /\ facts[items[k].id].mark <= basis
                                => items[k].vector = facts[items[k].id].vector

PlanHolds == OrderHolds(plan.items, plan.basis) /\ plan.basis <= changes

StateHolds(s, w) ==
  /\ s.signed = w.signed /\ s.started = w.started /\ ~s.latestEnd
  /\ s.basis <= w.began /\ s.offset <= Len(s.items)
  /\ OrderHolds(s.items, s.basis)

(* Nothing happened to i since, and the user had not dismissed it.         *)
Steady(i, basis, w) ==
  /\ facts[i].public /\ facts[i].mark <= basis /\ facts[i].first <= w.started
  /\ ~w.signed \/ (dislikes[i].mark <= w.began /\ dislikes[i].expires <= w.started)

CardOf(i)     == [id |-> i, sort |-> facts[i].sort]
Planned(i, s) == Done(i, s.items, Len(s.items))
Cleared(c, s) == s.latest # <<>> /\ ~C!Below(c, s.latest[1])

Repeatless(items) ==
  \A j, k \in 1..Len(items) : j < k /\ items[j].id = items[k].id => items[k].sort < items[j].sort

Gathered(items, s, w) ==
  /\ Repeatless(items)
  /\ \A k \in 1..Len(items) :
       \/ Done(items[k].id, s.items, s.offset)
       \/ ~Planned(items[k].id, s) /\ Cleared(items[k], s)
  /\ \A i \in CardIds : Steady(i, s.basis, w) =>
       /\ Done(i, s.items, s.offset) => Has(items, i)
       /\ ~Planned(i, s) /\ Cleared(CardOf(i), s) => Has(items, i)

(* What was read of the facts is so of whatever nothing happened to.       *)
Agrees(current, began) ==
  /\ current \in [CardIds -> CardFact]
  /\ \A i \in CardIds : facts[i].mark <= began =>
       /\ current[i].public = facts[i].public /\ current[i].sort = facts[i].sort
       /\ current[i].vector = facts[i].vector

TokenHolds(c, w) == c # C!NoCursor => StateHolds(c, w) /\ Gathered(w.items, c, w)

QueryHolds(q, w) ==
  q.phase # "idle" =>
    /\ StateHolds(q.state, w) /\ w.began <= q.began
    /\ Gathered(w.items \o q.items, q.state, w)
    /\ q.phase # "latest" => q.items = <<>>
    /\ q.phase \in {"recall", "rank"} =>
         w.items = <<>> /\ q.state.offset = 0 /\ q.state.latest = <<>>
    /\ q.phase = "rank" => q.knn \in UNION {[on -> Nat] : on \in SUBSET CardIds}
    /\ q.phase \in {"rank", "exclusions"} => Agrees(q.current, q.began)
    /\ q.phase = "latest" /\ ~q.more =>
         \A i \in CardIds : Steady(i, q.state.basis, w) /\ Planned(i, q.state)
                              => Has(w.items \o q.items, i)

(* A page shows nothing withdrawn or dismissed before its request.         *)
Timely(i, began, w) ==
  facts[i].mark <= began =>
    /\ facts[i].public
    /\ w.signed /\ dislikes[i].row /\ dislikes[i].expires > window => dislikes[i].mark > began

TimelyHolds(q, w) == \A k \in 1..Len(q.items) : Timely(q.items[k].id, q.began, w)

OverHolds(w) ==
  /\ Repeatless(w.items)
  /\ w.over => \A i \in CardIds : Steady(i, w.basis, w) => Has(w.items, i)

ShownHolds(q, c, w) ==
  QueryHolds(q, w) /\ TokenHolds(c, w) /\ TimelyHolds(q, w) /\ OverHolds(w)

RecommendInv == WorldTypes /\ WalkTypes /\ PlanHolds /\ ShownHolds(query, token, shown)

LEMMA CardBounds ==
  /\ CardIds \subseteq Nat \ {0} /\ IsFiniteSet(CardIds) /\ CardSorts \subseteq Nat \ {0} /\ CardSorts # {}
  /\ Recalls \subseteq [bm : SUBSET CardIds, knn : SUBSET CardIds] /\ Liked \subseteq CardIds
  /\ PageSize \in Nat \ {0} /\ ReadRetention \in Nat /\ DislikeTTL \in Nat
  /\ MaxWindow \in Nat \ {0} /\ MaxChanges \in Nat /\ MaxFeedback \in Nat /\ MaxQueries \in Nat
<1>1. C!RecommendAssumption
  BY ReadersAssumption
<1>2. IsFiniteSet(CardIds)
  BY <1>1, Zenon DEF C!RecommendAssumption, C!IsFiniteSet, IsFiniteSet
<1>3. {MaxChanges, MaxFeedback, MaxQueries} \subseteq Nat
  BY <1>1 DEF C!RecommendAssumption
<1> QED
  BY <1>1, <1>2, <1>3 DEF C!RecommendAssumption

LEMMA SameInCards ==
  /\ \A X : C!Cardinality(X) = Cardinality(X)
  /\ \A X, B : C!Ordered(X, B) = Ordered(X, B)
  /\ \A s, K : C!At(s, K) = At(s, K)
  /\ \A K, n : C!Nth(K, n) = Nth(K, n)
  /\ \A s, n : C!Top(s, n) = Top(s, n)
<1>1. \A X : C!Cardinality(X) = Cardinality(X)
  BY Zenon DEF C!Cardinality, Cardinality
<1>2. \A X, B : C!Ordered(X, B) = Ordered(X, B)
  <2>1. \A X, B, x : C!Place(X, B, x) = Place(X, B, x)
    BY <1>1 DEF C!Place, Place
  <2> QED
    BY <1>1, <2>1 DEF C!Ordered, Ordered
<1>3. \A K, n : C!Nth(K, n) = Nth(K, n)
  BY <1>1 DEF C!Nth, Nth
<1>4. \A s, K : C!At(s, K) = At(s, K)
  BY <1>1, <1>3 DEF C!At, At
<1>5. \A s, n : C!Top(s, n) = Top(s, n)
  BY Zenon DEF C!Top, Top
<1> QED
  BY <1>1, <1>2, <1>3, <1>4, <1>5

LEMMA IdleCards ==
  /\ C!NoCursor \in CardCursor
  /\ C!NoCursor.items = <<>> /\ C!NoCursor.offset = 0 /\ C!NoCursor.latest = <<>>
  /\ C!NoCursor.latestEnd = FALSE
  /\ C!Idle \in QueryOf(<<>>)
  /\ C!Idle.phase = "idle" /\ C!Idle.items = <<>> /\ C!Idle.began = 0 /\ C!Idle.profile = <<>>
  /\ C!Idle.more = FALSE
  /\ C!NoWalk \in ShownWalk
  /\ C!NoWalk.items = <<>> /\ C!NoWalk.over = FALSE /\ C!NoWalk.began = 0 /\ C!NoWalk.started = 0
  /\ C!NoPlan \in PlanOf(<<>>)
  /\ C!NoPlan.items = <<>> /\ C!NoPlan.basis = 0 /\ C!NoPlan.profile = <<>>
<1>1. <<>> \in Seq(Card) /\ <<>> \in Seq(PlanItem) /\ 0 \in 0..MaxQueries
  BY CardBounds
<1>2. /\ C!NoCursor \in CardCursor
      /\ C!NoCursor.items = <<>> /\ C!NoCursor.offset = 0 /\ C!NoCursor.latest = <<>>
      /\ C!NoCursor.latestEnd = FALSE
  BY <1>1 DEF C!NoCursor, CardCursor
<1>3. /\ C!Idle \in QueryOf(<<>>)
      /\ C!Idle.phase = "idle" /\ C!Idle.items = <<>> /\ C!Idle.began = 0 /\ C!Idle.profile = <<>>
      /\ C!Idle.more = FALSE
  BY <1>1, <1>2 DEF C!Idle, QueryOf
<1>4. /\ C!NoWalk \in ShownWalk
      /\ C!NoWalk.items = <<>> /\ C!NoWalk.over = FALSE /\ C!NoWalk.began = 0 /\ C!NoWalk.started = 0
  BY <1>1 DEF C!NoWalk, ShownWalk
<1>5. /\ C!NoPlan \in PlanOf(<<>>)
      /\ C!NoPlan.items = <<>> /\ C!NoPlan.basis = 0 /\ C!NoPlan.profile = <<>>
  BY <1>1 DEF C!NoPlan, PlanOf
<1> QED
  BY <1>2, <1>3, <1>4, <1>5

(* Freezing an order: no candidate twice, and each with the current vector *)
(* or without any.                                                         *)
LEMMA Freezes ==
  ASSUME NEW q, NEW excluded, NEW items \in C!Frozen(q, excluded),
         q.bm \in SUBSET CardIds, q.current \in [CardIds -> CardFact],
         q.knn \in UNION {[on -> Nat] : on \in SUBSET CardIds}
  PROVE  /\ items \in Seq(PlanItem)
         /\ \A j, k \in 1..Len(items) : items[j].id = items[k].id => j = k
         /\ \A k \in 1..Len(items) : items[k].vector # 0 =>
              items[k].vector = q.current[items[k].id].vector
<1> DEFINE X == C!Fused(q) \ excluded
<1>1. X \subseteq CardIds /\ C!Matching(q.knn, q.current) \subseteq CardIds
  BY DEF C!Fused, C!Matching
<1>2. IsFiniteSet(X) /\ Cardinality(X) \in Nat
  BY <1>1, CardBounds, FS_Subset, FS_CardinalityType
<1>3. PICK order \in C!SetToSeqs(X) :
        items = [k \in DOMAIN order |-> [id |-> order[k],
          vector |-> IF order[k] \in C!Matching(q.knn, q.current) THEN q.knn[order[k]] ELSE 0]]
  BY DEF C!Frozen
<1>4. /\ order \in [1..Cardinality(X) -> X]
      /\ \A j, k \in 1..Cardinality(X) : j # k => order[j] # order[k]
  BY <1>3, SameInCards DEF C!SetToSeqs
<1> HIDE DEF X
<1>5. \A k \in 1..Cardinality(X) : order[k] \in CardIds
  BY <1>1, <1>4
<1>6. \A i \in C!Matching(q.knn, q.current) : q.knn[i] \in Nat /\ q.knn[i] = q.current[i].vector
  BY DEF C!Matching
<1>7. /\ DOMAIN items = 1..Cardinality(X)
      /\ \A k \in 1..Cardinality(X) :
           /\ items[k].id = order[k] /\ items[k] \in PlanItem
           /\ items[k].vector # 0 => items[k].vector = q.current[order[k]].vector
  BY <1>3, <1>4, <1>5, <1>6 DEF PlanItem
<1>8. items \in Seq(PlanItem) /\ Len(items) = Cardinality(X)
  <2>1. items = [k \in 1..Cardinality(X) |-> items[k]]
    BY <1>3, <1>4, <1>7
  <2> QED
    BY <1>2, <1>7, <2>1
<1> QED
  BY <1>4, <1>7, <1>8

LEMMA NothingGathered ==
  ASSUME NEW s \in CardCursor, s.offset = 0, s.latest = <<>>, NEW w
  PROVE  Gathered(<<>>, s, w)
<1>1. Len(<<>>) = 0
  OBVIOUS
<1>2. \A i : ~Done(i, s.items, 0)
  BY DEF Done
<1> QED
  BY <1>1, <1>2 DEF Gathered, Repeatless, Cleared

LEMMA RecommendInit == C!Init => RecommendInv
<1> SUFFICES ASSUME C!Init PROVE RecommendInv
  OBVIOUS
<1>1. /\ query = C!Idle /\ token = C!NoCursor /\ shown = C!NoWalk
      /\ window = 1 /\ changes = 0 /\ feedbacks = 0 /\ reads = {} /\ favorites = Liked \cap C!Indexed
      /\ writing = C!NoTx
  BY DEF C!Init
<1>2. facts \in [CardIds -> CardRow] /\ \A i \in CardIds : facts[i].mark = 0 /\ facts[i].vector = 1
  <2>1. PICK s \in CardSorts : s = CHOOSE x \in CardSorts : TRUE
    BY CardBounds
  <2>2. PICK drafts \in SUBSET CardIds :
          facts = [i \in CardIds |-> [public |-> i \notin drafts, sort |-> s, vector |-> 1,
                                      first |-> IF i \in drafts THEN C!Never ELSE 0, mark |-> 0]]
    BY <2>1 DEF C!Init
  <2>3. C!Never \in 0..MaxWindow + 1
    BY CardBounds DEF C!Never
  <2> QED
    BY <2>2, <2>3, CardBounds DEF CardRow
<1>3. dislikes \in [CardIds -> Mark] /\ \A i \in CardIds : dislikes[i].mark = 0
  BY CardBounds DEF C!Init, Mark
<1>4. WorldTypes
  <2>1. changes - feedbacks \in 0..MaxChanges /\ feedbacks \in 0..MaxFeedback /\ window \in 0..MaxWindow
    BY <1>1, CardBounds
  <2>2. reads \subseteq [article : CardIds, window : 0..MaxWindow] /\ favorites \subseteq CardIds
    BY <1>1, CardBounds
  <2>3. \A i \in CardIds : facts[i].mark <= changes /\ dislikes[i].mark <= changes
    BY <1>1, <1>2, <1>3
  <2> QED
    BY <1>1, <1>2, <1>3, <2>1, <2>2, <2>3, CardBounds DEF WorldTypes
<1>5. plan \in PlanOf(plan.profile) /\ PlanHolds
  <2>1. CASE plan = C!NoPlan
    <3>1. plan \in PlanOf(plan.profile) /\ plan.items = <<>> /\ plan.basis = 0
      BY <2>1, IdleCards
    <3> QED
      BY <1>1, <3>1 DEF PlanHolds, OrderHolds
  <2>2. CASE plan \in C!EarlierPlans
    <3>1. PICK f \in Recalls :
            \E items \in C!Frozen([bm |-> f.bm \cap C!Indexed,
                                  knn |-> [i \in f.knn \cap C!Indexed |-> 1],
                                  current |-> C!Facts], {}) :
              plan = [C!NoPlan EXCEPT !.items = items,
                                      !.original = (f.bm \cup f.knn) \cap C!Indexed,
                                      !.profile = C!Profile, !.created = window]
      BY <2>2, ZenonT(40) DEF C!EarlierPlans
    <3>2. PICK q : q = [bm |-> f.bm \cap C!Indexed, knn |-> [i \in f.knn \cap C!Indexed |-> 1],
                        current |-> C!Facts]
      OBVIOUS
    <3>3. f.bm \in SUBSET CardIds /\ f.knn \in SUBSET CardIds
      BY CardBounds
    <3>4. C!Facts \in [CardIds -> CardFact] /\ \A i \in CardIds : C!Facts[i].vector = 1
      BY <1>2 DEF C!Facts, CardFact, CardRow
    <3>5. /\ q.bm \in SUBSET CardIds /\ q.current \in [CardIds -> CardFact]
          /\ q.knn \in UNION {[on -> Nat] : on \in SUBSET CardIds}
      BY <3>2, <3>3, <3>4
    <3>6. PICK items \in C!Frozen(q, {}) :
            plan = [C!NoPlan EXCEPT !.items = items,
                                    !.original = (f.bm \cup f.knn) \cap C!Indexed,
                                    !.profile = C!Profile, !.created = window]
      BY <3>1, <3>2
    <3>7. /\ items \in Seq(PlanItem)
          /\ \A j, k \in 1..Len(items) : items[j].id = items[k].id => j = k
          /\ \A k \in 1..Len(items) : items[k].vector # 0 =>
               items[k].vector = q.current[items[k].id].vector
      BY <3>5, Freezes
    <3>8. \A k \in 1..Len(items) : items[k].id \in CardIds
      <4>1. \A k \in 1..Len(items) : items[k] \in PlanItem
        BY <3>7, ElementOfSeq
      <4> QED
        BY <4>1 DEF PlanItem
    <3>9. \A k \in 1..Len(items) : items[k].vector # 0 => items[k].vector = facts[items[k].id].vector
      BY <1>2, <3>2, <3>4, <3>7, <3>8
    <3>10. PICK z \in PlanOf(<<>>) : z = C!NoPlan /\ z.basis = 0
      BY IdleCards
    <3>11. PICK p : p = C!Profile
      OBVIOUS
    <3>12. PICK both \in SUBSET CardIds : both = (f.bm \cup f.knn) \cap C!Indexed
      BY <3>3
    <3>13. PICK x \in PlanOf(p) : x = [z EXCEPT !.items = items, !.original = both, !.profile = p, !.created = window]
      BY <1>1, <3>7 DEF PlanOf
    <3>14. x.items = items /\ x.basis = 0 /\ x.profile = p
      BY <3>10, <3>13 DEF PlanOf
    <3>15. plan = x
      BY <3>6, <3>10, <3>11, <3>12, <3>13
    <3> QED
      BY <1>1, <3>7, <3>9, <3>14, <3>15 DEF PlanHolds, OrderHolds
  <2> QED
    BY <2>1, <2>2 DEF C!Init
<1>6. WalkTypes
  <2>1. Len(<<>>) <= PageSize /\ PageSize \in Nat
    BY CardBounds
  <2>2. shown.basis = 0
    BY <1>1 DEF C!NoWalk
  <2> QED
    BY <1>1, <1>5, <2>1, <2>2, IdleCards DEF WalkTypes
<1>7. ShownHolds(query, token, shown)
  <2>1. Repeatless(<<>>)
    BY DEF Repeatless
  <2> QED
    BY <1>1, <2>1, IdleCards DEF ShownHolds, QueryHolds, TokenHolds, TimelyHolds, OverHolds
<1> QED
  BY <1>4, <1>5, <1>6, <1>7 DEF RecommendInv

(* What happens to articles and feedback leaves what was shown in order.   *)
LEMMA WorldKeeps ==
  ASSUME RecommendInv, WorldTypes', changes <= changes', window <= window',
         \A i \in CardIds : facts'[i] = facts[i] \/ facts'[i].mark > changes,
         \A i \in CardIds :
           \/ dislikes'[i].mark > changes
           \/ /\ dislikes'[i].mark = dislikes[i].mark /\ dislikes'[i].expires = dislikes[i].expires
              /\ dislikes'[i].row => dislikes[i].row,
         UNCHANGED <<plan, query, token, shown>>
  PROVE  RecommendInv'
<1>1. PICK q \in QueryOf(query.profile), c \in CardCursor, w \in ShownWalk, p \in PlanOf(plan.profile) :
        /\ q = query /\ c = token /\ w = shown /\ p = plan
        /\ query' = q /\ token' = c /\ shown' = w /\ plan' = p
  BY DEF RecommendInv, WalkTypes
<1>2. /\ facts \in [CardIds -> CardRow] /\ dislikes \in [CardIds -> Mark]
      /\ facts' \in [CardIds -> CardRow] /\ dislikes' \in [CardIds -> Mark]
      /\ changes \in Nat /\ changes' \in Nat /\ window \in Nat /\ window' \in Nat
  BY DEF RecommendInv, WorldTypes
<1>3. /\ \A i \in CardIds : facts[i].mark \in Nat /\ facts'[i].mark \in Nat
      /\ \A i \in CardIds : /\ dislikes[i].mark \in Nat /\ dislikes'[i].mark \in Nat
                            /\ dislikes[i].expires \in Int /\ dislikes'[i].expires \in Int
  BY <1>2, CardBounds DEF CardRow, Mark
<1>4. \A i \in CardIds, b \in Nat : b <= changes /\ facts'[i].mark <= b => facts'[i] = facts[i]
  BY <1>2, <1>3
<1>5. w.began \in Nat /\ w.began <= changes /\ w.basis \in Nat /\ w.basis <= changes
      /\ q.began \in Nat /\ q.began <= changes
  BY <1>1 DEF RecommendInv, WalkTypes, ShownWalk, QueryOf
<1>6. ASSUME NEW i \in CardIds, NEW b \in Nat, b <= changes, Steady(i, b, w)'
      PROVE  Steady(i, b, w) /\ CardOf(i)' = CardOf(i)
  <2>1. facts'[i] = facts[i]
    BY <1>4, <1>6 DEF Steady
  <2>2. w.signed => dislikes'[i].mark <= w.began
    BY <1>6 DEF Steady
  <2>3. w.signed => dislikes'[i].mark = dislikes[i].mark /\ dislikes'[i].expires = dislikes[i].expires
    BY <1>2, <1>3, <1>5, <2>2
  <2> QED
    BY <1>6, <2>1, <2>3 DEF Steady, CardOf
<1>7. ASSUME NEW items \in Seq(PlanItem), NEW b \in Nat, b <= changes, OrderHolds(items, b)
      PROVE  OrderHolds(items, b)'
  <2>1. \A k \in 1..Len(items) : items[k].id \in CardIds
    <3>1. \A k \in 1..Len(items) : items[k] \in PlanItem
      BY ElementOfSeq
    <3> QED
      BY <3>1 DEF PlanItem
  <2>2. \A k \in 1..Len(items) : facts'[items[k].id].mark <= b
                                   => facts'[items[k].id] = facts[items[k].id]
    BY <1>4, <1>7, <2>1
  <2> QED
    BY <1>7, <2>2 DEF OrderHolds
<1>8. ASSUME NEW s \in CardCursor, StateHolds(s, w)
      PROVE  StateHolds(s, w)' /\ s.basis \in Nat /\ s.basis <= changes
  <2>1. s.items \in Seq(PlanItem) /\ s.basis \in Nat /\ s.basis <= changes
    BY <1>2, <1>5, <1>8, SMTT(30) DEF CardCursor, StateHolds
  <2>2. OrderHolds(s.items, s.basis)'
    BY <1>7, <1>8, <2>1 DEF StateHolds
  <2> QED
    BY <1>8, <2>1, <2>2 DEF StateHolds
<1>9. ASSUME NEW s \in CardCursor, NEW items, StateHolds(s, w), Gathered(items, s, w)
      PROVE  Gathered(items, s, w)'
  <2>1. \A i \in CardIds : Steady(i, s.basis, w)' => Steady(i, s.basis, w) /\ CardOf(i)' = CardOf(i)
    BY <1>6, <1>8, <1>9
  <2> QED
    BY <1>9, <2>1 DEF Gathered, Planned, Cleared
<1>10. Agrees(q.current, q.began) => Agrees(q.current, q.began)'
  BY <1>4, <1>5 DEF Agrees
<1>11. TokenHolds(c, w)'
  BY <1>1, <1>8, <1>9 DEF RecommendInv, ShownHolds, TokenHolds
<1>12. QueryHolds(q, w)'
  <2> SUFFICES ASSUME q.phase # "idle" PROVE QueryHolds(q, w)'
    BY DEF QueryHolds
  <2>1. q.state \in CardCursor /\ QueryHolds(q, w)
    BY <1>1 DEF QueryOf, RecommendInv, ShownHolds
  <2>2. StateHolds(q.state, w)' /\ q.state.basis \in Nat /\ q.state.basis <= changes
        /\ Gathered(w.items \o q.items, q.state, w)'
    BY <1>8, <1>9, <2>1 DEF QueryHolds
  <2>3. \A i \in CardIds : Steady(i, q.state.basis, w)' => Steady(i, q.state.basis, w)
    BY <1>6, <2>2
  <2> QED
    BY <1>10, <2>1, <2>2, <2>3 DEF QueryHolds, Planned
<1>13. TimelyHolds(q, w)'
  <2> SUFFICES ASSUME NEW k \in 1..Len(q.items) PROVE Timely(q.items[k].id, q.began, w)'
    BY DEF TimelyHolds
  <2>1. PICK i \in CardIds : i = q.items[k].id
    <3>1. q.items \in Seq(Card)
      BY DEF QueryOf
    <3>2. q.items[k] \in Card
      BY <3>1, ElementOfSeq
    <3> QED
      BY <3>2 DEF Card
  <2>2. Timely(i, q.began, w)
    BY <1>1, <2>1 DEF RecommendInv, ShownHolds, TimelyHolds
  <2>3. facts'[i].mark <= q.began => facts'[i] = facts[i]
    BY <1>4, <1>5
  <2>4. dislikes'[i].row /\ dislikes'[i].expires > window' /\ ~(dislikes'[i].mark > q.began) =>
          dislikes[i].row /\ dislikes[i].expires > window /\ ~(dislikes[i].mark > q.began)
    BY <1>2, <1>3, <1>5, SMTT(30)
  <2>5. Timely(i, q.began, w)'
    BY <2>2, <2>3, <2>4 DEF Timely
  <2> QED
    BY <2>1, <2>5
<1>14. OverHolds(w)'
  <2>1. \A i \in CardIds : Steady(i, w.basis, w)' => Steady(i, w.basis, w)
    BY <1>5, <1>6
  <2> QED
    BY <1>1, <2>1 DEF RecommendInv, ShownHolds, OverHolds
<1>15. PlanHolds'
  <2>1. p.items \in Seq(PlanItem) /\ p.basis \in Nat /\ p.basis <= changes /\ OrderHolds(p.items, p.basis)
    BY <1>1 DEF PlanOf, RecommendInv, PlanHolds
  <2>2. OrderHolds(p.items, p.basis)' /\ p.basis <= changes'
    BY <1>2, <1>7, <2>1
  <2> QED
    BY <1>1, <2>2 DEF PlanHolds
<1>16. WalkTypes'
  <2>1. w.started \in Nat /\ w.started <= window
    BY <1>1 DEF RecommendInv, WalkTypes, ShownWalk
  <2>2. q.began <= changes' /\ w.began <= changes' /\ w.basis <= changes' /\ w.started <= window'
    BY <1>2, <1>5, <2>1
  <2> QED
    BY <1>1, <2>2 DEF RecommendInv, WalkTypes
<1>17. ShownHolds(q, c, w)'
  BY <1>11, <1>12, <1>13, <1>14 DEF ShownHolds
<1> QED
  BY <1>1, <1>15, <1>16, <1>17 DEF RecommendInv

LEMMA CardWritten ==
  ASSUME RecommendInv, NEW i \in CardIds, NEW a \in CardRow, C!Written(i, a)
  PROVE  RecommendInv'
<1>1. /\ changes' = changes + 1 /\ changes - feedbacks < MaxChanges
      /\ UNCHANGED <<reads, favorites, dislikes, writing, plan, query, token, shown, window, feedbacks>>
  BY DEF C!Written, C!feedback, C!reading
<1>2. /\ facts \in [CardIds -> CardRow] /\ dislikes \in [CardIds -> Mark]
      /\ changes \in Nat /\ feedbacks \in 0..MaxFeedback /\ changes - feedbacks \in 0..MaxChanges
      /\ window \in 0..MaxWindow
      /\ \A j \in CardIds : facts[j].mark <= changes /\ dislikes[j].mark <= changes
  BY DEF RecommendInv, WorldTypes
<1>3. PICK n \in Nat, f \in 0..MaxWindow + 1 :
        n = changes + 1 /\ f = IF a.public /\ a.first = C!Never THEN window ELSE a.first
  <2>1. a.first \in 0..MaxWindow + 1
    BY DEF CardRow
  <2>2. window \in 0..MaxWindow + 1 /\ changes + 1 \in Nat
    BY <1>2, CardBounds
  <2> QED
    BY <2>1, <2>2
<1>4. PICK row \in CardRow : row = [a EXCEPT !.mark = n, !.first = f]
  BY DEF CardRow
<1>5. row.mark = n
  BY <1>4 DEF CardRow
<1>6. facts' = [facts EXCEPT ![i] = row]
  <2>1. facts' = [facts EXCEPT ![i] = [a EXCEPT !.mark = changes',
                    !.first = IF a.public /\ a.first = C!Never THEN window ELSE a.first]]
    BY DEF C!Written
  <2> QED
    BY <1>1, <1>3, <1>4, <2>1
<1>7. /\ facts' \in [CardIds -> CardRow]
      /\ \A j \in CardIds : facts'[j] = facts[j] \/ facts'[j].mark = n
  BY <1>2, <1>5, <1>6
<1>8. changes <= changes' /\ changes < n /\ changes' = n /\ changes' - feedbacks \in 0..MaxChanges
  BY <1>1, <1>2, <1>3, CardBounds
<1>9. \A j \in CardIds : facts'[j].mark <= changes' /\ dislikes'[j].mark <= changes'
  <2>1. \A j \in CardIds : facts[j].mark \in Nat /\ dislikes[j].mark \in Nat
    BY <1>2 DEF CardRow, Mark
  <2> QED
    BY <1>1, <1>2, <1>7, <1>8, <2>1
<1>10. WorldTypes'
  BY <1>1, <1>7, <1>8, <1>9 DEF RecommendInv, WorldTypes
<1>11. window <= window'
  BY <1>1, <1>2
<1> QED
  BY <1>1, <1>7, <1>8, <1>10, <1>11, WorldKeeps

LEMMA CardChanges ==
  ASSUME RecommendInv, NEW i \in CardIds,
         C!Toggle(i) \/ C!Reselect(i) \/ \E s \in CardSorts : C!Resort(i, s)
  PROVE  RecommendInv'
<1>1. PICK r \in CardRow : r = facts[i]
  BY DEF RecommendInv, WorldTypes
<1>2. CASE C!Toggle(i)
  <2>1. [r EXCEPT !.public = ~r.public] \in CardRow
    BY DEF CardRow
  <2>2. C!Written(i, [r EXCEPT !.public = ~r.public])
    BY <1>1, <1>2 DEF C!Toggle
  <2> QED
    BY <2>1, <2>2, CardWritten
<1>3. CASE C!Reselect(i)
  <2>1. [r EXCEPT !.vector = r.vector + 1] \in CardRow
    BY DEF CardRow
  <2>2. C!Written(i, [r EXCEPT !.vector = r.vector + 1])
    BY <1>1, <1>3 DEF C!Reselect
  <2> QED
    BY <2>1, <2>2, CardWritten
<1>4. ASSUME NEW s \in CardSorts, C!Resort(i, s) PROVE RecommendInv'
  <2>1. [r EXCEPT !.sort = s] \in CardRow
    BY DEF CardRow
  <2>2. C!Written(i, [r EXCEPT !.sort = s])
    BY <1>1, <1>4 DEF C!Resort
  <2> QED
    BY <2>1, <2>2, CardWritten
<1> QED
  BY <1>2, <1>3, <1>4

LEMMA WindowKeeps ==
  ASSUME RecommendInv, C!Tick
  PROVE  RecommendInv'
<1>1. /\ window < MaxWindow /\ window' = window + 1
      /\ UNCHANGED <<facts, reads, favorites, dislikes, writing, plan, query, token, shown, changes, feedbacks>>
  BY DEF C!Tick, C!feedback, C!reading
<1>2. window \in 0..MaxWindow /\ MaxWindow \in Nat /\ changes \in Nat
  BY CardBounds DEF RecommendInv, WorldTypes
<1>3. window' \in 0..MaxWindow /\ window <= window' /\ changes <= changes'
  BY <1>1, <1>2
<1>4. WorldTypes'
  BY <1>1, <1>3 DEF RecommendInv, WorldTypes
<1> QED
  BY <1>1, <1>3, <1>4, WorldKeeps

LEMMA LockingKeeps ==
  ASSUME RecommendInv, C!Cancel \/ \E i \in CardIds, kind \in C!Kinds : C!LockArticle(i, kind)
  PROVE  RecommendInv'
<1>1. /\ UNCHANGED <<facts, reads, favorites, dislikes, plan, query, token, shown, window, changes, feedbacks>>
      /\ \/ writing' = C!NoTx
         \/ /\ writing' \in [article : CardIds, kind : C!Kinds, at : 0..MaxWindow]
            /\ feedbacks < MaxFeedback
  <2>1. window \in 0..MaxWindow
    BY DEF RecommendInv, WorldTypes
  <2> QED
    BY <2>1 DEF C!Cancel, C!LockArticle, C!feedback, C!reading
<1>2. changes \in Nat /\ window \in Nat
  BY CardBounds DEF RecommendInv, WorldTypes
<1>3. changes <= changes' /\ window <= window'
  BY <1>1, <1>2
<1>4. WorldTypes'
  BY <1>1 DEF RecommendInv, WorldTypes
<1> QED
  BY <1>1, <1>3, <1>4, WorldKeeps

LEMMA FeedbackKeeps ==
  ASSUME RecommendInv, C!Commit
  PROVE  RecommendInv'
<1>1. PICK x \in [article : CardIds, kind : C!Kinds, at : 0..MaxWindow] :
        x = writing /\ feedbacks < MaxFeedback
  BY DEF C!Commit, RecommendInv, WorldTypes
<1>2. PICK i \in CardIds, at \in 0..MaxWindow : i = x.article /\ at = x.at
  OBVIOUS
<1>3. /\ writing' = C!NoTx /\ changes' = changes + 1 /\ feedbacks' = feedbacks + 1
      /\ UNCHANGED <<facts, plan, query, token, shown, window>>
  BY DEF C!Commit, C!reading
<1>4. /\ changes \in Nat /\ feedbacks \in 0..MaxFeedback /\ changes - feedbacks \in 0..MaxChanges
      /\ window \in 0..MaxWindow /\ dislikes \in [CardIds -> Mark] /\ facts \in [CardIds -> CardRow]
      /\ reads \subseteq [article : CardIds, window : 0..MaxWindow] /\ favorites \subseteq CardIds
      /\ \A j \in CardIds : facts[j].mark <= changes /\ dislikes[j].mark <= changes
  BY DEF RecommendInv, WorldTypes
<1>5. PICK n \in Nat : n = changes + 1
  BY <1>4
<1>6. /\ changes' = n /\ changes < n /\ changes <= changes' /\ window <= window'
      /\ feedbacks' \in 0..MaxFeedback /\ changes' - feedbacks' \in 0..MaxChanges
  BY <1>1, <1>3, <1>4, <1>5, CardBounds
<1>7. reads' \subseteq [article : CardIds, window : 0..MaxWindow]
  <2>1. reads' = reads \/ reads' = reads \cup {[article |-> i, window |-> at]}
    BY <1>1, <1>2 DEF C!Commit
  <2>2. [article |-> i, window |-> at] \in [article : CardIds, window : 0..MaxWindow]
    OBVIOUS
  <2> QED
    BY <1>4, <2>1, <2>2
<1>8. favorites' \subseteq CardIds
  <2>1. favorites' \in {favorites, favorites \cup {i}, favorites \ {i}}
    BY <1>1, <1>2 DEF C!Commit
  <2> QED
    BY <1>4, <2>1
<1>9. PICK d1 \in Mark, d2 \in Mark :
        /\ d1 = [row |-> TRUE, expires |-> at + DislikeTTL, mark |-> n] /\ d1.mark = n
        /\ d2 = [row |-> FALSE, expires |-> 0, mark |-> n] /\ d2.mark = n
  <2>1. at + DislikeTTL \in 0..MaxWindow + DislikeTTL /\ 0 \in 0..MaxWindow + DislikeTTL
    BY CardBounds
  <2>2. PICK e \in 0..MaxWindow + DislikeTTL, z \in 0..MaxWindow + DislikeTTL : e = at + DislikeTTL /\ z = 0
    BY <2>1
  <2>3. /\ [row |-> TRUE, expires |-> e, mark |-> n] \in Mark
        /\ [row |-> FALSE, expires |-> z, mark |-> n] \in Mark
    BY DEF Mark
  <2> QED
    BY <2>2, <2>3
<1>10. \/ dislikes' = dislikes \/ dislikes' = [dislikes EXCEPT ![i] = d1]
       \/ dislikes' = [dislikes EXCEPT ![i] = d2]
  <2>1. \/ dislikes' = dislikes
        \/ dislikes' = [dislikes EXCEPT ![i] = [row |-> TRUE, expires |-> at + DislikeTTL, mark |-> changes']]
        \/ dislikes' = [dislikes EXCEPT ![i] = [row |-> FALSE, expires |-> 0, mark |-> changes']]
    BY <1>1, <1>2 DEF C!Commit
  <2> QED
    BY <1>6, <1>9, <2>1
<1>11. dislikes' \in [CardIds -> Mark] /\ \A j \in CardIds : dislikes'[j] = dislikes[j] \/ dislikes'[j].mark = n
  BY <1>4, <1>9, <1>10
<1>12. \A j \in CardIds : facts'[j].mark <= changes' /\ dislikes'[j].mark <= changes'
  <2>1. \A j \in CardIds : facts[j].mark \in Nat /\ dislikes[j].mark \in Nat
    BY <1>4 DEF CardRow, Mark
  <2> QED
    BY <1>3, <1>4, <1>6, <1>11, <2>1
<1>13. WorldTypes'
  BY <1>3, <1>4, <1>6, <1>7, <1>8, <1>11, <1>12 DEF WorldTypes
<1>14. \A j \in CardIds :
         \/ dislikes'[j].mark > changes
         \/ /\ dislikes'[j].mark = dislikes[j].mark /\ dislikes'[j].expires = dislikes[j].expires
            /\ dislikes'[j].row => dislikes[j].row
  BY <1>6, <1>11
<1> QED
  BY <1>3, <1>6, <1>13, <1>14, WorldKeeps

LEMMA CleaningKeeps ==
  ASSUME RecommendInv, C!CleanupExpired
  PROVE  RecommendInv'
<1>1. /\ reads' \subseteq reads
      /\ UNCHANGED <<facts, favorites, writing, plan, query, token, shown, window, changes, feedbacks>>
  BY DEF C!CleanupExpired, C!reading
<1>2. dislikes \in [CardIds -> Mark] /\ window \in Nat /\ changes \in Nat
      /\ \A i \in CardIds : dislikes[i].mark <= changes
  BY CardBounds DEF RecommendInv, WorldTypes
<1>3. dislikes' = [i \in CardIds |-> CleanedRow(dislikes[i], window)]
  BY DEF C!CleanupExpired, CleanedRow
<1>4. ASSUME NEW d \in Mark
      PROVE  /\ CleanedRow(d, window) \in Mark
             /\ CleanedRow(d, window).mark = d.mark /\ CleanedRow(d, window).expires = d.expires
             /\ CleanedRow(d, window).row => d.row
  <2>1. PICK off \in Mark : off = [d EXCEPT !.row = FALSE]
    BY DEF Mark
  <2>2. off.mark = d.mark /\ off.expires = d.expires /\ off.row = FALSE
    BY <2>1 DEF Mark
  <2>3. CleanedRow(d, window) = off \/ CleanedRow(d, window) = d
    BY <2>1 DEF CleanedRow
  <2> QED
    BY <2>2, <2>3
<1>5. /\ dislikes' \in [CardIds -> Mark]
      /\ \A i \in CardIds :
           /\ dislikes'[i].mark = dislikes[i].mark /\ dislikes'[i].expires = dislikes[i].expires
           /\ dislikes'[i].row => dislikes[i].row
  BY <1>2, <1>3, <1>4
<1>6. WorldTypes'
  BY <1>1, <1>2, <1>5 DEF RecommendInv, WorldTypes
<1>7. changes <= changes' /\ window <= window'
  BY <1>1, <1>2
<1> QED
  BY <1>1, <1>5, <1>6, <1>7, WorldKeeps

(* The step of the reader.                                                 *)
LEMMA ReaderMoves ==
  ASSUME RecommendInv, NEW p, NEW q \in QueryOf(p), NEW c \in CardCursor, NEW w \in ShownWalk,
         query' = q, token' = c, shown' = w,
         UNCHANGED <<facts, reads, favorites, dislikes, writing, window, changes, feedbacks>>,
         plan' \in PlanOf(plan'.profile), PlanHolds',
         q.began <= changes, w.began <= changes, w.basis <= changes, w.started <= window,
         Len(q.items) <= PageSize, ShownHolds(q, c, w)
  PROVE  RecommendInv'
<1>1. q.profile = p
  BY DEF QueryOf
<1>2. WorldTypes'
  BY DEF RecommendInv, WorldTypes
<1>3. WalkTypes'
  BY <1>1, SMTT(30) DEF WalkTypes
<1>4. ShownHolds(q, c, w)'
  BY DEF ShownHolds, QueryHolds, TokenHolds, TimelyHolds, OverHolds, StateHolds, Gathered, OrderHolds,
         Agrees, Timely, Steady, CardOf, Planned, Cleared
<1> QED
  BY <1>2, <1>3, <1>4 DEF RecommendInv

LEMMA RecommendParts ==
  ASSUME RecommendInv
  PROVE  /\ query \in QueryOf(query.profile) /\ plan \in PlanOf(plan.profile)
         /\ token \in CardCursor /\ shown \in ShownWalk
         /\ QueryHolds(query, shown) /\ TokenHolds(token, shown)
         /\ TimelyHolds(query, shown) /\ OverHolds(shown) /\ PlanHolds
         /\ query.began <= changes /\ shown.began <= changes /\ shown.basis <= changes
         /\ shown.started <= window /\ Len(query.items) <= PageSize
         /\ changes \in Nat /\ window \in Nat
         /\ facts \in [CardIds -> CardRow] /\ dislikes \in [CardIds -> Mark]
         /\ query.began \in Nat /\ shown.began \in Nat /\ shown.started \in Nat
         /\ query.items \in Seq(Card) /\ shown.items \in Seq(Card) /\ query.state \in CardCursor
<1>1. query \in QueryOf(query.profile) /\ shown \in ShownWalk
  BY DEF RecommendInv, WalkTypes
<1>2. query.began \in Nat /\ shown.began \in Nat /\ shown.started \in Nat
      /\ query.items \in Seq(Card) /\ shown.items \in Seq(Card) /\ query.state \in CardCursor
  BY <1>1 DEF QueryOf, ShownWalk
<1> QED
  BY <1>2, CardBounds DEF RecommendInv, WalkTypes, WorldTypes, ShownHolds

(* A request at rest, or one that fails.                                   *)
LEMMA AtRest ==
  /\ \A w : QueryHolds(C!Idle, w) /\ TimelyHolds(C!Idle, w)
  /\ \A w : TokenHolds(C!NoCursor, w)
  /\ Len(C!Idle.items) <= PageSize
<1>1. Len(<<>>) = 0 /\ PageSize \in Nat
  BY CardBounds
<1> QED
  BY <1>1, IdleCards DEF QueryHolds, TimelyHolds, TokenHolds

LEMMA FailingKeeps ==
  ASSUME RecommendInv, C!Fail
  PROVE  RecommendInv'
<1>1. PICK c \in CardCursor, w \in ShownWalk : c = token /\ w = shown
  BY RecommendParts
<1>2. query' = C!Idle /\ token' = c /\ shown' = w /\ plan' = plan
      /\ UNCHANGED <<facts, reads, favorites, dislikes, writing, window, changes, feedbacks>>
  BY <1>1 DEF C!Fail, C!feedback
<1>3. plan' \in PlanOf(plan'.profile) /\ PlanHolds'
  BY <1>2, RecommendParts DEF PlanHolds, OrderHolds
<1>4. ShownHolds(C!Idle, c, w)
  BY <1>1, RecommendParts, AtRest DEF ShownHolds
<1>5. C!Idle \in QueryOf(<<>>) /\ C!Idle.began <= changes
  BY IdleCards, RecommendParts
<1>6. w.began <= changes /\ w.basis <= changes /\ w.started <= window
  BY <1>1, RecommendParts
<1> QED
  BY <1>2, <1>3, <1>4, <1>5, <1>6, AtRest, ReaderMoves

(* A request that starts to page from the state s.                         *)
LEMMA PagingStarts ==
  ASSUME NEW s \in CardCursor, NEW b \in Nat, changes \in Nat
  PROVE  \E z \in QueryOf(<<>>), q \in QueryOf(<<>>) :
           /\ z = C!Paging(s) /\ q = [z EXCEPT !.began = b]
           /\ z.began = changes /\ z.state = s /\ z.items = <<>> /\ z.more = FALSE
           /\ z.phase = IF s.offset < Len(s.items) THEN "facts" ELSE "latest"
           /\ q.began = b /\ q.state = s /\ q.items = <<>> /\ q.more = FALSE
           /\ q.phase = IF s.offset < Len(s.items) THEN "facts" ELSE "latest"
<1>1. PICK x \in QueryOf(<<>>) : x = C!Idle /\ x.items = <<>> /\ x.more = FALSE
  BY IdleCards
<1>2. PICK h \in {"facts", "latest"} : h = IF s.offset < Len(s.items) THEN "facts" ELSE "latest"
  OBVIOUS
<1>3. PICK z \in QueryOf(<<>>) : z = [x EXCEPT !.state = s, !.began = changes, !.phase = h]
  BY DEF QueryOf
<1>4. z.began = changes /\ z.state = s /\ z.items = <<>> /\ z.more = FALSE /\ z.phase = h
  BY <1>1, <1>3 DEF QueryOf
<1>5. PICK q \in QueryOf(<<>>) : q = [z EXCEPT !.began = b]
  BY DEF QueryOf
<1>6. q.began = b /\ q.state = s /\ q.items = <<>> /\ q.more = FALSE /\ q.phase = h
  BY <1>4, <1>5 DEF QueryOf
<1>7. z = C!Paging(s)
  BY <1>1, <1>2, <1>3 DEF C!Paging
<1> QED
  BY <1>2, <1>4, <1>5, <1>6, <1>7

LEMMA PagingNow ==
  ASSUME NEW s \in CardCursor, changes \in Nat
  PROVE  \E q \in QueryOf(<<>>) :
           /\ q = C!Paging(s)
           /\ q.began = changes /\ q.state = s /\ q.items = <<>> /\ q.more = FALSE
           /\ q.phase = IF s.offset < Len(s.items) THEN "facts" ELSE "latest"
<1>1. PICK b \in Nat : b = changes
  OBVIOUS
<1> QED
  BY PagingStarts, ZenonT(40)

LEMMA PagingHolds ==
  ASSUME NEW q, NEW s \in CardCursor, NEW w \in ShownWalk,
         q.state = s, q.items = <<>>, q.more = FALSE,
         q.phase = IF s.offset < Len(s.items) THEN "facts" ELSE "latest",
         w.began <= q.began, StateHolds(s, w), Gathered(w.items, s, w)
  PROVE  QueryHolds(q, w) /\ TimelyHolds(q, w) /\ Len(q.items) <= PageSize
<1>1. w.items \in Seq(Card) /\ w.items \o <<>> = w.items
  BY DEF ShownWalk
<1>2. s.offset \in Nat /\ Len(s.items) \in Nat
  BY DEF CardCursor
<1>3. q.phase = "latest" => \A i \in CardIds : Steady(i, s.basis, w) /\ Planned(i, s) => Has(w.items, i)
  <2> SUFFICES ASSUME q.phase = "latest", NEW i \in CardIds, Steady(i, s.basis, w), Planned(i, s)
               PROVE  Has(w.items, i)
    OBVIOUS
  <2>1. s.offset = Len(s.items)
    BY <1>2 DEF StateHolds
  <2>2. Done(i, s.items, s.offset)
    BY <2>1 DEF Planned
  <2> QED
    BY <2>2 DEF Gathered
<1>4. Len(<<>>) = 0 /\ PageSize \in Nat
  BY CardBounds
<1>5. TimelyHolds(q, w) /\ Len(q.items) <= PageSize
  BY <1>4 DEF TimelyHolds
<1> QED
  BY <1>1, <1>3, <1>5 DEF QueryHolds

LEMMA Adopts ==
  ASSUME NEW s \in CardCursor, NEW w \in ShownWalk, NEW p, NEW r \in PlanOf(p),
         StateHolds(s, w), s.offset = 0, s.latest = <<>>,
         OrderHolds(r.items, r.basis), r.basis <= w.began
  PROVE  \E x \in CardCursor :
           /\ x = C!Adopt(s, r) /\ x.offset = 0 /\ x.latest = <<>> /\ x.signed = s.signed
           /\ StateHolds(x, w)
<1>1. r.items \in Seq(PlanItem) /\ r.basis \in Nat /\ r.degraded \in BOOLEAN
  BY DEF PlanOf
<1>2. PICK items \in Seq(PlanItem), basis \in Nat, degraded \in BOOLEAN :
        items = r.items /\ basis = r.basis /\ degraded = r.degraded
  BY <1>1
<1>3. PICK x \in CardCursor : x = [s EXCEPT !.mode = "personalized", !.items = items,
                                            !.degraded = degraded, !.basis = basis]
  BY DEF CardCursor, C!Modes
<1>4. /\ x.items = items /\ x.basis = basis /\ x.offset = s.offset /\ x.latest = s.latest
      /\ x.started = s.started
  BY <1>3 DEF CardCursor
<1>5. x.signed = s.signed /\ x.latestEnd = s.latestEnd
  BY <1>3, Zenon DEF CardCursor
<1>6. x = C!Adopt(s, r)
  BY <1>2, <1>3 DEF C!Adopt
<1>7. Len(items) \in Nat
  OBVIOUS
<1>8. StateHolds(x, w)
  BY <1>2, <1>4, <1>5, <1>7 DEF StateHolds
<1> QED
  BY <1>4, <1>5, <1>6, <1>8

(* The cold start of a walk.                                               *)
LEMMA Starts ==
  ASSUME RecommendInv, NEW signed \in BOOLEAN, NEW n \in 0..MaxQueries
  PROVE  \E s \in CardCursor, w \in ShownWalk :
           /\ s = C!Started(signed) /\ s.offset = 0 /\ s.latest = <<>> /\ s.items = <<>>
           /\ w = [C!NoWalk EXCEPT !.count = n, !.signed = signed, !.began = changes, !.started = window]
           /\ w.items = <<>> /\ w.over = FALSE /\ w.began = changes /\ w.started = window /\ w.basis = 0
           /\ StateHolds(s, w)
<1>1. changes \in Nat /\ window \in Nat
  BY RecommendParts
<1>2. PICK z \in CardCursor, v \in ShownWalk :
        /\ z = C!NoCursor /\ v = C!NoWalk
        /\ z.offset = 0 /\ z.latest = <<>> /\ z.items = <<>> /\ z.latestEnd = FALSE
        /\ v.items = <<>> /\ v.over = FALSE /\ v.basis = 0
  <2>1. C!NoWalk.basis = 0
    BY DEF C!NoWalk
  <2> QED
    BY <2>1, IdleCards
<1>3. PICK s \in CardCursor : s = [z EXCEPT !.signed = signed, !.mode = "cold_start",
                                            !.started = window, !.basis = changes]
  BY <1>1 DEF CardCursor, C!Modes
<1>4. s.offset = 0 /\ s.latest = <<>> /\ s.items = <<>> /\ s.started = window /\ s.basis = changes
  BY <1>2, <1>3 DEF CardCursor
<1>5. s.latestEnd = FALSE /\ (s.signed <=> signed)
  BY <1>2, <1>3, Zenon DEF CardCursor
<1>6. PICK w \in ShownWalk : w = [v EXCEPT !.count = n, !.signed = signed, !.began = changes,
                                           !.started = window]
  BY <1>1 DEF ShownWalk
<1>7. w.items = <<>> /\ w.began = changes /\ w.started = window /\ w.basis = 0
  BY <1>2, <1>6 DEF ShownWalk
<1>8. w.over = FALSE /\ (w.signed <=> signed)
  BY <1>2, <1>6, Zenon DEF ShownWalk
<1>9. s.signed = w.signed
  <2>1. s.signed \in BOOLEAN /\ w.signed \in BOOLEAN
    BY Zenon DEF CardCursor, ShownWalk
  <2> QED
    BY <1>5, <1>8, <2>1
<1>10. StateHolds(s, w)
  <2>1. Len(<<>>) = 0 /\ changes <= changes
    BY <1>1
  <2> QED
    BY <1>4, <1>5, <1>7, <1>9, <2>1 DEF StateHolds, OrderHolds
<1> QED
  BY <1>2, <1>3, <1>4, <1>6, <1>7, <1>8, <1>10 DEF C!Started

LEMMA OpeningKeeps ==
  ASSUME RecommendInv, NEW signed \in BOOLEAN, C!First(signed)
  PROVE  RecommendInv'
<1>1. PICK n \in 0..MaxQueries : n = shown.count + 1
  <2>1. shown.count \in 0..MaxQueries /\ shown.count < MaxQueries /\ MaxQueries \in Nat
    BY RecommendParts, CardBounds DEF C!First, ShownWalk
  <2> QED
    BY <2>1
<1>2. PICK s \in CardCursor, w \in ShownWalk :
        /\ s = C!Started(signed) /\ s.offset = 0 /\ s.latest = <<>> /\ s.items = <<>>
        /\ w = [C!NoWalk EXCEPT !.count = n, !.signed = signed, !.began = changes, !.started = window]
        /\ w.items = <<>> /\ w.over = FALSE /\ w.began = changes /\ w.started = window /\ w.basis = 0
        /\ StateHolds(s, w)
  BY Starts
<1>3. /\ token' = C!NoCursor /\ shown' = w /\ plan' = plan
      /\ UNCHANGED <<facts, reads, favorites, dislikes, writing, window, changes, feedbacks>>
  BY <1>1, <1>2 DEF C!First, C!feedback
<1>4. /\ changes \in Nat /\ window \in Nat /\ changes <= changes /\ window <= window /\ 0 <= changes
      /\ plan' \in PlanOf(plan'.profile) /\ PlanHolds'
  BY <1>3, RecommendParts DEF PlanHolds, OrderHolds
<1>5. OverHolds(w)
  BY <1>2 DEF OverHolds, Repeatless
<1>6. ASSUME NEW x \in CardCursor, x.offset = 0, x.latest = <<>>, StateHolds(x, w), query' = C!Paging(x)
      PROVE  RecommendInv'
  <2>1. PICK q \in QueryOf(<<>>) :
          /\ q = C!Paging(x)
          /\ q.began = changes /\ q.state = x /\ q.items = <<>> /\ q.more = FALSE
          /\ q.phase = IF x.offset < Len(x.items) THEN "facts" ELSE "latest"
    <3>1. changes \in Nat
      BY <1>4
    <3> QED
      BY <3>1, PagingNow, Zenon
  <2>2. Gathered(w.items, x, w)
    BY <1>2, <1>6, NothingGathered
  <2>3. QueryHolds(q, w) /\ TimelyHolds(q, w) /\ Len(q.items) <= PageSize
    BY <1>2, <1>4, <1>6, <2>1, <2>2, PagingHolds
  <2>4. ShownHolds(q, C!NoCursor, w)
    BY <1>5, <2>3, AtRest DEF ShownHolds
  <2>5. q.began <= changes /\ w.began <= changes /\ w.basis <= changes /\ w.started <= window
    BY <1>2, <1>4, <2>1
  <2> QED
    BY <1>3, <1>4, <1>6, <2>1, <2>3, <2>4, <2>5, IdleCards, ReaderMoves
<1>7. ASSUME query' = [C!Idle EXCEPT !.state = s, !.began = changes, !.phase = "recall",
                                     !.profile = C!Profile]
      PROVE  RecommendInv'
  <2>1. PICK p : p = C!Profile
    OBVIOUS
  <2>2. PICK z \in QueryOf(<<>>) : z = C!Idle /\ z.items = <<>>
    BY IdleCards
  <2>3. PICK q \in QueryOf(p) : q = [z EXCEPT !.state = s, !.began = changes, !.phase = "recall", !.profile = p]
    BY <1>4 DEF QueryOf
  <2>4. q.state = s /\ q.began = changes /\ q.phase = "recall" /\ q.items = <<>>
    BY <2>2, <2>3 DEF QueryOf
  <2>5. Gathered(<<>>, s, w) /\ <<>> \o <<>> = <<>> /\ Len(<<>>) = 0 /\ PageSize \in Nat
    BY <1>2, NothingGathered, CardBounds
  <2>6. QueryHolds(q, w) /\ TimelyHolds(q, w) /\ Len(q.items) <= PageSize
    BY <1>2, <1>4, <2>4, <2>5 DEF QueryHolds, TimelyHolds
  <2>7. ShownHolds(q, C!NoCursor, w)
    BY <1>5, <2>6, AtRest DEF ShownHolds
  <2>8. q.began <= changes /\ w.began <= changes /\ w.basis <= changes /\ w.started <= window
    BY <1>2, <1>4, <2>4
  <2>9. query' = q
    BY <1>7, <2>1, <2>2, <2>3
  <2> QED
    BY <1>3, <1>4, <2>6, <2>7, <2>8, <2>9, IdleCards, ReaderMoves
<1>8. PICK r \in PlanOf(plan.profile) : r = plan
  BY RecommendParts
<1>9. ASSUME query' = C!Paging(C!Adopt(s, r))
      PROVE  RecommendInv'
  <2>1. OrderHolds(r.items, r.basis) /\ r.basis <= w.began /\ r \in PlanOf(r.profile)
    BY <1>2, <1>8, RecommendParts DEF PlanHolds
  <2>2. PICK x \in CardCursor : x = C!Adopt(s, r) /\ x.offset = 0 /\ x.latest = <<>> /\ StateHolds(x, w)
    BY <1>2, <2>1, Adopts
  <2> QED
    BY <1>6, <1>9, <2>2
<1> QED
  BY <1>2, <1>6, <1>7, <1>8, <1>9 DEF C!First

LEMMA TurningKeeps ==
  ASSUME RecommendInv, NEW signed \in BOOLEAN, C!Continue(signed)
  PROVE  RecommendInv'
<1>1. PICK c \in CardCursor, w \in ShownWalk : c = token /\ w = shown /\ c # C!NoCursor
  BY RecommendParts DEF C!Continue
<1>2. shown' = w /\ plan' = plan
      /\ UNCHANGED <<facts, reads, favorites, dislikes, writing, window, changes, feedbacks>>
  BY <1>1 DEF C!Continue, C!feedback
<1>3. /\ plan' \in PlanOf(plan'.profile) /\ PlanHolds'
      /\ w.began <= changes /\ w.basis <= changes /\ w.started <= window /\ OverHolds(w)
      /\ StateHolds(c, w) /\ Gathered(w.items, c, w) /\ TokenHolds(c, w) /\ changes \in Nat
  BY <1>1, <1>2, RecommendParts DEF PlanHolds, OrderHolds, TokenHolds
<1>4. CASE query' = C!Paging(c) /\ token' = c
  <2>1. PICK q \in QueryOf(<<>>) :
          /\ q = C!Paging(c)
          /\ q.began = changes /\ q.state = c /\ q.items = <<>> /\ q.more = FALSE
          /\ q.phase = IF c.offset < Len(c.items) THEN "facts" ELSE "latest"
    <3>1. changes \in Nat
      BY <1>3
    <3> QED
      BY <3>1, PagingNow, Zenon
  <2>2. QueryHolds(q, w) /\ TimelyHolds(q, w) /\ Len(q.items) <= PageSize
    BY <1>3, <2>1, PagingHolds
  <2>3. ShownHolds(q, c, w) /\ q.began <= changes
    BY <1>3, <2>1, <2>2 DEF ShownHolds
  <2> QED
    BY <1>2, <1>3, <1>4, <2>1, <2>2, <2>3, ReaderMoves
<1>5. CASE token' = C!NoCursor /\ query' = query
  <2>1. PICK q \in QueryOf(query.profile) : q = query
    BY RecommendParts
  <2>2. ShownHolds(q, C!NoCursor, w) /\ q.began <= changes /\ Len(q.items) <= PageSize
    BY <1>1, <1>3, <2>1, RecommendParts, AtRest DEF ShownHolds
  <2> QED
    BY <1>2, <1>3, <1>5, <2>1, <2>2, IdleCards, ReaderMoves
<1> QED
  BY <1>1, <1>4, <1>5 DEF C!Continue

LEMMA FactsAgree ==
  ASSUME RecommendInv, NEW b
  PROVE  Agrees(C!Facts, b)
<1>1. facts \in [CardIds -> CardRow]
  BY RecommendParts
<1>2. C!Facts = [i \in CardIds |->
        [public |-> facts[i].public, sort |-> facts[i].sort, vector |-> facts[i].vector]]
  BY DEF C!Facts
<1>3. \A i \in CardIds : /\ C!Facts[i] \in CardFact
                         /\ C!Facts[i].sort = facts[i].sort /\ C!Facts[i].vector = facts[i].vector
  BY <1>1, <1>2 DEF CardRow, CardFact
<1>4. \A i \in CardIds : C!Facts[i].public = facts[i].public
  BY <1>1, <1>2 DEF CardRow
<1> QED
  BY <1>2, <1>3, <1>4 DEF Agrees

LEMMA RecallingKeeps ==
  ASSUME RecommendInv, C!Recall
  PROVE  RecommendInv'
<1>1. PICK q \in QueryOf(query.profile), s \in CardCursor, c \in CardCursor, w \in ShownWalk :
        /\ q = query /\ s = q.state /\ c = token /\ w = shown /\ q.phase = "recall"
  BY RecommendParts DEF C!Recall
<1>2. /\ token' = c /\ shown' = w /\ plan' = plan
      /\ UNCHANGED <<facts, reads, favorites, dislikes, writing, window, changes, feedbacks>>
  BY <1>1 DEF C!Recall, C!feedback
<1>3. /\ plan' \in PlanOf(plan'.profile) /\ PlanHolds'
      /\ w.began <= changes /\ w.basis <= changes /\ w.started <= window /\ OverHolds(w)
      /\ TokenHolds(c, w) /\ changes \in Nat /\ q.began <= changes
  BY <1>1, <1>2, RecommendParts DEF PlanHolds, OrderHolds
<1>4. /\ StateHolds(s, w) /\ w.began <= q.began /\ w.items = <<>> /\ q.items = <<>>
      /\ s.offset = 0 /\ s.latest = <<>>
  <2>1. QueryHolds(q, w)
    BY <1>1, RecommendParts
  <2> QED
    BY <1>1, <2>1 DEF QueryHolds
<1>5. CASE query' = C!Paging(C!Fallback(s))
  <2>1. PICK x \in CardCursor : x = [s EXCEPT !.mode = "latest_fallback", !.degraded = TRUE]
    BY DEF CardCursor, C!Modes
  <2>2. /\ x.items = s.items /\ x.offset = s.offset /\ x.latest = s.latest
        /\ x.started = s.started /\ x.basis = s.basis
    BY <2>1 DEF CardCursor
  <2>3. x.signed = s.signed /\ x.latestEnd = s.latestEnd
    BY <2>1, Zenon DEF CardCursor
  <2>4. StateHolds(x, w) /\ Gathered(w.items, x, w)
    <3>1. StateHolds(x, w)
      BY <1>4, <2>2, <2>3 DEF StateHolds
    <3> QED
      BY <1>4, <2>2, <3>1, NothingGathered
  <2>5. PICK r \in QueryOf(<<>>) :
          /\ r = C!Paging(x)
          /\ r.began = changes /\ r.state = x /\ r.items = <<>> /\ r.more = FALSE
          /\ r.phase = IF x.offset < Len(x.items) THEN "facts" ELSE "latest"
    <3>1. changes \in Nat
      BY <1>3
    <3> QED
      BY <3>1, PagingNow, Zenon
  <2>6. QueryHolds(r, w) /\ TimelyHolds(r, w) /\ Len(r.items) <= PageSize
    BY <1>3, <2>4, <2>5, PagingHolds
  <2>7. ShownHolds(r, c, w) /\ r.began <= changes
    BY <1>3, <2>5, <2>6 DEF ShownHolds
  <2>8. query' = r
    BY <1>5, <2>1, <2>5 DEF C!Fallback
  <2> QED
    BY <1>2, <1>3, <2>6, <2>7, <2>8, ReaderMoves
<1>6. ASSUME NEW rec \in Recalls, NEW semantic \in BOOLEAN,
             NEW knn \in [IF semantic THEN rec.knn \cap C!Indexed ELSE {} -> 1..changes + 1],
             query' = [query EXCEPT !.phase = "rank", !.bm = rec.bm \cap C!Indexed, !.knn = knn,
                                    !.semantic = semantic, !.current = C!Facts]
      PROVE  RecommendInv'
  <2>1. PICK bm \in SUBSET CardIds, on \in SUBSET CardIds :
          bm = rec.bm \cap C!Indexed /\ on = IF semantic THEN rec.knn \cap C!Indexed ELSE {}
    BY CardBounds
  <2>2. PICK f \in UNION {[d -> Nat] : d \in SUBSET CardIds} : f = knn
    <3>1. \A i \in on : knn[i] \in Nat
      BY <1>3, <2>1
    <3>2. knn \in [on -> Nat]
      BY <2>1, <3>1
    <3> QED
      BY <3>2
  <2>3. PICK current \in [CardIds -> CardFact] : current = C!Facts /\ Agrees(current, q.began)
    BY FactsAgree DEF Agrees
  <2>4. PICK r \in QueryOf(query.profile) :
          r = [q EXCEPT !.phase = "rank", !.bm = bm, !.knn = f, !.semantic = semantic, !.current = current]
    BY DEF QueryOf
  <2>5. /\ r.phase = "rank" /\ r.state = s /\ r.began = q.began /\ r.knn = f /\ r.current = current
        /\ r.items = <<>>
    BY <1>1, <1>4, <2>4 DEF QueryOf
  <2>6. Gathered(<<>>, s, w) /\ <<>> \o <<>> = <<>> /\ Len(<<>>) = 0 /\ PageSize \in Nat
    BY <1>4, NothingGathered, CardBounds
  <2>7. QueryHolds(r, w) /\ TimelyHolds(r, w) /\ Len(r.items) <= PageSize
    BY <1>4, <2>3, <2>5, <2>6 DEF QueryHolds, TimelyHolds
  <2>8. ShownHolds(r, c, w) /\ r.began <= changes
    BY <1>3, <2>5, <2>7 DEF ShownHolds
  <2>9. query' = r
    BY <1>1, <1>6, <2>1, <2>2, <2>3, <2>4
  <2> QED
    BY <1>2, <1>3, <2>7, <2>8, <2>9, ReaderMoves
<1>7. \/ query' = C!Paging(C!Fallback(s))
      \/ \E rec \in Recalls, semantic \in BOOLEAN :
           \E knn \in [IF semantic THEN rec.knn \cap C!Indexed ELSE {} -> 1..changes + 1] :
             query' = [query EXCEPT !.phase = "rank", !.bm = rec.bm \cap C!Indexed, !.knn = knn,
                                    !.semantic = semantic, !.current = C!Facts]
  BY <1>1 DEF C!Recall
<1> QED
  BY <1>5, <1>6, <1>7

LEMMA RankingKeeps ==
  ASSUME RecommendInv, C!Rank
  PROVE  RecommendInv'
<1>1. PICK q \in QueryOf(query.profile), s \in CardCursor, c \in CardCursor, w \in ShownWalk :
        /\ q = query /\ s = q.state /\ c = token /\ w = shown /\ q.phase = "rank"
  BY RecommendParts DEF C!Rank
<1>2. /\ token' = c /\ shown' = w
      /\ UNCHANGED <<facts, reads, favorites, dislikes, writing, window, changes, feedbacks>>
  BY <1>1 DEF C!Rank, C!feedback
<1>3. /\ w.began <= changes /\ w.basis <= changes /\ w.started <= window /\ OverHolds(w)
      /\ TokenHolds(c, w) /\ changes \in Nat /\ q.began <= changes /\ q.began \in Nat /\ w.began \in Nat
  BY <1>1, RecommendParts
<1>4. /\ StateHolds(s, w) /\ w.began <= q.began /\ w.items = <<>> /\ q.items = <<>>
      /\ s.offset = 0 /\ s.latest = <<>> /\ Agrees(q.current, q.began)
      /\ q.knn \in UNION {[on -> Nat] : on \in SUBSET CardIds}
  <2>1. QueryHolds(q, w)
    BY <1>1, RecommendParts
  <2> QED
    BY <1>1, <2>1 DEF QueryHolds
<1>a. PICK original, excluded : original = q.bm \cup DOMAIN q.knn /\ excluded = C!Excluded(original)
  OBVIOUS
<1>5. PICK items \in C!Frozen(q, excluded) :
        LET p == [items |-> items, original |-> original, excluded |-> excluded,
                  profile |-> q.profile, created |-> s.started, basis |-> s.basis,
                  degraded |-> ~q.semantic]
        IN /\ query' = [C!Paging(C!Adopt(s, p)) EXCEPT !.began = q.began]
           /\ plan' \in {plan, p}
  BY <1>1, <1>a, ZenonT(40) DEF C!Rank
<1>6. original \in SUBSET CardIds /\ excluded \in SUBSET CardIds
  <2>1. q.bm \in SUBSET CardIds /\ DOMAIN q.knn \in SUBSET CardIds
    BY <1>4 DEF QueryOf
  <2> QED
    BY <1>a, <2>1 DEF C!Excluded
<1>7. /\ items \in Seq(PlanItem)
      /\ \A j, k \in 1..Len(items) : items[j].id = items[k].id => j = k
      /\ \A k \in 1..Len(items) : items[k].vector # 0 =>
           items[k].vector = q.current[items[k].id].vector
  <2>1. q.bm \in SUBSET CardIds /\ q.current \in [CardIds -> CardFact]
    BY <1>4 DEF QueryOf, Agrees
  <2> QED
    BY <1>4, <2>1, Freezes
<1>b. PICK pr : pr = q.profile
  OBVIOUS
<1>8. PICK cr \in Nat, b \in Nat, dg \in BOOLEAN :
        cr = s.started /\ b = s.basis /\ dg = ~q.semantic
  <2>1. s.started \in Nat /\ s.basis \in Nat
    BY DEF CardCursor
  <2>2. PICK dg \in BOOLEAN : dg = ~q.semantic
    BY Zenon
  <2>3. PICK cr \in Nat : cr = s.started
    BY <2>1
  <2>4. PICK b \in Nat : b = s.basis
    BY <2>1
  <2> QED
    BY <2>2, <2>3, <2>4, Zenon
<1>9. PICK r \in PlanOf(pr) :
        r = [items |-> items, original |-> original, excluded |-> excluded,
             profile |-> pr, created |-> cr, basis |-> b, degraded |-> dg]
        /\ r.items = items /\ r.basis = b /\ r.profile = pr
  <2>1. PICK o \in SUBSET CardIds, e \in SUBSET CardIds, t \in Seq(PlanItem) :
          o = original /\ e = excluded /\ t = items
    BY <1>6, <1>7
  <2>2. PICK r \in PlanOf(pr) : r = [items |-> t, original |-> o, excluded |-> e,
                                     profile |-> pr, created |-> cr, basis |-> b, degraded |-> dg]
    BY DEF PlanOf
  <2>3. r.items = t /\ r.basis = b /\ r.profile = pr
    BY <2>2
  <2> QED
    BY <2>1, <2>2, <2>3
<1>10. b <= w.began /\ b <= changes
  BY <1>3, <1>4, <1>8 DEF StateHolds
<1>11. OrderHolds(items, b)
  <2>1. \A k \in 1..Len(items) : items[k].id \in CardIds
    <3>1. \A k \in 1..Len(items) : items[k] \in PlanItem
      BY <1>7, ElementOfSeq
    <3> QED
      BY <3>1 DEF PlanItem
  <2>2. \A i \in CardIds : facts[i].mark <= b => q.current[i].vector = facts[i].vector
    <3>1. \A i \in CardIds : facts[i].mark \in Nat
      BY RecommendParts DEF CardRow
    <3>2. \A i \in CardIds : facts[i].mark <= b => facts[i].mark <= q.began
      BY <1>3, <1>4, <1>10, <3>1
    <3> QED
      BY <1>4, <3>2 DEF Agrees
  <2> QED
    BY <1>7, <2>1, <2>2 DEF OrderHolds
<1>12. query' = [C!Paging(C!Adopt(s, r)) EXCEPT !.began = q.began] /\ plan' \in {plan, r}
  BY <1>5, <1>b, <1>8, <1>9
<1>13. PICK x \in CardCursor : x = C!Adopt(s, r) /\ x.offset = 0 /\ x.latest = <<>> /\ StateHolds(x, w)
  BY <1>4, <1>9, <1>10, <1>11, Adopts
<1>14. PICK y \in QueryOf(<<>>) :
         /\ y = [C!Paging(x) EXCEPT !.began = q.began]
         /\ y.began = q.began /\ y.state = x /\ y.items = <<>> /\ y.more = FALSE
         /\ y.phase = IF x.offset < Len(x.items) THEN "facts" ELSE "latest"
  <2>a. PICK u \in Nat : u = q.began
    BY <1>3
  <2>1. PICK z \in QueryOf(<<>>), y \in QueryOf(<<>>) :
          /\ z = C!Paging(x) /\ y = [z EXCEPT !.began = u]
          /\ z.began = changes /\ z.state = x /\ z.items = <<>> /\ z.more = FALSE
          /\ z.phase = IF x.offset < Len(x.items) THEN "facts" ELSE "latest"
          /\ y.began = u /\ y.state = x /\ y.items = <<>> /\ y.more = FALSE
          /\ y.phase = IF x.offset < Len(x.items) THEN "facts" ELSE "latest"
    BY <1>3, PagingStarts, Zenon
  <2>2. y = [C!Paging(x) EXCEPT !.began = q.began]
    BY <2>a, <2>1
  <2> QED
    BY <2>a, <2>1, <2>2
<1>15. QueryHolds(y, w) /\ TimelyHolds(y, w) /\ Len(y.items) <= PageSize
  <2>1. Gathered(w.items, x, w)
    BY <1>4, <1>13, NothingGathered
  <2> QED
    BY <1>4, <1>13, <1>14, <2>1, PagingHolds
<1>16. ShownHolds(y, c, w) /\ y.began <= changes
  BY <1>3, <1>14, <1>15 DEF ShownHolds
<1>17. plan' \in PlanOf(plan'.profile) /\ PlanHolds'
  <2>1. CASE plan' = plan
    BY <1>2, <2>1, RecommendParts DEF PlanHolds, OrderHolds
  <2>2. CASE plan' = r
    BY <1>2, <1>9, <1>10, <1>11, <2>2 DEF PlanHolds, OrderHolds
  <2> QED
    BY <1>12, <2>1, <2>2
<1>18. query' = y
  BY <1>12, <1>13, <1>14
<1> QED
  BY <1>2, <1>3, <1>15, <1>16, <1>17, <1>18, ReaderMoves

LEMMA FactsKeep ==
  ASSUME RecommendInv, C!ReadFacts
  PROVE  RecommendInv'
<1>1. PICK q \in QueryOf(query.profile), c \in CardCursor, w \in ShownWalk :
        /\ q = query /\ c = token /\ w = shown /\ q.phase = "facts"
  BY RecommendParts DEF C!ReadFacts
<1>2. /\ token' = c /\ shown' = w /\ plan' = plan
      /\ UNCHANGED <<facts, reads, favorites, dislikes, writing, window, changes, feedbacks>>
  BY <1>1 DEF C!ReadFacts, C!feedback
<1>3. /\ plan' \in PlanOf(plan'.profile) /\ PlanHolds'
      /\ w.began <= changes /\ w.basis <= changes /\ w.started <= window /\ OverHolds(w)
      /\ TokenHolds(c, w) /\ q.began <= changes
  BY <1>1, <1>2, RecommendParts DEF PlanHolds, OrderHolds
<1>4. QueryHolds(q, w)
  BY <1>1, RecommendParts
<1>5. PICK current \in [CardIds -> CardFact] : current = C!Facts /\ Agrees(current, q.began)
  BY FactsAgree DEF Agrees
<1>6. PICK r \in QueryOf(query.profile) : r = [q EXCEPT !.phase = "exclusions", !.current = current]
  BY DEF QueryOf
<1>7. /\ r.phase = "exclusions" /\ r.state = q.state /\ r.began = q.began /\ r.current = current
      /\ r.items = q.items
  BY <1>6 DEF QueryOf
<1>8. q.items = <<>> /\ Len(<<>>) = 0 /\ PageSize \in Nat
  BY <1>1, <1>4, CardBounds DEF QueryHolds
<1>9. QueryHolds(r, w) /\ TimelyHolds(r, w) /\ Len(r.items) <= PageSize
  BY <1>1, <1>4, <1>5, <1>7, <1>8 DEF QueryHolds, TimelyHolds
<1>10. ShownHolds(r, c, w) /\ r.began <= changes /\ query' = r
  BY <1>1, <1>3, <1>5, <1>6, <1>7, <1>9 DEF ShownHolds, C!ReadFacts
<1> QED
  BY <1>2, <1>3, <1>9, <1>10, ReaderMoves

(* The nth of a set has n of it up to itself.                              *)
LEMMA NthPlace ==
  ASSUME NEW K \in SUBSET Int, IsFiniteSet(K), NEW n \in 1..Cardinality(K)
  PROVE  Cardinality({j \in K : j <= Nth(K, n)}) = n
<1> DEFINE less == {ab \in K \X K : ab[1] < ab[2]}
<1>1. \A a, b \in K : <<a, b>> \in less <=> a < b
  OBVIOUS
<1> HIDE DEF less
<1>2. Orders(less, K)
  BY <1>1 DEF Orders
<1>3. \A k \in K : {j \in K : j <= k} = {j \in K : j = k \/ <<j, k>> \in less}
  <2>1. \A j, k \in K : j <= k <=> (j = k \/ j < k)
    OBVIOUS
  <2> QED
    BY <1>1, <2>1
<1>4. \A k \in K : Place(K, less, k) = Cardinality({j \in K : j <= k})
  BY <1>3 DEF Place
<1>5. \E k \in K : Place(K, less, k) = n
  <2>1. PICK x : x = Ordered(K, less)[n]
    OBVIOUS
  <2>2. x \in K
    <3>1. Ordered(K, less) \in Seq(K) /\ Len(Ordered(K, less)) = Cardinality(K)
      BY <1>2, OrderedLists
    <3> QED
      BY <2>1, <3>1, ElementOfSeq
  <2>3. PICK p \in 1..Cardinality(K) : p = Place(K, less, x) /\ Ordered(K, less)[p] = x
    BY <1>2, <2>2, OrderedLists
  <2>4. \A m, l \in 1..Cardinality(K) :
          m < l => <<Ordered(K, less)[m], Ordered(K, less)[l]>> \in less
    BY <1>2, OrderedLists
  <2>a. <<x, x>> \notin less
    BY <1>1, <2>2
  <2>b. p < n => <<x, x>> \in less
    BY <2>1, <2>3, <2>4
  <2>c. n < p => <<x, x>> \in less
    BY <2>1, <2>3, <2>4
  <2>5. ~(p < n) /\ ~(n < p)
    BY <2>a, <2>b, <2>c
  <2>6. Cardinality(K) \in Nat
    BY FS_CardinalityType
  <2> QED
    BY <2>2, <2>3, <2>5, <2>6
<1>6. \E k \in K : Cardinality({j \in K : j <= k}) = n
  BY <1>4, <1>5
<1> QED
  BY <1>6 DEF Nth

LEMMA CardsGlued ==
  ASSUME NEW s \in Seq(Card), NEW t \in Seq(Card)
  PROVE  /\ s \o t \in Seq(Card) /\ Len(s \o t) = Len(s) + Len(t)
         /\ \A k \in 1..Len(s \o t) :
              \/ k \in 1..Len(s) /\ (s \o t)[k] = s[k]
              \/ k > Len(s) /\ k - Len(s) \in 1..Len(t) /\ (s \o t)[k] = t[k - Len(s)]
         /\ \A i : Has(s, i) \/ Has(t, i) => Has(s \o t, i)
         /\ (/\ Repeatless(s) /\ Repeatless(t)
             /\ \A j \in 1..Len(s), k \in 1..Len(t) : s[j].id = t[k].id => t[k].sort < s[j].sort)
            => Repeatless(s \o t)
<1>1. /\ s \o t \in Seq(Card) /\ Len(s \o t) = Len(s) + Len(t)
      /\ \A k \in 1..Len(s) + Len(t) : (s \o t)[k] = IF k <= Len(s) THEN s[k] ELSE t[k - Len(s)]
      /\ Len(s) \in Nat /\ Len(t) \in Nat
  BY ConcatProperties
<1>2. \A k \in 1..Len(s \o t) :
        \/ k \in 1..Len(s) /\ (s \o t)[k] = s[k]
        \/ k > Len(s) /\ k - Len(s) \in 1..Len(t) /\ (s \o t)[k] = t[k - Len(s)]
  BY <1>1
<1>3. ASSUME NEW i, Has(s, i) PROVE Has(s \o t, i)
  BY <1>1, <1>3 DEF Has
<1>4. ASSUME NEW i, Has(t, i) PROVE Has(s \o t, i)
  <2>1. PICK k \in 1..Len(t) : t[k].id = i
    BY <1>4 DEF Has
  <2>2. k + Len(s) \in 1..Len(s) + Len(t) /\ k + Len(s) - Len(s) = k /\ ~(k + Len(s) <= Len(s))
    BY <1>1
  <2> QED
    BY <1>1, <2>1, <2>2 DEF Has
<1>5. ASSUME Repeatless(s), Repeatless(t),
             \A j \in 1..Len(s), k \in 1..Len(t) : s[j].id = t[k].id => t[k].sort < s[j].sort
      PROVE  Repeatless(s \o t)
  <2> SUFFICES ASSUME NEW j \in 1..Len(s \o t), NEW k \in 1..Len(s \o t), j < k,
                      (s \o t)[j].id = (s \o t)[k].id
               PROVE  (s \o t)[k].sort < (s \o t)[j].sort
    BY DEF Repeatless
  <2> PICK x \in Card, y \in Card : x = (s \o t)[j] /\ y = (s \o t)[k] /\ x.id = y.id
    BY <1>1, ElementOfSeq
  <2>1. CASE k \in 1..Len(s)
    <3>1. j \in 1..Len(s) /\ x = s[j] /\ y = s[k]
      BY <1>1, <2>1
    <3> QED
      BY <1>5, <2>1, <3>1 DEF Repeatless
  <2>2. CASE k \notin 1..Len(s) /\ j \in 1..Len(s)
    <3>1. PICK m \in 1..Len(t) : m = k - Len(s) /\ x = s[j] /\ y = t[m]
      BY <1>1, <2>2
    <3> QED
      BY <1>5, <2>2, <3>1
  <2>3. CASE k \notin 1..Len(s) /\ j \notin 1..Len(s)
    <3>1. PICK l \in 1..Len(t), m \in 1..Len(t) : l < m /\ x = t[l] /\ y = t[m]
      BY <1>1, <2>3, SMTT(30)
    <3> QED
      BY <1>5, <3>1 DEF Repeatless
  <2> QED
    BY <2>1, <2>2, <2>3
<1> QED
  BY <1>1, <1>2, <1>3, <1>4, <1>5

(* The candidates that fill a page, of those at the positions G.           *)
UpTo(G, last) == {k \in G : k <= last}
Fills(taken, items, n, G, last) ==
  /\ last \in Nat /\ n <= last /\ last <= Len(items)
  /\ taken \in Seq(PlanItem) /\ Len(taken) <= PageSize
  /\ \A m \in 1..Len(taken) : \E k \in G : k <= last /\ taken[m] = items[k]
  /\ \A k \in G : k <= last => \E m \in 1..Len(taken) : taken[m] = items[k]
  /\ \A l, m \in 1..Len(taken) : l < m =>
       \E j, k \in G : j < k /\ taken[l] = items[j] /\ taken[m] = items[k]

LEMMA PageFilled ==
  ASSUME NEW items \in Seq(PlanItem), NEW n \in Nat, n <= Len(items),
         NEW G \in SUBSET (n + 1..Len(items)), NEW last,
         last = IF Cardinality(G) >= PageSize THEN Nth(G, PageSize) ELSE Len(items)
  PROVE  Fills(At(items, UpTo(G, last)), items, n, G, last)
<1> DEFINE U == UpTo(G, last)
<1>0. Len(items) \in Nat /\ PageSize \in Nat \ {0}
  BY CardBounds
<1>1. IsFiniteSet(G) /\ Cardinality(G) \in Nat /\ G \in SUBSET Int
  <2>1. IsFiniteSet(n + 1..Len(items))
    BY <1>0, FS_Interval
  <2>2. IsFiniteSet(G)
    BY <2>1, FS_Subset
  <2> QED
    BY <1>0, <2>2, FS_CardinalityType
<1>2. last \in Nat /\ n <= last /\ last <= Len(items) /\ Cardinality(U) <= PageSize
  <2>1. CASE Cardinality(G) >= PageSize
    <3>1. PageSize \in 1..Cardinality(G)
      BY <1>0, <1>1, <2>1
    <3>2. last \in G
      BY <1>1, <2>1, <3>1, NthCounts
    <3>3. Cardinality(U) = PageSize
      BY <1>1, <2>1, <3>1, NthPlace DEF UpTo
    <3> QED
      BY <1>0, <3>2, <3>3
  <2>2. CASE ~(Cardinality(G) >= PageSize)
    <3>1. U \in SUBSET G
      BY DEF UpTo
    <3>2. Cardinality(U) <= Cardinality(G) /\ IsFiniteSet(U)
      BY <1>1, <3>1, FS_Subset
    <3>3. Cardinality(U) \in Nat
      BY <3>2, FS_CardinalityType
    <3> HIDE DEF U
    <3> QED
      BY <1>0, <1>1, <2>2, <3>2, <3>3
  <2> QED
    BY <2>1, <2>2
<1>3. U \in SUBSET (1..Len(items)) /\ \A k : k \in U <=> k \in G /\ k <= last
  <2>1. \A k \in n + 1..Len(items) : k \in 1..Len(items)
    BY <1>0
  <2> QED
    BY <2>1 DEF UpTo
<1> HIDE DEF U
<1>4. /\ At(items, U) \in Seq(PlanItem) /\ Len(At(items, U)) = Cardinality(U)
      /\ \A m \in 1..Cardinality(U) : Nth(U, m) \in U /\ At(items, U)[m] = items[Nth(U, m)]
      /\ \A k \in U : \E m \in 1..Cardinality(U) : Nth(U, m) = k
      /\ \A l, m \in 1..Cardinality(U) : l < m => Nth(U, l) < Nth(U, m)
  BY <1>3, AtSelects
<1>5. \A m \in 1..Len(At(items, U)) : \E k \in G : k <= last /\ At(items, U)[m] = items[k]
  BY <1>3, <1>4
<1>6. \A k \in G : k <= last => \E m \in 1..Len(At(items, U)) : At(items, U)[m] = items[k]
  BY <1>3, <1>4
<1>7. \A l, m \in 1..Len(At(items, U)) : l < m =>
        \E j, k \in G : j < k /\ At(items, U)[l] = items[j] /\ At(items, U)[m] = items[k]
  <2> SUFFICES ASSUME NEW l \in 1..Cardinality(U), NEW m \in 1..Cardinality(U), l < m
               PROVE  \E j, k \in G : j < k /\ At(items, U)[l] = items[j] /\ At(items, U)[m] = items[k]
    BY <1>4
  <2>1. PICK j \in G, k \in G : j = Nth(U, l) /\ k = Nth(U, m) /\ j < k
    BY <1>3, <1>4
  <2> QED
    BY <1>4, <2>1
<1> QED
  <2>1. Fills(At(items, U), items, n, G, last)
    BY <1>2, <1>4, <1>5, <1>6, <1>7 DEF Fills
  <2> QED
    BY <2>1 DEF U
(* A page of candidates: what FillPage shows of the order of s.            *)
Showing(q, s) == {k \in s.offset + 1..Len(s.items) : C!Showable(q, s.items[k])}
ShowingTo(G, s) == IF Cardinality(G) >= PageSize THEN Nth(G, PageSize) ELSE Len(s.items)
CardsOf(q, s, G, last) ==
  [k \in DOMAIN At(s.items, UpTo(G, last)) |->
    [id |-> At(s.items, UpTo(G, last))[k].id,
     sort |-> q.current[At(s.items, UpTo(G, last))[k].id].sort]]

(* t shows what can be shown of the order of s up to last.                 *)
ShowsOf(t, s, G, last) ==
  /\ last \in Nat /\ s.offset <= last /\ last <= Len(s.items)
  /\ t \in Seq(Card) /\ Repeatless(t)
  /\ \A m \in 1..Len(t) : \E k \in G : k <= last /\ t[m].id = s.items[k].id
  /\ \A k \in G : k <= last => Has(t, s.items[k].id)

LEMMA ShowsCards ==
  ASSUME NEW q, NEW s \in CardCursor, NEW G, NEW last, NEW b,
         Agrees(q.current, b), OrderHolds(s.items, s.basis), s.offset <= Len(s.items),
         G = Showing(q, s), last = ShowingTo(G, s)
  PROVE  /\ ShowsOf(CardsOf(q, s, G, last), s, G, last)
         /\ Len(CardsOf(q, s, G, last)) <= PageSize
<1>1. s.items \in Seq(PlanItem) /\ s.offset \in Nat /\ Len(s.items) \in Nat
  BY DEF CardCursor
<1>a. PICK items \in Seq(PlanItem), n \in Nat : items = s.items /\ n = s.offset
  BY <1>1
<1>2. G \in SUBSET (n + 1..Len(items)) /\ n <= Len(items)
  BY <1>a DEF Showing
<1>3. last = IF Cardinality(G) >= PageSize THEN Nth(G, PageSize) ELSE Len(items)
  BY <1>a DEF ShowingTo
<1>4. PICK taken : taken = At(items, UpTo(G, last))
  OBVIOUS
<1>5. /\ last \in Nat /\ n <= last /\ last <= Len(items)
      /\ taken \in Seq(PlanItem) /\ Len(taken) <= PageSize
      /\ \A m \in 1..Len(taken) : \E k \in G : k <= last /\ taken[m] = items[k]
      /\ \A k \in G : k <= last => \E m \in 1..Len(taken) : taken[m] = items[k]
      /\ \A l, m \in 1..Len(taken) : l < m =>
           \E j, k \in G : j < k /\ taken[l] = items[j] /\ taken[m] = items[k]
  <2>1. Fills(At(items, UpTo(G, last)), items, n, G, last)
    BY <1>2, <1>3, PageFilled
  <2>2. Fills(taken, items, n, G, last)
    BY <1>4, <2>1
  <2> QED
    BY <2>2 DEF Fills
<1>6. PICK t : t = CardsOf(q, s, G, last)
  OBVIOUS
<1>7. t = [k \in 1..Len(taken) |-> [id |-> taken[k].id, sort |-> q.current[taken[k].id].sort]]
  BY <1>a, <1>4, <1>5, <1>6 DEF CardsOf
<1>8. \A k \in 1..Len(taken) : taken[k].id \in CardIds
  <2>1. \A k \in 1..Len(taken) : taken[k] \in PlanItem
    BY <1>5, ElementOfSeq
  <2> QED
    BY <2>1 DEF PlanItem
<1>9. \A i \in CardIds : q.current[i].sort \in CardSorts
  BY DEF Agrees, CardFact
<1>10. t \in Seq(Card) /\ Len(t) = Len(taken) /\ \A k \in 1..Len(taken) : t[k].id = taken[k].id
  <2>1. Len(taken) \in Nat
    BY <1>5
  <2>2. \A k \in 1..Len(taken) :
          [id |-> taken[k].id, sort |-> q.current[taken[k].id].sort] \in Card
    BY <1>8, <1>9 DEF Card
  <2> QED
    BY <1>7, <2>1, <2>2
<1>11. Repeatless(t)
  <2> SUFFICES ASSUME NEW l \in 1..Len(taken), NEW m \in 1..Len(taken), l < m PROVE t[l].id # t[m].id
    BY <1>10 DEF Repeatless
  <2>1. PICK j \in G, k \in G : j < k /\ taken[l] = items[j] /\ taken[m] = items[k]
    BY <1>5
  <2>2. j \in 1..Len(items) /\ k \in 1..Len(items) /\ j # k
    BY <1>2, <2>1
  <2> QED
    BY <1>a, <1>10, <2>1, <2>2, SMTT(30) DEF OrderHolds
<1>12. \A m \in 1..Len(t) : \E k \in G : k <= last /\ t[m].id = items[k].id
  <2> SUFFICES ASSUME NEW m \in 1..Len(taken)
               PROVE  \E k \in G : k <= last /\ t[m].id = items[k].id
    BY <1>10
  <2>1. PICK k \in G : k <= last /\ taken[m] = items[k]
    BY <1>5
  <2>2. t[m].id = taken[m].id
    BY <1>10
  <2> QED
    BY <2>1, <2>2
<1>13. ASSUME NEW k \in G, k <= last PROVE Has(t, items[k].id)
  <2>1. PICK m \in 1..Len(taken) : taken[m] = items[k]
    BY <1>5, <1>13
  <2> QED
    BY <1>10, <2>1 DEF Has
<1>14. ShowsOf(t, s, G, last)
  BY <1>a, <1>5, <1>10, <1>11, <1>12, <1>13 DEF ShowsOf
<1> QED
  BY <1>5, <1>6, <1>10, <1>14

(* Of the candidates ahead, the steady ones are shown, and what is shown   *)
(* is neither withdrawn nor dismissed.                                     *)
LEMMA ShowsTimely ==
  ASSUME RecommendInv, NEW q, NEW s \in CardCursor, NEW w \in ShownWalk, NEW k \in Showing(q, s),
         q.state = s, q.began \in Nat, StateHolds(s, w), Agrees(q.current, q.began)
  PROVE  Timely(s.items[k].id, q.began, w)
<1>1. k \in 1..Len(s.items) /\ C!Showable(q, s.items[k])
  BY DEF Showing, CardCursor
<1>2. PICK i \in CardIds : i = s.items[k].id
  <2>1. s.items \in Seq(PlanItem)
    BY DEF CardCursor
  <2>2. s.items[k] \in PlanItem
    BY <1>1, <2>1, ElementOfSeq
  <2> QED
    BY <2>2 DEF PlanItem
<1>3. q.current[i].public /\ (s.signed => i \notin C!Excluded({i}))
  BY <1>1, <1>2 DEF C!Showable
<1>4. s.signed = w.signed
  BY DEF StateHolds
<1>5. i \notin C!Excluded({i}) => ~(facts[i].public /\ dislikes[i].row /\ dislikes[i].expires > window)
  BY DEF C!Excluded
<1>6. facts[i].mark <= q.began => facts[i].public
  BY <1>3 DEF Agrees
<1> QED
  BY <1>2, <1>3, <1>4, <1>5, <1>6 DEF Timely

LEMMA ShowsSteady ==
  ASSUME RecommendInv, NEW q, NEW s \in CardCursor, NEW w \in ShownWalk,
         NEW k \in 1..Len(s.items), s.offset < k, Steady(s.items[k].id, s.basis, w),
         q.state = s, q.began \in Nat, w.began <= q.began, w.started <= window,
         StateHolds(s, w), Agrees(q.current, q.began)
  PROVE  k \in Showing(q, s)
<1>2. PICK i \in CardIds : i = s.items[k].id
  <2>1. s.items \in Seq(PlanItem)
    BY DEF CardCursor
  <2>2. s.items[k] \in PlanItem
    BY <2>1, ElementOfSeq
  <2> QED
    BY <2>2 DEF PlanItem
<1>3. s.basis \in Nat /\ s.offset \in Nat /\ w.began \in Nat /\ w.started \in Nat /\ window \in Nat
      /\ facts[i].mark \in Nat /\ dislikes[i].expires \in Nat
  <2>1. facts[i] \in CardRow /\ dislikes[i] \in Mark /\ window \in Nat
    BY RecommendParts
  <2>2. DislikeTTL \in Nat /\ MaxWindow \in Nat
    BY CardBounds
  <2>3. facts[i].mark \in Nat /\ dislikes[i].expires \in Nat
    BY <2>1, <2>2, SMTT(30) DEF CardRow, Mark
  <2> QED
    BY <2>1, <2>3 DEF CardCursor, ShownWalk
<1>4. facts[i].public /\ facts[i].mark <= s.basis /\ (~w.signed \/ dislikes[i].expires <= w.started)
  BY <1>2 DEF Steady
<1>5. s.basis <= w.began /\ s.signed = w.signed
  BY DEF StateHolds
<1>6. facts[i].mark <= q.began
  BY <1>3, <1>4, <1>5, SMTT(30)
<1>7. q.current[i].public = facts[i].public /\ q.current[i].vector = facts[i].vector
  BY <1>6, SMTT(30) DEF Agrees
<1>8. s.items[k].vector # 0 => s.items[k].vector = q.current[i].vector
  BY <1>2, <1>4, <1>7 DEF StateHolds, OrderHolds
<1>9. s.signed => i \notin C!Excluded({i})
  <2>1. w.signed => ~(dislikes[i].expires > window)
    BY <1>3, <1>4
  <2> QED
    BY <1>5, <2>1 DEF C!Excluded
<1>10. C!Showable(q, s.items[k])
  BY <1>2, <1>4, <1>7, <1>8, <1>9 DEF C!Showable
<1> QED
  BY <1>3, <1>10 DEF Showing
(* What the pages of a walk have shown once the candidates of s up to last *)
(* that can be shown follow.                                               *)
LEMMA ShowsMore ==
  ASSUME NEW s \in CardCursor, NEW x \in CardCursor, NEW w \in ShownWalk, NEW G, NEW last \in Nat,
         NEW items \in Seq(Card), NEW t \in Seq(Card),
         G \in SUBSET (s.offset + 1..Len(s.items)), ShowsOf(t, s, G, last),
         x.items = s.items, x.latest = s.latest, x.basis = s.basis, x.offset = last,
         OrderHolds(s.items, s.basis), Gathered(items, s, w),
         \A k \in 1..Len(s.items) : s.offset < k /\ Steady(s.items[k].id, s.basis, w) => k \in G
  PROVE  /\ Gathered(items \o t, x, w)
         /\ (\A k \in G : k <= last) =>
              \A i \in CardIds : Steady(i, x.basis, w) /\ Planned(i, x) => Has(items \o t, i)
<1>1. s.offset \in Nat /\ Len(s.items) \in Nat /\ Len(items) \in Nat /\ Len(t) \in Nat
  BY DEF CardCursor
<1>a. /\ s.offset <= last /\ last <= Len(s.items) /\ Repeatless(t)
      /\ \A m \in 1..Len(t) : \E k \in G : k <= last /\ t[m].id = s.items[k].id
      /\ \A k \in G : k <= last => Has(t, s.items[k].id)
      /\ \A j, k \in 1..Len(s.items) : s.items[j].id = s.items[k].id => j = k
  BY DEF ShowsOf, OrderHolds
<1>2. \A i : Has(items, i) \/ Has(t, i) => Has(items \o t, i)
  BY CardsGlued
<1>3. \A i : Done(i, s.items, s.offset) => Planned(i, s) /\ Done(i, x.items, x.offset)
  BY <1>1, <1>a DEF Done, Planned
<1>4. \A i : Planned(i, x) <=> Planned(i, s)
  BY DEF Planned
<1>5. \A c : Cleared(c, x) <=> Cleared(c, s)
  BY DEF Cleared
<1>6. \A k \in G : k \in 1..Len(s.items) /\ s.offset < k
  BY <1>1
<1>7. \A m \in 1..Len(t) : Planned(t[m].id, s) /\ ~Done(t[m].id, s.items, s.offset)
                           /\ Done(t[m].id, x.items, x.offset)
  <2> SUFFICES ASSUME NEW m \in 1..Len(t)
               PROVE  Planned(t[m].id, s) /\ ~Done(t[m].id, s.items, s.offset)
                      /\ Done(t[m].id, x.items, x.offset)
    OBVIOUS
  <2>1. PICK k \in G : k <= last /\ t[m].id = s.items[k].id
    BY <1>a
  <2>2. k \in 1..Len(s.items) /\ s.offset < k
    BY <1>6
  <2>3. Planned(t[m].id, s)
    BY <2>1, <2>2 DEF Planned, Done
  <2>4. Done(t[m].id, x.items, x.offset)
    BY <1>a, <2>1, <2>2 DEF Done
  <2>5. ASSUME NEW j \in 1..s.offset, s.items[j].id = s.items[k].id PROVE FALSE
    <3>1. j \in 1..Len(s.items) /\ j # k
      BY <1>1, <2>2
    <3> QED
      BY <1>a, <2>2, <2>5, <3>1
  <2> QED
    BY <2>1, <2>3, <2>4, <2>5 DEF Done
<1>8. Repeatless(items \o t)
  <2>1. \A j \in 1..Len(items), k \in 1..Len(t) : items[j].id # t[k].id
    BY <1>7 DEF Gathered
  <2> QED
    BY <1>a, <2>1, CardsGlued DEF Gathered
<1>9. \A k \in 1..Len(items \o t) :
        \/ Done((items \o t)[k].id, x.items, x.offset)
        \/ ~Planned((items \o t)[k].id, x) /\ Cleared((items \o t)[k], x)
  <2> SUFFICES ASSUME NEW k \in 1..Len(items \o t)
               PROVE  \/ Done((items \o t)[k].id, x.items, x.offset)
                      \/ ~Planned((items \o t)[k].id, x) /\ Cleared((items \o t)[k], x)
    OBVIOUS
  <2>1. CASE k \in 1..Len(items) /\ (items \o t)[k] = items[k]
    BY <1>3, <1>4, <1>5, <2>1 DEF Gathered
  <2>2. CASE k - Len(items) \in 1..Len(t) /\ (items \o t)[k] = t[k - Len(items)]
    BY <1>7, <2>2
  <2> QED
    BY <2>1, <2>2, CardsGlued
<1>10. ASSUME NEW i \in CardIds, Steady(i, s.basis, w), NEW k \in 1..Len(s.items),
              s.items[k].id = i, k <= last
       PROVE  Has(items \o t, i)
  <2>1. CASE k <= s.offset
    <3>1. k \in 1..s.offset
      BY <1>1, <2>1
    <3>2. Done(i, s.items, s.offset)
      BY <1>10, <3>1 DEF Done
    <3> QED
      BY <1>2, <1>10, <3>2 DEF Gathered
  <2>2. CASE s.offset < k
    BY <1>a, <1>2, <1>10, <2>2
  <2> QED
    BY <1>1, <2>1, <2>2
<1>11. ASSUME NEW i \in CardIds, Steady(i, x.basis, w)
       PROVE  /\ Done(i, x.items, x.offset) => Has(items \o t, i)
              /\ ~Planned(i, x) /\ Cleared(CardOf(i), x) => Has(items \o t, i)
  <2>1. ASSUME Done(i, x.items, x.offset) PROVE Has(items \o t, i)
    <3>1. PICK k \in 1..last : s.items[k].id = i
      BY <2>1 DEF Done
    <3>2. k \in 1..Len(s.items) /\ k <= last
      BY <1>1, <1>a
    <3> QED
      BY <1>10, <1>11, <3>1, <3>2
  <2>2. ASSUME ~Planned(i, x), Cleared(CardOf(i), x) PROVE Has(items \o t, i)
    BY <1>2, <1>4, <1>5, <1>11, <2>2 DEF Gathered
  <2> QED
    BY <2>1, <2>2
<1>12. ASSUME \A k \in G : k <= last, NEW i \in CardIds, Steady(i, x.basis, w), Planned(i, x)
       PROVE  Has(items \o t, i)
  <2>1. PICK k \in 1..Len(s.items) : s.items[k].id = i
    BY <1>12 DEF Planned, Done
  <2>2. k <= last
    <3>1. CASE k <= s.offset
      BY <1>1, <1>a, <3>1, SMTT(30)
    <3>2. CASE s.offset < k
      BY <1>12, <2>1, <3>2
    <3> QED
      BY <1>1, <3>1, <3>2
  <2> QED
    BY <1>10, <1>12, <2>1, <2>2
<1> QED
  BY <1>8, <1>9, <1>11, <1>12 DEF Gathered

LEMMA FillingKeeps ==
  ASSUME RecommendInv, C!FillPage
  PROVE  RecommendInv'
<1>0. PICK p : p = query.profile
  OBVIOUS
<1>1. PICK q \in QueryOf(p), s \in CardCursor, c \in CardCursor, w \in ShownWalk :
        /\ q = query /\ s = q.state /\ c = token /\ w = shown /\ q.phase = "exclusions"
  <2>1. query.phase = "exclusions"
    BY Zenon DEF C!FillPage
  <2> QED
    BY <1>0, <2>1, RecommendParts, ZenonT(40)
<1>2. /\ token' = c /\ shown' = w /\ plan' = plan
      /\ UNCHANGED <<facts, reads, favorites, dislikes, writing, window, changes, feedbacks>>
  BY <1>1 DEF C!FillPage, C!feedback
<1>3. /\ plan' \in PlanOf(plan'.profile) /\ PlanHolds'
      /\ w.began <= changes /\ w.basis <= changes /\ w.started <= window /\ OverHolds(w)
      /\ TokenHolds(c, w) /\ q.began <= changes /\ q.began \in Nat /\ w.items \in Seq(Card)
  BY <1>1, <1>2, RecommendParts DEF PlanHolds, OrderHolds
<1>4. /\ StateHolds(s, w) /\ w.began <= q.began /\ Gathered(w.items \o <<>>, s, w) /\ q.items = <<>>
      /\ Agrees(q.current, q.began)
  <2>1. QueryHolds(q, w)
    BY <1>1, RecommendParts
  <2> QED
    BY <1>1, <2>1 DEF QueryHolds
<1>5. Gathered(w.items, s, w)
  <2>1. w.items \o <<>> = w.items
    BY <1>3
  <2> QED
    BY <1>4, <2>1
<1>6. PICK G : G = Showing(q, s)
  OBVIOUS
<1>7. PICK last : last = ShowingTo(G, s)
  OBVIOUS
<1>8. PICK t : t = CardsOf(q, s, G, last)
  OBVIOUS
<1>9. /\ ShowsOf(t, s, G, last) /\ Len(t) <= PageSize
      /\ last \in Nat /\ s.offset <= last /\ last <= Len(s.items) /\ t \in Seq(Card)
      /\ \A m \in 1..Len(t) : \E k \in G : k <= last /\ t[m].id = s.items[k].id
  <2>1. OrderHolds(s.items, s.basis) /\ s.offset <= Len(s.items)
    BY <1>4 DEF StateHolds
  <2>2. ShowsOf(t, s, G, last) /\ Len(t) <= PageSize
    BY <1>4, <1>6, <1>7, <1>8, <2>1, ShowsCards
  <2> QED
    BY <2>2 DEF ShowsOf
<1>10. PICK m \in BOOLEAN : m = \E k \in G : k > last
  BY Zenon
<1>11. PICK x \in CardCursor : x = [s EXCEPT !.offset = last]
  BY <1>9 DEF CardCursor
<1>12. /\ x.items = s.items /\ x.basis = s.basis /\ x.offset = last /\ x.latest = s.latest
       /\ x.started = s.started
  BY <1>9, <1>11 DEF CardCursor
<1>13. x.signed = s.signed /\ x.latestEnd = s.latestEnd
  BY <1>11, Zenon DEF CardCursor
<1>14. PICK y \in QueryOf(p) : y = [q EXCEPT !.phase = "latest", !.state = x, !.current = <<>>,
                                             !.items = t, !.more = m]
  BY <1>9 DEF QueryOf
<1>15. y.phase = "latest" /\ y.state = x /\ y.items = t /\ y.began = q.began
  BY <1>9, <1>14 DEF QueryOf
<1>16. y.more = m
  BY <1>14, Zenon DEF QueryOf
<1>17. query' = y
  <2> DEFINE s0 == query.state
             G0 == {k \in s0.offset + 1..Len(s0.items) : C!Showable(query, s0.items[k])}
             l0 == IF C!Cardinality(G0) >= PageSize THEN C!Nth(G0, PageSize) ELSE Len(s0.items)
             t0 == C!At(s0.items, {k \in G0 : k <= l0})
  <2>1. query' = [query EXCEPT !.phase = "latest", !.state = [s0 EXCEPT !.offset = l0],
                    !.current = <<>>, !.items = [k \in DOMAIN t0 |-> C!Shown(t0[k].id)],
                    !.more = \E k \in G0 : k > l0]
    BY DEF C!FillPage
  <2>2. s0 = s
    BY <1>1
  <2> HIDE DEF s0
  <2>3. G0 = G
    BY <1>1, <1>6, <2>2 DEF Showing
  <2> HIDE DEF G0
  <2>4. l0 = last
    BY <1>7, <2>2, <2>3, SameInCards DEF ShowingTo
  <2> HIDE DEF l0
  <2>5. t0 = At(s.items, UpTo(G, last))
    BY <2>2, <2>3, <2>4, SameInCards DEF UpTo
  <2> HIDE DEF t0
  <2>6. t = [k \in DOMAIN t0 |-> C!Shown(t0[k].id)]
    BY <1>1, <1>8, <2>5 DEF CardsOf, C!Shown
  <2> QED
    BY <1>1, <1>10, <1>11, <1>14, <2>1, <2>2, <2>3, <2>4, <2>6
<1>18. G \in SUBSET (s.offset + 1..Len(s.items))
  BY <1>6 DEF Showing
<1>19. \A k \in 1..Len(s.items) : s.offset < k /\ Steady(s.items[k].id, s.basis, w) => k \in G
  BY <1>1, <1>3, <1>4, <1>6, ShowsSteady
<1>20. /\ Gathered(w.items \o t, x, w)
       /\ (\A k \in G : k <= last) =>
            \A i \in CardIds : Steady(i, x.basis, w) /\ Planned(i, x) => Has(w.items \o t, i)
  <2>1. OrderHolds(s.items, s.basis)
    BY <1>4 DEF StateHolds
  <2> QED
    BY <1>3, <1>5, <1>9, <1>12, <1>18, <1>19, <2>1, ShowsMore
<1>21. StateHolds(x, w)
  BY <1>4, <1>9, <1>12, <1>13 DEF StateHolds
<1>22. ~m => \A k \in G : k <= last
  <2>1. \A k \in G : k \in Int
    BY <1>18
  <2> QED
    BY <1>9, <1>10, <2>1
<1>23. QueryHolds(y, w)
  BY <1>4, <1>15, <1>16, <1>20, <1>21, <1>22 DEF QueryHolds
<1>24. TimelyHolds(y, w)
  <2>1. \A k \in G : Timely(s.items[k].id, q.began, w)
    BY <1>1, <1>3, <1>4, <1>6, ShowsTimely
  <2>2. \A n \in 1..Len(t) : Timely(t[n].id, q.began, w)
    BY <1>9, <2>1
  <2> QED
    BY <1>15, <2>2 DEF TimelyHolds
<1>25. ShownHolds(y, c, w) /\ y.began <= changes /\ Len(y.items) <= PageSize
  BY <1>3, <1>9, <1>15, <1>23, <1>24 DEF ShownHolds
<1> QED
  BY <1>2, <1>3, <1>17, <1>25, ReaderMoves
-----------------------------------------------------------------------------
(***************************************************************************)
(* The latest articles that fill a page up.                                *)
(***************************************************************************)
LEMMA CardsOrder ==
  /\ \A c \in Card : ~C!Below(c, c)
  /\ \A c, d \in Card : c = d \/ C!Below(c, d) \/ C!Below(d, c)
  /\ \A c, d, e \in Card : C!Below(c, d) /\ C!Below(d, e) => C!Below(c, e)
  /\ \A c, d \in Card : C!Below(c, d) /\ c.id = d.id => c.sort < d.sort
<1>1. \A c \in Card : c.sort \in Nat /\ c.id \in Nat
  BY CardBounds DEF Card
<1>2. \A c, d \in Card : c.sort = d.sort /\ c.id = d.id => c = d
  BY DEF Card
<1>3. \A c \in Card : ~C!Below(c, c)
  BY <1>1 DEF C!Below
<1>4. \A c, d \in Card : c = d \/ C!Below(c, d) \/ C!Below(d, c)
  BY <1>1, <1>2 DEF C!Below
<1>5. \A c, d, e \in Card : C!Below(c, d) /\ C!Below(d, e) => C!Below(c, e)
  BY <1>1 DEF C!Below
<1>6. \A c, d \in Card : C!Below(c, d) /\ c.id = d.id => c.sort < d.sort
  BY <1>1 DEF C!Below
<1> QED
  BY <1>3, <1>4, <1>5, <1>6

(* What Latest looks for, and what it finds of it.                         *)
Open(i, s) ==
  /\ facts[i].public /\ facts[i].first <= s.started
  /\ i \notin C!Skipped(s)
  /\ s.signed => i \notin C!Excluded({i})
InReach(c, s) == s.latest = <<>> \/ C!Below(c, Head(s.latest))
Finds(t, s, n) ==
  /\ t \in Seq(Card) /\ Len(t) <= n
  /\ \A k \in 1..Len(t) : t[k] = CardOf(t[k].id) /\ Open(t[k].id, s) /\ InReach(t[k], s)
  /\ \A j, k \in 1..Len(t) : j < k => C!Below(t[k], t[j])
  /\ \A i \in CardIds : Open(i, s) /\ InReach(CardOf(i), s) =>
       \/ \E k \in 1..Len(t) : t[k] = CardOf(i)
       \/ Len(t) = n /\ \A k \in 1..Len(t) : C!Below(CardOf(i), t[k])

LEMMA LatestFinds ==
  ASSUME RecommendInv, NEW s, NEW n \in Nat
  PROVE  Finds(C!Latest(s, n), s, n)
<1> DEFINE open == {i \in CardIds : Open(i, s)}
           below == {c \in {[id |-> i, sort |-> facts[i].sort] : i \in open} :
                       s.latest = <<>> \/ C!Below(c, Head(s.latest))}
           newer == {pq \in below \X below : C!Below(pq[2], pq[1])}
           list == Ordered(below, newer)
           t == Top(list, n)
           card == [i \in CardIds |-> CardOf(i)]
<1>1. \A i \in CardIds : card[i] \in Card /\ card[i] = CardOf(i) /\ CardOf(i).id = i
  <2>1. \A i \in CardIds : facts[i] \in CardRow
    BY RecommendParts
  <2> QED
    BY <2>1 DEF CardOf, Card, CardRow
<1>2. /\ below \subseteq Card /\ below \subseteq {card[i] : i \in CardIds}
      /\ \A c \in below : c = CardOf(c.id) /\ Open(c.id, s) /\ InReach(c, s)
  BY <1>1 DEF CardOf, InReach
<1>3. \A i \in CardIds : Open(i, s) /\ InReach(CardOf(i), s) => CardOf(i) \in below
  BY <1>1 DEF CardOf, InReach
<1>4. IsFiniteSet(below)
  <2>1. card \in Surjection(CardIds, {card[i] : i \in CardIds})
    BY DEF Surjection
  <2>2. IsFiniteSet({card[i] : i \in CardIds})
    BY <2>1, CardBounds, FS_Surjection
  <2> QED
    BY <1>2, <2>2, FS_Subset
<1>5. C!Latest(s, n) = t
  <2>1. C!Latest(s, n) = C!Top(C!Ordered(below, newer), n)
    BY DEF C!Latest, Open
  <2> QED
    BY <2>1, SameInCards
<1> HIDE DEF below
<1>6. \A c, d \in below : <<c, d>> \in newer <=> C!Below(d, c)
  OBVIOUS
<1> HIDE DEF newer
<1>7. Orders(newer, below)
  BY <1>2, <1>6, CardsOrder DEF Orders
<1>8. /\ list \in Seq(below) /\ Len(list) = Cardinality(below) /\ Cardinality(below) \in Nat
      /\ \A x \in below : \E k \in 1..Len(list) : list[k] = x
      /\ \A j, k \in 1..Len(list) : j < k => <<list[j], list[k]>> \in newer
  BY <1>4, <1>7, OrderedLists
<1> HIDE DEF list
<1>9. /\ t \in Seq(below) /\ Len(t) = IF n < Len(list) THEN n ELSE Len(list)
      /\ \A k \in 1..Len(t) : t[k] = list[k]
  BY <1>8, TopIsPrefix
<1> HIDE DEF t
<1>10. /\ Len(t) \in Nat /\ Len(list) \in Nat /\ Len(t) <= n /\ Len(t) <= Len(list)
       /\ \A k \in 1..Len(t) : t[k] \in below /\ k \in 1..Len(list)
  BY <1>8, <1>9, ElementOfSeq
<1>11. t \in Seq(Card)
  BY <1>2, <1>9, SeqMonotonic
<1>12. \A k \in 1..Len(t) : t[k] = CardOf(t[k].id) /\ Open(t[k].id, s) /\ InReach(t[k], s)
  BY <1>2, <1>10
<1>13. ASSUME NEW j \in 1..Len(t), NEW k \in 1..Len(t), j < k PROVE C!Below(t[k], t[j])
  <2>1. <<t[j], t[k]>> \in newer
    BY <1>8, <1>9, <1>10, <1>13
  <2> QED
    BY <1>6, <1>10, <2>1
<1>14. ASSUME NEW i \in CardIds, Open(i, s), InReach(CardOf(i), s), ~\E k \in 1..Len(t) : t[k] = CardOf(i)
       PROVE  Len(t) = n /\ \A k \in 1..Len(t) : C!Below(CardOf(i), t[k])
  <2>1. CardOf(i) \in below
    BY <1>3, <1>14
  <2>2. PICK m \in 1..Len(list) : list[m] = CardOf(i)
    BY <1>8, <2>1
  <2>3. m \notin 1..Len(t)
    BY <1>9, <1>14, <2>2
  <2>4. n < Len(list) /\ Len(t) = n /\ \A k \in 1..Len(t) : k < m
    BY <1>9, <1>10, <2>3
  <2>5. \A k \in 1..Len(t) : <<t[k], CardOf(i)>> \in newer
    BY <1>8, <1>9, <1>10, <2>2, <2>4
  <2> QED
    BY <1>6, <1>10, <2>1, <2>4, <2>5
<1>15. Finds(t, s, n)
  BY <1>10, <1>11, <1>12, <1>13, <1>14 DEF Finds
<1> QED
  BY <1>5, <1>15

(* What is shown of the latest articles is neither withdrawn nor dismissed, *)
(* and whatever nothing happened to is looked for.                         *)
LEMMA OpenTimely ==
  ASSUME NEW s, NEW w, NEW i \in CardIds, Open(i, s), s.signed = w.signed
  PROVE  \A b : Timely(i, b, w)
<1>1. facts[i].public /\ (w.signed => i \notin C!Excluded({i}))
  BY DEF Open
<1>2. i \notin C!Excluded({i}) => ~(facts[i].public /\ dislikes[i].row /\ dislikes[i].expires > window)
  BY DEF C!Excluded
<1> QED
  BY <1>1, <1>2 DEF Timely

LEMMA SkipsPlanned ==
  ASSUME NEW s \in CardCursor, NEW i
  PROVE  i \in C!Skipped(s) <=> Planned(i, s)
<1>1. DOMAIN s.items = 1..Len(s.items)
  BY DEF CardCursor
<1>2. C!Range(s.items) = {s.items[k] : k \in 1..Len(s.items)}
  BY <1>1 DEF C!Range
<1> QED
  BY <1>2 DEF C!Skipped, Planned, Done

LEMMA SteadyOpen ==
  ASSUME RecommendInv, NEW s \in CardCursor, NEW w \in ShownWalk, NEW i \in CardIds,
         StateHolds(s, w), w.started <= window, Steady(i, s.basis, w), ~Planned(i, s)
  PROVE  Open(i, s)
<1>1. w.started \in Nat /\ window \in Nat /\ dislikes[i].expires \in Nat
  <2>1. dislikes[i] \in Mark /\ window \in Nat
    BY RecommendParts
  <2>2. DislikeTTL \in Nat /\ MaxWindow \in Nat
    BY CardBounds
  <2>3. dislikes[i].expires \in Nat
    BY <2>1, <2>2 DEF Mark
  <2> QED
    BY <2>1, <2>3 DEF ShownWalk
<1>2. facts[i].public /\ facts[i].first <= w.started /\ (~w.signed \/ dislikes[i].expires <= w.started)
  BY DEF Steady
<1>3. s.started = w.started /\ s.signed = w.signed
  BY DEF StateHolds
<1>4. w.signed => ~(dislikes[i].expires > window)
  BY <1>1, <1>2
<1>5. s.signed => i \notin C!Excluded({i})
  BY <1>3, <1>4 DEF C!Excluded
<1> QED
  BY <1>2, <1>3, <1>5, SkipsPlanned DEF Open

(* Passing over nothing that is open: after t, the position of x.          *)
LEMMA LatestShown ==
  ASSUME RecommendInv, NEW s \in CardCursor, NEW x \in CardCursor, NEW w \in ShownWalk,
         NEW items \in Seq(Card), NEW t \in Seq(Card), NEW past \in Seq(Card), NEW n \in Nat,
         StateHolds(s, w), Gathered(items, s, w), Finds(t, s, n + 1), w.started <= window,
         past \in Seq(Card), Len(past) = IF n < Len(t) THEN n ELSE Len(t),
         \A k \in 1..Len(past) : past[k] = t[k],
         x.items = s.items, x.offset = s.offset, x.basis = s.basis,
         x.latest = IF Len(past) = 0 THEN s.latest ELSE <<t[Len(past)]>>
  PROVE  /\ Gathered(items \o past, x, w)
         /\ (/\ Len(t) <= n
             /\ \A i \in CardIds : Steady(i, s.basis, w) /\ Planned(i, s) => Has(items, i))
            => \A i \in CardIds : Steady(i, s.basis, w) => Has(items \o past, i)
<1>1. /\ Len(items) \in Nat /\ Len(t) \in Nat /\ Len(past) \in Nat /\ Len(past) <= Len(t)
      /\ \A k \in 1..Len(past) : k \in 1..Len(t)
  OBVIOUS
<1>2. /\ \A k \in 1..Len(t) : t[k] \in Card /\ t[k].id \in CardIds
      /\ \A k \in 1..Len(items) : items[k] \in Card
  <2>1. \A k \in 1..Len(t) : t[k] \in Card
    BY ElementOfSeq
  <2>2. \A k \in 1..Len(items) : items[k] \in Card
    BY ElementOfSeq
  <2> QED
    BY <2>1, <2>2 DEF Card
<1>3. /\ \A k \in 1..Len(t) : t[k] = CardOf(t[k].id) /\ Open(t[k].id, s) /\ InReach(t[k], s)
      /\ \A j, k \in 1..Len(t) : j < k => C!Below(t[k], t[j])
      /\ \A i \in CardIds : Open(i, s) /\ InReach(CardOf(i), s) =>
           \/ \E k \in 1..Len(t) : t[k] = CardOf(i)
           \/ Len(t) = n + 1 /\ \A k \in 1..Len(t) : C!Below(CardOf(i), t[k])
  BY DEF Finds
<1>4. \A i : Has(items, i) \/ Has(past, i) => Has(items \o past, i)
  BY CardsGlued
<1>5. \A i : Planned(i, x) <=> Planned(i, s)
  BY DEF Planned
<1>6. \A c : Cleared(c, s) <=> ~InReach(c, s)
  BY DEF Cleared, InReach
<1>7. s.latest # <<>> => s.latest[1] \in Card
  <2>1. s.latest \in Seq(Card)
    BY DEF CardCursor
  <2>2. s.latest # <<>> => 1 \in 1..Len(s.latest)
    BY <2>1
  <2> QED
    BY <2>1, <2>2, ElementOfSeq
<1>8. \A k \in 1..Len(t) : ~Planned(t[k].id, s)
  BY <1>3, SkipsPlanned DEF Open
<1>9. ASSUME NEW c \in Card, Cleared(c, s), NEW k \in 1..Len(t) PROVE C!Below(t[k], c)
  <2>1. s.latest # <<>> /\ ~C!Below(c, s.latest[1]) /\ s.latest[1] \in Card
    BY <1>7, <1>9 DEF Cleared
  <2>2. C!Below(t[k], s.latest[1])
    BY <1>3, <2>1 DEF InReach
  <2>3. c = s.latest[1] \/ C!Below(s.latest[1], c)
    BY <2>1, CardsOrder
  <2> QED
    BY <1>2, <2>1, <2>2, <2>3, CardsOrder
<1>10. Repeatless(past)
  <2> SUFFICES ASSUME NEW j \in 1..Len(past), NEW k \in 1..Len(past), j < k,
                      past[j].id = past[k].id
               PROVE  FALSE
    BY DEF Repeatless
  <2>1. j \in 1..Len(t) /\ k \in 1..Len(t) /\ past[j] = t[j] /\ past[k] = t[k]
    BY <1>1
  <2>2. t[j] = t[k] /\ C!Below(t[k], t[j])
    BY <1>3, <2>1
  <2> QED
    BY <1>2, <2>1, <2>2, CardsOrder
<1>11. ASSUME NEW j \in 1..Len(items), NEW k \in 1..Len(past), items[j].id = past[k].id
       PROVE  past[k].sort < items[j].sort
  <2>1. k \in 1..Len(t) /\ past[k] = t[k]
    BY <1>1
  <2>2. ~Planned(items[j].id, s)
    BY <1>8, <1>11, <2>1
  <2>3. ~Done(items[j].id, s.items, s.offset)
    <3>1. s.offset \in Nat /\ s.offset <= Len(s.items) /\ Len(s.items) \in Nat
      BY DEF CardCursor, StateHolds
    <3> QED
      BY <2>2, <3>1 DEF Planned, Done
  <2>4. Cleared(items[j], s)
    BY <2>3 DEF Gathered
  <2>5. C!Below(t[k], items[j])
    BY <1>2, <1>9, <2>1, <2>4
  <2> QED
    BY <1>2, <1>11, <2>1, <2>5, CardsOrder
<1>12. Repeatless(items \o past)
  <2>1. Repeatless(items)
    BY DEF Gathered
  <2> QED
    BY <1>10, <1>11, <2>1, CardsGlued
<1>13. ASSUME NEW c \in Card, Cleared(c, s) PROVE Cleared(c, x)
  <2>1. CASE Len(past) = 0
    BY <1>13, <2>1 DEF Cleared
  <2>2. CASE Len(past) # 0
    <3>1. x.latest = <<t[Len(past)]>> /\ Len(past) \in 1..Len(t)
      BY <1>1, <2>2
    <3>2. C!Below(t[Len(past)], c)
      BY <1>9, <1>13, <3>1
    <3>3. ~C!Below(c, t[Len(past)])
      BY <1>2, <3>1, <3>2, CardsOrder
    <3> QED
      BY <3>1, <3>3 DEF Cleared
  <2> QED
    BY <2>1, <2>2
<1>14. ASSUME NEW k \in 1..Len(past) PROVE ~Planned(past[k].id, x) /\ Cleared(past[k], x)
  <2>1. /\ k \in 1..Len(t) /\ past[k] = t[k] /\ Len(past) \in 1..Len(t)
        /\ x.latest = <<t[Len(past)]>> /\ k <= Len(past)
    BY <1>1
  <2>2. t[k] = t[Len(past)] \/ C!Below(t[Len(past)], t[k])
    BY <1>3, <2>1
  <2>3. ~C!Below(t[k], t[Len(past)])
    BY <1>2, <2>1, <2>2, CardsOrder
  <2> QED
    BY <1>5, <1>8, <2>1, <2>3 DEF Cleared
<1>15. \A k \in 1..Len(items \o past) :
         \/ Done((items \o past)[k].id, x.items, x.offset)
         \/ ~Planned((items \o past)[k].id, x) /\ Cleared((items \o past)[k], x)
  <2> SUFFICES ASSUME NEW k \in 1..Len(items \o past)
               PROVE  \/ Done((items \o past)[k].id, x.items, x.offset)
                      \/ ~Planned((items \o past)[k].id, x) /\ Cleared((items \o past)[k], x)
    OBVIOUS
  <2>1. CASE k \in 1..Len(items) /\ (items \o past)[k] = items[k]
    BY <1>2, <1>5, <1>13, <2>1 DEF Gathered
  <2>2. CASE k - Len(items) \in 1..Len(past) /\ (items \o past)[k] = past[k - Len(items)]
    BY <1>14, <2>2
  <2> QED
    BY <2>1, <2>2, CardsGlued
<1>16. ASSUME NEW i \in CardIds, Steady(i, s.basis, w), ~Planned(i, s)
       PROVE  /\ CardOf(i) \in Card
              /\ \/ Has(items \o past, i)
                 \/ \E k \in 1..Len(t) : t[k] = CardOf(i) /\ k > Len(past)
                 \/ Len(t) = n + 1 /\ \A k \in 1..Len(t) : C!Below(CardOf(i), t[k])
  <2>1. Open(i, s)
    BY <1>16, SteadyOpen
  <2>2. CardOf(i) \in Card /\ CardOf(i).id = i
    <3>1. facts[i] \in CardRow
      BY RecommendParts
    <3> QED
      BY <3>1 DEF CardOf, Card, CardRow
  <2>3. CASE Cleared(CardOf(i), s)
    BY <1>4, <1>16, <2>2, <2>3 DEF Gathered
  <2>4. CASE InReach(CardOf(i), s) /\ \E k \in 1..Len(t) : t[k] = CardOf(i)
    <3>1. PICK k \in 1..Len(t) : t[k] = CardOf(i)
      BY <2>4
    <3>2. CASE k \in 1..Len(past)
      BY <1>4, <2>2, <3>1, <3>2 DEF Has
    <3>3. CASE k \notin 1..Len(past)
      BY <1>1, <2>2, <3>1, <3>3
    <3> QED
      BY <3>2, <3>3
  <2>5. CASE InReach(CardOf(i), s) /\ ~\E k \in 1..Len(t) : t[k] = CardOf(i)
    BY <1>3, <2>1, <2>2, <2>5
  <2> QED
    BY <1>6, <2>3, <2>4, <2>5
<1>17. ASSUME NEW i \in CardIds, Steady(i, s.basis, w), ~Planned(i, x), Cleared(CardOf(i), x)
       PROVE  Has(items \o past, i)
  <2>1. CASE Len(past) = 0
    <3>1. Cleared(CardOf(i), s)
      BY <1>17, <2>1 DEF Cleared
    <3> QED
      BY <1>4, <1>5, <1>17, <3>1 DEF Gathered
  <2>2. CASE Len(past) # 0
    <3>1. x.latest = <<t[Len(past)]>> /\ Len(past) \in 1..Len(t)
      BY <1>1, <2>2
    <3>2. ~C!Below(CardOf(i), t[Len(past)])
      BY <1>17, <3>1 DEF Cleared
    <3>3. ASSUME NEW k \in 1..Len(t), t[k] = CardOf(i), k > Len(past) PROVE FALSE
      BY <1>1, <1>3, <3>1, <3>2, <3>3
    <3> QED
      BY <1>5, <1>16, <1>17, <3>1, <3>2, <3>3
  <2> QED
    BY <2>1, <2>2
<1>18. Gathered(items \o past, x, w)
  <2>1. ASSUME NEW i \in CardIds, Steady(i, x.basis, w), Done(i, x.items, x.offset)
        PROVE  Has(items \o past, i)
    BY <1>4, <2>1 DEF Gathered
  <2> QED
    BY <1>12, <1>15, <1>17, <2>1 DEF Gathered
<1>19. ASSUME Len(t) <= n, \A i \in CardIds : Steady(i, s.basis, w) /\ Planned(i, s) => Has(items, i),
              NEW i \in CardIds, Steady(i, s.basis, w)
       PROVE  Has(items \o past, i)
  <2>1. Len(past) = Len(t) /\ Len(t) # n + 1
    BY <1>1, <1>19
  <2>2. CASE Planned(i, s)
    BY <1>4, <1>19, <2>2
  <2>3. CASE ~Planned(i, s)
    <3>1. ~\E k \in 1..Len(t) : t[k] = CardOf(i) /\ k > Len(past)
      BY <1>1, <2>1
    <3> QED
      BY <1>16, <1>19, <2>1, <2>3, <3>1
  <2> QED
    BY <2>2, <2>3
<1> QED
  BY <1>18, <1>19

LEMMA SameWalk ==
  ASSUME NEW w, NEW v, v.signed = w.signed, v.began = w.began, v.started = w.started
  PROVE  /\ \A s : StateHolds(s, v) <=> StateHolds(s, w)
         /\ \A i, b : Steady(i, b, v) <=> Steady(i, b, w)
         /\ \A items, s : Gathered(items, s, v) <=> Gathered(items, s, w)
         /\ \A i, b : Timely(i, b, v) <=> Timely(i, b, w)
<1>1. \A i, b : Steady(i, b, v) <=> Steady(i, b, w)
  BY DEF Steady
<1>2. \A s : StateHolds(s, v) <=> StateHolds(s, w)
  BY DEF StateHolds
<1>3. \A items, s : Gathered(items, s, v) <=> Gathered(items, s, w)
  BY <1>1, Zenon DEF Gathered
<1>4. \A i, b : Timely(i, b, v) <=> Timely(i, b, w)
  BY Zenon DEF Timely
<1> QED
  BY <1>1, <1>2, <1>3, <1>4

(* A page is answered: the walk has shown its items.                       *)
Answerable(items, x, more, b, w) ==
  /\ Len(items) <= PageSize /\ x.basis <= w.began
  /\ \A k \in 1..Len(items) : Timely(items[k].id, b, w)
  /\ Repeatless(w.items \o items)
  /\ more => StateHolds(x, w) /\ Gathered(w.items \o items, x, w)
  /\ ~more => \A i \in CardIds : Steady(i, x.basis, w) => Has(w.items \o items, i)

LEMMA AnswersKeep ==
  ASSUME RecommendInv, NEW x \in CardCursor, NEW items \in Seq(Card), NEW more \in BOOLEAN,
         C!Reply(x, items, more), Answerable(items, x, more, query.began, shown),
         UNCHANGED <<facts, reads, favorites, dislikes, writing, plan, window, changes, feedbacks>>
  PROVE  RecommendInv'
<1>1. PICK w \in ShownWalk, b \in Nat : w = shown /\ b = query.began
  BY RecommendParts
<1>2. w.items \in Seq(Card) /\ w.began \in Nat /\ x.basis \in Nat
  BY DEF ShownWalk, CardCursor
<1>3. PICK shows \in Seq(Card) : shows = w.items \o items
  BY <1>2, CardsGlued
<1>a. PICK over \in BOOLEAN : over = ~more
  BY Zenon
<1>b. PICK basis \in Nat : basis = x.basis
  BY <1>2
<1>4. PICK v \in ShownWalk : v = [w EXCEPT !.items = shows, !.over = over, !.basis = basis]
  BY DEF ShownWalk
<1>5. v.items = shows /\ v.basis = basis /\ v.began = w.began /\ v.started = w.started
  BY <1>4 DEF ShownWalk
<1>6. v.over = over /\ v.signed = w.signed
  BY <1>4, Zenon DEF ShownWalk
<1>7. PICK z \in QueryOf(<<>>) : z = C!Idle /\ z.phase = "idle"
  BY IdleCards
<1>8. PICK y \in QueryOf(<<>>) : y = [z EXCEPT !.items = items, !.began = b]
  BY DEF QueryOf
<1>9. y.items = items /\ y.began = b /\ y.phase = "idle"
  BY <1>7, <1>8 DEF QueryOf
<1>10. PICK c \in CardCursor : c = IF more THEN x ELSE C!NoCursor
  BY IdleCards
<1>11. query' = y /\ token' = c /\ shown' = v
  BY <1>1, <1>3, <1>a, <1>b, <1>4, <1>7, <1>8, <1>10 DEF C!Reply
<1>12. /\ \A s : StateHolds(s, v) <=> StateHolds(s, w)
       /\ \A i, n : Steady(i, n, v) <=> Steady(i, n, w)
       /\ \A t, s : Gathered(t, s, v) <=> Gathered(t, s, w)
       /\ \A i, n : Timely(i, n, v) <=> Timely(i, n, w)
  BY <1>5, <1>6, SameWalk
<1>13. /\ Len(items) <= PageSize /\ x.basis <= w.began
       /\ \A k \in 1..Len(items) : Timely(items[k].id, b, w)
       /\ Repeatless(shows)
       /\ more => StateHolds(x, w) /\ Gathered(shows, x, w)
       /\ ~more => \A i \in CardIds : Steady(i, x.basis, w) => Has(shows, i)
  BY <1>1, <1>3 DEF Answerable
<1>14. QueryHolds(y, v)
  BY <1>9 DEF QueryHolds
<1>15. TokenHolds(c, v)
  BY <1>5, <1>10, <1>12, <1>13 DEF TokenHolds
<1>16. TimelyHolds(y, v)
  BY <1>9, <1>12, <1>13 DEF TimelyHolds
<1>17. OverHolds(v)
  BY <1>a, <1>b, <1>5, <1>6, <1>12, <1>13 DEF OverHolds
<1>18. ShownHolds(y, c, v)
  BY <1>14, <1>15, <1>16, <1>17 DEF ShownHolds
<1>19. /\ y.began <= changes /\ v.began <= changes /\ v.basis <= changes /\ v.started <= window
       /\ Len(y.items) <= PageSize
  <2>1. w.began <= changes /\ w.started <= window /\ b <= changes /\ changes \in Nat
    BY <1>1, RecommendParts
  <2> QED
    BY <1>b, <1>2, <1>5, <1>9, <1>13, <2>1
<1>20. plan' \in PlanOf(plan'.profile) /\ PlanHolds'
  BY RecommendParts DEF PlanHolds, OrderHolds
<1> QED
  BY <1>11, <1>18, <1>19, <1>20, ReaderMoves

LEMMA LesserCount ==
  ASSUME NEW a \in Int, NEW b \in Int
  PROVE  C!Min({a, b}) = IF a <= b THEN a ELSE b
<1>1. \E x \in {a, b} : \A y \in {a, b} : x <= y
  OBVIOUS
<1> QED
  BY <1>1 DEF C!Min

LEMMA FillingUpKeeps ==
  ASSUME RecommendInv, C!FillUp
  PROVE  RecommendInv'
<1>0. PICK p : p = query.profile
  OBVIOUS
<1>1. PICK q \in QueryOf(p), s \in CardCursor, w \in ShownWalk :
        /\ q = query /\ s = q.state /\ w = shown /\ q.phase = "latest"
  BY <1>0, RecommendParts DEF C!FillUp
<1>2. UNCHANGED <<facts, reads, favorites, dislikes, writing, plan, window, changes, feedbacks>>
  BY DEF C!FillUp, C!feedback
<1>3. /\ w.began \in Nat /\ w.started <= window /\ q.items \in Seq(Card) /\ Len(q.items) <= PageSize
      /\ w.items \in Seq(Card) /\ s.latest \in Seq(Card) /\ q.began \in Nat
  BY <1>1, RecommendParts DEF CardCursor
<1>4. /\ StateHolds(s, w) /\ Gathered(w.items \o q.items, s, w)
      /\ ~q.more => \A i \in CardIds : Steady(i, s.basis, w) /\ Planned(i, s)
                                       => Has(w.items \o q.items, i)
  <2>1. QueryHolds(q, w)
    BY <1>1, RecommendParts
  <2> QED
    BY <1>1, <2>1 DEF QueryHolds
<1>5. \A k \in 1..Len(q.items) : Timely(q.items[k].id, q.began, w)
  <2>1. TimelyHolds(q, w)
    BY <1>1, RecommendParts
  <2> QED
    BY <2>1 DEF TimelyHolds
<1>6. s.basis <= w.began /\ s.latestEnd = FALSE
  <2>1. s.latestEnd \in BOOLEAN
    BY Zenon DEF CardCursor
  <2> QED
    BY <1>4, <2>1 DEF StateHolds
<1>7. CASE q.more
  <2>1. C!Reply(s, q.items, q.more)
    BY <1>1, <1>7 DEF C!FillUp
  <2>2. q.more \in BOOLEAN
    BY Zenon DEF QueryOf
  <2>3. Answerable(q.items, s, q.more, q.began, w)
    BY <1>3, <1>4, <1>5, <1>6, <1>7 DEF Answerable, Gathered
  <2> QED
    BY <1>1, <1>2, <1>3, <2>1, <2>2, <2>3, AnswersKeep
<1>8. CASE ~q.more
  <2>1. PICK n \in Nat : n = PageSize - Len(q.items)
    <3>1. Len(q.items) \in Nat
      BY <1>3
    <3>2. PageSize \in Nat
      BY CardBounds
    <3>3. PICK l \in Nat : l = Len(q.items) /\ l <= PageSize
      BY <1>3, <3>1
    <3>4. PageSize - l \in Nat
      BY <3>2, <3>3
    <3> QED
      BY <3>3, <3>4
  <2>2. PICK t : t = C!Latest(s, n + 1)
    OBVIOUS
  <2>3. Finds(t, s, n + 1) /\ t \in Seq(Card) /\ Len(t) \in Nat
    <3>1. Finds(t, s, n + 1)
      BY <2>2, LatestFinds
    <3> QED
      BY <3>1 DEF Finds
  <2>4. PICK m \in Nat : m = C!Min({n, Len(t)}) /\ m = (IF n < Len(t) THEN n ELSE Len(t))
    <3>1. PICK l \in Nat : l = Len(t)
      BY <2>3
    <3>2. C!Min({n, l}) = IF n <= l THEN n ELSE l
      BY LesserCount
    <3>3. PICK m \in Nat : m = IF n < l THEN n ELSE l
      OBVIOUS
    <3>4. C!Min({n, l}) = m
      BY <3>2, <3>3
    <3> QED
      BY <3>1, <3>3, <3>4
  <2>5. m <= n /\ m <= Len(t) /\ \A k \in 1..m : k \in 1..Len(t)
    <3>1. PICK l \in Nat : l = Len(t)
      BY <2>3
    <3>2. m = IF n < l THEN n ELSE l
      BY <2>4, <3>1
    <3>3. m <= n /\ m <= l
      BY <3>2
    <3> QED
      BY <3>1, <3>3
  <2>6. PICK past \in Seq(Card) : /\ past = SubSeq(t, 1, m) /\ Len(past) = m
                                  /\ \A k \in 1..Len(past) : past[k] = t[k]
    <3>1. \A k \in 1..m : t[k] \in Card
      BY <2>3, <2>5, ElementOfSeq
    <3>2. /\ SubSeq(t, 1, m) \in Seq(Card)
          /\ Len(SubSeq(t, 1, m)) = IF 1 <= m THEN m - 1 + 1 ELSE 0
          /\ \A k \in 1..m - 1 + 1 : SubSeq(t, 1, m)[k] = t[1 + k - 1]
      BY <3>1, SubSeqProperties
    <3>3. PICK past \in Seq(Card) : past = SubSeq(t, 1, m)
      BY <3>2
    <3>4. Len(past) = m /\ \A k \in 1..m : past[k] = t[k]
      BY <3>2, <3>3
    <3> QED
      BY <3>3, <3>4
  <2>7. PICK position \in Seq(Card) : position = C!Position(s, t, m)
                                      /\ position = (IF m = 0 THEN s.latest ELSE <<t[m]>>)
    <3>1. CASE m = 0
      BY <1>3, <3>1 DEF C!Position
    <3>2. CASE m # 0
      <4>1. t[m] \in Card
        BY <2>3, <2>5, <3>2, ElementOfSeq
      <4>2. PICK c \in Card : c = t[m]
        BY <4>1
      <4>5. <<c>> \in Seq(Card)
        OBVIOUS
      <4>4. PICK position \in Seq(Card) : position = <<c>>
        BY <4>5, Zenon
      <4>3. C!Position(s, t, m) = <<t[m]>>
        BY <3>2 DEF C!Position
      <4> QED
        BY <3>2, <4>2, <4>3, <4>4
    <3> QED
      BY <3>1, <3>2
  <2>d. PICK end \in BOOLEAN : end = (Len(t) <= n)
    <3>1. (Len(t) <= n) \in BOOLEAN
      OBVIOUS
    <3> QED
      BY <3>1, Zenon
  <2>e. PICK more \in BOOLEAN : more = (Len(t) > n)
    <3>1. (Len(t) > n) \in BOOLEAN
      OBVIOUS
    <3> QED
      BY <3>1, Zenon
  <2>a. end = (Len(t) <= n) /\ (end <=> Len(t) <= n)
    BY <2>d, Zenon
  <2>b. more = (Len(t) > n) /\ (more <=> Len(t) > n)
    BY <2>e, Zenon
  <2>c. PICK degraded \in BOOLEAN : degraded = (s.degraded \/ (m > 0 /\ s.mode = "personalized"))
    BY Zenon
  <2>8. /\ end = (Len(t) <= n) /\ more = (Len(t) > n)
        /\ degraded = (s.degraded \/ (m > 0 /\ s.mode = "personalized"))
    BY <2>a, <2>b, <2>c
  <2>9. PICK x \in CardCursor : x = [s EXCEPT !.latest = position, !.latestEnd = end, !.degraded = degraded]
    BY DEF CardCursor
  <2>10. /\ x.items = s.items /\ x.offset = s.offset /\ x.basis = s.basis /\ x.latest = position
         /\ x.started = s.started
    BY <2>9 DEF CardCursor
  <2>11. x.signed = s.signed /\ x.latestEnd = end
    BY <2>9, Zenon DEF CardCursor
  <2>12. more => ~end
    <3>1. Len(t) > n => ~(Len(t) <= n)
      BY <2>3
    <3> QED
      BY <2>a, <2>b, <3>1, Zenon
  <2>13. more => StateHolds(x, w)
    BY <1>4, <2>10, <2>11, <2>12 DEF StateHolds
  <2>14. w.items \o (q.items \o past) = (w.items \o q.items) \o past
    <3>1. PICK a \in Seq(Card), b \in Seq(Card) : a = w.items /\ b = q.items
      BY <1>3
    <3>2. (a \o b) \o past = a \o (b \o past)
      BY ConcatAssociative, SMTT(30)
    <3> QED
      BY <3>1, <3>2
  <2>15. w.items \o q.items \in Seq(Card) /\ q.items \o past \in Seq(Card)
    BY <1>3, CardsGlued
  <2>16. /\ Gathered((w.items \o q.items) \o past, x, w)
         /\ Len(t) <= n => \A i \in CardIds : Steady(i, s.basis, w) => Has((w.items \o q.items) \o past, i)
    <3>1. PICK shows \in Seq(Card) : shows = w.items \o q.items
      BY <2>15
    <3>2. Gathered(shows, s, w)
      BY <1>4, <3>1
    <3>3. \A i \in CardIds : Steady(i, s.basis, w) /\ Planned(i, s) => Has(shows, i)
      BY <1>4, <1>8, <3>1
    <3>4. Len(past) = IF n < Len(t) THEN n ELSE Len(t)
      BY <2>4, <2>6
    <3>5. x.latest = IF Len(past) = 0 THEN s.latest ELSE <<t[Len(past)]>>
      BY <2>6, <2>7, <2>10
    <3>6. /\ Gathered(shows \o past, x, w)
          /\ Len(t) <= n => \A i \in CardIds : Steady(i, s.basis, w) => Has(shows \o past, i)
      BY <1>3, <1>4, <2>3, <2>6, <2>10, <3>2, <3>3, <3>4, <3>5, LatestShown
    <3> QED
      BY <3>1, <3>6
  <2>17. \A k \in 1..Len(past) : Timely(past[k].id, q.began, w)
    <3> SUFFICES ASSUME NEW k \in 1..Len(past) PROVE Timely(past[k].id, q.began, w)
      OBVIOUS
    <3>1. k \in 1..Len(t) /\ past[k] = t[k]
      BY <2>5, <2>6
    <3>2. Open(t[k].id, s) /\ t[k].id \in CardIds
      <4>1. t[k] \in Card
        BY <2>3, <3>1, ElementOfSeq
      <4> QED
        BY <2>3, <3>1, <4>1 DEF Finds, Card
    <3>3. s.signed = w.signed
      BY <1>4 DEF StateHolds
    <3> QED
      BY <3>1, <3>2, <3>3, OpenTimely
  <2>18. PICK r \in Seq(Card) : r = q.items \o past
    BY <2>15
  <2>19. Len(r) = Len(q.items) + m /\ \A k \in 1..Len(r) : Timely(r[k].id, q.began, w)
    <3>1. /\ Len(q.items \o past) = Len(q.items) + Len(past)
          /\ \A k \in 1..Len(q.items \o past) :
               \/ k \in 1..Len(q.items) /\ (q.items \o past)[k] = q.items[k]
               \/ k - Len(q.items) \in 1..Len(past) /\ (q.items \o past)[k] = past[k - Len(q.items)]
      BY <1>3, CardsGlued
    <3>2. Len(r) = Len(q.items) + m
      BY <2>6, <2>18, <3>1
    <3>3. \A k \in 1..Len(r) : \/ k \in 1..Len(q.items) /\ r[k] = q.items[k]
                               \/ k - Len(q.items) \in 1..Len(past) /\ r[k] = past[k - Len(q.items)]
      BY <2>18, <3>1
    <3> QED
      BY <1>5, <2>17, <3>2, <3>3
  <2>20. Len(r) <= PageSize
    BY <1>3, <2>1, <2>5, <2>19, CardBounds
  <2>21. Answerable(r, x, more, q.began, w)
    <3>1. /\ Repeatless(w.items \o r) /\ Gathered(w.items \o r, x, w)
          /\ Len(t) <= n => \A i \in CardIds : Steady(i, x.basis, w) => Has(w.items \o r, i)
      BY <2>10, <2>14, <2>16, <2>18 DEF Gathered
    <3>2. ~more => Len(t) <= n
      <4>1. ~(Len(t) > n) => Len(t) <= n
        BY <2>3
      <4> QED
        BY <2>b, <4>1, Zenon
    <3> QED
      BY <1>6, <2>10, <2>13, <2>19, <2>20, <3>1, <3>2 DEF Answerable
  <2>22. C!Reply(x, r, more)
    <3>1. C!Reply([s EXCEPT !.latest = C!Position(s, t, m), !.latestEnd = Len(t) <= n,
                            !.degraded = s.degraded \/ (m > 0 /\ s.mode = "personalized")],
                  q.items \o SubSeq(t, 1, m), Len(t) > n)
      BY <1>1, <1>6, <1>8, <2>1, <2>2, <2>4 DEF C!FillUp
    <3> QED
      BY <2>6, <2>7, <2>8, <2>9, <2>18, <3>1
  <2> QED
    BY <1>1, <1>2, <2>21, <2>22, AnswersKeep
<1> QED
  BY <1>7, <1>8

LEMMA RecommendStep == RecommendInv /\ [C!Next]_C!vars => RecommendInv'
<1> SUFFICES ASSUME RecommendInv, [C!Next]_C!vars PROVE RecommendInv'
  OBVIOUS
<1>1. ASSUME NEW i \in CardIds, C!Toggle(i) \/ C!Reselect(i) \/ \E s \in CardSorts : C!Resort(i, s)
      PROVE  RecommendInv'
  BY <1>1, CardChanges
<1>2. CASE C!Cancel \/ \E i \in CardIds, kind \in FeedbackKinds : C!LockArticle(i, kind)
  BY <1>2, KindsKnown, LockingKeeps
<1>3. ASSUME NEW signed \in BOOLEAN, C!First(signed) \/ C!Continue(signed) PROVE RecommendInv'
  BY <1>3, OpeningKeeps, TurningKeeps
<1>4. CASE C!Next
  BY <1>1, <1>2, <1>3, <1>4, WindowKeeps, FeedbackKeeps, CleaningKeeps, RecallingKeeps, RankingKeeps,
     FactsKeep, FillingKeeps, FillingUpKeeps, FailingKeeps DEF C!Next
<1>5. CASE UNCHANGED C!vars
  <2>1. UNCHANGED <<facts, reads, favorites, dislikes, writing, plan, query, token, shown, window,
                    changes, feedbacks>>
    BY <1>5 DEF C!vars, C!feedback, C!reading
  <2>2. WorldTypes'
    BY <2>1 DEF RecommendInv, WorldTypes
  <2>3. changes <= changes' /\ window <= window'
    BY <2>1, RecommendParts
  <2> QED
    BY <2>1, <2>2, <2>3, WorldKeeps
<1> QED
  BY <1>4, <1>5

LEMMA RecommendHolds == AllSpec => []RecommendInv
<1>1. AllInit => RecommendInv
  BY RecommendInit DEF AllInit
<1>2. RecommendInv /\ [AllNext]_all => RecommendInv'
  <2>1. [AllNext]_all => [C!Next]_C!vars
    BY DEF AllNext, all, recommending, C!vars, C!feedback, C!reading
  <2> QED
    BY <2>1, RecommendStep
<1> QED
  BY <1>1, <1>2, PTL DEF AllSpec

(* A walk through recommendations shows no article twice unless it was      *)
(* sorted anew, nothing withdrawn or dismissed before the request, and, at  *)
(* the end, every article it could show all along: for every set of         *)
(* articles and of answers of the index, every profile and cached plan,     *)
(* page size, lifetime and bound.  (page.)                                  *)
THEOREM RecommendWalkHolds == AllSpec => []RecommendWalk
<1>1. RecommendInv => RecommendWalk
  <2> SUFFICES ASSUME RecommendInv PROVE RecommendWalk
    OBVIOUS
  <2>1. /\ query.items \in Seq(Card) /\ shown.items \in Seq(Card)
        /\ OverHolds(shown) /\ TimelyHolds(query, shown)
    BY RecommendParts
  <2>2. DOMAIN query.items = 1..Len(query.items) /\ DOMAIN shown.items = 1..Len(shown.items)
    BY <2>1
  <2>3. C!NoRepeat
    BY <2>1, <2>2 DEF C!NoRepeat, OverHolds, Repeatless
  <2>4. C!OldNewsStaysHidden
    <3>1. \A i : i \in C!Excluded(CardIds) => dislikes[i].row /\ dislikes[i].expires > window
      BY DEF C!Excluded
    <3> QED
      BY <2>1, <2>2, <3>1 DEF C!OldNewsStaysHidden, TimelyHolds, Timely
  <2>5. C!WalkShowsAll
    <3> SUFFICES ASSUME shown.over, NEW i \in CardIds, Steady(i, shown.basis, shown)
                 PROVE  \E k \in DOMAIN shown.items : shown.items[k].id = i
      BY DEF C!WalkShowsAll, Steady
    <3>1. Has(shown.items, i)
      BY <2>1 DEF OverHolds
    <3> QED
      BY <2>2, <3>1 DEF Has
  <2> QED
    BY <2>3, <2>4, <2>5 DEF RecommendWalk
<1> QED
  BY <1>1, RecommendHolds, PTL

LEMMA CardTypesOK == AllSpec => []C!TypeOK
<1>1. RecommendInv => C!TypeOK
  <2> SUFFICES ASSUME RecommendInv PROVE C!TypeOK
    OBVIOUS
  <2>1. WorldTypes /\ query \in QueryOf(query.profile) /\ plan \in PlanOf(plan.profile)
        /\ token \in CardCursor /\ TokenHolds(token, shown) /\ Len(query.items) <= PageSize
    BY RecommendParts DEF RecommendInv
  <2>2. facts \in [CardIds -> [public : BOOLEAN, sort : CardSorts, vector : Nat,
                               first : 0..MaxWindow + 1, mark : Nat]]
    BY <2>1 DEF WorldTypes, CardRow
  <2>3. dislikes \in [CardIds -> [row : BOOLEAN, expires : 0..MaxWindow + DislikeTTL, mark : Nat]]
    BY <2>1 DEF WorldTypes, Mark
  <2>4. /\ reads \subseteq [article : CardIds, window : 0..MaxWindow] /\ favorites \subseteq CardIds
        /\ writing = C!NoTx \/ writing \in [article : CardIds, kind : C!Kinds, at : 0..MaxWindow]
        /\ window \in 0..MaxWindow /\ feedbacks \in 0..MaxFeedback
    BY <2>1 DEF WorldTypes
  <2>5. changes \in 0..MaxChanges + MaxFeedback
    <3>1. /\ changes \in Nat /\ feedbacks \in 0..MaxFeedback /\ changes - feedbacks \in 0..MaxChanges
          /\ MaxChanges \in Nat /\ MaxFeedback \in Nat
      BY <2>1, CardBounds DEF WorldTypes
    <3> QED
      BY <3>1
  <2>6. plan.original \subseteq CardIds /\ plan.excluded \subseteq CardIds
    BY <2>1 DEF PlanOf
  <2>7. query.phase \in {"idle", "recall", "rank", "facts", "exclusions", "latest"}
    BY <2>1 DEF QueryOf
  <2>8. token.mode \in C!Modes \cup {"none"}
    BY <2>1 DEF CardCursor
  <2>9. token.offset \in 0..Len(token.items)
    <3>1. token.offset \in Nat /\ Len(token.items) \in Nat
      BY <2>1 DEF CardCursor
    <3>2. CASE token = C!NoCursor
      BY <3>1, <3>2, IdleCards
    <3>3. CASE token # C!NoCursor
      BY <2>1, <3>1, <3>3 DEF TokenHolds, StateHolds
    <3> QED
      BY <3>2, <3>3
  <2> QED
    BY <2>1, <2>2, <2>3, <2>4, <2>5, <2>6, <2>7, <2>8, <2>9 DEF C!TypeOK
<1> QED
  BY <1>1, RecommendHolds, PTL

(* The state of the latest list, of the search and of recommendations is    *)
(* of its types throughout, for every value of the constants.               *)
THEOREM ReaderTypesHold == AllSpec => []AllTypesOK
<1>1. R!TypeOK /\ S!TypeOK /\ C!TypeOK => AllTypesOK
  BY DEF AllTypesOK
<1> QED
  BY <1>1, ListTypesOK, SearchTypesOK, CardTypesOK, PTL
=============================================================================
