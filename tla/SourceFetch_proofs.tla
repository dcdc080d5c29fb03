--------------------------- MODULE SourceFetch_proofs ---------------------------
(***************************************************************************)
(* Proofs about SourceFetch, for every set of sources and keys and every   *)
(* bound.  The argument rests on the lease generation: the newest one is    *)
(* the only one that can be held, its run is the newest of its source, and *)
(* no run but that one is settled, once, by the fetch that drew it.         *)
(***************************************************************************)
EXTENDS SourceFetch, FiniteSetTheorems, TLAPS

-----------------------------------------------------------------------------
(* The parts of the inductive invariant.                                   *)

(* Only the newest generation is held, and each counts for one failure.    *)
Leases ==
  \A s \in Sources :
    /\ sources[s].lease \in {0, sources[s].gen}
    /\ sources[s].failures <= sources[s].gen
    /\ sources[s].lease # 0 => sources[s].failures < sources[s].gen

(* A generation has one run, which runs while the generation is held.      *)
RunsDistinct == \A r, q \in runs : r.source = q.source /\ r.gen = q.gen => r = q

RunsDrawn ==
  \A r \in runs :
    /\ r.gen <= sources[r.source].gen
    /\ sources[r.source].lease = r.gen => r.status = "running"

Drawn(w) == w.phase \in {"claimed", "fetching"}

RunOf(w) == {r \in runs : r.source = w.source /\ r.gen = w.gen}

(* A fetch has drawn its own generation; while it holds it, the failures it *)
(* has read are still those of the source.                                 *)
WorkersDrawn ==
  /\ \A w \in workers :
       /\ Drawn(w) => 1 <= w.gen /\ w.gen <= sources[w.source].gen
       /\ w.phase = "claimed" => RunOf(w) = {}
       /\ w.phase = "fetching" => \E r \in RunOf(w) : r.trigger = w.trigger
       /\ Drawn(w) /\ sources[w.source].lease = w.gen => w.failures = sources[w.source].failures
  /\ \A v, w \in workers : Drawn(v) /\ Drawn(w) /\ v.source = w.source /\ v.gen = w.gen => v = w

Of(x, k, s) == x.source = s /\ x.trigger = k

(* A key has one fetch under way or one run, and none before it is given.  *)
KeyOnce ==
  \A k \in Keys, s \in Sources :
    /\ \A r, q \in runs : Of(r, k, s) /\ Of(q, k, s) => r = q
    /\ \A v, w \in workers : Of(v, k, s) /\ Of(w, k, s) => v = w
    /\ \A w \in workers, r \in runs : Of(w, k, s) /\ w.phase # "fetching" => ~Of(r, k, s)
    /\ ops[k][s].status = "none" => /\ \A w \in workers : ~Of(w, k, s)
                                    /\ \A r \in runs : ~Of(r, k, s)

(* The key and its run succeed together.                                   *)
KeyWithRun ==
  \A k \in Keys, s \in Sources :
    /\ \A r \in runs : Of(r, k, s) /\ r.status = "succeeded" =>
         ops[k][s].status = "succeeded" /\ ops[k][s].run = r.gen
    /\ ops[k][s].status = "succeeded" => \E r \in runs : Of(r, k, s) /\ r.status = "succeeded"

(* A generation that was taken back is not held again.                     *)
CutGone ==
  \A s \in Sources, g \in Gens : <<s, g>> \in cut => g <= sources[s].gen /\ sources[s].lease # g

IInv ==
  /\ TypeOK /\ Leases /\ RunsDistinct /\ RunsDrawn /\ WorkersDrawn /\ KeyOnce /\ KeyWithRun
  /\ CutGone /\ CutNeverSaves /\ FailuresAreRuns

-----------------------------------------------------------------------------
(* The operators.                                                          *)

LEMMA StateTypes ==
  ASSUME SourceFetchAssumption, TypeOK
  PROVE  /\ MaxGen \in Nat /\ MaxFaults \in Nat /\ MaxVersion \in Nat /\ DegradeAt \in Nat
         /\ \A s \in Sources : /\ sources[s] \in Source /\ sources[s].gen \in Nat
                               /\ sources[s].lease \in Nat /\ sources[s].failures \in Nat
         /\ \A r \in runs : /\ r \in Run /\ r.source \in Sources /\ r.gen \in Nat /\ r.gen >= 1
                            /\ r.trigger \in Triggers
         /\ \A w \in workers : /\ w \in Worker /\ w.source \in Sources /\ w.gen \in Nat
                               /\ w.failures \in Nat /\ w.trigger \in Triggers
  <1>1. MaxGen \in Nat /\ MaxFaults \in Nat /\ MaxVersion \in Nat /\ DegradeAt \in Nat
    BY DEF SourceFetchAssumption
  <1>2. \A s \in Sources : /\ sources[s] \in Source /\ sources[s].gen \in Nat
                           /\ sources[s].lease \in Nat /\ sources[s].failures \in Nat
    BY <1>1 DEF TypeOK, Source
  <1>3. \A r \in runs : /\ r \in Run /\ r.source \in Sources /\ r.gen \in Nat /\ r.gen >= 1
                        /\ r.trigger \in Triggers
    BY <1>1 DEF TypeOK, Run, Gens
  <1>4. \A w \in workers : /\ w \in Worker /\ w.source \in Sources /\ w.gen \in Nat
                           /\ w.failures \in Nat /\ w.trigger \in Triggers
    BY <1>1 DEF TypeOK, Worker
  <1> QED BY <1>1, <1>2, <1>3, <1>4

(* The runs of a source are as many as their generations.                  *)
LEMMA FailedFinite ==
  ASSUME SourceFetchAssumption, IInv, NEW s \in Sources
  PROVE  IsFiniteSet(FailedSinceSuccess(s))
  <1> DEFINE f == [r \in FailedSinceSuccess(s) |-> r.gen]
  <1>1. \A r \in FailedSinceSuccess(s) : r \in runs /\ r.source = s /\ r.gen \in 1..MaxGen
    BY DEF FailedSinceSuccess, RunsOf, IInv, TypeOK, Run, Gens
  <1>2. f \in [FailedSinceSuccess(s) -> 1..MaxGen]
    BY <1>1
  <1>3. \A r, q \in FailedSinceSuccess(s) : f[r] = f[q] => r = q
    BY <1>1 DEF IInv, RunsDistinct
  <1>4. f \in Injection(FailedSinceSuccess(s), 1..MaxGen)
    BY <1>2, <1>3 DEF Injection, IsInjective
  <1>5. MaxGen \in Nat
    BY DEF SourceFetchAssumption
  <1>6. IsFiniteSet(1..MaxGen)
    BY <1>5, FS_Interval
  <1> QED BY <1>4, <1>6, FS_Injection

-----------------------------------------------------------------------------
(* Every step keeps the invariant.                                         *)

(* A write of a source that leaves its lease, generation and failures.     *)
LEMMA TouchKeeps ==
  ASSUME SourceFetchAssumption, IInv, NEW s \in Sources, NEW x \in Source,
         sources' = [sources EXCEPT ![s] = x],
         x.lease = sources[s].lease, x.gen = sources[s].gen, x.failures = sources[s].failures,
         UNCHANGED <<runs, ops, workers, cut, faults>>
  PROVE  IInv'
  <1>1. \A y \in Sources : /\ sources'[y].lease = sources[y].lease /\ sources'[y].gen = sources[y].gen
                           /\ sources'[y].failures = sources[y].failures
    BY DEF IInv, TypeOK
  <1>2. TypeOK'
    BY DEF IInv, TypeOK
  <1>3. Leases' /\ RunsDistinct' /\ RunsDrawn'
    BY <1>1, StateTypes DEF IInv, Leases, RunsDistinct, RunsDrawn
  <1>4. WorkersDrawn'
    BY <1>1, StateTypes DEF IInv, WorkersDrawn, Drawn, RunOf
  <1>5. KeyOnce' /\ KeyWithRun'
    BY DEF IInv, KeyOnce, KeyWithRun, Of
  <1>6. CutGone' /\ CutNeverSaves'
    BY <1>1 DEF IInv, CutGone, CutNeverSaves
  <1>7. FailuresAreRuns'
    <2>1. \A y \in Sources : FailedSinceSuccess(y)' = FailedSinceSuccess(y)
      BY DEF FailedSinceSuccess, RunsOf
    <2> QED BY <1>1, <2>1 DEF IInv, FailuresAreRuns
  <1> QED BY <1>2, <1>3, <1>4, <1>5, <1>6, <1>7 DEF IInv

LEMMA TouchesKeep ==
  ASSUME SourceFetchAssumption, IInv, NEW s \in Sources,
         Add(s) \/ SetFetchInterval(s) \/ ComeDue(s) \/ Expire(s)
  PROVE  IInv'
  <1>1. sources[s] \in Source /\ UNCHANGED <<runs, ops, workers, cut, faults>>
    BY StateTypes DEF IInv, Add, SetFetchInterval, ComeDue, Expire
  <1>2. ASSUME NEW x \in Source, sources' = [sources EXCEPT ![s] = x],
               x.lease = sources[s].lease, x.gen = sources[s].gen, x.failures = sources[s].failures
        PROVE  IInv'
    BY <1>1, <1>2, TouchKeeps
  <1>3. CASE Add(s)
    <2> DEFINE x == [sources[s] EXCEPT !.status = "active", !.due = TRUE, !.version = 1]
    <2>1. 1 \in 0..MaxVersion
      BY DEF SourceFetchAssumption
    <2>2. /\ x \in Source
          /\ x.lease = sources[s].lease /\ x.gen = sources[s].gen /\ x.failures = sources[s].failures
      BY <1>1, <2>1 DEF Source, Statuses
    <2>3. sources' = [sources EXCEPT ![s] = x]
      BY <1>3 DEF Add, IInv, TypeOK
    <2> HIDE DEF x
    <2> QED BY <1>2, <2>2, <2>3
  <1>4. CASE SetFetchInterval(s)
    <2>1. PICK k \in 0..MaxVersion : k = sources[s].version + 1
      BY <1>1, <1>4, StateTypes DEF SetFetchInterval, Source, IInv
    <2> DEFINE x == [sources[s] EXCEPT !.version = k]
    <2>2. /\ x \in Source
          /\ x.lease = sources[s].lease /\ x.gen = sources[s].gen /\ x.failures = sources[s].failures
      BY <1>1 DEF Source
    <2>3. sources' = [sources EXCEPT ![s] = x]
      BY <1>4, <2>1 DEF SetFetchInterval, IInv, TypeOK
    <2> HIDE DEF x
    <2> QED BY <1>2, <2>2, <2>3
  <1>5. CASE ComeDue(s)
    <2> DEFINE x == [sources[s] EXCEPT !.due = TRUE]
    <2>1. /\ x \in Source
          /\ x.lease = sources[s].lease /\ x.gen = sources[s].gen /\ x.failures = sources[s].failures
      BY <1>1 DEF Source
    <2>2. sources' = [sources EXCEPT ![s] = x]
      BY <1>5 DEF ComeDue, IInv, TypeOK
    <2> HIDE DEF x
    <2> QED BY <1>2, <2>1, <2>2
  <1>6. CASE Expire(s)
    <2> DEFINE x == [sources[s] EXCEPT !.expired = TRUE]
    <2>1. /\ x \in Source
          /\ x.lease = sources[s].lease /\ x.gen = sources[s].gen /\ x.failures = sources[s].failures
      BY <1>1 DEF Source
    <2>2. sources' = [sources EXCEPT ![s] = x]
      BY <1>6 DEF Expire, IInv, TypeOK
    <2> HIDE DEF x
    <2> QED BY <1>2, <2>1, <2>2
  <1> QED BY <1>3, <1>4, <1>5, <1>6

LEMMA TakeBackKeeps ==
  ASSUME SourceFetchAssumption, IInv, NEW s \in Sources, Pause(s) \/ Resume(s)
  PROVE  IInv'
  <1>1. sources[s] \in Source /\ UNCHANGED <<runs, ops, workers, faults>>
    BY StateTypes DEF IInv, Pause, Resume, TakeBack
  <1>2. PICK status \in Statuses : \E due \in BOOLEAN : TakeBack(s, status, due)
    BY <1>1 DEF Pause, Resume, Statuses, Source
  <1>3. PICK due \in BOOLEAN : TakeBack(s, status, due)
    BY <1>2
  <1>4. PICK k \in 0..MaxVersion : k = sources[s].version + 1
    BY <1>1, <1>3, StateTypes DEF TakeBack, Source, IInv
  <1> DEFINE x == [sources[s] EXCEPT !.status = status, !.due = due, !.lease = 0,
                                     !.expired = FALSE, !.version = k]
  <1>5. x \in Source /\ x.lease = 0 /\ x.gen = sources[s].gen /\ x.failures = sources[s].failures
    <2>1. 0 \in 0..MaxGen
      BY StateTypes DEF IInv
    <2> QED BY <1>1, <2>1 DEF Source
  <1>6. sources' = [sources EXCEPT ![s] = x]
    BY <1>3, <1>4 DEF TakeBack, IInv, TypeOK
  <1> HIDE DEF x
  <1>7. \A y \in Sources : sources'[y] = IF y = s THEN x ELSE sources[y]
    BY <1>6 DEF IInv, TypeOK
  <1>8. /\ cut' = IF sources[s].lease = 0 THEN cut ELSE cut \cup {<<s, sources[s].lease>>}
        /\ sources[s].lease \in 0..MaxGen /\ sources[s].lease \in {0, sources[s].gen}
    BY <1>1, <1>3 DEF TakeBack, IInv, Leases, Source
  <1>9. TypeOK'
    <2>1. cut' \subseteq Sources \X Gens
      BY <1>8, StateTypes DEF IInv, TypeOK, Gens
    <2> QED BY <1>1, <1>5, <1>6, <2>1 DEF IInv, TypeOK
  <1>10. Leases' /\ RunsDistinct' /\ RunsDrawn'
    BY <1>1, <1>5, <1>7, StateTypes DEF IInv, Leases, RunsDistinct, RunsDrawn
  <1>11. WorkersDrawn'
    BY <1>1, <1>5, <1>7, StateTypes DEF IInv, WorkersDrawn, Drawn, RunOf
  <1>12. KeyOnce' /\ KeyWithRun'
    BY <1>1 DEF IInv, KeyOnce, KeyWithRun, Of
  <1>13. CutGone'
    <2> SUFFICES ASSUME NEW y \in Sources, NEW g \in Gens, <<y, g>> \in cut'
                 PROVE  g <= sources'[y].gen /\ sources'[y].lease # g
      BY DEF CutGone
    <2>1. g # 0
      BY DEF Gens
    <2>2. CASE <<y, g>> \in cut
      BY <1>5, <1>7, <2>1, <2>2 DEF IInv, CutGone
    <2>3. CASE y = s /\ g = sources[s].lease
      BY <1>5, <1>7, <1>8, <2>1, <2>3, StateTypes DEF IInv
    <2> QED BY <1>8, <2>2, <2>3
  <1>14. CutNeverSaves'
    BY <1>1, <1>8, StateTypes DEF IInv, CutNeverSaves, RunsDrawn
  <1>15. FailuresAreRuns'
    BY <1>1, <1>5, <1>7 DEF IInv, FailuresAreRuns, FailedSinceSuccess, RunsOf
  <1> QED BY <1>9, <1>10, <1>11, <1>12, <1>13, <1>14, <1>15 DEF IInv

LEMMA ClaimKeeps ==
  ASSUME SourceFetchAssumption, IInv, NEW s \in Sources, NEW trigger \in Triggers, DrawLease(s),
         NEW gone \in SUBSET workers, workers' = (workers \ gone) \cup {Claimed(s, trigger)},
         trigger \in Keys => \E w \in gone : Of(w, trigger, s) /\ w.phase = "reserved",
         UNCHANGED <<runs, ops, cut, faults>>
  PROVE  IInv'
  <1>1. /\ sources[s] \in Source /\ sources[s].gen \in Nat
        /\ sources[s].failures \in 0..MaxGen /\ MaxGen \in Nat
    BY StateTypes DEF IInv, Source
  <1>2. PICK g \in 1..MaxGen : g = sources[s].gen + 1
    BY <1>1 DEF DrawLease, Source
  <1>17. PICK f \in 0..MaxGen : f = sources[s].failures
    BY <1>1
  <1> DEFINE x == [sources[s] EXCEPT !.gen = g, !.lease = g, !.expired = FALSE]
             c == [source |-> s, gen |-> g, trigger |-> trigger, failures |-> f, phase |-> "claimed"]
  <1>3. x \in Source /\ x.lease = g /\ x.gen = g /\ x.failures = sources[s].failures
    <2>1. g \in 0..MaxGen
      BY <1>1
    <2> QED BY <1>1, <2>1 DEF Source
  <1>4. sources' = [sources EXCEPT ![s] = x]
    BY <1>2 DEF DrawLease, IInv, TypeOK
  <1>5. workers' = (workers \ gone) \cup {c}
    BY <1>2, <1>17 DEF Claimed
  <1>6. /\ c \in Worker /\ c.source = s /\ c.gen = g /\ c.trigger = trigger
        /\ c.failures = sources[s].failures /\ c.phase = "claimed"
    BY <1>1, <1>17 DEF Worker
  <1> HIDE DEF x, c
  <1>7. \A y \in Sources : sources'[y] = IF y = s THEN x ELSE sources[y]
    BY <1>4 DEF IInv, TypeOK
  <1>8. /\ \A r \in runs : r.source = s => r.gen < g
        /\ \A w \in workers : Drawn(w) /\ w.source = s => w.gen < g
        /\ \A h \in Gens : <<s, h>> \in cut => h < g
    BY <1>1, <1>2, StateTypes DEF IInv, RunsDrawn, WorkersDrawn, CutGone, Gens
  <1>9. TypeOK'
    BY <1>3, <1>4, <1>5, <1>6 DEF IInv, TypeOK
  <1>10. Leases'
    <2>1. sources[s].failures <= sources[s].gen /\ sources[s].failures \in Nat
      BY StateTypes DEF IInv, Leases
    <2>2. x.failures <= x.gen /\ x.failures < x.gen
      BY <1>1, <1>2, <1>3, <2>1
    <2> QED BY <1>3, <1>7, <2>2 DEF IInv, Leases
  <1>11. RunsDistinct' /\ RunsDrawn'
    BY <1>2, <1>3, <1>7, <1>8, StateTypes DEF IInv, RunsDistinct, RunsDrawn
  <1>12. WorkersDrawn'
    <2>1. RunOf(c) = {}
      BY <1>6, <1>8, StateTypes DEF RunOf, IInv
    <2>2. \A w \in workers : /\ w.source = s /\ Drawn(w) => w.gen # g /\ w.gen < g /\ w.gen \in Nat
                             /\ RunOf(w)' = RunOf(w)
      BY <1>8, StateTypes DEF RunOf, IInv
    <2>3. \A w \in workers' : w = c \/ w \in workers
      BY <1>5
    <2>4. ASSUME NEW w \in workers'
          PROVE  /\ Drawn(w) => 1 <= w.gen /\ w.gen <= sources'[w.source].gen
                 /\ w.phase = "claimed" => RunOf(w)' = {}
                 /\ w.phase = "fetching" => \E r \in RunOf(w)' : r.trigger = w.trigger
                 /\ Drawn(w) /\ sources'[w.source].lease = w.gen => w.failures = sources'[w.source].failures
      <3>1. CASE w = c
        <4>1. RunOf(c)' = {}
          BY <2>1 DEF RunOf
        <4> QED BY <1>2, <1>3, <1>6, <1>7, <3>1, <4>1 DEF Drawn
      <3>2. CASE w \in workers
        BY <1>2, <1>3, <1>7, <2>2, <3>2, StateTypes DEF IInv, WorkersDrawn
      <3> QED BY <2>3, <3>1, <3>2
    <2>5. \A v, w \in workers' : Drawn(v) /\ Drawn(w) /\ v.source = w.source /\ v.gen = w.gen => v = w
      BY <1>6, <2>2, <2>3 DEF IInv, WorkersDrawn
    <2> QED BY <2>4, <2>5 DEF WorkersDrawn
  <1>13. KeyOnce'
    <2>1. \A w \in workers : trigger \in Keys /\ Of(w, trigger, s) => w \in gone /\ w.phase = "reserved"
      BY DEF IInv, KeyOnce
    <2>2. \A k \in Keys, y \in Sources : Of(c, k, y) => k = trigger /\ y = s
      BY <1>6 DEF Of
    <2>3. \A w \in workers' : w = c \/ (w \in workers /\ w \notin gone)
      BY <1>5
    <2>4. trigger \in Keys => \A r \in runs : ~Of(r, trigger, s)
      BY DEF IInv, KeyOnce
    <2>5. trigger \in Keys => ops[trigger][s].status # "none"
      BY DEF IInv, KeyOnce
    <2> QED BY <2>1, <2>2, <2>3, <2>4, <2>5 DEF IInv, KeyOnce
  <1>14. KeyWithRun' /\ CutNeverSaves'
    BY DEF IInv, KeyWithRun, Of, CutNeverSaves
  <1>15. CutGone'
    BY <1>3, <1>7, <1>8, <1>2 DEF IInv, CutGone, Gens
  <1>16. FailuresAreRuns'
    <2>1. \A y \in Sources : FailedSinceSuccess(y)' = FailedSinceSuccess(y)
      BY DEF FailedSinceSuccess, RunsOf
    <2> QED BY <1>3, <1>7, <2>1 DEF IInv, FailuresAreRuns
  <1> QED BY <1>9, <1>10, <1>11, <1>12, <1>13, <1>14, <1>15, <1>16 DEF IInv

LEMMA ReserveKeeps ==
  ASSUME SourceFetchAssumption, IInv, NEW k \in Keys, NEW s \in Sources, Reserve(k, s)
  PROVE  IInv'
  <1> DEFINE w == [source |-> s, gen |-> 0, trigger |-> k, failures |-> 0, phase |-> "reserved"]
  <1>1. /\ ops' = [ops EXCEPT ![k][s].status = "pending"] /\ workers' = workers \cup {w}
        /\ ops[k][s].status = "none" /\ UNCHANGED <<sources, runs, cut, faults>>
    BY DEF Reserve
  <1>2. w \in Worker /\ w.source = s /\ w.trigger = k /\ w.phase = "reserved"
    BY StateTypes DEF IInv, Worker, Triggers
  <1> HIDE DEF w
  <1>3. /\ ops' \in [Keys -> [Sources -> Op]]
        /\ \A j \in Keys, y \in Sources :
             ops'[j][y].status = IF j = k /\ y = s THEN "pending" ELSE ops[j][y].status
        /\ \A j \in Keys, y \in Sources : ops'[j][y].run = ops[j][y].run
    BY <1>1 DEF IInv, TypeOK, Op
  <1>4. TypeOK'
    BY <1>1, <1>2, <1>3 DEF IInv, TypeOK
  <1>5. Leases' /\ RunsDistinct' /\ RunsDrawn' /\ CutGone' /\ CutNeverSaves'
    BY <1>1 DEF IInv, Leases, RunsDistinct, RunsDrawn, CutGone, CutNeverSaves
  <1>6. WorkersDrawn'
    BY <1>1, <1>2 DEF IInv, WorkersDrawn, Drawn, RunOf
  <1>7. KeyOnce'
    BY <1>1, <1>2, <1>3 DEF IInv, KeyOnce, Of
  <1>8. KeyWithRun'
    BY <1>1, <1>3 DEF IInv, KeyWithRun, Of
  <1>9. FailuresAreRuns'
    <2>1. \A y \in Sources : FailedSinceSuccess(y)' = FailedSinceSuccess(y)
      BY <1>1 DEF FailedSinceSuccess, RunsOf
    <2> QED BY <1>1, <2>1 DEF IInv, FailuresAreRuns
  <1> QED BY <1>4, <1>5, <1>6, <1>7, <1>8, <1>9 DEF IInv

(* A fetch that ends and leaves nothing: a refused claim or start, a save  *)
(* whose lease is lost, a crash.                                           *)
LEMMA GoneKeeps ==
  ASSUME SourceFetchAssumption, IInv, workers' \subseteq workers, faults' \in 0..MaxFaults,
         UNCHANGED <<sources, runs, ops, cut>>
  PROVE  IInv'
  <1>1. TypeOK'
    BY DEF IInv, TypeOK
  <1>2. Leases' /\ RunsDistinct' /\ RunsDrawn' /\ CutGone' /\ CutNeverSaves'
    BY DEF IInv, Leases, RunsDistinct, RunsDrawn, CutGone, CutNeverSaves
  <1>3. WorkersDrawn' /\ KeyOnce' /\ KeyWithRun'
    BY DEF IInv, WorkersDrawn, RunOf, KeyOnce, KeyWithRun
  <1>4. FailuresAreRuns'
    <2>1. \A y \in Sources : FailedSinceSuccess(y)' = FailedSinceSuccess(y)
      BY DEF FailedSinceSuccess, RunsOf
    <2> QED BY <2>1 DEF IInv, FailuresAreRuns
  <1> QED BY <1>1, <1>2, <1>3, <1>4 DEF IInv

LEMMA ClaimsKeep ==
  ASSUME SourceFetchAssumption, IInv, NEW s \in Sources, ClaimDue(s) \/ FetchByID(s)
  PROVE  IInv'
  <1>1. /\ DrawLease(s) /\ UNCHANGED <<runs, ops, cut, faults>>
        /\ workers' = (workers \ {}) \cup {Claimed(s, Unattended)}
    BY DEF ClaimDue, FetchByID
  <1>2. Unattended \in Triggers /\ Unattended \notin Keys
    BY DEF Triggers, SourceFetchAssumption
  <1> QED BY <1>1, <1>2, ClaimKeeps

LEMMA ClaimByIDKeeps ==
  ASSUME SourceFetchAssumption, IInv, NEW w \in workers, ClaimByID(w)
  PROVE  IInv'
  <1>1. PICK s \in Sources : s = w.source
    BY StateTypes DEF IInv
  <1>2. PICK trigger \in Triggers : trigger = w.trigger
    BY StateTypes DEF IInv
  <1>3. w.phase = "reserved" /\ UNCHANGED <<runs, ops, cut, faults>>
    BY DEF ClaimByID
  <1>4. CASE Fetchable(s) /\ LeaseFree(s)
    <2>1. DrawLease(s) /\ workers' = (workers \ {w}) \cup {Claimed(s, trigger)}
      BY <1>1, <1>2, <1>4 DEF ClaimByID
    <2>2. Of(w, trigger, s) /\ {w} \in SUBSET workers
      BY <1>1, <1>2 DEF Of
    <2> QED BY <1>3, <2>1, <2>2, ClaimKeeps
  <1>5. CASE ~(Fetchable(s) /\ LeaseFree(s))
    <2>1. workers' = workers \ {w} /\ UNCHANGED sources
      BY <1>1, <1>5 DEF ClaimByID
    <2> QED BY <1>3, <2>1, GoneKeeps DEF IInv, TypeOK
  <1> QED BY <1>4, <1>5

(* A run is recorded: those of earlier generations are aborted, none ends. *)
LEMMA StartKeeps ==
  ASSUME SourceFetchAssumption, IInv, NEW w \in workers, StartRun(w)
  PROVE  IInv'
  <1>1. PICK s \in Sources : s = w.source
    BY StateTypes DEF IInv
  <1>2. PICK g \in Gens : g = w.gen
    BY StateTypes DEF IInv, WorkersDrawn, StartRun, Drawn, Worker, Gens
  <1>3. PICK t \in Triggers : t = w.trigger
    BY StateTypes DEF IInv
  <1>4. w.phase = "claimed" /\ UNCHANGED <<sources, ops, cut, faults>>
    BY DEF StartRun
  <1>5. CASE ~(RunningOf(s) \subseteq Stale(s, g))
    <2>1. workers' = workers \ {w} /\ UNCHANGED runs
      BY <1>1, <1>2, <1>5 DEF StartRun
    <2> QED BY <1>4, <2>1, GoneKeeps DEF IInv, TypeOK
  <1>6. CASE RunningOf(s) \subseteq Stale(s, g)
    <2>1. PICK stale \in SUBSET runs : stale = Stale(s, g)
      BY DEF Stale, RunningOf, RunsOf
    <2> DEFINE run == [source |-> s, gen |-> g, trigger |-> t, status |-> "running"]
               v == [w EXCEPT !.phase = "fetching"]
               Ended(r) == [r EXCEPT !.status = "aborted"]
    <2>2. /\ runs' = (runs \ stale) \cup {Ended(r) : r \in stale} \cup {run}
          /\ workers' = (workers \ {w}) \cup {v}
      BY <1>1, <1>2, <1>3, <1>6, <2>1 DEF StartRun
    <2>3. /\ run \in Run /\ run.source = s /\ run.gen = g /\ run.trigger = t
          /\ run.status = "running"
      BY DEF Run
    <2>4. /\ v \in Worker /\ v.source = s /\ v.gen = g /\ v.trigger = t /\ v.failures = w.failures
          /\ v.phase = "fetching"
      BY <1>1, <1>2, <1>3, StateTypes DEF IInv, Worker
    <2>5. \A r \in runs : /\ Ended(r) \in Run /\ Ended(r).source = r.source /\ Ended(r).gen = r.gen
                          /\ Ended(r).trigger = r.trigger /\ Ended(r).status = "aborted"
      BY StateTypes DEF IInv, Run
    <2>6. \A r \in stale : r.source = s /\ r.gen < g /\ r.status = "running"
      BY <2>1 DEF Stale, RunningOf, RunsOf
    <2>7. \A r \in runs : r.source = s => r.gen # g
      BY <1>1, <1>2, <1>4 DEF IInv, WorkersDrawn, RunOf
    <2>8. g <= sources[s].gen
      BY <1>1, <1>2, <1>4 DEF IInv, WorkersDrawn, Drawn
    <2> HIDE DEF run, v, Ended
    (* The runs before and after, matched.                                 *)
    <2>9. \A q \in runs' : \/ q = run
                           \/ \E r \in runs : /\ q.source = r.source /\ q.gen = r.gen
                                              /\ q.trigger = r.trigger
                                              /\ q = r \/ (r \in stale /\ q = Ended(r))
      BY <2>2, <2>5
    <2>10. \A r \in runs : r.status # "running" => r \in runs'
      BY <2>2, <2>6
    <2>11. \A q \in runs' : q.status \in {"succeeded", "failed"} => q \in runs
      BY <2>3, <2>5, <2>9
    <2>12. TypeOK'
      BY <1>4, <2>2, <2>3, <2>4, <2>5 DEF IInv, TypeOK
    <2>13. Leases' /\ CutGone'
      BY <1>4 DEF IInv, Leases, CutGone
    <2>14. RunsDistinct'
      <3> SUFFICES ASSUME NEW p \in runs', NEW q \in runs', p.source = q.source, p.gen = q.gen
                   PROVE  p = q
        BY DEF RunsDistinct
      <3>1. CASE p = run \/ q = run
        BY <2>3, <2>7, <2>9, <3>1
      <3>2. CASE p # run /\ q # run
        <4>1. PICK r \in runs : /\ p.source = r.source /\ p.gen = r.gen
                                /\ p = r \/ (r \in stale /\ p = Ended(r))
          BY <2>9, <3>2
        <4>2. PICK u \in runs : /\ q.source = u.source /\ q.gen = u.gen
                                /\ q = u \/ (u \in stale /\ q = Ended(u))
          BY <2>9, <3>2
        <4>3. r = u
          BY <4>1, <4>2 DEF IInv, RunsDistinct
        <4>4. r \in stale => r \notin runs' \/ r = run \/ \E z \in stale : r = Ended(z)
          BY <2>2
        <4>5. r \in stale => p = Ended(r) /\ q = Ended(r)
          BY <2>5, <2>6, <2>7, <2>3, <4>1, <4>2, <4>3, <4>4
        <4> QED BY <4>1, <4>2, <4>3, <4>5
      <3> QED BY <3>1, <3>2
    <2>15. RunsDrawn'
      <3> SUFFICES ASSUME NEW q \in runs'
                   PROVE  /\ q.gen <= sources[q.source].gen
                          /\ sources[q.source].lease = q.gen => q.status = "running"
        BY <1>4 DEF RunsDrawn
      <3>1. CASE q = run
        BY <2>3, <2>8, <3>1
      <3>2. CASE q # run
        <4>1. PICK r \in runs : /\ q.source = r.source /\ q.gen = r.gen
                                /\ q = r \/ (r \in stale /\ q = Ended(r))
          BY <2>9, <3>2
        <4>2. CASE r \in stale
          <5>1. r.gen < sources[s].gen /\ r.source = s /\ r.gen \in Nat /\ r.gen >= 1 /\ sources[s].gen \in Nat
            BY <2>6, <2>8, <4>2, StateTypes DEF IInv, Gens
          <5>2. sources[s].lease # r.gen
            BY <5>1 DEF IInv, Leases
          <5> QED BY <4>1, <5>1, <5>2
        <4>3. CASE r \notin stale
          BY <4>1, <4>3 DEF IInv, RunsDrawn
        <4> QED BY <4>2, <4>3
      <3> QED BY <3>1, <3>2
    <2>16. WorkersDrawn'
      <3>1. \A u \in workers' : u = v \/ u \in workers
        BY <2>2
      <3>2. \A u \in workers : Drawn(u) /\ u.source = s /\ u.gen = g => u = w
        BY <1>1, <1>2, <1>4 DEF IInv, WorkersDrawn, Drawn
      <3>3. ASSUME NEW u \in workers'
            PROVE  /\ Drawn(u) => 1 <= u.gen /\ u.gen <= sources'[u.source].gen
                   /\ u.phase = "claimed" => RunOf(u)' = {}
                   /\ u.phase = "fetching" => \E r \in RunOf(u)' : r.trigger = u.trigger
                   /\ Drawn(u) /\ sources'[u.source].lease = u.gen => u.failures = sources'[u.source].failures
        <4>1. CASE u = v
          <5>1. run \in RunOf(v)'
            BY <2>2, <2>3, <2>4 DEF RunOf
          <5>2. sources[s].lease = g => w.failures = sources[s].failures
            BY <1>1, <1>2, <1>4 DEF IInv, WorkersDrawn, Drawn
          <5> QED BY <1>4, <2>3, <2>4, <2>8, <4>1, <5>1, <5>2 DEF Gens, Drawn
        <4>2. CASE u # v
          <5>1. u \in workers /\ u # w
            BY <2>2, <3>1, <4>2, <2>4, <1>4
          <5>2. u.phase = "claimed" => RunOf(u)' = {}
            <6> SUFFICES ASSUME u.phase = "claimed", NEW q \in runs', q.source = u.source, q.gen = u.gen
                         PROVE  FALSE
              BY DEF RunOf
            <6>1. \A r \in runs : ~(r.source = u.source /\ r.gen = u.gen)
              BY <5>1 DEF IInv, WorkersDrawn, RunOf
            <6>2. q # run
              BY <2>3, <3>2, <5>1 DEF Drawn
            <6> QED BY <2>9, <6>1, <6>2
          <5>3. u.phase = "fetching" => \E r \in RunOf(u)' : r.trigger = u.trigger
            <6> SUFFICES ASSUME u.phase = "fetching"
                         PROVE  \E r \in RunOf(u)' : r.trigger = u.trigger
              OBVIOUS
            <6>1. PICK r \in runs : r.source = u.source /\ r.gen = u.gen /\ r.trigger = u.trigger
              BY <5>1 DEF IInv, WorkersDrawn, RunOf
            <6>2. r \in runs' \/ Ended(r) \in runs'
              BY <2>2
            <6> QED BY <2>5, <6>1, <6>2 DEF RunOf
          <5> QED BY <1>4, <5>1, <5>2, <5>3 DEF IInv, WorkersDrawn
        <4> QED BY <4>1, <4>2
      <3>4. \A p, u \in workers' : Drawn(p) /\ Drawn(u) /\ p.source = u.source /\ p.gen = u.gen => p = u
        BY <2>2, <2>4, <3>2 DEF IInv, WorkersDrawn
      <3> QED BY <3>3, <3>4 DEF WorkersDrawn
    <2>17. KeyOnce'
      <3> SUFFICES ASSUME NEW k \in Keys, NEW y \in Sources
                   PROVE  /\ \A r, q \in runs' : Of(r, k, y) /\ Of(q, k, y) => r = q
                          /\ \A u, x \in workers' : Of(u, k, y) /\ Of(x, k, y) => u = x
                          /\ \A u \in workers', r \in runs' : Of(u, k, y) /\ u.phase # "fetching" => ~Of(r, k, y)
                          /\ ops[k][y].status = "none" => /\ \A u \in workers' : ~Of(u, k, y)
                                                          /\ \A r \in runs' : ~Of(r, k, y)
        BY <1>4 DEF KeyOnce
      <3>1. /\ \A r, q \in runs : Of(r, k, y) /\ Of(q, k, y) => r = q
            /\ \A u, x \in workers : Of(u, k, y) /\ Of(x, k, y) => u = x
            /\ \A u \in workers, r \in runs : Of(u, k, y) /\ u.phase # "fetching" => ~Of(r, k, y)
            /\ ops[k][y].status = "none" => /\ \A u \in workers : ~Of(u, k, y)
                                            /\ \A r \in runs : ~Of(r, k, y)
        BY DEF IInv, KeyOnce
      <3>2. Of(v, k, y) <=> Of(w, k, y)
        BY <1>1, <1>3, <2>4 DEF Of
      <3>3. Of(run, k, y) <=> Of(w, k, y)
        BY <1>1, <1>3, <2>3 DEF Of
      <3>4. \A q \in runs' : Of(q, k, y) /\ q # run =>
               \E r \in runs : Of(r, k, y) /\ r.source = q.source /\ r.gen = q.gen
        BY <2>9 DEF Of
      <3>5. \A u \in workers' : u = v \/ (u \in workers /\ u # w)
        BY <1>4, <2>2, <2>4
      <3>6. Of(w, k, y) => \A q \in runs' : Of(q, k, y) => q = run
        BY <1>4, <3>1, <3>4
      <3>7. \A r, q \in runs' : Of(r, k, y) /\ Of(q, k, y) => r = q
        <4>1. CASE Of(w, k, y)
          BY <3>6, <4>1
        <4>2. CASE ~Of(w, k, y)
          BY <2>14, <3>1, <3>3, <3>4, <4>2 DEF RunsDistinct
        <4> QED BY <4>1, <4>2
      <3>8. \A u, x \in workers' : Of(u, k, y) /\ Of(x, k, y) => u = x
        BY <3>1, <3>2, <3>5
      <3>9. \A u \in workers', r \in runs' : Of(u, k, y) /\ u.phase # "fetching" => ~Of(r, k, y)
        <4>1. ASSUME NEW u \in workers', NEW r \in runs', Of(u, k, y), u.phase # "fetching", Of(r, k, y)
              PROVE  FALSE
          <5>1. u \in workers /\ u # w
            BY <2>4, <3>5, <4>1
          <5>2. ~Of(w, k, y)
            BY <3>1, <4>1, <5>1
          <5> QED BY <3>1, <3>3, <3>4, <4>1, <5>1, <5>2
        <4> QED BY <4>1
      <3>10. ops[k][y].status = "none" => /\ \A u \in workers' : ~Of(u, k, y)
                                          /\ \A r \in runs' : ~Of(r, k, y)
        BY <3>1, <3>2, <3>3, <3>4, <3>5
      <3> QED BY <3>7, <3>8, <3>9, <3>10
    <2>18. KeyWithRun'
      BY <1>4, <2>10, <2>11 DEF IInv, KeyWithRun
    <2>19. CutNeverSaves'
      BY <1>4, <2>11 DEF IInv, CutNeverSaves
    <2>20. FailuresAreRuns'
      <3>1. \A y \in Sources : FailedSinceSuccess(y)' = FailedSinceSuccess(y)
        BY <2>10, <2>11 DEF FailedSinceSuccess, RunsOf
      <3> QED BY <1>4, <3>1 DEF IInv, FailuresAreRuns
    <2> QED BY <2>12, <2>13, <2>14, <2>15, <2>16, <2>17, <2>18, <2>19, <2>20 DEF IInv
  <1> QED BY <1>5, <1>6

(* What ends under its lease: the newest run of its source, alone in its   *)
(* generation, which no administrator took back.                           *)
TakenBack(s, g) == <<s, g>> \in cut

Ending(w, s, g) ==
  /\ w \in workers /\ w.phase = "fetching" /\ Holds(w)
  /\ s \in Sources /\ s = w.source /\ g \in Gens /\ g = w.gen

LEMMA HeldIsNewest ==
  ASSUME SourceFetchAssumption, IInv, NEW w, NEW s, NEW g, Ending(w, s, g)
  PROVE  /\ sources[s].gen = g /\ sources[s].lease = g
         /\ w.failures = sources[s].failures /\ sources[s].failures < g
         /\ ~TakenBack(s, g)
         /\ \A r \in runs : r.source = s => r.gen <= g
         /\ \A r \in runs : r.source = s /\ r.gen = g => r.status = "running" /\ r.trigger = w.trigger
         /\ \E r \in runs : r.source = s /\ r.gen = g
  <1> USE DEF Ending
  <1>1. sources[s].gen = g /\ sources[s].lease = g
    BY DEF Holds
  <1>2. w.failures = sources[s].failures
    BY <1>1 DEF IInv, WorkersDrawn, Drawn
  <1>3. sources[s].failures < g
    BY <1>1 DEF IInv, Leases, Gens
  <1>4. ~TakenBack(s, g)
    BY <1>1 DEF IInv, CutGone, TakenBack
  <1>5. \A r \in runs : r.source = s => r.gen <= g
    BY <1>1 DEF IInv, RunsDrawn
  <1>6. PICK r \in runs : r.source = s /\ r.gen = g /\ r.trigger = w.trigger
    BY DEF IInv, WorkersDrawn, RunOf
  <1>7. \A q \in runs : q.source = s /\ q.gen = g => q = r /\ q.status = "running"
    BY <1>1, <1>6 DEF IInv, RunsDistinct, RunsDrawn
  <1> QED BY <1>1, <1>2, <1>3, <1>4, <1>5, <1>6, <1>7

EndStatuses == {"succeeded", "failed"}

(* A run that ends under its lease: what does not depend on how it ended.  *)
LEMMA EndKeeps ==
  ASSUME SourceFetchAssumption, IInv, NEW w, NEW s, NEW g, Ending(w, s, g),
         NEW status \in EndStatuses, EndRun(w, status),
         NEW x \in Source, \A y \in Sources : sources'[y] = IF y = s THEN x ELSE sources[y],
         x.gen = g, x.lease = 0, x.failures = 0 \/ x.failures = sources[s].failures + 1,
         workers' = workers \ {w}, UNCHANGED <<cut, faults>>
  PROVE  /\ runs' \subseteq Run
         /\ Leases' /\ RunsDistinct' /\ RunsDrawn' /\ WorkersDrawn' /\ CutGone' /\ CutNeverSaves'
         /\ \E r \in runs, q \in runs' :
              /\ r.source = s /\ r.gen = g /\ r.status = "running" /\ r.trigger = w.trigger
              /\ q.source = s /\ q.gen = g /\ q.status = status /\ q.trigger = w.trigger
              /\ runs' = (runs \ {r}) \cup {q}
  <1> s \in Sources /\ s = w.source /\ g \in Gens /\ g = w.gen /\ w \in workers /\ w.phase = "fetching"
    BY DEF Ending
  <1>1. PICK r \in runs : r.source = s /\ r.gen = g
    BY HeldIsNewest
  <1>2. /\ r.status = "running" /\ r.trigger = w.trigger
        /\ sources[s].gen = g /\ sources[s].lease = g /\ sources[s].failures < g
        /\ ~TakenBack(s, g)
    BY <1>1, HeldIsNewest
  <1>3. PICK q : q = [r EXCEPT !.status = status]
    OBVIOUS
  <1>4. /\ q \in Run /\ q.source = s /\ q.gen = g /\ q.status = status /\ q.trigger = w.trigger
    BY <1>1, <1>2, <1>3, StateTypes DEF IInv, Run, EndStatuses
  <1>5. \A p \in runs : p.source = s /\ p.gen = g => p = r
    BY <1>1 DEF IInv, RunsDistinct
  <1>6. runs' = (runs \ {r}) \cup {q}
    BY <1>1, <1>3, <1>5 DEF EndRun
  <1>7. \A y \in Sources : sources'[y] = IF y = s THEN x ELSE sources[y]
    OBVIOUS
  <1>8. runs' \subseteq Run
    BY <1>4, <1>6 DEF IInv, TypeOK
  <1>9. Leases'
    <2>1. x.failures <= x.gen
      BY <1>2, StateTypes DEF IInv, Gens
    <2> QED BY <1>7, <2>1 DEF IInv, Leases
  <1>10. RunsDistinct'
    BY <1>4, <1>5, <1>6 DEF IInv, RunsDistinct
  <1>11. RunsDrawn'
    <2>1. \A p \in runs : p.gen # 0
      BY StateTypes DEF IInv
    <2>2. g # 0 /\ g <= g
      BY DEF Gens
    <2>3. \A y \in Sources : /\ sources'[y].gen = sources[y].gen
                             /\ sources'[y].lease \in {0, sources[y].lease}
      BY <1>2, <1>7
    <2>4. \A p \in runs' : p = q \/ (p \in runs /\ p # r)
      BY <1>6
    <2>5. \A p \in runs' : p.source \in Sources
      BY <1>8, StateTypes DEF IInv, Run
    <2>6. ASSUME NEW p \in runs', p # q
          PROVE  /\ p.gen <= sources'[p.source].gen
                 /\ sources'[p.source].lease = p.gen => p.status = "running"
      BY <2>1, <2>3, <2>4, <2>5, <2>6 DEF IInv, RunsDrawn
    <2>7. q.gen <= sources'[q.source].gen /\ sources'[q.source].lease # q.gen
      BY <1>2, <1>4, <1>7, <2>2
    <2> QED BY <2>6, <2>7 DEF RunsDrawn
  <1>12. WorkersDrawn'
    <2>1. ASSUME NEW u \in workers'
          PROVE  /\ Drawn(u) => 1 <= u.gen /\ u.gen <= sources'[u.source].gen
                 /\ u.phase = "claimed" => RunOf(u)' = {}
                 /\ u.phase = "fetching" => \E p \in RunOf(u)' : p.trigger = u.trigger
                 /\ Drawn(u) /\ sources'[u.source].lease = u.gen => u.failures = sources'[u.source].failures
      <3>1. u \in workers /\ u # w
        OBVIOUS
      <3>2. Drawn(u) => ~(u.source = s /\ u.gen = g)
        BY <3>1 DEF IInv, WorkersDrawn, Drawn
      <3>3. Drawn(u) => RunOf(u)' = RunOf(u)
        BY <1>1, <1>4, <1>6, <3>2 DEF RunOf
      <3>4. Drawn(u) => 1 <= u.gen /\ u.gen <= sources[u.source].gen
        BY <3>1 DEF IInv, WorkersDrawn
      <3>5. Drawn(u) => u.gen # 0
        BY <3>1, <3>4, StateTypes DEF IInv
      <3>6. \A y \in Sources : /\ sources'[y].gen = sources[y].gen
                               /\ sources'[y].lease # 0 => sources'[y] = sources[y]
        BY <1>2, <1>7
      <3> QED BY <3>1, <3>3, <3>4, <3>5, <3>6, StateTypes DEF IInv, WorkersDrawn, Drawn
    <2>2. \A v, u \in workers' : Drawn(v) /\ Drawn(u) /\ v.source = u.source /\ v.gen = u.gen => v = u
      BY DEF IInv, WorkersDrawn
    <2> QED BY <2>1, <2>2 DEF WorkersDrawn
  <1>13. CutGone'
    BY <1>2, <1>7 DEF IInv, CutGone, Gens
  <1>14. CutNeverSaves'
    BY <1>2, <1>4, <1>6 DEF IInv, CutNeverSaves, TakenBack
  <1> QED BY <1>1, <1>2, <1>3, <1>4, <1>6, <1>8, <1>9, <1>10, <1>11, <1>12, <1>13, <1>14

LEMMA SaveKeeps ==
  ASSUME SourceFetchAssumption, IInv, NEW w \in workers, Save(w)
  PROVE  IInv'
  <1>1. w.phase = "fetching" /\ workers' = workers \ {w} /\ UNCHANGED <<cut, faults>>
    BY DEF Save
  <1>2. CASE ~Holds(w)
    BY <1>1, <1>2, GoneKeeps DEF Save, IInv, TypeOK
  <1>3. CASE Holds(w)
    <2>1. PICK s \in Sources : s = w.source
      BY StateTypes DEF IInv
    <2>2. PICK g \in Gens : g = w.gen
      BY <1>1, StateTypes DEF IInv, WorkersDrawn, Drawn, Worker, Gens
    <2>3. PICK t \in Triggers : t = w.trigger
      BY StateTypes DEF IInv
    <2> DEFINE x == [sources[s] EXCEPT !.status = "active", !.failures = 0, !.due = FALSE, !.lease = 0]
    <2>4. x \in Source /\ x.gen = sources[s].gen /\ x.lease = 0 /\ x.failures = 0
      <3>1. 0 \in 0..MaxGen
        BY StateTypes DEF IInv
      <3> QED BY <3>1, StateTypes DEF IInv, Source, Statuses
    <2>5. sources' = [sources EXCEPT ![s] = x]
      BY <1>3, <2>1 DEF Save, IInv, TypeOK
    <2> HIDE DEF x
    <2>6. EndRun(w, "succeeded")
      BY <1>3 DEF Save
    <2>15. Ending(w, s, g)
      BY <1>1, <1>3, <2>1, <2>2 DEF Ending
    <2>7. sources[s].gen = g
      BY <2>15, HeldIsNewest
    <2>8. /\ runs' \subseteq Run
          /\ Leases' /\ RunsDistinct' /\ RunsDrawn' /\ WorkersDrawn' /\ CutGone' /\ CutNeverSaves'
          /\ \E r \in runs, q \in runs' :
               /\ r.source = s /\ r.gen = g /\ r.status = "running" /\ r.trigger = w.trigger
               /\ q.source = s /\ q.gen = g /\ q.status = "succeeded" /\ q.trigger = w.trigger
               /\ runs' = (runs \ {r}) \cup {q}
      <3>1. x.gen = g /\ "succeeded" \in EndStatuses
        BY <2>4, <2>7 DEF EndStatuses
      <3>2. workers' = workers \ {w} /\ UNCHANGED <<cut, faults>>
        BY <1>1
      <3>3. \A y \in Sources : sources'[y] = IF y = s THEN x ELSE sources[y]
        BY <2>5 DEF IInv, TypeOK
      <3> QED BY <2>4, <2>6, <2>15, <3>1, <3>2, <3>3, EndKeeps
    <2>9. PICK r \in runs, q \in runs' :
            /\ r.source = s /\ r.gen = g /\ r.status = "running" /\ r.trigger = t
            /\ q.source = s /\ q.gen = g /\ q.status = "succeeded" /\ q.trigger = t
            /\ runs' = (runs \ {r}) \cup {q}
      BY <2>3, <2>8
    <2>10. /\ ops' \in [Keys -> [Sources -> Op]]
           /\ \A k \in Keys, y \in Sources :
                ops'[k][y] = IF k = t /\ y = s THEN [status |-> "succeeded", run |-> g] ELSE ops[k][y]
      <3>1. ops \in [Keys -> [Sources -> Op]]
        BY DEF IInv, TypeOK
      <3>2. PICK o \in Op : o = [status |-> "succeeded", run |-> g]
        <4>1. g \in 0..MaxGen
          BY StateTypes DEF IInv, Gens
        <4> QED BY <4>1 DEF Op
      <3>3. ops' = IF t \in Keys THEN [ops EXCEPT ![t][s] = o] ELSE ops
        BY <1>3, <2>1, <2>2, <2>3, <3>2 DEF Save, Settle
      <3> QED BY <3>1, <3>2, <3>3
    <2>11. TypeOK'
      BY <1>1, <2>4, <2>5, <2>8, <2>10 DEF IInv, TypeOK
    <2>12. KeyOnce'
      <3> SUFFICES ASSUME NEW k \in Keys, NEW y \in Sources
                   PROVE  /\ \A p, z \in runs' : Of(p, k, y) /\ Of(z, k, y) => p = z
                          /\ \A u, v \in workers' : Of(u, k, y) /\ Of(v, k, y) => u = v
                          /\ \A u \in workers', p \in runs' : Of(u, k, y) /\ u.phase # "fetching" => ~Of(p, k, y)
                          /\ ops'[k][y].status = "none" => /\ \A u \in workers' : ~Of(u, k, y)
                                                           /\ \A p \in runs' : ~Of(p, k, y)
        BY DEF KeyOnce
      <3>1. Of(q, k, y) <=> Of(r, k, y)
        BY <2>9 DEF Of
      <3>2. ops'[k][y].status = "none" => ops[k][y].status = "none"
        BY <2>10
      <3> QED BY <1>1, <2>9, <3>1, <3>2 DEF IInv, KeyOnce
    <2>13. KeyWithRun'
      <3> SUFFICES ASSUME NEW k \in Keys, NEW y \in Sources
                   PROVE  /\ \A p \in runs' : Of(p, k, y) /\ p.status = "succeeded" =>
                               ops'[k][y].status = "succeeded" /\ ops'[k][y].run = p.gen
                          /\ ops'[k][y].status = "succeeded" =>
                               \E p \in runs' : Of(p, k, y) /\ p.status = "succeeded"
        BY DEF KeyWithRun
      <3>1. /\ \A p, z \in runs : Of(p, k, y) /\ Of(z, k, y) => p = z
            /\ \A p \in runs : Of(p, k, y) /\ p.status = "succeeded" =>
                 ops[k][y].status = "succeeded" /\ ops[k][y].run = p.gen
            /\ ops[k][y].status = "succeeded" => \E p \in runs : Of(p, k, y) /\ p.status = "succeeded"
        BY DEF IInv, KeyOnce, KeyWithRun
      <3>2. CASE k = t /\ y = s
        <4>1. Of(r, k, y) /\ Of(q, k, y)
          BY <2>9, <3>2 DEF Of
        <4>2. ops'[k][y].status = "succeeded" /\ ops'[k][y].run = g
          BY <2>10, <3>2
        <4> QED BY <2>9, <3>1, <4>1, <4>2
      <3>3. CASE ~(k = t /\ y = s)
        <4>1. ~Of(r, k, y) /\ ~Of(q, k, y)
          BY <2>9, <3>3 DEF Of
        <4>2. ops'[k][y] = ops[k][y]
          BY <2>10, <3>3
        <4> QED BY <2>9, <3>1, <4>1, <4>2
      <3> QED BY <3>2, <3>3
    <2>14. FailuresAreRuns'
      <3> SUFFICES ASSUME NEW y \in Sources
                   PROVE  sources'[y].failures = Cardinality(FailedSinceSuccess(y)')
        BY DEF FailuresAreRuns
      <3>1. CASE y = s
        <4>1. \A p \in runs : p.source = s => p.gen <= g /\ p.gen \in Nat
          BY <2>15, HeldIsNewest, StateTypes DEF IInv
        <4>2. FailedSinceSuccess(y)' = {}
          <5> SUFFICES ASSUME NEW p \in FailedSinceSuccess(y)'
                       PROVE  FALSE
            OBVIOUS
          <5>1. p \in runs' /\ p.source = s /\ p.status = "failed" /\ g < p.gen
            BY <2>9, <3>1 DEF FailedSinceSuccess, RunsOf
          <5>2. p \in runs
            BY <2>9, <5>1
          <5> QED BY <4>1, <5>1, <5>2 DEF Gens
        <4>3. sources'[y].failures = 0
          BY <2>4, <2>5, <3>1 DEF IInv, TypeOK
        <4> QED BY <4>2, <4>3, FS_EmptySet
      <3>2. CASE y # s
        <4>1. FailedSinceSuccess(y)' = FailedSinceSuccess(y)
          BY <2>9, <3>2 DEF FailedSinceSuccess, RunsOf
        <4>2. sources'[y] = sources[y]
          BY <2>5, <3>2 DEF IInv, TypeOK
        <4> QED BY <4>1, <4>2 DEF IInv, FailuresAreRuns
      <3> QED BY <3>1, <3>2
    <2> QED BY <2>8, <2>11, <2>12, <2>13, <2>14 DEF IInv
  <1> QED BY <1>2, <1>3

LEMMA FailKeeps ==
  ASSUME SourceFetchAssumption, IInv, NEW w \in workers, Fail(w)
  PROVE  IInv'
  <1>1. /\ w.phase = "fetching" /\ workers' = workers \ {w} /\ UNCHANGED <<ops, cut, faults>>
    BY DEF Fail
  <1>2. CASE ~Holds(w)
    BY <1>1, <1>2, GoneKeeps DEF Fail, IInv, TypeOK
  <1>3. CASE Holds(w)
    <2>1. PICK s \in Sources : s = w.source
      BY StateTypes DEF IInv
    <2>2. PICK g \in Gens : g = w.gen
      BY <1>1, StateTypes DEF IInv, WorkersDrawn, Drawn, Worker, Gens
    <2>3. PICK t \in Triggers : t = w.trigger
      BY StateTypes DEF IInv
    <2>4. Ending(w, s, g)
      BY <1>1, <1>3, <2>1, <2>2 DEF Ending
    <2>5. sources[s].gen = g /\ w.failures = sources[s].failures /\ sources[s].failures < g
      BY <2>4, HeldIsNewest
    <2>6. PICK n \in 0..MaxGen : n = sources[s].failures + 1
      BY <2>5, StateTypes DEF IInv, Gens
    <2>7. PICK status \in Statuses : status = IF n >= DegradeAt THEN "degraded" ELSE "active"
      BY DEF Statuses
    <2> DEFINE x == [sources[s] EXCEPT !.status = status, !.failures = n, !.due = FALSE, !.lease = 0]
    <2>8. x \in Source /\ x.gen = g /\ x.lease = 0 /\ x.failures = n
      <3>1. 0 \in 0..MaxGen
        BY StateTypes DEF IInv
      <3> QED BY <2>5, <3>1, StateTypes DEF IInv, Source
    <2>9. sources' = [sources EXCEPT ![s] = x]
      BY <1>3, <2>1, <2>5, <2>6, <2>7 DEF Fail, NextFailure, IInv, TypeOK
    <2> HIDE DEF x
    <2>10. \A y \in Sources : sources'[y] = IF y = s THEN x ELSE sources[y]
      BY <2>9 DEF IInv, TypeOK
    <2>11. /\ runs' \subseteq Run
           /\ Leases' /\ RunsDistinct' /\ RunsDrawn' /\ WorkersDrawn' /\ CutGone' /\ CutNeverSaves'
           /\ \E r \in runs, q \in runs' :
                /\ r.source = s /\ r.gen = g /\ r.status = "running" /\ r.trigger = w.trigger
                /\ q.source = s /\ q.gen = g /\ q.status = "failed" /\ q.trigger = w.trigger
                /\ runs' = (runs \ {r}) \cup {q}
      <3>1. "failed" \in EndStatuses /\ EndRun(w, "failed")
        BY <1>3 DEF Fail, EndStatuses
      <3>2. workers' = workers \ {w} /\ UNCHANGED <<cut, faults>>
        BY <1>1
      <3> QED BY <2>4, <2>6, <2>8, <2>10, <3>1, <3>2, EndKeeps
    <2>12. PICK r \in runs, q \in runs' :
             /\ r.source = s /\ r.gen = g /\ r.status = "running" /\ r.trigger = t
             /\ q.source = s /\ q.gen = g /\ q.status = "failed" /\ q.trigger = t
             /\ runs' = (runs \ {r}) \cup {q}
      BY <2>3, <2>11
    <2>13. TypeOK'
      BY <1>1, <2>8, <2>9, <2>11 DEF IInv, TypeOK
    <2>14. \A k \in Keys, y \in Sources : Of(q, k, y) <=> Of(r, k, y)
      BY <2>12 DEF Of
    <2>15. KeyOnce'
      BY <1>1, <2>12, <2>14 DEF IInv, KeyOnce
    <2>16. KeyWithRun'
      BY <1>1, <2>12, <2>14 DEF IInv, KeyWithRun
    <2>17. FailuresAreRuns'
      <3> SUFFICES ASSUME NEW y \in Sources
                   PROVE  sources'[y].failures = Cardinality(FailedSinceSuccess(y)')
        BY DEF FailuresAreRuns
      <3>1. CASE y = s
        (* The run that fails is the newest of its source.                 *)
        <4>1. \A p \in runs : p.source = s => p.gen <= g /\ p.gen \in Nat
          BY <2>4, HeldIsNewest, StateTypes DEF IInv
        <4>2. \A p \in runs : p.source = s /\ p.gen = g => p.status = "running"
          BY <2>4, HeldIsNewest
        <4>3. FailedSinceSuccess(s)' = FailedSinceSuccess(s) \cup {q}
          <5>1. \A p : p \in RunsOf(s)' <=> p = q \/ (p \in RunsOf(s) /\ p # r)
            BY <2>12 DEF RunsOf
          <5>2. \A p \in RunsOf(s)' : p.status = "succeeded" <=> p \in RunsOf(s) /\ p.status = "succeeded"
            BY <2>12, <4>2, <5>1 DEF RunsOf
          <5>3. \A p \in RunsOf(s) : p.status = "succeeded" => p \in RunsOf(s)' /\ p.gen < g
            BY <2>12, <4>1, <4>2, <5>1 DEF RunsOf, Gens
          <5> QED BY <2>12, <4>2, <5>1, <5>2, <5>3 DEF FailedSinceSuccess, RunsOf
        <4>4. q \notin FailedSinceSuccess(s)
          BY <2>12, <4>2 DEF FailedSinceSuccess, RunsOf
        <4>5. IsFiniteSet(FailedSinceSuccess(s))
          BY FailedFinite
        <4>6. Cardinality(FailedSinceSuccess(s)') = Cardinality(FailedSinceSuccess(s)) + 1
          BY <4>3, <4>4, <4>5, FS_AddElement
        <4>7. sources[s].failures = Cardinality(FailedSinceSuccess(s))
          BY DEF IInv, FailuresAreRuns
        <4> QED BY <2>6, <2>8, <2>10, <3>1, <4>6, <4>7
      <3>2. CASE y # s
        <4>1. FailedSinceSuccess(y)' = FailedSinceSuccess(y)
          BY <2>12, <3>2 DEF FailedSinceSuccess, RunsOf
        <4> QED BY <2>10, <3>2, <4>1 DEF IInv, FailuresAreRuns
      <3> QED BY <3>1, <3>2
    <2> QED BY <2>11, <2>13, <2>15, <2>16, <2>17 DEF IInv
  <1> QED BY <1>2, <1>3

LEMMA BreakKeeps ==
  ASSUME SourceFetchAssumption, IInv, NEW w \in workers, Break(w)
  PROVE  IInv'
  <1>1. faults' \in 0..MaxFaults
    BY StateTypes DEF IInv, TypeOK, Break
  <1> QED BY <1>1, GoneKeeps DEF Break

LEMMA StepKeeps ==
  ASSUME SourceFetchAssumption, IInv, [Next]_vars
  PROVE  IInv'
  <1>1. CASE Administer
    BY <1>1, TouchesKeep, TakeBackKeeps DEF Administer
  <1>2. CASE Request
    BY <1>2, ReserveKeeps DEF Request
  <1>3. CASE Operate
    BY <1>3, ClaimsKeep DEF Operate
  <1>4. CASE Time
    BY <1>4, TouchesKeep DEF Time
  <1>5. CASE Schedule
    BY <1>5, ClaimsKeep DEF Schedule
  <1>6. CASE Work
    BY <1>6, ClaimByIDKeeps, StartKeeps, SaveKeeps, FailKeeps DEF Work, Advance
  <1>7. CASE Fault
    BY <1>7, BreakKeeps DEF Fault
  <1>8. CASE UNCHANGED vars
    <2>1. workers' \subseteq workers /\ faults' \in 0..MaxFaults /\ UNCHANGED <<sources, runs, ops, cut>>
      BY <1>8 DEF vars, IInv, TypeOK
    <2> QED BY <2>1, GoneKeeps
  <1> QED BY <1>1, <1>2, <1>3, <1>4, <1>5, <1>6, <1>7, <1>8 DEF Next

LEMMA InitHolds ==
  ASSUME SourceFetchAssumption, Init
  PROVE  IInv
  <1> USE DEF Init
  <1>1. 0 \in 0..MaxGen /\ 0 \in 0..MaxVersion /\ 0 \in 0..MaxFaults
    BY DEF SourceFetchAssumption
  <1>2. TypeOK
    BY <1>1 DEF TypeOK, Source, Statuses, Op, NoRun
  <1>3. Leases /\ RunsDistinct /\ RunsDrawn /\ WorkersDrawn /\ KeyOnce /\ CutGone /\ CutNeverSaves
    BY DEF Leases, RunsDistinct, RunsDrawn, WorkersDrawn, KeyOnce, CutGone, CutNeverSaves
  <1>4. KeyWithRun
    BY DEF KeyWithRun
  <1>5. FailuresAreRuns
    <2>1. \A s \in Sources : FailedSinceSuccess(s) = {}
      BY DEF FailedSinceSuccess, RunsOf
    <2> QED BY <2>1, FS_EmptySet DEF FailuresAreRuns
  <1> QED BY <1>2, <1>3, <1>4, <1>5 DEF IInv

-----------------------------------------------------------------------------
(* The theorems.                                                           *)

(* In every reachable state the newest generation of a source is the only  *)
(* one that can be held, and its run the newest of the source. (ClaimDue,  *)
(* FetchNow, StartRun, MarkSuccess, MarkFailure.)                          *)
THEOREM Invariance == SourceFetchAssumption /\ Spec => []IInv
  <1> SUFFICES ASSUME SourceFetchAssumption PROVE Spec => []IInv
    OBVIOUS
  <1>1. Init => IInv
    BY InitHolds
  <1>2. IInv /\ [Next]_vars => IInv'
    BY StepKeeps
  <1> QED BY <1>1, <1>2, PTL DEF Spec

(* The sources, runs, keys, leases and fetches keep their types.           *)
THEOREM TypeCorrect == SourceFetchAssumption /\ Spec => []TypeOK
  BY Invariance, PTL DEF IInv

(* A fetch whose lease an administrator took back, by a pause or a resume, *)
(* never saves, whatever is resumed or claimed afterwards. (Pause, Resume, *)
(* the WHERE of MarkSuccess and MarkFailure.)                              *)
THEOREM TakenBackNeverSaves == SourceFetchAssumption /\ Spec => []CutNeverSaves
  BY Invariance, PTL DEF IInv

(* The failures that degrade a source are its failed runs since its last   *)
(* success, though each is counted from what its claim had read.           *)
(* (NextFailure, MarkSuccess.)                                             *)
THEOREM FailuresCount == SourceFetchAssumption /\ Spec => []FailuresAreRuns
  BY Invariance, PTL DEF IInv

(* An idempotency key is settled exactly when the one run it was given     *)
(* succeeded, and names that run. (FetchNow, Settle.)                      *)
THEOREM KeysSettle == SourceFetchAssumption /\ Spec => []KeySettledByItsRun
  <1>1. IInv => KeySettledByItsRun
    <2> SUFFICES ASSUME IInv, NEW k \in Keys, NEW s \in Sources
                 PROVE  LET mine == {r \in RunsOf(s) : r.trigger = k} IN
                        /\ Cardinality(mine) <= 1
                        /\ ops[k][s].status = "succeeded" <=> \E r \in mine : r.status = "succeeded"
                        /\ \A r \in mine : ops[k][s].status = "succeeded" => ops[k][s].run = r.gen
      BY DEF KeySettledByItsRun
    <2> DEFINE mine == {r \in RunsOf(s) : r.trigger = k}
    <2>1. \A r : r \in mine <=> r \in runs /\ Of(r, k, s)
      BY DEF RunsOf, Of
    <2>2. \A r, q \in mine : r = q
      BY <2>1 DEF IInv, KeyOnce
    <2>3. Cardinality(mine) <= 1
      <3>1. CASE mine = {}
        BY <3>1, FS_EmptySet
      <3>2. ASSUME NEW r \in mine PROVE Cardinality(mine) <= 1
        <4>1. mine = {r}
          BY <2>2, <3>2
        <4> HIDE DEF mine
        <4> QED BY <4>1, FS_Singleton
      <3> QED BY <3>1, <3>2
    <2>4. ops[k][s].status = "succeeded" <=> \E r \in mine : r.status = "succeeded"
      BY <2>1 DEF IInv, KeyWithRun
    <2>5. \A r \in mine : ops[k][s].status = "succeeded" => ops[k][s].run = r.gen
      BY <2>1, <2>2, <2>4 DEF IInv, KeyWithRun
    <2> QED BY <2>3, <2>4, <2>5
  <1> QED BY <1>1, Invariance, PTL

=============================================================================
