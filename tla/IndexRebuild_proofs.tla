-------------------------- MODULE IndexRebuild_proofs --------------------------
(***************************************************************************)
(* Proofs about IndexRebuild, for every set of articles and indexes and    *)
(* every bound.                                                            *)
(***************************************************************************)
EXTENDS IndexRebuild, FiniteSetTheorems, WellFoundedInduction, TLAPS

-----------------------------------------------------------------------------
(* The parts of the first inductive invariant: types, versions, aliases.   *)

(* An article that is not there has no slot, and neither has the one whose *)
(* transaction is open.                                                    *)
SlotsOfArticles ==
  /\ \A a \in Articles : article[a].status = "absent" => slot[a] = NoSlot
  /\ opened # NotOpened => /\ opened.art \in Articles /\ article[opened.art].status = "absent"
                           /\ opened.row.status # "absent"

(* The item at hand is a real article, sent with a generation of its slot. *)
ItemAtHand ==
  /\ cli.pc \in {"ensure", "read", "write", "converge", "mark"} => cli.art \in Articles
  /\ cli.pc = "ensure" => article[cli.art].status # "absent"
  /\ cli.pc \in {"read", "write"} => cli.gen <= slot[cli.art].gen

(* What a command has made sure of before it sets the row or removes an    *)
(* index.                                                                  *)
IndexAtHand ==
  /\ cli.pc = "set" => exists[cli.index]
  /\ cli.pc \in {"back", "backset"} => served.rollback # NoIndex
  /\ cli.pc \in {"close", "closeset", "complete", "unused", "remove"} => cli.index # served.current
  /\ cli.pc \in {"complete", "unused", "remove"} =>
       (served.rollback # NoIndex => cli.index # served.rollback)

Inv == TypeOK /\ VersionsComeFromSlots /\ AliasIsLive /\ SlotsOfArticles /\ ItemAtHand /\ IndexAtHand

-----------------------------------------------------------------------------
(* The operators.                                                          *)

(* A write leaves an existing row.                                         *)
LEMMA RowsWritten ==
  ASSUME NEW a \in Articles, NEW row \in ArticleRow, NEW after \in NextRows(a, row)
  PROVE  /\ after \in ArticleRow /\ after.status # "absent" /\ after.ver >= 1
         /\ row.status # "absent" => after.ver = row.ver + 1
  BY DEF NextRows, ArticleWrite, AuthorWrite, AdminWrite, FeedWrite, ArticleRow, Statuses, Reasons,
         FirstRow, Revised, WithState, MayUpdateByAuthor, MayPublish, MayOffline, MayDelete,
         MayRestore, MayReviseByFeed

LEMMA TargetType ==
  ASSUME NEW row \in ArticleRow
  PROVE  TargetOf(row, NoSelection) \in Target /\ TargetOf(row, NoSelection).ver = row.ver
  BY DEF TargetOf, ArticleRow, NoSelection, Target

(* external_gte.                                                           *)
LEMMA PutDoc ==
  ASSUME NEW d \in Doc, NEW gen \in Nat, NEW target \in Target
  PROVE  /\ Put(d, gen, target) \in Doc
         /\ Put(d, gen, target) \in {d, [gen |-> gen, target |-> target]}
         /\ Put(d, gen, target).gen >= gen /\ Put(d, gen, target).gen >= d.gen
         /\ \A n \in Nat : d.gen <= n /\ gen <= n => Put(d, gen, target).gen <= n
  BY DEF Put, Doc

LEMMA LeastExists ==
  ASSUME NEW S \in SUBSET Nat, S # {}
  PROVE  \E x \in S : \A y \in S : x <= y
  <1>1. PICK x \in S : \A y \in S : ~(<<y, x>> \in OpToRel(<, Nat))
    BY NatLessThanWellFounded, WFMin
  <1>2. \A y \in S : ~(y < x)
    BY <1>1 DEF OpToRel
  <1> QED BY <1>2

LEMMA MinOfIsLeast ==
  ASSUME NEW S \in SUBSET Nat, S # {}
  PROVE  MinOf(S) \in S /\ \A y \in S : MinOf(S) <= y
  BY LeastExists DEF MinOf

LEMMA SetsAreCounted ==
  ASSUME NEW S \in SUBSET Articles
  PROVE  Cardinality(S) \in Nat
  BY RebuildAssumption, FS_Subset, FS_CardinalityType

(* The command goes to a step, starts with an index, or ends.              *)
LEMMA Goes ==
  ASSUME cli \in Command, NEW step \in Steps, Go(step)
  PROVE  /\ cli' \in Command /\ cli'.pc = step /\ cli'.index = cli.index /\ cli'.loop = cli.loop
         /\ cli'.art = cli.art /\ cli'.read = cli.read /\ cli'.gen = cli.gen
         /\ cli'.high = cli.high /\ cli'.more = cli.more
  BY DEF Go, Command

LEMMA IdleType == Idle \in Command /\ Idle.pc = "idle"
  <1>1. "idle" \in Steps
    BY DEF Steps
  <1>2. FirstIndex \in Indexes /\ NoTarget \in Target
    BY RebuildAssumption DEF NoTarget, Target
  <1> QED BY <1>1, <1>2 DEF Idle, Command

LEMMA Starts ==
  ASSUME NEW step \in Steps, NEW i \in Indexes, NewCommand(step, i)
  PROVE  cli' \in Command /\ cli'.pc = step /\ cli'.index = i
  <1>1. cli' = [Idle EXCEPT !.pc = step, !.index = i]
    BY DEF NewCommand
  <1> QED BY <1>1, IdleType DEF Command

LEMMA Ends ==
  ASSUME Finish
  PROVE  cli' \in Command /\ cli'.pc = "idle"
  BY IdleType DEF Finish

-----------------------------------------------------------------------------
(* The writers and the executors.                                          *)

(* advanceSearchProjectionTarget.                                          *)
LEMMA AdvanceStep ==
  ASSUME TypeOK, NEW a \in Articles, NEW target \in Target, Advance(a, target)
  PROVE  /\ slot' \in [Articles -> Slot] /\ delivery' \in [Articles -> [Indexes -> DeliveryStates]]
         /\ seq' \in Nat
         /\ \A b \in Articles : slot[b].gen <= slot'[b].gen
         /\ \A b \in Articles \ {a} : slot'[b] = slot[b] /\ delivery'[b] = delivery[b]
  <1>1. CASE slot[a].target = target
    BY <1>1 DEF Advance, TypeOK, Slot
  <1>2. CASE slot[a].target # target
    <2>1. PICK s : s = [gen |-> slot[a].gen + 1, target |-> target, seq |-> seq + 1]
      OBVIOUS
    <2>2. s \in Slot /\ s.gen > slot[a].gen
      BY <2>1 DEF TypeOK, Slot
    <2>3. slot' = [slot EXCEPT ![a] = s] /\ seq' = seq + 1
      BY <1>2, <2>1 DEF Advance
    <2>4. delivery' = [delivery EXCEPT ![a] =
            [i \in Indexes |-> IF i \in Active \/ delivery[a][i] # "none" THEN "owed" ELSE "none"]]
      BY <1>2 DEF Advance
    <2>5. delivery' \in [Articles -> [Indexes -> DeliveryStates]]
      BY <2>4 DEF TypeOK, DeliveryStates
    <2> QED BY <2>2, <2>3, <2>4, <2>5 DEF TypeOK, Slot
  <1> QED BY <1>1, <1>2

(* A step of the store: slots only move on, and articles do not vanish.    *)
LEMMA StoreKeeps ==
  ASSUME Inv,
         article' \in [Articles -> ArticleRow], slot' \in [Articles -> Slot],
         delivery' \in [Articles -> [Indexes -> DeliveryStates]], seq' \in Nat,
         opened' \in Opened \cup {NotOpened},
         \A b \in Articles : slot[b].gen <= slot'[b].gen,
         \A b \in Articles : article[b].status # "absent" => article'[b].status # "absent",
         SlotsOfArticles',
         UNCHANGED <<served, rebuild, exists, alias, doc, wire, spent>>,
         cli' = cli
  PROVE  Inv'
  <1>1. TypeOK'
    BY DEF Inv, TypeOK
  <1>2. VersionsComeFromSlots'
    <2>1. \A i \in Indexes, a \in Articles : doc[i][a].gen \in Nat /\ slot[a].gen \in Nat /\ slot'[a].gen \in Nat
      BY DEF Inv, TypeOK, Doc, Slot
    <2>2. \A m \in wire : m.gen \in Nat /\ m.art \in Articles
      BY DEF Inv, TypeOK
    <2>3. \A i \in Indexes, a \in Articles : doc[i][a].gen <= slot'[a].gen
      BY <2>1 DEF Inv, VersionsComeFromSlots
    <2>4. ASSUME NEW m \in wire PROVE m.gen <= slot'[m.art].gen
      <3>1. PICK a \in Articles : a = m.art
        BY <2>2
      <3>2. m.gen <= slot[a].gen /\ slot[a].gen <= slot'[a].gen
        BY <3>1 DEF Inv, VersionsComeFromSlots
      <3>3. m.gen \in Nat /\ slot[a].gen \in Nat /\ slot'[a].gen \in Nat
        BY <2>2 DEF Inv, TypeOK, Slot
      <3> QED BY <3>1, <3>2, <3>3
    <2> QED BY <2>3, <2>4 DEF VersionsComeFromSlots
  <1>3. AliasIsLive'
    BY DEF Inv, AliasIsLive
  <1>4. ItemAtHand'
    <2>1. cli.art \in Articles => slot[cli.art].gen \in Nat /\ slot'[cli.art].gen \in Nat
      BY DEF Inv, TypeOK, Slot
    <2>2. cli.gen \in Nat
      BY DEF Inv, TypeOK, Command
    <2>3. PICK a : a = cli.art
      OBVIOUS
    <2>4. cli.pc \in {"ensure", "read", "write", "converge", "mark"} => a \in Articles
      BY <2>3 DEF Inv, ItemAtHand
    <2>5. cli.pc = "ensure" => article'[a].status # "absent"
      BY <2>3, <2>4 DEF Inv, ItemAtHand
    <2>6. cli.pc \in {"read", "write"} => cli.gen <= slot'[a].gen
      BY <2>1, <2>2, <2>3, <2>4 DEF Inv, ItemAtHand
    <2> QED BY <2>3, <2>4, <2>5, <2>6 DEF ItemAtHand
  <1>5. IndexAtHand'
    BY DEF Inv, IndexAtHand
  <1> QED BY <1>1, <1>2, <1>3, <1>4, <1>5 DEF Inv

LEMMA WriteKeeps ==
  ASSUME Inv, NEW a \in Articles, WriteArticle(a)
  PROVE  Inv'
  <1>1. PICK after \in NextRows(a, article[a]) :
          /\ article' = [article EXCEPT ![a] = after] /\ Advance(a, TargetOf(after, NoSelection))
    BY DEF WriteArticle
  <1>2. /\ opened.art # a /\ cli' = cli
        /\ UNCHANGED <<served, rebuild, exists, alias, doc, wire, opened, spent>>
    BY DEF WriteArticle, search
  <1>3. after \in ArticleRow /\ after.status # "absent"
    BY RowsWritten DEF Inv, TypeOK
  <1>4. TargetOf(after, NoSelection) \in Target
    BY <1>3, TargetType
  <1>5. /\ slot' \in [Articles -> Slot] /\ delivery' \in [Articles -> [Indexes -> DeliveryStates]]
        /\ seq' \in Nat
        /\ \A b \in Articles : slot[b].gen <= slot'[b].gen
        /\ \A b \in Articles \ {a} : slot'[b] = slot[b]
    BY <1>1, <1>4, AdvanceStep DEF Inv
  <1>6. article' \in [Articles -> ArticleRow] /\ article'[a] = after
    BY <1>1, <1>3 DEF Inv, TypeOK
  <1>7. \A b \in Articles \ {a} : article'[b] = article[b]
    BY <1>1 DEF Inv, TypeOK
  <1>8. SlotsOfArticles'
    BY <1>2, <1>3, <1>5, <1>6, <1>7 DEF Inv, SlotsOfArticles
  <1>9. \A b \in Articles : article[b].status # "absent" => article'[b].status # "absent"
    BY <1>3, <1>6, <1>7
  <1>10. opened' \in Opened \cup {NotOpened}
    BY <1>2 DEF Inv, TypeOK
  <1> QED BY <1>2, <1>5, <1>6, <1>8, <1>9, <1>10, StoreKeeps

LEMMA InsertKeeps ==
  ASSUME Inv, (\E a \in Articles : BeginInsert(a)) \/ CommitInsert
  PROVE  Inv'
  <1>1. cli' = cli /\ UNCHANGED <<served, rebuild, exists, alias, doc, wire, spent>>
    BY DEF BeginInsert, CommitInsert, search
  <1>2. CASE \E a \in Articles : BeginInsert(a)
    <2>1. PICK a \in Articles : BeginInsert(a)
      BY <1>2
    <2>2. PICK row \in NextRows(a, article[a]) :
            opened' = [art |-> a, row |-> row, seq |-> seq + 1, into |-> Active]
      BY <2>1 DEF BeginInsert
    <2>3. /\ article[a].status = "absent" /\ seq' = seq + 1
          /\ UNCHANGED <<article, slot, delivery>>
      BY <2>1 DEF BeginInsert
    <2>4. row \in ArticleRow /\ row.status # "absent" /\ Active \subseteq Indexes
      BY RowsWritten DEF Inv, TypeOK, Active
    <2>5. opened' \in Opened /\ opened'.art = a /\ opened'.row = row
      BY <2>2, <2>4 DEF Opened, Inv, TypeOK
    <2>6. SlotsOfArticles'
      BY <2>3, <2>4, <2>5 DEF Inv, SlotsOfArticles
    <2>7. /\ article' \in [Articles -> ArticleRow] /\ slot' \in [Articles -> Slot]
          /\ delivery' \in [Articles -> [Indexes -> DeliveryStates]] /\ seq' \in Nat
          /\ opened' \in Opened \cup {NotOpened}
      BY <2>3, <2>5 DEF Inv, TypeOK
    <2>8. \A b \in Articles : slot[b].gen <= slot'[b].gen
      BY <2>3 DEF Inv, TypeOK, Slot
    <2> QED BY <1>1, <2>3, <2>6, <2>7, <2>8, StoreKeeps
  <1>3. CASE CommitInsert
    <2>1. PICK a \in Articles : a = opened.art
      BY <1>3 DEF CommitInsert, Inv, SlotsOfArticles
    <2>2. opened \in Opened
      BY <1>3 DEF CommitInsert, Inv, TypeOK
    <2>3. PICK s : s = [gen |-> 1, target |-> TargetOf(opened.row, NoSelection), seq |-> opened.seq]
      OBVIOUS
    <2>4. PICK row \in ArticleRow : row = opened.row
      BY <2>2 DEF Opened
    <2>5. s \in Slot /\ s.gen = 1
      BY <2>2, <2>3, <2>4, TargetType DEF Opened, Slot
    <2>6. /\ article' = [article EXCEPT ![a] = row]
          /\ slot' = [slot EXCEPT ![a] = s]
          /\ delivery' = [delivery EXCEPT ![a] =
               [i \in Indexes |-> IF i \in opened.into THEN "owed" ELSE "none"]]
          /\ opened' = NotOpened /\ seq' = seq
      BY <1>3, <2>1, <2>3, <2>4 DEF CommitInsert
    <2>7. article[a].status = "absent" /\ slot[a] = NoSlot
      BY <1>3, <2>1 DEF CommitInsert, Inv, SlotsOfArticles
    <2>8. row.status # "absent"
      BY <1>3, <2>4 DEF CommitInsert, Inv, SlotsOfArticles
    <2>9. SlotsOfArticles'
      BY <2>4, <2>6, <2>8 DEF Inv, TypeOK, SlotsOfArticles
    <2>10. /\ article' \in [Articles -> ArticleRow] /\ slot' \in [Articles -> Slot]
           /\ delivery' \in [Articles -> [Indexes -> DeliveryStates]] /\ seq' \in Nat
           /\ opened' \in Opened \cup {NotOpened}
      BY <2>4, <2>5, <2>6 DEF Inv, TypeOK, DeliveryStates
    <2>11. \A b \in Articles : slot[b].gen <= slot'[b].gen
      BY <2>5, <2>6, <2>7 DEF Inv, TypeOK, Slot, NoSlot
    <2>12. \A b \in Articles : article[b].status # "absent" => article'[b].status # "absent"
      BY <2>6, <2>7 DEF Inv, TypeOK
    <2> QED BY <1>1, <2>9, <2>10, <2>11, <2>12, StoreKeeps
  <1> QED BY <1>2, <1>3

(* A document lands: the index may come back with it.                      *)
LEMMA IndexStep ==
  ASSUME Inv, NEW i \in Indexes, NEW a \in Articles, NEW gen \in Nat, NEW target \in Target,
         gen <= slot[a].gen, Index(i, a, gen, target), slot' = slot
  PROVE  /\ doc' \in [Indexes -> [Articles -> Doc]] /\ exists' \in [Indexes -> BOOLEAN]
         /\ \A j \in Indexes : exists[j] => exists'[j]
         /\ \A j \in Indexes, b \in Articles : doc'[j][b].gen <= slot'[b].gen
  <1>0. PICK e \in Doc, n \in Nat : e = doc[i][a] /\ n = slot[a].gen
    BY DEF Inv, TypeOK, Slot
  <1>1. PICK d \in Doc : d = Put(e, gen, target)
    BY PutDoc
  <1>2. d.gen <= slot[a].gen
    <2>1. e.gen <= n /\ gen <= n
      BY <1>0 DEF Inv, VersionsComeFromSlots
    <2> QED BY <1>0, <1>1, <2>1, PutDoc
  <1>3. doc' = [doc EXCEPT ![i][a] = d] /\ exists' = [exists EXCEPT ![i] = TRUE]
    BY <1>0, <1>1 DEF Index
  <1> QED BY <1>2, <1>3 DEF Inv, TypeOK, VersionsComeFromSlots

LEMMA LandsKeep ==
  ASSUME Inv,
         \/ \E a \in Articles, i \in Indexes : Deliver(a, i)
         \/ \E m \in wire : Land(m)
  PROVE  Inv'
  <1>1. /\ UNCHANGED <<article, slot, seq, served, rebuild, alias, opened, spent>> /\ cli' = cli
    BY DEF Deliver, Land, store
  <1>2. /\ doc' \in [Indexes -> [Articles -> Doc]] /\ exists' \in [Indexes -> BOOLEAN]
        /\ \A j \in Indexes : exists[j] => exists'[j]
        /\ \A j \in Indexes, b \in Articles : doc'[j][b].gen <= slot'[b].gen
        /\ wire' \subseteq wire
        /\ delivery' \in [Articles -> [Indexes -> DeliveryStates]]
    <2>1. CASE \E a \in Articles, i \in Indexes : Deliver(a, i)
      <3>1. PICK a \in Articles, i \in Indexes : Deliver(a, i)
        BY <2>1
      <3>2. PICK n \in Nat : n = slot[a].gen
        BY DEF Inv, TypeOK, Slot
      <3>3. PICK t \in Target : t = slot[a].target
        BY DEF Inv, TypeOK, Slot
      <3>4. Index(i, a, n, t) /\ n <= slot[a].gen /\ wire' = wire
        BY <3>1, <3>2, <3>3 DEF Deliver
      <3>5. delivery' \in [Articles -> [Indexes -> DeliveryStates]]
        BY <3>1 DEF Deliver, Inv, TypeOK, DeliveryStates
      <3> QED BY <1>1, <3>4, <3>5, IndexStep
    <2>2. CASE \E m \in wire : Land(m)
      <3>1. PICK m \in wire : Land(m)
        BY <2>2
      <3>2. PICK i \in Indexes, a \in Articles : i = m.index /\ a = m.art
        BY DEF Inv, TypeOK
      <3>3. PICK n \in Nat, t \in Target : n = m.gen /\ t = m.read
        BY DEF Inv, TypeOK
      <3>4. Index(i, a, n, t) /\ n <= slot[a].gen /\ wire' = wire \ {m} /\ delivery' = delivery
        BY <3>1, <3>2, <3>3 DEF Land, store, Inv, VersionsComeFromSlots
      <3>5. delivery' \in [Articles -> [Indexes -> DeliveryStates]]
        BY <3>4 DEF Inv, TypeOK
      <3> QED BY <1>1, <3>4, <3>5, IndexStep
    <2> QED BY <2>1, <2>2
  <1>3. TypeOK'
    BY <1>1, <1>2 DEF Inv, TypeOK
  <1>4. VersionsComeFromSlots'
    BY <1>1, <1>2 DEF Inv, VersionsComeFromSlots
  <1>5. AliasIsLive'
    BY <1>1, <1>2 DEF Inv, TypeOK, Served, AliasIsLive
  <1>6. SlotsOfArticles' /\ ItemAtHand'
    BY <1>1 DEF Inv, SlotsOfArticles, ItemAtHand
  <1>7. IndexAtHand'
    BY <1>1, <1>2 DEF Inv, TypeOK, Command, IndexAtHand
  <1> QED BY <1>3, <1>4, <1>5, <1>6, <1>7 DEF Inv

LEMMA WindowKeeps ==
  ASSUME Inv, WindowPasses
  PROVE  Inv'
  <1>1. PICK x \in Served : /\ x = [served EXCEPT !.expired = TRUE]
                            /\ x.current = served.current /\ x.rollback = served.rollback
    <2> DEFINE x == [served EXCEPT !.expired = TRUE]
    <2>1. x \in Served /\ x.current = served.current /\ x.rollback = served.rollback
      BY DEF Inv, TypeOK, Served
    <2> HIDE DEF x
    <2>2. x = [served EXCEPT !.expired = TRUE]
      BY DEF x
    <2> QED BY <2>1, <2>2
  <1>2. /\ served' = x /\ cli' = cli
        /\ UNCHANGED <<article, slot, delivery, seq, rebuild, exists, alias, doc, wire, opened, spent>>
    BY <1>1 DEF WindowPasses, store, search
  <1>3. TypeOK'
    BY <1>2 DEF Inv, TypeOK
  <1>4. VersionsComeFromSlots' /\ SlotsOfArticles' /\ ItemAtHand'
    BY <1>2 DEF Inv, VersionsComeFromSlots, SlotsOfArticles, ItemAtHand
  <1>5. AliasIsLive' /\ IndexAtHand'
    BY <1>1, <1>2 DEF Inv, AliasIsLive, IndexAtHand
  <1> QED BY <1>3, <1>4, <1>5 DEF Inv

-----------------------------------------------------------------------------
(* The command.                                                            *)

(* A step that marks deliveries, or writes the row of a rebuild.           *)
LEMMA MarkingKeeps ==
  ASSUME Inv, UNCHANGED <<article, slot, served, exists, alias, doc, wire, opened>>,
         delivery' \in [Articles -> [Indexes -> DeliveryStates]], seq' \in Nat,
         rebuild' \in [Indexes -> Rebuild],
         spent' \in [{"crash", "lost", "abandon"} -> Nat],
         cli' \in Command, ItemAtHand', IndexAtHand'
  PROVE  Inv'
  <1>1. TypeOK'
    BY DEF Inv, TypeOK
  <1>2. VersionsComeFromSlots' /\ SlotsOfArticles' /\ AliasIsLive'
    BY DEF Inv, VersionsComeFromSlots, SlotsOfArticles, AliasIsLive
  <1> QED BY <1>1, <1>2 DEF Inv

(* A step that reads, or only writes the row of a rebuild.                 *)
LEMMA CommandKeeps ==
  ASSUME Inv, UNCHANGED <<article, slot, delivery, seq, served, exists, alias, doc, wire, opened>>,
         rebuild' \in [Indexes -> Rebuild],
         spent' \in [{"crash", "lost", "abandon"} -> Nat],
         cli' \in Command, ItemAtHand', IndexAtHand'
  PROVE  Inv'
  <1>1. delivery' \in [Articles -> [Indexes -> DeliveryStates]] /\ seq' \in Nat
    BY DEF Inv, TypeOK
  <1> QED BY <1>1, MarkingKeeps

(* The steps that ask nothing of the item or of the index.                 *)
Free == Steps \ {"ensure", "read", "write", "converge", "mark", "set", "back", "backset",
                 "close", "closeset", "complete", "unused", "remove"}

LEMMA FreeKeeps ==
  ASSUME Inv, UNCHANGED <<article, slot, delivery, seq, served, exists, alias, doc, wire, opened>>,
         rebuild' \in [Indexes -> Rebuild],
         spent' \in [{"crash", "lost", "abandon"} -> Nat],
         cli' \in Command, cli'.pc \in Free
  PROVE  Inv'
  <1>1. ItemAtHand' /\ IndexAtHand'
    BY DEF Free, ItemAtHand, IndexAtHand
  <1> QED BY <1>1, CommandKeeps

LEMMA SpendType ==
  ASSUME TypeOK, NEW what \in {"crash", "lost", "abandon"}, NEW bound, Spend(what, bound)
  PROVE  spent' \in [{"crash", "lost", "abandon"} -> Nat]
  BY DEF TypeOK, Spend

LEMMA UpdateType ==
  ASSUME TypeOK, NEW i \in Indexes, NEW r \in Rebuild, Update(i, r)
  PROVE  rebuild' \in [Indexes -> Rebuild]
  BY DEF TypeOK, Update

(* Starting a command.                                                     *)
LEMMA StartKeeps ==
  ASSUME Inv, NEW i \in Indexes, Start(i)
  PROVE  Inv'
  <1>1. "begin" \in Steps
    BY DEF Steps
  <1>2. cli' \in Command /\ cli'.pc = "begin"
    BY <1>1, Starts DEF Start
  <1>3. /\ exists' = [exists EXCEPT ![i] = TRUE]
        /\ UNCHANGED <<article, slot, delivery, seq, served, rebuild, alias, doc, wire, opened, spent>>
    BY DEF Start, store
  <1>4. TypeOK'
    BY <1>2, <1>3 DEF Inv, TypeOK
  <1>5. VersionsComeFromSlots' /\ SlotsOfArticles'
    BY <1>3 DEF Inv, VersionsComeFromSlots, SlotsOfArticles
  <1>6. AliasIsLive'
    BY <1>3 DEF Inv, TypeOK, Served, AliasIsLive
  <1>7. ItemAtHand' /\ IndexAtHand'
    BY <1>2 DEF ItemAtHand, IndexAtHand
  <1> QED BY <1>4, <1>5, <1>6, <1>7 DEF Inv

LEMMA OperatorKeeps ==
  ASSUME Inv, NEW i \in Indexes,
         Resume(i) \/ Cutover(i) \/ Rollback(i) \/ Abandon(i) \/ Cleanup(i)
  PROVE  Inv'
  <1>1. /\ UNCHANGED <<article, slot, delivery, seq, served, rebuild, exists, alias, doc, wire, opened>>
        /\ rebuild' \in [Indexes -> Rebuild]
    BY DEF Resume, Cutover, Rollback, Abandon, Cleanup, store, search, Inv, TypeOK
  <1>2. spent' \in [{"crash", "lost", "abandon"} -> Nat]
    <2>1. CASE Abandon(i)
      BY <2>1, SpendType DEF Abandon, Inv
    <2>2. CASE ~Abandon(i)
      BY <2>2 DEF Resume, Cutover, Rollback, Cleanup, Inv, TypeOK
    <2> QED BY <2>1, <2>2
  <1>3. \E step \in Steps :
          /\ NewCommand(step, i)
          /\ step \in {"page", "drain", "count", "phase", "detach", "back", "close", "unused"}
          /\ step = "back" => served.rollback # NoIndex
          /\ step \in {"close", "unused"} => i # served.current
          /\ step = "unused" => i # served.rollback
    BY DEF Resume, Cutover, Rollback, Abandon, Cleanup, Steps
  <1>4. PICK step \in Steps :
          /\ NewCommand(step, i)
          /\ step \in {"page", "drain", "count", "phase", "detach", "back", "close", "unused"}
          /\ step = "back" => served.rollback # NoIndex
          /\ step \in {"close", "unused"} => i # served.current
          /\ step = "unused" => i # served.rollback
    BY <1>3
  <1>5. cli' \in Command /\ cli'.pc = step /\ cli'.index = i
    BY <1>4, Starts
  <1>6. ItemAtHand' /\ IndexAtHand'
    BY <1>1, <1>4, <1>5 DEF ItemAtHand, IndexAtHand
  <1> QED BY <1>1, <1>2, <1>5, <1>6, CommandKeeps

(* The steps that choose the next item.                                    *)
LEMMA PageKeeps ==
  ASSUME Inv, SnapshotPage
  PROVE  Inv'
  <1> DEFINE left == {a \in Articles : Public(article[a]) /\ a > Kept.snap}
  <1>1. /\ UNCHANGED <<article, slot, delivery, seq, served, rebuild, exists, alias, doc, wire, opened, spent>>
        /\ rebuild' \in [Indexes -> Rebuild] /\ spent' \in [{"crash", "lost", "abandon"} -> Nat]
    BY DEF SnapshotPage, store, search, Inv, TypeOK
  <1>2. CASE left = {}
    <2>1. Go("caught") /\ "caught" \in Steps /\ "caught" \in Free
      BY <1>2 DEF SnapshotPage, Steps, Free
    <2> QED BY <1>1, <2>1, Goes, FreeKeeps DEF Inv, TypeOK
  <1>3. CASE left # {}
    <2>1. PICK a \in left : a = MinOf(left)
      BY <1>3, MinOfIsLeast, RebuildAssumption
    <2>2. a \in Articles /\ article[a].status # "absent"
      BY <2>1 DEF Public
    <2>3. PICK t \in Target, b \in BOOLEAN : t = Fact(a) /\ b = (left # {a})
      BY <2>2, TargetType DEF Fact, Inv, TypeOK
    <2>4. cli' = [cli EXCEPT !.pc = "ensure", !.loop = "snapshot", !.art = a, !.read = t, !.more = b]
      BY <1>3, <2>1, <2>3 DEF SnapshotPage
    <2>5. "ensure" \in Steps
      BY DEF Steps
    <2>6. cli' \in Command /\ cli'.pc = "ensure" /\ cli'.art = a
      BY <2>2, <2>4, <2>5 DEF Inv, TypeOK, Command
    <2>7. ItemAtHand' /\ IndexAtHand'
      BY <1>1, <2>2, <2>6 DEF ItemAtHand, IndexAtHand
    <2> QED BY <1>1, <2>6, <2>7, CommandKeeps
  <1> QED BY <1>2, <1>3

LEMMA DrainKeeps ==
  ASSUME Inv, DrainUntouched
  PROVE  Inv'
  <1>1. /\ UNCHANGED <<article, slot, delivery, seq, served, rebuild, exists, alias, doc, wire, opened, spent>>
        /\ rebuild' \in [Indexes -> Rebuild] /\ spent' \in [{"crash", "lost", "abandon"} -> Nat]
    BY DEF DrainUntouched, store, search, Inv, TypeOK
  <1>2. CASE Go("scan")
    <2>1. "scan" \in Steps /\ "scan" \in Free
      BY DEF Steps, Free
    <2> QED BY <1>1, <1>2, <2>1, Goes, FreeKeeps DEF Inv, TypeOK
  <1>3. CASE ~Go("scan")
    <2> DEFINE owed == Lagging(Candidate)
    <2>1. owed \in SUBSET Nat /\ owed # {} /\ owed \subseteq Articles
      BY <1>3, RebuildAssumption DEF DrainUntouched, Lagging
    <2>2. PICK a \in Articles : a = MinOf(owed)
      <3> HIDE DEF owed
      <3> QED BY <2>1, MinOfIsLeast
    <2>3. PICK n \in Nat : n = slot[a].gen
      BY DEF Inv, TypeOK, Slot
    <2>4. cli' = [cli EXCEPT !.pc = "read", !.loop = "drain", !.art = a, !.gen = n]
      BY <1>3, <2>2, <2>3 DEF DrainUntouched
    <2>5. "read" \in Steps
      BY DEF Steps
    <2>6. cli' \in Command /\ cli'.pc = "read" /\ cli'.art = a /\ cli'.gen = n
      BY <2>4, <2>5 DEF Inv, TypeOK, Command
    <2>7. ItemAtHand' /\ IndexAtHand'
      BY <1>1, <2>3, <2>6 DEF ItemAtHand, IndexAtHand
    <2> QED BY <1>1, <2>6, <2>7, CommandKeeps
  <1> QED BY <1>2, <1>3

(* The next change is the one with the least number.                       *)
NextChange(S) == CHOOSE b \in S : \A c \in S : slot[b].seq <= slot[c].seq

LEMMA NextChangeIsLeast ==
  ASSUME TypeOK, NEW S \in SUBSET Articles, S # {}
  PROVE  NextChange(S) \in S /\ \A c \in S : slot[NextChange(S)].seq <= slot[c].seq
  <1> DEFINE N == {slot[c].seq : c \in S}
  <1>1. N \in SUBSET Nat /\ N # {}
    BY DEF TypeOK, Slot
  <1>2. PICK x \in N : \A y \in N : x <= y
    BY <1>1, LeastExists
  <1>3. PICK b \in S : slot[b].seq = x
    OBVIOUS
  <1>4. \A c \in S : slot[b].seq <= slot[c].seq
    BY <1>2, <1>3
  <1> QED BY <1>3, <1>4 DEF NextChange

LEMMA ScanKeeps ==
  ASSUME Inv, ScanChanges
  PROVE  Inv'
  <1> DEFINE changed == {a \in Articles : slot[a].seq > Later(Kept.catch, Kept.start)}
  <1>1. /\ UNCHANGED <<article, slot, delivery, seq, served, rebuild, exists, alias, doc, wire, opened, spent>>
        /\ rebuild' \in [Indexes -> Rebuild] /\ spent' \in [{"crash", "lost", "abandon"} -> Nat]
    BY DEF ScanChanges, store, search, Inv, TypeOK
  <1>2. CASE changed = {}
    <2>1. Go("lag") /\ "lag" \in Steps /\ "lag" \in Free
      BY <1>2 DEF ScanChanges, Steps, Free
    <2> QED BY <1>1, <2>1, Goes, FreeKeeps DEF Inv, TypeOK
  <1>3. CASE changed # {}
    <2>1. PICK a \in Articles : a = NextChange(changed)
      BY <1>3, NextChangeIsLeast DEF Inv
    <2>2. PICK n \in Nat, t \in Target, h \in Nat : n = slot[a].gen /\ t = slot[a].target /\ h = slot[a].seq
      BY DEF Inv, TypeOK, Slot
    <2>3. cli' = [cli EXCEPT !.pc = "read", !.loop = "scan", !.art = a, !.gen = n, !.read = t, !.high = h]
      BY <1>3, <2>1, <2>2 DEF ScanChanges, NextChange
    <2>4. "read" \in Steps
      BY DEF Steps
    <2>5. cli' \in Command /\ cli'.pc = "read" /\ cli'.art = a /\ cli'.gen = n
      BY <2>3, <2>4 DEF Inv, TypeOK, Command
    <2>6. ItemAtHand' /\ IndexAtHand'
      BY <1>1, <2>2, <2>5 DEF ItemAtHand, IndexAtHand
    <2> QED BY <1>1, <2>5, <2>6, CommandKeeps
  <1> QED BY <1>2, <1>3

(* The row of a rebuild keeps its type, whatever the command puts in it.   *)
LEMMA KeptType ==
  ASSUME TypeOK
  PROVE  /\ cli.index \in Indexes /\ Kept \in Rebuild
         /\ Kept.start \in Nat /\ Kept.snap \in Nat /\ Kept.catch \in Nat /\ Kept.phase \in Phases
  BY DEF TypeOK, Command, Candidate, Kept, Rebuild

LEMMA BeginKeeps ==
  ASSUME Inv, Begin
  PROVE  Inv'
  <1>1. /\ UNCHANGED <<article, slot, delivery, served, exists, alias, doc, wire, opened, spent>>
        /\ delivery' \in [Articles -> [Indexes -> DeliveryStates]]
        /\ spent' \in [{"crash", "lost", "abandon"} -> Nat]
    BY DEF Begin, search, Inv, TypeOK
  <1>2. seq' \in Nat /\ rebuild' \in [Indexes -> Rebuild] /\ cli' \in Command /\ cli'.pc \in Free
    <2>1. CASE Conflict
      <3>1. Finish /\ UNCHANGED <<rebuild, seq>> /\ "idle" \in Free
        BY <2>1 DEF Begin, Free, Steps
      <3> QED BY <3>1, Ends DEF Inv, TypeOK
    <2>2. CASE ~Conflict
      <3>1. Go("register") /\ "register" \in Steps /\ "register" \in Free /\ seq' = seq + 1
        BY <2>2 DEF Begin, Free, Steps
      <3>2. PICK r : r = [phase |-> "snapshot", start |-> seq + 1, snap |-> 0, catch |-> 0]
        OBVIOUS
      <3>3. r \in Rebuild
        BY <3>2 DEF Rebuild, Phases, Inv, TypeOK
      <3>4. rebuild' = [rebuild EXCEPT ![cli.index] = r]
        BY <2>2, <3>2 DEF Begin, Candidate
      <3>5. cli' \in Command /\ cli'.pc = "register"
        BY <3>1, Goes DEF Inv, TypeOK
      <3>6. seq' \in Nat
        BY <3>1 DEF Inv, TypeOK
      <3>7. rebuild' \in [Indexes -> Rebuild]
        BY <3>3, <3>4 DEF Inv, TypeOK
      <3> QED BY <3>1, <3>5, <3>6, <3>7
    <2> QED BY <2>1, <2>2
  <1>3. ItemAtHand' /\ IndexAtHand'
    BY <1>2 DEF Free, ItemAtHand, IndexAtHand
  <1> QED BY <1>1, <1>2, <1>3, MarkingKeeps

LEMMA RegisterKeeps ==
  ASSUME Inv, RegisterCandidate
  PROVE  Inv'
  <1>1. /\ UNCHANGED <<article, slot, seq, served, rebuild, exists, alias, doc, wire, opened, spent>>
        /\ seq' \in Nat /\ rebuild' \in [Indexes -> Rebuild]
        /\ spent' \in [{"crash", "lost", "abandon"} -> Nat]
    BY DEF RegisterCandidate, search, Inv, TypeOK
  <1>2. delivery' \in [Articles -> [Indexes -> DeliveryStates]]
    <2>1. PICK i \in Indexes : i = cli.index
      BY KeptType DEF Inv
    <2>2. delivery' = [a \in Articles |->
                         IF slot[a] = NoSlot THEN delivery[a] ELSE [delivery[a] EXCEPT ![i] = "owed"]]
      BY <2>1 DEF RegisterCandidate, Candidate
    <2> QED BY <2>2 DEF Inv, TypeOK, DeliveryStates
  <1>3. Go("page") /\ "page" \in Steps /\ "page" \in Free
    BY DEF RegisterCandidate, Steps, Free
  <1>4. cli' \in Command /\ cli'.pc = "page"
    BY <1>3, Goes DEF Inv, TypeOK
  <1>5. ItemAtHand' /\ IndexAtHand'
    BY <1>4 DEF ItemAtHand, IndexAtHand
  <1> QED BY <1>1, <1>2, <1>4, <1>5, MarkingKeeps

LEMMA EnsureKeeps ==
  ASSUME Inv, EnsureSlot
  PROVE  Inv'
  <1>1. PICK a \in Articles : a = cli.art /\ article[a].status # "absent"
    BY DEF EnsureSlot, At, Inv, ItemAtHand
  <1>2. /\ UNCHANGED <<article, served, rebuild, exists, alias, doc, wire, opened, spent>>
        /\ rebuild' \in [Indexes -> Rebuild]
        /\ spent' \in [{"crash", "lost", "abandon"} -> Nat]
    BY DEF EnsureSlot, search, Inv, TypeOK
  <1>3. /\ slot' \in [Articles -> Slot] /\ delivery' \in [Articles -> [Indexes -> DeliveryStates]]
        /\ seq' \in Nat
        /\ \A b \in Articles : slot[b].gen <= slot'[b].gen
        /\ \A b \in Articles \ {a} : slot'[b] = slot[b]
    <2>1. CASE slot[a] = NoSlot
      <3>1. PICK t \in Target : t = Fact(a)
        BY TargetType DEF Fact, Inv, TypeOK
      <3>2. Advance(a, t)
        BY <1>1, <2>1, <3>1 DEF EnsureSlot
      <3> QED BY <3>2, AdvanceStep DEF Inv
    <2>2. CASE slot[a] # NoSlot
      <3>1. UNCHANGED <<slot, delivery, seq>>
        BY <1>1, <2>2 DEF EnsureSlot
      <3> QED BY <3>1 DEF Inv, TypeOK, Slot
    <2> QED BY <2>1, <2>2
  <1>4. PICK n \in Nat : n = slot'[a].gen
    BY <1>3 DEF Slot
  <1>5. cli' = [cli EXCEPT !.pc = "write", !.gen = n]
    BY <1>1, <1>4 DEF EnsureSlot
  <1>6. cli' \in Command /\ cli'.pc = "write" /\ cli'.art = a /\ cli'.gen = n
    <2>1. "write" \in Steps
      BY DEF Steps
    <2> QED BY <1>1, <1>5, <2>1 DEF Inv, TypeOK, Command
  <1>7. TypeOK'
    BY <1>2, <1>3, <1>6 DEF Inv, TypeOK
  <1>8. VersionsComeFromSlots'
    <2>1. ASSUME NEW i \in Indexes, NEW b \in Articles
          PROVE  doc[i][b].gen <= slot'[b].gen
      <3>1. PICK x \in Nat, y \in Nat, z \in Nat : x = doc[i][b].gen /\ y = slot[b].gen /\ z = slot'[b].gen
        BY <1>3 DEF Inv, TypeOK, Doc, Slot
      <3>2. x <= y /\ y <= z
        BY <1>3, <3>1 DEF Inv, VersionsComeFromSlots
      <3> QED BY <3>1, <3>2
    <2>2. ASSUME NEW m \in wire
          PROVE  m.gen <= slot'[m.art].gen
      <3>1. PICK b \in Articles : b = m.art
        BY DEF Inv, TypeOK
      <3>2. PICK x \in Nat, y \in Nat, z \in Nat : x = m.gen /\ y = slot[b].gen /\ z = slot'[b].gen
        BY <1>3 DEF Inv, TypeOK, Slot
      <3>3. x <= y /\ y <= z
        BY <1>3, <3>1, <3>2 DEF Inv, VersionsComeFromSlots
      <3> QED BY <3>1, <3>2, <3>3
    <2> QED BY <1>2, <2>1, <2>2 DEF VersionsComeFromSlots
  <1>9. AliasIsLive'
    BY <1>2 DEF Inv, AliasIsLive
  <1>10. SlotsOfArticles'
    BY <1>1, <1>2, <1>3 DEF Inv, SlotsOfArticles
  <1>11. ItemAtHand' /\ IndexAtHand'
    BY <1>1, <1>2, <1>4, <1>6 DEF ItemAtHand, IndexAtHand
  <1> QED BY <1>7, <1>8, <1>9, <1>10, <1>11 DEF Inv

LEMMA WriteItemKeeps ==
  ASSUME Inv, WriteItem
  PROVE  Inv'
  <1>1. PICK i \in Indexes, a \in Articles : i = cli.index /\ a = cli.art
    BY KeptType DEF WriteItem, At, Inv, ItemAtHand
  <1>2. PICK n \in Nat, t \in Target : n = cli.gen /\ t = cli.read
    BY DEF Inv, TypeOK, Command
  <1>3. Index(i, a, n, t) /\ n <= slot[a].gen
    BY <1>1, <1>2 DEF WriteItem, At, Candidate, Inv, ItemAtHand
  <1>4. UNCHANGED <<article, slot, delivery, seq, served, rebuild, alias, wire, opened, spent>>
    BY DEF WriteItem, store
  <1>5. Go("converge") /\ "converge" \in Steps
    BY DEF WriteItem, Steps
  <1>6. cli' \in Command /\ cli'.pc = "converge" /\ cli'.art = a
    BY <1>1, <1>5, Goes DEF Inv, TypeOK
  <1>7. /\ doc' \in [Indexes -> [Articles -> Doc]] /\ exists' \in [Indexes -> BOOLEAN]
        /\ \A j \in Indexes : exists[j] => exists'[j]
        /\ \A j \in Indexes, b \in Articles : doc'[j][b].gen <= slot'[b].gen
    BY <1>3, <1>4, IndexStep
  <1>8. TypeOK'
    BY <1>4, <1>6, <1>7 DEF Inv, TypeOK
  <1>9. VersionsComeFromSlots' /\ SlotsOfArticles'
    BY <1>4, <1>7 DEF Inv, VersionsComeFromSlots, SlotsOfArticles
  <1>10. AliasIsLive'
    BY <1>4, <1>7 DEF Inv, TypeOK, Served, AliasIsLive
  <1>11. ItemAtHand' /\ IndexAtHand'
    BY <1>6 DEF ItemAtHand, IndexAtHand
  <1> QED BY <1>8, <1>9, <1>10, <1>11 DEF Inv

LEMMA ItemFailsKeeps ==
  ASSUME Inv, ItemFails
  PROVE  Inv'
  <1>1. /\ UNCHANGED <<article, slot, delivery, seq, served, rebuild, exists, alias, doc, opened>>
        /\ At("write")
    BY DEF ItemFails, store
  <1>2. PICK i \in Indexes, a \in Articles : i = cli.index /\ a = cli.art
    BY <1>1, KeptType DEF At, Inv, ItemAtHand
  <1>3. PICK n \in Nat, t \in Target : n = cli.gen /\ t = cli.read
    BY DEF Inv, TypeOK, Command
  <1>4. PICK m : m = [index |-> i, art |-> a, gen |-> n, read |-> t]
    OBVIOUS
  <1>5. /\ m \in [index : Indexes, art : Articles, gen : Nat, read : Target]
        /\ m.gen <= slot[m.art].gen
    BY <1>1, <1>2, <1>3, <1>4 DEF At, Inv, ItemAtHand
  <1>6. wire' = wire \/ wire' = wire \cup {m}
    BY <1>2, <1>3, <1>4 DEF ItemFails, Candidate
  <1>7. spent' \in [{"crash", "lost", "abandon"} -> Nat]
    BY SpendType DEF ItemFails, Inv, TypeOK
  <1>8. \/ Finish
        \/ NewCommand("drain", i)
        \/ Go("mark")
    BY <1>2 DEF ItemFails, NextItem, Candidate, Inv, TypeOK, Command
  <1>9. "drain" \in Steps /\ "mark" \in Steps
    BY DEF Steps
  <1>10. cli' \in Command /\ (cli'.pc \in {"idle", "drain"} \/ (cli'.pc = "mark" /\ cli'.art = a))
    BY <1>2, <1>8, <1>9, Ends, Starts, Goes DEF Inv, TypeOK
  <1>11. TypeOK'
    BY <1>1, <1>5, <1>6, <1>7, <1>10 DEF Inv, TypeOK
  <1>12. VersionsComeFromSlots'
    BY <1>1, <1>5, <1>6 DEF Inv, VersionsComeFromSlots
  <1>13. AliasIsLive' /\ SlotsOfArticles'
    BY <1>1 DEF Inv, AliasIsLive, SlotsOfArticles
  <1>14. ItemAtHand' /\ IndexAtHand'
    BY <1>10 DEF ItemAtHand, IndexAtHand
  <1> QED BY <1>11, <1>12, <1>13, <1>14 DEF Inv

LEMMA ConvergeKeeps ==
  ASSUME Inv, ConvergeCandidate
  PROVE  Inv'
  <1>1. /\ UNCHANGED <<article, slot, seq, served, rebuild, exists, alias, doc, wire, opened, spent>>
        /\ seq' \in Nat /\ rebuild' \in [Indexes -> Rebuild]
        /\ spent' \in [{"crash", "lost", "abandon"} -> Nat]
    BY DEF ConvergeCandidate, search, Inv, TypeOK
  <1>2. PICK i \in Indexes, a \in Articles : i = cli.index /\ a = cli.art
    BY KeptType DEF ConvergeCandidate, At, Inv, ItemAtHand
  <1>3. delivery' \in [Articles -> [Indexes -> DeliveryStates]]
    <2>1. delivery' = delivery \/ delivery' = [delivery EXCEPT ![a][i] = "done"]
      BY <1>2 DEF ConvergeCandidate, Candidate
    <2>2. "done" \in DeliveryStates /\ delivery \in [Articles -> [Indexes -> DeliveryStates]]
      BY DEF Inv, TypeOK, DeliveryStates
    <2>3. [delivery EXCEPT ![a][i] = "done"] \in [Articles -> [Indexes -> DeliveryStates]]
      BY <2>2
    <2> QED BY <2>1, <2>2, <2>3
  <1>4. NewCommand("drain", i) \/ Go("mark")
    BY <1>2 DEF ConvergeCandidate, NextItem, Candidate
  <1>5. "drain" \in Steps /\ "mark" \in Steps
    BY DEF Steps
  <1>6. cli' \in Command /\ (cli'.pc = "drain" \/ (cli'.pc = "mark" /\ cli'.art = a))
    BY <1>2, <1>4, <1>5, Starts, Goes DEF Inv, TypeOK
  <1>7. ItemAtHand' /\ IndexAtHand'
    BY <1>6 DEF ItemAtHand, IndexAtHand
  <1> QED BY <1>1, <1>3, <1>6, <1>7, MarkingKeeps

LEMMA MarkKeeps ==
  ASSUME Inv, MarkProgress
  PROVE  Inv'
  <1>1. /\ UNCHANGED <<article, slot, delivery, seq, served, exists, alias, doc, wire, opened, spent>>
        /\ spent' \in [{"crash", "lost", "abandon"} -> Nat]
    BY DEF MarkProgress, store, search, Inv, TypeOK
  <1>2. PICK i \in Indexes, k \in Rebuild : i = cli.index /\ k = rebuild[i]
    BY KeptType DEF Inv, Kept, Candidate
  <1>3. PICK a \in Articles, h \in Nat : a = cli.art /\ h = cli.high
    BY DEF MarkProgress, At, Inv, ItemAtHand, TypeOK, Command
  <1>4. /\ [k EXCEPT !.snap = Later(@, a)] \in Rebuild
        /\ [k EXCEPT !.catch = Later(@, h)] \in Rebuild
    BY RebuildAssumption DEF Rebuild, Later
  <1>5. /\ \/ Update(i, [k EXCEPT !.snap = Later(@, a)])
           \/ Update(i, [k EXCEPT !.catch = Later(@, h)])
        /\ NewCommand("page", i) \/ NewCommand("caught", i) \/ NewCommand("scan", i)
    BY <1>2, <1>3 DEF MarkProgress, NextItem, Candidate, Kept
  <1>6. rebuild' \in [Indexes -> Rebuild]
    BY <1>4, <1>5, UpdateType DEF Inv
  <1>7. /\ "page" \in Steps /\ "caught" \in Steps /\ "scan" \in Steps
        /\ "page" \in Free /\ "caught" \in Free /\ "scan" \in Free
    BY DEF Steps, Free
  <1>8. cli' \in Command /\ cli'.pc \in Free
    BY <1>5, <1>7, Starts
  <1> QED BY <1>1, <1>6, <1>8, FreeKeeps

LEMMA ReadKeeps ==
  ASSUME Inv, ReadCurrent
  PROVE  Inv'
  <1>1. /\ UNCHANGED <<article, slot, delivery, seq, served, rebuild, exists, alias, doc, wire, opened, spent>>
        /\ rebuild' \in [Indexes -> Rebuild] /\ spent' \in [{"crash", "lost", "abandon"} -> Nat]
    BY DEF ReadCurrent, store, search, Inv, TypeOK
  <1>2. PICK a \in Articles, n \in Nat : a = cli.art /\ n = cli.gen /\ n <= slot[a].gen
    BY DEF ReadCurrent, At, Inv, ItemAtHand, TypeOK, Command
  <1>3. "write" \in Steps /\ "converge" \in Steps /\ "mark" \in Steps
    BY DEF Steps
  <1>4. cli' \in Command /\ cli'.pc \in {"write", "converge", "mark"} /\ cli'.art = a /\ cli'.gen = n
    <2>1. CASE cli.loop = "drain"
      <3>1. PICK t \in Target : t = Fact(a)
        BY TargetType DEF Fact, Inv, TypeOK
      <3>2. PICK step \in {"write", "converge"} :
              cli' = [cli EXCEPT !.pc = step, !.read = t]
        BY <1>2, <2>1, <3>1 DEF ReadCurrent
      <3> QED BY <1>2, <1>3, <3>2 DEF Inv, TypeOK, Command
    <2>2. CASE cli.loop # "drain"
      <3>1. Go("write") \/ Go("mark")
        BY <2>2 DEF ReadCurrent
      <3> QED BY <1>2, <1>3, <3>1, Goes DEF Inv, TypeOK
    <2> QED BY <2>1, <2>2
  <1>5. ItemAtHand' /\ IndexAtHand'
    BY <1>1, <1>2, <1>4 DEF ItemAtHand, IndexAtHand
  <1> QED BY <1>1, <1>4, <1>5, CommandKeeps

(* The counts and the verdict, and the changes of phase.                   *)
LEMMA PhaseKeeps ==
  ASSUME Inv, NEW phase \in Phases, NEW start \in Nat,
         \/ Update(Candidate, [Kept EXCEPT !.phase = phase])
         \/ Update(Candidate, [Kept EXCEPT !.phase = phase, !.catch = Later(@, start)])
         \/ UNCHANGED rebuild,
         UNCHANGED <<article, slot, delivery, seq, served, exists, alias, doc, wire, opened, spent>>,
         cli' \in Command, cli'.pc \in Free
  PROVE  Inv'
  <1>1. PICK i \in Indexes, k \in Rebuild : i = cli.index /\ k = rebuild[i]
    BY KeptType DEF Inv, Kept, Candidate
  <1>2. /\ [k EXCEPT !.phase = phase] \in Rebuild
        /\ [k EXCEPT !.phase = phase, !.catch = Later(@, start)] \in Rebuild
    BY DEF Rebuild, Later
  <1>3. rebuild' \in [Indexes -> Rebuild]
    BY <1>1, <1>2, UpdateType DEF Inv, TypeOK, Kept, Candidate
  <1>4. spent' \in [{"crash", "lost", "abandon"} -> Nat]
    BY DEF Inv, TypeOK
  <1> QED BY <1>3, <1>4, FreeKeeps

LEMMA ValidateKeeps ==
  ASSUME Inv, SnapshotDone \/ CatchUpDone \/ CountPublic \/ Inspect \/ CheckLagging \/ Verdict
  PROVE  Inv'
  <1>1. UNCHANGED <<article, slot, delivery, seq, served, exists, alias, doc, wire, opened, spent>>
    BY DEF SnapshotDone, CatchUpDone, CountPublic, Inspect, CheckLagging, Verdict, store, search
  <1>2. PICK start \in Nat : start = Kept.start
    BY KeptType DEF Inv
  <1>3. \E phase \in Phases :
          \/ Update(Candidate, [Kept EXCEPT !.phase = phase])
          \/ Update(Candidate, [Kept EXCEPT !.phase = phase, !.catch = Later(@, start)])
          \/ UNCHANGED rebuild
    BY <1>2 DEF SnapshotDone, CatchUpDone, CountPublic, Inspect, CheckLagging, Verdict, Phases
  <1>4. /\ "drain" \in Steps /\ "scan" \in Steps /\ "count" \in Steps /\ "inspect" \in Steps
        /\ "lagging" \in Steps /\ "sample" \in Steps
        /\ {"drain", "scan", "count", "inspect", "lagging", "sample", "idle"} \subseteq Free
    BY DEF Steps, Free
  <1>5. cli' \in Command /\ cli'.pc \in Free
    <2>1. CASE SnapshotDone \/ CatchUpDone \/ Verdict \/ (Inspect /\ Finish)
      BY <1>4, <2>1, Goes, Ends DEF SnapshotDone, CatchUpDone, Verdict, Inv, TypeOK
    <2>2. CASE CountPublic
      <3>1. PICK n \in Nat : n = Cardinality({a \in Articles : Public(article[a])})
        BY SetsAreCounted
      <3>2. cli' = [cli EXCEPT !.pc = "inspect", !.public = n]
        BY <2>2, <3>1 DEF CountPublic
      <3>3. cli' \in Command /\ cli'.pc = "inspect"
        BY <1>4, <3>2 DEF Inv, TypeOK, Command
      <3> QED BY <1>4, <3>3
    <2>3. CASE Inspect /\ ~Finish
      <3>1. PICK n \in Nat : n = Cardinality({a \in Articles : Shown(Candidate, a)})
        BY SetsAreCounted
      <3>2. cli' = [cli EXCEPT !.pc = "lagging", !.visible = n]
        BY <2>3, <3>1 DEF Inspect
      <3>3. cli' \in Command /\ cli'.pc = "lagging"
        BY <1>4, <3>2 DEF Inv, TypeOK, Command
      <3> QED BY <1>4, <3>3
    <2>4. CASE CheckLagging
      <3>1. PICK b \in BOOLEAN : b = (Lagging(Candidate) = {})
        OBVIOUS
      <3>2. cli' = [cli EXCEPT !.pc = "sample", !.clean = b]
        BY <2>4, <3>1 DEF CheckLagging
      <3>3. cli' \in Command /\ cli'.pc = "sample"
        BY <1>4, <3>2 DEF Inv, TypeOK, Command
      <3> QED BY <1>4, <3>3
    <2> QED BY <2>1, <2>2, <2>3, <2>4
  <1> QED BY <1>1, <1>3, <1>5, PhaseKeeps

(* The switch of the alias: the index behind it exists.                    *)
LEMMA AliasKeeps ==
  ASSUME Inv, Switch \/ SwitchBack
  PROVE  Inv'
  <1>1. UNCHANGED <<article, slot, delivery, seq, served, rebuild, exists, doc, wire, opened, spent>>
    BY DEF Switch, SwitchBack, store
  <1>2. PICK i \in Indexes : i = cli.index
    BY KeptType DEF Inv
  <1>3. CASE Switch
    <2>1. \/ exists[i] /\ alias' = i /\ Go("set")
          \/ alias' = alias /\ Finish
      BY <1>2, <1>3 DEF Switch, SwitchAliases, Candidate
    <2>2. "set" \in Steps
      BY DEF Steps
    <2>3. cli' \in Command /\ (cli'.pc = "idle" \/ (cli'.pc = "set" /\ cli'.index = i /\ exists[i]))
      BY <1>2, <2>1, <2>2, Goes, Ends DEF Inv, TypeOK
    <2>4. TypeOK' /\ AliasIsLive'
      BY <1>1, <2>1, <2>3 DEF Inv, TypeOK, AliasIsLive
    <2>5. ItemAtHand' /\ IndexAtHand'
      BY <1>1, <2>3 DEF ItemAtHand, IndexAtHand
    <2> QED BY <1>1, <2>4, <2>5 DEF Inv, VersionsComeFromSlots, SlotsOfArticles
  <1>4. CASE SwitchBack
    <2>1. PICK r \in Indexes : r = served.rollback /\ served.rollback # NoIndex
      BY <1>4 DEF SwitchBack, At, Inv, IndexAtHand, TypeOK, Served
    <2>2. \/ exists[r] /\ alias' = r /\ Go("backset")
          \/ alias' = alias /\ Finish
      BY <1>4, <2>1 DEF SwitchBack, SwitchAliases
    <2>3. "backset" \in Steps
      BY DEF Steps
    <2>4. cli' \in Command /\ cli'.pc \in {"idle", "backset"}
      BY <2>2, <2>3, Goes, Ends DEF Inv, TypeOK
    <2>5. TypeOK' /\ AliasIsLive'
      BY <1>1, <2>1, <2>2, <2>4 DEF Inv, TypeOK, AliasIsLive
    <2>6. ItemAtHand' /\ IndexAtHand'
      BY <1>1, <2>1, <2>4 DEF ItemAtHand, IndexAtHand
    <2> QED BY <1>1, <2>5, <2>6 DEF Inv, VersionsComeFromSlots, SlotsOfArticles
  <1> QED BY <1>3, <1>4

(* The writes of search_index_state name indexes that exist.               *)
LEMMA ServedKeeps ==
  ASSUME Inv, SetServed \/ SetBack \/ CloseWindow
  PROVE  Inv'
  <1>1. UNCHANGED <<article, slot, delivery, seq, rebuild, exists, alias, doc, wire, opened, spent>>
    BY DEF SetServed, SetBack, CloseWindow, store, search
  <1>2. PICK i \in Indexes, c \in Indexes, r \in Indexes \cup {NoIndex} :
          i = cli.index /\ c = served.current /\ r = served.rollback
    BY KeptType DEF Inv, TypeOK, Served
  <1>3. exists[c] /\ (r # NoIndex => exists[r])
    BY <1>2 DEF Inv, AliasIsLive
  <1>4. PICK x : /\ served' = x
                 /\ x \in {[current |-> i, rollback |-> c, expired |-> FALSE],
                           [current |-> r, rollback |-> NoIndex, expired |-> FALSE],
                           [current |-> c, rollback |-> NoIndex, expired |-> FALSE]}
    BY <1>2 DEF SetServed, SetBack, CloseWindow, Candidate
  <1>5. /\ served' \in Served /\ exists[served'.current]
        /\ served'.rollback # NoIndex => exists[served'.rollback]
    <2>1. CASE SetServed
      <3>1. served' = [current |-> i, rollback |-> c, expired |-> FALSE] /\ exists[i]
        BY <1>2, <2>1 DEF SetServed, Candidate, At, Inv, IndexAtHand
      <3> QED BY <1>3, <3>1 DEF Served
    <2>2. CASE SetBack
      <3>1. served' = [current |-> r, rollback |-> NoIndex, expired |-> FALSE] /\ r # NoIndex
        BY <1>2, <2>2 DEF SetBack, At, Inv, IndexAtHand
      <3> QED BY <1>2, <1>3, <3>1 DEF Served
    <2>3. CASE CloseWindow
      <3>1. served' = [current |-> c, rollback |-> NoIndex, expired |-> FALSE]
        BY <1>2, <2>3 DEF CloseWindow
      <3> QED BY <1>2, <1>3, <3>1 DEF Served
    <2> QED BY <2>1, <2>2, <2>3
  <1>6. "serve" \in Steps /\ "backdetach" \in Steps /\ "complete" \in Steps
    BY DEF Steps
  <1>7. /\ cli' \in Command /\ cli'.index = i
        /\ \/ cli'.pc \in {"serve", "backdetach"}
           \/ cli'.pc = "complete" /\ i # served'.current /\ served'.rollback = NoIndex
    <2>1. CASE SetServed \/ SetBack
      <3>1. Go("serve") \/ Go("backdetach")
        BY <2>1 DEF SetServed, SetBack
      <3> QED BY <1>2, <1>6, <3>1, Goes DEF Inv, TypeOK
    <2>2. CASE CloseWindow
      <3>1. Go("complete") /\ i # c /\ served' = [current |-> c, rollback |-> NoIndex, expired |-> FALSE]
        BY <1>2, <2>2 DEF CloseWindow, At, Inv, IndexAtHand
      <3> QED BY <1>2, <1>6, <3>1, Goes DEF Inv, TypeOK
    <2> QED BY <2>1, <2>2
  <1>8. TypeOK'
    BY <1>1, <1>5, <1>7 DEF Inv, TypeOK
  <1>9. AliasIsLive'
    BY <1>1, <1>5 DEF Inv, AliasIsLive
  <1>10. ItemAtHand' /\ IndexAtHand'
    BY <1>7 DEF ItemAtHand, IndexAtHand
  <1> QED BY <1>1, <1>8, <1>9, <1>10 DEF Inv, VersionsComeFromSlots, SlotsOfArticles

LEMMA DetachKeeps ==
  ASSUME Inv, DetachCandidate
  PROVE  Inv'
  <1>1. /\ UNCHANGED <<article, slot, seq, served, rebuild, exists, alias, doc, wire, opened, spent>>
        /\ seq' \in Nat /\ rebuild' \in [Indexes -> Rebuild]
        /\ spent' \in [{"crash", "lost", "abandon"} -> Nat]
    BY DEF DetachCandidate, search, Inv, TypeOK
  <1>2. PICK i \in Indexes : i = cli.index
    BY KeptType DEF Inv
  <1>3. delivery' \in [Articles -> [Indexes -> DeliveryStates]]
    <2>1. delivery' = [a \in Articles |-> [delivery[a] EXCEPT ![i] = "none"]]
      BY <1>2 DEF DetachCandidate, Detached, Candidate
    <2>2. "none" \in DeliveryStates
      BY DEF DeliveryStates
    <2> QED BY <2>1, <2>2 DEF Inv, TypeOK
  <1>4. "abandon" \in Steps /\ "backphase" \in Steps /\ "closeset" \in Steps
    BY DEF Steps
  <1>5. Go("abandon") \/ Go("backphase") \/ (Go("closeset") /\ cli.pc = "close")
    BY DEF DetachCandidate, At
  <1>6. /\ cli' \in Command /\ cli'.index = i
        /\ cli'.pc \in {"abandon", "backphase"} \/ (cli'.pc = "closeset" /\ i # served.current)
    BY <1>2, <1>4, <1>5, Goes DEF Inv, TypeOK, IndexAtHand
  <1>7. ItemAtHand' /\ IndexAtHand'
    BY <1>1, <1>6 DEF ItemAtHand, IndexAtHand
  <1> QED BY <1>1, <1>3, <1>6, <1>7, MarkingKeeps

(* The changes of phase of a cutover, a rollback or an abandon.            *)
LEMMA SwitchPhaseKeeps ==
  ASSUME Inv, EnterCutover \/ Serve \/ EnterAbandoned \/ CompleteRebuild \/ CheckUnused
  PROVE  Inv'
  <1>1. /\ UNCHANGED <<article, slot, delivery, seq, served, exists, alias, doc, wire, opened, spent>>
        /\ spent' \in [{"crash", "lost", "abandon"} -> Nat]
    BY DEF EnterCutover, Serve, EnterAbandoned, CompleteRebuild, CheckUnused, store, search, Inv, TypeOK
  <1>2. PICK i \in Indexes, k \in Rebuild : i = cli.index /\ k = rebuild[i]
    BY KeptType DEF Inv, Kept, Candidate
  <1>3. rebuild' \in [Indexes -> Rebuild]
    <2>1. \A j \in Indexes : \A phase \in Phases : [rebuild[j] EXCEPT !.phase = phase] \in Rebuild
      BY DEF Inv, TypeOK, Rebuild
    <2>2. {"cutover", "serving", "abandoned", "completed"} \subseteq Phases
      BY DEF Phases
    <2>3. PICK c \in Indexes : c = served.current
      BY DEF Inv, TypeOK, Served
    <2>4. CASE EnterCutover \/ Serve
      <3>1. Update(i, [k EXCEPT !.phase = "cutover"]) \/ Update(i, [k EXCEPT !.phase = "serving"])
        BY <1>2, <2>4 DEF EnterCutover, Serve, Kept, Candidate
      <3>2. [k EXCEPT !.phase = "cutover"] \in Rebuild /\ [k EXCEPT !.phase = "serving"] \in Rebuild
        BY <1>2, <2>1, <2>2
      <3> QED BY <3>1, <3>2, UpdateType DEF Inv
    <2>5. CASE EnterAbandoned
      <3>1. rebuild' = rebuild \/ rebuild' = [rebuild EXCEPT ![i].phase = "abandoned"]
        BY <1>2, <2>5 DEF EnterAbandoned, Candidate
      <3> QED BY <2>1, <2>2, <3>1 DEF Inv, TypeOK
    <2>6. CASE CompleteRebuild
      <3>1. rebuild' = rebuild \/ rebuild' = [rebuild EXCEPT ![c].phase = "completed"]
        BY <2>3, <2>6 DEF CompleteRebuild
      <3> QED BY <2>1, <2>2, <3>1 DEF Inv, TypeOK
    <2>7. CASE CheckUnused
      BY <2>7 DEF CheckUnused, Inv, TypeOK
    <2> QED BY <2>4, <2>5, <2>6, <2>7
  <1>4. "switch" \in Steps /\ "unused" \in Steps /\ "remove" \in Steps
    BY DEF Steps
  <1>5. \/ Go("switch") \/ Finish
        \/ (Go("unused") \/ Go("remove")) /\ i # served.current
           /\ (served.rollback # NoIndex => i # served.rollback)
    BY <1>2 DEF EnterCutover, Serve, EnterAbandoned, CompleteRebuild, CheckUnused, At, Inv, IndexAtHand
  <1>6. /\ cli' \in Command
        /\ \/ cli'.pc \in {"switch", "idle"}
           \/ /\ cli'.pc \in {"unused", "remove"} /\ cli'.index = i /\ i # served.current
              /\ served.rollback # NoIndex => i # served.rollback
    BY <1>2, <1>4, <1>5, Goes, Ends DEF Inv, TypeOK
  <1>7. ItemAtHand' /\ IndexAtHand'
    BY <1>1, <1>6 DEF ItemAtHand, IndexAtHand
  <1> QED BY <1>1, <1>3, <1>6, <1>7, CommandKeeps

(* What is removed is neither behind the alias nor named by the row.       *)
LEMMA RemoveKeeps ==
  ASSUME Inv, RemoveIndex
  PROVE  Inv'
  <1>1. UNCHANGED <<article, slot, delivery, seq, served, rebuild, alias, wire, opened, spent>>
    BY DEF RemoveIndex, store
  <1>2. PICK i \in Indexes : i = cli.index
    BY KeptType DEF Inv
  <1>3. i # served.current /\ (served.rollback # NoIndex => i # served.rollback)
    BY <1>2 DEF RemoveIndex, At, Inv, IndexAtHand
  <1>4. cli' \in Command /\ cli'.pc = "idle"
    BY Ends DEF RemoveIndex
  <1>5. NoDoc \in Doc /\ NoDoc.gen = 0
    BY DEF NoDoc, Doc, NoTarget, Target
  <1>11. PICK row \in [Articles -> Doc] : row = [a \in Articles |-> NoDoc]
    BY <1>5
  <1>6. \/ UNCHANGED <<exists, doc>>
        \/ /\ alias # i
           /\ exists' = [exists EXCEPT ![i] = FALSE]
           /\ doc' = [doc EXCEPT ![i] = row]
    BY <1>2, <1>11 DEF RemoveIndex, Candidate
  <1>12. doc' \in [Indexes -> [Articles -> Doc]] /\ exists' \in [Indexes -> BOOLEAN]
    BY <1>6 DEF Inv, TypeOK
  <1>7. TypeOK'
    BY <1>1, <1>4, <1>12 DEF Inv, TypeOK
  <1>8. VersionsComeFromSlots'
    <2>1. \A j \in Indexes, a \in Articles : doc'[j][a] = doc[j][a] \/ doc'[j][a] = NoDoc
      BY <1>6, <1>11 DEF Inv, TypeOK
    <2>2. \A a \in Articles : slot[a].gen \in Nat
      BY DEF Inv, TypeOK, Slot
    <2> QED BY <1>1, <1>5, <2>1, <2>2 DEF Inv, VersionsComeFromSlots
  <1>9. AliasIsLive'
    BY <1>1, <1>3, <1>6 DEF Inv, TypeOK, Served, AliasIsLive
  <1>10. SlotsOfArticles' /\ ItemAtHand' /\ IndexAtHand'
    BY <1>1, <1>4 DEF Inv, SlotsOfArticles, ItemAtHand, IndexAtHand
  <1> QED BY <1>7, <1>8, <1>9, <1>10 DEF Inv

LEMMA CrashKeeps ==
  ASSUME Inv, Crash
  PROVE  Inv'
  <1>1. UNCHANGED <<article, slot, delivery, seq, served, rebuild, exists, alias, doc, wire, opened>>
    BY DEF Crash, store, search
  <1>2. spent' \in [{"crash", "lost", "abandon"} -> Nat] /\ rebuild' \in [Indexes -> Rebuild]
    BY <1>1, SpendType DEF Crash, Inv, TypeOK
  <1>3. cli' \in Command /\ cli'.pc = "idle" /\ "idle" \in Free
    BY Ends DEF Crash, Free, Steps
  <1> QED BY <1>1, <1>2, <1>3, FreeKeeps

LEMMA StepKeeps ==
  ASSUME Inv, [Next]_vars
  PROVE  Inv'
  <1>1. CASE World
    BY <1>1, WriteKeeps, InsertKeeps, LandsKeep, WindowKeeps DEF World
  <1>2. CASE Operator
    BY <1>2, StartKeeps, OperatorKeeps DEF Operator
  <1>3. CASE RunStep
    BY <1>3, BeginKeeps, RegisterKeeps, PageKeeps, EnsureKeeps, WriteItemKeeps, ItemFailsKeeps,
       ConvergeKeeps, MarkKeeps, DrainKeeps, ScanKeeps, ReadKeeps, ValidateKeeps DEF RunStep
  <1>4. CASE SwitchStep
    BY <1>4, SwitchPhaseKeeps, AliasKeeps, ServedKeeps, DetachKeeps, RemoveKeeps DEF SwitchStep
  <1>5. CASE Crash
    BY <1>5, CrashKeeps
  <1>6. CASE UNCHANGED vars
    <2>1. /\ UNCHANGED <<article, slot, delivery, seq, served, rebuild, exists, alias, doc, wire, opened, spent>>
          /\ cli' = cli
      BY <1>6 DEF vars
    <2>2. TypeOK' /\ VersionsComeFromSlots' /\ AliasIsLive'
      BY <2>1 DEF Inv, TypeOK, VersionsComeFromSlots, AliasIsLive
    <2>3. SlotsOfArticles' /\ ItemAtHand' /\ IndexAtHand'
      BY <2>1 DEF Inv, SlotsOfArticles, ItemAtHand, IndexAtHand
    <2> QED BY <2>2, <2>3 DEF Inv
  <1> QED BY <1>1, <1>2, <1>3, <1>4, <1>5, <1>6 DEF Next

LEMMA InitHolds ==
  ASSUME Init
  PROVE  Inv
  <1> USE DEF Init
  <1>1. /\ FirstRow("published") \in ArticleRow /\ AbsentArticle \in ArticleRow
        /\ FirstRow("published").status # "absent"
    BY DEF FirstRow, AbsentArticle, ArticleRow, Statuses, Reasons
  <1>2. NoTarget \in Target
    BY DEF NoTarget, Target
  <1>3. NoSlot \in Slot /\ NoDoc \in Doc /\ NoRebuild \in Rebuild /\ NoSlot.gen = 0 /\ NoDoc.gen = 0
    BY <1>2 DEF NoSlot, Slot, NoDoc, Doc, NoRebuild, Rebuild, Phases
  <1>4. TypeOK
    BY <1>1, <1>3, IdleType, RebuildAssumption DEF TypeOK, DeliveryStates, Served
  <1>5. VersionsComeFromSlots /\ SlotsOfArticles
    BY <1>3 DEF VersionsComeFromSlots, SlotsOfArticles
  <1>6. AliasIsLive
    BY RebuildAssumption DEF AliasIsLive
  <1>7. ItemAtHand /\ IndexAtHand
    BY IdleType DEF ItemAtHand, IndexAtHand
  <1> QED BY <1>4, <1>5, <1>6, <1>7 DEF Inv

THEOREM Invariance == Spec => []Inv
  <1>1. Init => Inv
    BY InitHolds
  <1>2. Inv /\ [Next]_vars => Inv'
    BY StepKeeps
  <1> QED BY <1>1, <1>2, PTL DEF Spec

(* The store, the search engine and the command keep their types.          *)
THEOREM TypeCorrect == Spec => []TypeOK
  BY Invariance, PTL DEF Inv

(* No document and no item under way carries a version above the           *)
(* generation of its slot, whatever crashes, is lost or comes late, so that *)
(* the next delivery is never refused. (EnsureSlots, writeCandidate.)      *)
THEOREM VersionsAreOfSlots == Spec => []VersionsComeFromSlots
  BY Invariance, PTL DEF Inv

(* The index behind the alias, the one search_index_state names and the    *)
(* one a rollback returns to exist, in every order of cutover, rollback,   *)
(* crash, abandon and cleanup. (SwitchAliases, Cleanup.)                   *)
THEOREM AliasLives == Spec => []AliasIsLive
  BY Invariance, PTL DEF Inv

-----------------------------------------------------------------------------
(***************************************************************************)
(* What is read through the alias.  The second inductive invariant holds    *)
(* where no Bulk item of the command fails, no new article stays           *)
(* uncommitted, no candidate under way is abandoned or cleaned up, and the  *)
(* command does not stop between the alias and the row that describes it;   *)
(* without one of these the runs show what is lost.                         *)
(***************************************************************************)
Undisturbed ==
  /\ MaxLost = 0 /\ MaxAbandons = 0 /\ SlowInserts = FALSE /\ CleansCandidates = FALSE
  /\ CrashSteps \cap {"set", "backset"} = {}

(* An index shows an article as it is now.                                 *)
Shows(i, a) ==
  IF Public(article[a]) THEN doc[i][a].target = Fact(a) ELSE doc[i][a].target.action # "upsert"

Complete(i) == \A a \in Articles : slot[a] = NoSlot \/ delivery[a][i] = "owed" \/ Shows(i, a)

(* The changes up to here are in the candidate, or owed to it.             *)
Mark(i) == Later(rebuild[i].catch, rebuild[i].start)

Quiet == wire = {} /\ opened = NotOpened

(* A slot says what its article is, and each change has its own number.    *)
SlotsTell ==
  \A a \in Articles :
    /\ slot[a] # NoSlot => /\ slot[a].target = Fact(a)
                           /\ slot[a].gen >= 1 /\ slot[a].seq >= 1 /\ slot[a].seq <= seq
    /\ slot[a] = NoSlot => article[a].status = "absent" \/ Public(article[a])
    /\ \A b \in Articles : slot[a].seq = slot[b].seq => a = b \/ slot[a] = NoSlot

(* An index that had no rebuild is empty, but for the first; one that is   *)
(* being built exists.                                                     *)
Indices ==
  /\ rebuild[FirstIndex].phase = "none"
  /\ \A i \in Indexes :
       /\ rebuild[i].start <= seq /\ rebuild[i].catch <= seq
       /\ rebuild[i].phase = "snapshot" => rebuild[i].catch = 0
       /\ rebuild[i].phase \in BuildPhases => exists[i]
       /\ rebuild[i].phase = "none" /\ i # FirstIndex =>
            \A a \in Articles : doc[i][a] = NoDoc /\ delivery[a][i] = "none"

(* The phase in which a command is at a step.                              *)
Phased ==
  LET phase == rebuild[cli.index].phase IN
  /\ cli.pc = "begin" => phase = "none" /\ cli.index # FirstIndex /\ exists[cli.index]
  /\ cli.pc \in {"register", "page", "ensure", "caught"} => phase = "snapshot"
  /\ cli.pc \in {"drain", "read", "scan", "lag"} => phase = "catchup"
  /\ cli.pc = "ensure" => cli.loop = "snapshot"
  /\ cli.pc = "read" => cli.loop # "snapshot"
  /\ cli.pc = "mark" => cli.loop # "drain"
  /\ cli.pc \in {"write", "converge", "mark"} =>
       phase = IF cli.loop = "snapshot" THEN "snapshot" ELSE "catchup"
  /\ cli.pc \in {"count", "inspect", "lagging", "sample"} => phase \in {"validate", "validated"}
  /\ cli.pc = "phase" => phase = "validated"
  /\ cli.pc \in {"switch", "set", "serve"} => phase = "cutover"
  /\ cli.pc \in {"back", "backset", "backdetach", "backphase"} => phase = "serving"
  /\ cli.pc \in {"close", "closeset", "complete", "unused", "remove"} => phase \notin BuildPhases
  /\ cli.pc \notin {"detach", "abandon"}

Live(i) == i = FirstIndex \/ rebuild[i].phase \in {"cutover", "serving", "completed", "abandoned"}

(* The alias is where search_index_state says, but between a switch and    *)
(* its row.                                                                *)
Places ==
  /\ Live(served.current)
  /\ served.rollback # NoIndex => Live(served.rollback) /\ served.rollback # served.current
  /\ alias = CASE cli.pc = "set" -> cli.index
               [] cli.pc = "backset" -> served.rollback
               [] OTHER -> served.current
  /\ cli.pc \in {"phase", "switch", "set", "backdetach"} => cli.index # served.current
  /\ cli.pc = "backset" => cli.index # served.rollback
  /\ cli.pc = "backdetach" => served.rollback = NoIndex
  /\ cli.pc = "close" => served.rollback = cli.index /\ served.expired
  /\ cli.pc = "closeset" => served.expired

(* The indexes that are read, may be read next or will be gone back to.    *)
Ready(i) ==
  \/ i = served.current
  \/ /\ i = served.rollback /\ i # NoIndex
     /\ ~served.expired \/ cli.pc \in {"back", "backset"}
  \/ rebuild[i].phase \in {"validate", "validated", "cutover"}
  \/ i = cli.index /\ cli.pc = "lag"

ReadyComplete == \A i \in Indexes : Ready(i) => Complete(i)

(* The public articles the snapshot has not come to.                       *)
Ahead(i, a) == rebuild[i].phase = "snapshot" /\ a > rebuild[i].snap

CandidateSound ==
  \A i \in Indexes, a \in Articles :
    rebuild[i].phase \in {"snapshot", "catchup"} /\ slot[a].seq <= Mark(i) =>
      IF Public(article[a])
      THEN \/ Ahead(i, a)
           \/ slot[a] # NoSlot /\ (Shows(i, a) \/ delivery[a][i] = "owed")
      ELSE Shows(i, a)

EveryPublicHasSlot ==
  \A i \in Indexes : rebuild[i].phase \in {"validate", "validated"} =>
    \A a \in Articles : Public(article[a]) => slot[a] # NoSlot

(* The public articles the snapshot has to come to: changed before it.      *)
Unwalked(i, b) == Public(article[b]) /\ slot[b].seq <= Mark(i) /\ b > rebuild[i].snap

(* What is known of the item at hand, unless its article changes.          *)
AtHand(i, a, loop) == cli.index = i /\ cli.art = a /\ cli.loop = loop

SnapshotItem ==
  \A i \in Indexes, a \in Articles : AtHand(i, a, "snapshot") =>
    /\ cli.pc \in {"ensure", "write", "converge", "mark"} =>
         \A b \in Articles : Unwalked(i, b) => b >= a /\ (cli.more \/ b = a)
    /\ cli.pc \in {"write", "converge", "mark"} => slot[a] # NoSlot
    /\ slot[a].seq <= Mark(i) =>
         /\ cli.pc \in {"ensure", "write"} => cli.read = Fact(a)
         /\ cli.pc = "write" => cli.gen = slot[a].gen
         /\ cli.pc \in {"converge", "mark"} => doc[i][a].target = Fact(a)

SnapshotOver ==
  \A i \in Indexes : cli.index = i /\ cli.pc = "caught" => \A b \in Articles : ~Unwalked(i, b)

DrainItem ==
  \A i \in Indexes, a \in Articles : AtHand(i, a, "drain") /\ slot[a].seq <= Mark(i) =>
    /\ cli.pc \in {"read", "write"} => cli.gen = slot[a].gen
    /\ cli.pc = "write" => cli.read = Fact(a)
    /\ cli.pc = "converge" => Shows(i, a)

ScanItem ==
  \A i \in Indexes, a \in Articles : AtHand(i, a, "scan") =>
    /\ cli.pc \in {"read", "write", "converge", "mark"} =>
         /\ cli.high > Mark(i) /\ slot[a].seq >= cli.high
         /\ \A b \in Articles : slot[b].seq > Mark(i) => b = a \/ slot[b].seq > cli.high
    /\ slot[a].seq = cli.high =>
         /\ cli.pc \in {"read", "write"} => cli.gen = slot[a].gen /\ cli.read = Fact(a)
         /\ cli.pc \in {"converge", "mark"} => doc[i][a].target = Fact(a)

(* The parts that do not look at the command, and those that do.           *)
Stored == Quiet /\ SlotsTell /\ Indices /\ CandidateSound /\ EveryPublicHasSlot
Item   == SnapshotItem /\ SnapshotOver /\ DrainItem /\ ScanItem

Coherent == Stored /\ Phased /\ Places /\ ReadyComplete /\ Item

IInv == Inv /\ Coherent

-----------------------------------------------------------------------------
(* The parts of the second invariant.                                      *)

LEMMA MarkType ==
  ASSUME TypeOK, NEW i \in Indexes
  PROVE  Mark(i) \in Nat /\ Mark(i) >= rebuild[i].catch /\ Mark(i) >= rebuild[i].start
  BY DEF TypeOK, Rebuild, Mark, Later

LEMMA SlotType ==
  ASSUME TypeOK, NEW a \in Articles
  PROVE  slot[a].gen \in Nat /\ slot[a].seq \in Nat /\ (slot[a].seq >= 1 => slot[a] # NoSlot)
  BY DEF TypeOK, Slot, NoSlot

(* A version the document has not passed is stored.                        *)
LEMMA PutExact ==
  ASSUME NEW d \in Doc, NEW gen \in Nat, NEW target \in Target, d.gen <= gen
  PROVE  Put(d, gen, target).target = target
  BY DEF Put, Doc

(* What does not look at the command stands while nothing but the command, *)
(* the alias or search_index_state changes.                                *)
LEMMA StoredStays ==
  ASSUME Stored, UNCHANGED <<article, slot, delivery, seq, rebuild, exists, doc, wire, opened>>
  PROVE  Stored'
  <1>1. Quiet' /\ SlotsTell' /\ Indices'
    BY DEF Stored, Quiet, SlotsTell, Indices, Fact
  <1>2. CandidateSound' /\ EveryPublicHasSlot'
    BY DEF Stored, CandidateSound, EveryPublicHasSlot, Mark, Ahead, Shows, Fact
  <1> QED BY <1>1, <1>2 DEF Stored

LEMMA CompleteStays ==
  ASSUME UNCHANGED <<article, slot, delivery, doc>>, NEW i \in Indexes, Complete(i)
  PROVE  Complete(i)'
  BY DEF Complete, Shows, Fact

LEMMA ReadyStays ==
  ASSUME ReadyComplete, UNCHANGED <<article, slot, delivery, doc>>,
         \A i \in Indexes : Ready(i)' => Ready(i) \/ Complete(i)
  PROVE  ReadyComplete'
  BY CompleteStays DEF ReadyComplete

ItemSteps == {"ensure", "read", "write", "converge", "mark", "caught"}

LEMMA NoItem ==
  ASSUME cli'.pc \notin ItemSteps
  PROVE  Item'
  BY DEF ItemSteps, Item, SnapshotItem, SnapshotOver, DrainItem, ScanItem

(* An index that is being snapshotted or caught up is read by nobody, and   *)
(* none of its phases of use.                                              *)
LEMMA BuiltIsUnread ==
  ASSUME IInv, NEW i \in Indexes, rebuild[i].phase \in {"none", "snapshot", "catchup"}, i # FirstIndex,
         cli.pc # "lag" \/ i # cli.index
  PROVE  ~Ready(i) /\ ~Live(i) /\ i # served.current
  <1>1. ~Live(i)
    BY DEF Live
  <1>2. i # served.current
    BY <1>1 DEF IInv, Coherent, Places
  <1>3. i # NoIndex => i # served.rollback
    BY <1>1 DEF IInv, Coherent, Places
  <1> QED BY <1>1, <1>2, <1>3 DEF Ready

-----------------------------------------------------------------------------
(* The writers.                                                            *)

(* A change of an article has a number above every watermark, and is owed   *)
(* to every active index.                                                  *)
Changes(a) ==
  /\ seq' = seq + 1 /\ slot'[a].seq = seq + 1 /\ slot'[a].gen = slot[a].gen + 1
  /\ slot'[a].target = Fact(a)' /\ slot'[a] # NoSlot
  /\ \A i \in Indexes : IF i \in Active THEN delivery'[a][i] = "owed"
                        ELSE delivery[a][i] = "none" => delivery'[a][i] = "none"
  /\ \A b \in Articles : b # a =>
       slot'[b] = slot[b] /\ delivery'[b] = delivery[b] /\ article'[b] = article[b]

LEMMA AdvanceChanges ==
  ASSUME Inv, NEW a \in Articles, NEW target \in Target, target # slot[a].target, Advance(a, target),
         target = Fact(a)', \A b \in Articles : b # a => article'[b] = article[b]
  PROVE  Changes(a)
  <1>1. PICK s : s = [gen |-> slot[a].gen + 1, target |-> target, seq |-> seq + 1]
    OBVIOUS
  <1>2. slot[a].gen \in Nat /\ seq \in Nat
    BY SlotType DEF Inv, TypeOK
  <1>3. s.gen = slot[a].gen + 1 /\ s.target = target /\ s.seq = seq + 1 /\ s # NoSlot
    BY <1>1, <1>2 DEF NoSlot
  <1>4. slot' = [slot EXCEPT ![a] = s] /\ seq' = seq + 1
    BY <1>1 DEF Advance
  <1>5. delivery' = [delivery EXCEPT ![a] =
          [i \in Indexes |-> IF i \in Active \/ delivery[a][i] # "none" THEN "owed" ELSE "none"]]
    BY DEF Advance
  <1>6. slot'[a] = s /\ \A b \in Articles : b # a => slot'[b] = slot[b] /\ delivery'[b] = delivery[b]
    BY <1>4, <1>5 DEF Inv, TypeOK
  <1>7. \A i \in Indexes : IF i \in Active THEN delivery'[a][i] = "owed"
                           ELSE delivery[a][i] = "none" => delivery'[a][i] = "none"
    BY <1>5 DEF Inv, TypeOK
  <1> QED BY <1>3, <1>4, <1>6, <1>7 DEF Changes

LEMMA ReadyIsActive ==
  ASSUME IInv, NEW i \in Indexes, Ready(i) \/ rebuild[i].phase \in BuildPhases
  PROVE  i \in Active
  <1>1. cli.pc = "lag" => rebuild[cli.index].phase = "catchup"
    BY DEF IInv, Coherent, Phased
  <1> QED BY <1>1 DEF Ready, Active, FedPhases, BuildPhases

(* A change disturbs no index: those that are read are owed it, and it is   *)
(* beyond the watermark of those that are built.                           *)
LEMMA ChangeKeeps ==
  ASSUME IInv, NEW a \in Articles, Changes(a),
         UNCHANGED <<served, rebuild, exists, alias, doc, wire, opened>>,
         \A i \in Indexes : Ready(i)' => Ready(i)
  PROVE  Stored' /\ ReadyComplete'
  <1>1. \A b \in Articles : b # a => Fact(b)' = Fact(b) /\ article'[b] = article[b]
                                     /\ slot'[b] = slot[b] /\ delivery'[b] = delivery[b]
    BY DEF Changes, Fact
  <1>2. seq \in Nat /\ \A b \in Articles : slot[b].seq \in Nat
    BY SlotType DEF IInv, Inv, TypeOK
  <1>3. \A i \in Indexes : Mark(i) \in Nat /\ Mark(i) <= seq /\ Mark(i)' = Mark(i)
    BY MarkType DEF IInv, Inv, Coherent, Stored, Indices, Mark, Later
  <1>4. SlotsTell'
    <2> SUFFICES ASSUME NEW b \in Articles
                 PROVE  /\ slot'[b] # NoSlot => /\ slot'[b].target = Fact(b)'
                                                /\ slot'[b].gen >= 1 /\ slot'[b].seq >= 1 /\ slot'[b].seq <= seq'
                        /\ slot'[b] = NoSlot => article'[b].status = "absent" \/ Public(article'[b])
                        /\ \A c \in Articles : slot'[b].seq = slot'[c].seq => b = c \/ slot'[b] = NoSlot
      BY DEF SlotsTell
    <2>1. seq' = seq + 1 /\ slot[a].gen \in Nat
      BY SlotType DEF Changes, IInv, Inv
    <2>2. \A c \in Articles : c # a => slot[c].seq <= seq
      BY <1>2 DEF IInv, Coherent, Stored, SlotsTell, NoSlot
    <2>3. CASE b = a
      BY <1>1, <1>2, <2>1, <2>2, <2>3 DEF Changes
    <2>4. CASE b # a
      BY <1>1, <1>2, <2>1, <2>2, <2>4 DEF Changes, IInv, Coherent, Stored, SlotsTell
    <2> QED BY <2>3, <2>4
  <1>5. Indices'
    <2>1. seq' = seq + 1 /\ \A i \in Indexes : rebuild[i].start \in Nat /\ rebuild[i].catch \in Nat
      BY DEF Changes, IInv, Inv, TypeOK, Rebuild
    <2>2. ASSUME NEW i \in Indexes, rebuild[i].phase = "none", i # FirstIndex, NEW b \in Articles
          PROVE  delivery'[b][i] = "none"
      <3>1. ~Live(i)
        BY <2>2 DEF Live
      <3>2. i \notin Active
        BY <2>2, <3>1, RebuildAssumption DEF Active, FedPhases, BuildPhases, IInv, Coherent, Places
      <3> QED BY <1>1, <2>2, <3>2 DEF Changes, IInv, Coherent, Stored, Indices
    <2> QED BY <1>2, <2>1, <2>2 DEF Indices, IInv, Coherent, Stored
  <1>6. CandidateSound'
    <2> SUFFICES ASSUME NEW i \in Indexes, NEW b \in Articles,
                        rebuild[i].phase \in {"snapshot", "catchup"}, slot'[b].seq <= Mark(i)
                 PROVE  IF Public(article'[b])
                        THEN \/ Ahead(i, b)'
                             \/ slot'[b] # NoSlot /\ (Shows(i, b)' \/ delivery'[b][i] = "owed")
                        ELSE Shows(i, b)'
      BY <1>3 DEF CandidateSound
    <2>1. b # a
      BY <1>2, <1>3 DEF Changes
    <2>2. Ahead(i, b)' = Ahead(i, b) /\ Shows(i, b)' = Shows(i, b)
      BY <1>1, <2>1 DEF Ahead, Shows
    <2> QED BY <1>1, <2>1, <2>2 DEF IInv, Coherent, Stored, CandidateSound
  <1>7. EveryPublicHasSlot'
    BY <1>1 DEF Changes, EveryPublicHasSlot, IInv, Coherent, Stored
  <1>8. ReadyComplete'
    <2> SUFFICES ASSUME NEW i \in Indexes, Ready(i), NEW b \in Articles
                 PROVE  slot'[b] = NoSlot \/ delivery'[b][i] = "owed" \/ Shows(i, b)'
      BY DEF ReadyComplete, Complete
    <2>1. CASE b = a
      BY <2>1, ReadyIsActive DEF Changes
    <2>2. CASE b # a
      <3>1. Shows(i, b)' = Shows(i, b)
        BY <1>1, <2>2 DEF Shows
      <3> QED BY <1>1, <2>2, <3>1 DEF IInv, Coherent, ReadyComplete, Complete
    <2> QED BY <2>1, <2>2
  <1> QED BY <1>4, <1>5, <1>6, <1>7, <1>8 DEF Stored, Quiet, IInv, Coherent

(* Nothing is known of an item whose article has changed.                  *)
LEMMA ChangeKeepsItem ==
  ASSUME IInv, NEW a \in Articles, Changes(a), UNCHANGED <<rebuild, doc, cli>>
  PROVE  Item'
  <1>1. \A b \in Articles : b # a => Fact(b)' = Fact(b) /\ article'[b] = article[b] /\ slot'[b] = slot[b]
    BY DEF Changes, Fact
  <1>2. seq \in Nat /\ \A b \in Articles : slot[b].seq \in Nat
    BY SlotType DEF IInv, Inv, TypeOK
  <1>3. \A i \in Indexes : Mark(i) \in Nat /\ Mark(i) <= seq /\ Mark(i)' = Mark(i)
    BY MarkType DEF IInv, Inv, Coherent, Stored, Indices, Mark, Later
  <1>4. slot'[a].seq = seq + 1 /\ slot'[a] # NoSlot
    BY DEF Changes
  <1>5. \A b \in Articles : slot[b].seq <= seq
    BY <1>2 DEF IInv, Coherent, Stored, SlotsTell, NoSlot
  <1>6. \A i \in Indexes, b \in Articles : b # a => Shows(i, b)' = Shows(i, b)
    BY <1>1 DEF Shows
  <1>7. \A i \in Indexes, b \in Articles : Unwalked(i, b)' => b # a /\ Unwalked(i, b)
    <2> SUFFICES ASSUME NEW i \in Indexes, NEW b \in Articles, Unwalked(i, b)'
                 PROVE  b # a /\ Unwalked(i, b)
      OBVIOUS
    <2>1. slot'[b].seq <= Mark(i)
      BY <1>3 DEF Unwalked
    <2>2. b # a
      BY <1>2, <1>3, <1>4, <2>1
    <2> QED BY <1>1, <1>3, <2>1, <2>2 DEF Unwalked
  <1>8. SnapshotItem'
    <2> SUFFICES ASSUME NEW i \in Indexes, NEW b \in Articles, AtHand(i, b, "snapshot")
                 PROVE  /\ cli.pc \in {"ensure", "write", "converge", "mark"} =>
                             \A c \in Articles : Unwalked(i, c)' => c >= b /\ (cli.more \/ c = b)
                        /\ cli.pc \in {"write", "converge", "mark"} => slot'[b] # NoSlot
                        /\ slot'[b].seq <= Mark(i) =>
                             /\ cli.pc \in {"ensure", "write"} => cli.read = Fact(b)'
                             /\ cli.pc = "write" => cli.gen = slot'[b].gen
                             /\ cli.pc \in {"converge", "mark"} => doc[i][b].target = Fact(b)'
      BY <1>3 DEF SnapshotItem, AtHand
    <2>1. b = a => ~(slot'[b].seq <= Mark(i)) /\ slot'[b] # NoSlot
      BY <1>2, <1>3, <1>4
    <2> QED BY <1>1, <1>7, <2>1 DEF IInv, Coherent, Item, SnapshotItem
  <1>9. SnapshotOver'
    BY <1>7 DEF IInv, Coherent, Item, SnapshotOver
  <1>10. DrainItem'
    <2> SUFFICES ASSUME NEW i \in Indexes, NEW b \in Articles, AtHand(i, b, "drain"), slot'[b].seq <= Mark(i)
                 PROVE  /\ cli.pc \in {"read", "write"} => cli.gen = slot'[b].gen
                        /\ cli.pc = "write" => cli.read = Fact(b)'
                        /\ cli.pc = "converge" => Shows(i, b)'
      BY <1>3 DEF DrainItem, AtHand
    <2>1. b # a
      BY <1>2, <1>3, <1>4
    <2> QED BY <1>1, <1>6, <2>1 DEF IInv, Coherent, Item, DrainItem
  <1>11. ScanItem'
    <2> SUFFICES ASSUME NEW i \in Indexes, NEW b \in Articles, AtHand(i, b, "scan")
                 PROVE  /\ cli.pc \in {"read", "write", "converge", "mark"} =>
                             /\ cli.high > Mark(i) /\ slot'[b].seq >= cli.high
                             /\ \A c \in Articles : slot'[c].seq > Mark(i) => c = b \/ slot'[c].seq > cli.high
                        /\ slot'[b].seq = cli.high =>
                             /\ cli.pc \in {"read", "write"} => cli.gen = slot'[b].gen /\ cli.read = Fact(b)'
                             /\ cli.pc \in {"converge", "mark"} => doc[i][b].target = Fact(b)'
      BY <1>3 DEF ScanItem, AtHand
    <2>0. PICK high \in Nat : high = cli.high
      BY DEF IInv, Inv, TypeOK, Command
    <2>1. CASE cli.pc \in {"read", "write", "converge", "mark"}
      <3>1. /\ high > Mark(i) /\ slot[b].seq >= high
            /\ \A c \in Articles : slot[c].seq > Mark(i) => c = b \/ slot[c].seq > high
        BY <2>0, <2>1 DEF IInv, Coherent, Item, ScanItem
      <3>2. high <= seq
        BY <1>2, <1>5, <3>1
      <3>3. slot'[b].seq = high => b # a
        BY <1>2, <1>4, <3>2
      <3>4. slot'[b].seq >= high
        BY <1>1, <1>2, <1>4, <3>1, <3>2
      <3>5. \A c \in Articles : slot'[c].seq > Mark(i) => c = b \/ slot'[c].seq > high
        BY <1>1, <1>2, <1>4, <3>1, <3>2
      <3> QED BY <1>1, <2>0, <3>1, <3>3, <3>4, <3>5 DEF IInv, Coherent, Item, ScanItem
    <2> QED BY <2>1
  <1> QED BY <1>8, <1>9, <1>10, <1>11 DEF Item

LEMMA WriteCoheres ==
  ASSUME IInv, NEW a \in Articles, WriteArticle(a)
  PROVE  Coherent'
  <1>1. PICK after \in NextRows(a, article[a]) :
          /\ article' = [article EXCEPT ![a] = after] /\ Advance(a, TargetOf(after, NoSelection))
    BY DEF WriteArticle
  <1>2. UNCHANGED <<served, rebuild, exists, alias, doc, wire, opened>> /\ cli' = cli
    BY DEF WriteArticle, search
  <1>3. /\ after \in ArticleRow /\ after.status # "absent" /\ after.ver >= 1
        /\ article[a].status # "absent" => after.ver = article[a].ver + 1
    BY RowsWritten DEF IInv, Inv, TypeOK
  <1>4. PICK target \in Target : target = TargetOf(after, NoSelection)
    BY <1>3, TargetType
  <1>5. Fact(a)' = target /\ \A b \in Articles : b # a => article'[b] = article[b]
    BY <1>1, <1>4 DEF Fact, IInv, Inv, TypeOK
  <1>6. target # slot[a].target
    <2>1. target.ver = after.ver /\ after.ver \in Nat
      BY <1>3, <1>4, TargetType DEF ArticleRow
    <2>2. CASE slot[a] = NoSlot
      BY <1>3, <2>1, <2>2 DEF NoSlot, NoTarget
    <2>3. CASE slot[a] # NoSlot
      <3>1. slot[a].target = Fact(a) /\ article[a].status # "absent" /\ article[a] \in ArticleRow
        BY <2>3 DEF IInv, Coherent, Stored, SlotsTell, Inv, SlotsOfArticles, TypeOK
      <3>2. slot[a].target.ver = article[a].ver
        BY <3>1, TargetType DEF Fact
      <3> QED BY <1>3, <2>1, <3>1, <3>2 DEF ArticleRow
    <2> QED BY <2>2, <2>3
  <1>7. Changes(a)
    BY <1>1, <1>4, <1>5, <1>6, AdvanceChanges DEF IInv
  <1>8. Stored' /\ ReadyComplete'
    BY <1>2, <1>7, ChangeKeeps DEF Ready
  <1>9. Item'
    BY <1>2, <1>7, ChangeKeepsItem
  <1>10. Phased' /\ Places'
    BY <1>2 DEF IInv, Coherent, Phased, Places, Live
  <1> QED BY <1>8, <1>9, <1>10 DEF Coherent

(* A delivery shows the article as it is: the slot says what that is, and   *)
(* no document has a version beyond the slot's.                            *)
LEMMA DeliverCoheres ==
  ASSUME IInv, NEW a \in Articles, NEW i \in Indexes, Deliver(a, i)
  PROVE  Coherent'
  <1>1. /\ delivery[a][i] = "owed" /\ delivery' = [delivery EXCEPT ![a][i] = "done"]
        /\ Index(i, a, slot[a].gen, slot[a].target) /\ cli' = cli
        /\ UNCHANGED <<article, slot, seq, served, rebuild, alias, wire, opened>>
    BY DEF Deliver
  <1>2. PICK d \in Doc, gen \in Nat, target \in Target : d = doc[i][a] /\ gen = slot[a].gen /\ target = slot[a].target
    BY DEF IInv, Inv, TypeOK, Slot
  <1>3. d.gen <= gen
    BY <1>2 DEF IInv, Inv, VersionsComeFromSlots
  <1>4. PICK new \in Doc : new = Put(d, gen, target)
    BY PutDoc
  <1>5. doc' = [doc EXCEPT ![i][a] = new] /\ exists' = [exists EXCEPT ![i] = TRUE]
    BY <1>1, <1>2, <1>4 DEF Index
  <1>6. doc'[i][a].target = target
    BY <1>2, <1>3, <1>4, <1>5, PutExact DEF IInv, Inv, TypeOK
  <1>7. \A j \in Indexes, b \in Articles : j # i \/ b # a =>
          doc'[j][b] = doc[j][b] /\ delivery'[b][j] = delivery[b][j]
    BY <1>1, <1>5 DEF IInv, Inv, TypeOK
  <1>8. \A j \in Indexes : exists[j] => exists'[j]
    BY <1>5 DEF IInv, Inv, TypeOK
  <1>9. \A b \in Articles : Fact(b)' = Fact(b)
    BY <1>1 DEF Fact
  <1>10. \A j \in Indexes, b \in Articles : j # i \/ b # a => Shows(j, b)' = Shows(j, b)
    BY <1>1, <1>7, <1>9 DEF Shows
  <1>11. slot[a] # NoSlot => target = Fact(a)
    BY <1>2 DEF IInv, Coherent, Stored, SlotsTell
  <1>12. slot[a] # NoSlot \/ ~Public(article[a]) => Shows(i, a)'
    <2>1. CASE slot[a] # NoSlot
      BY <1>1, <1>6, <1>9, <1>11, <2>1 DEF Shows, Fact, TargetOf
    <2>2. CASE slot[a] = NoSlot /\ ~Public(article[a])
      BY <1>1, <1>2, <1>6, <2>2 DEF Shows, NoSlot, NoTarget
    <2> QED BY <2>1, <2>2
  <1>13. \A j \in Indexes : Mark(j)' = Mark(j) /\ Mark(j) \in Nat
    BY <1>1, MarkType DEF Mark, Later, IInv, Inv
  <1>14. Quiet' /\ SlotsTell' /\ EveryPublicHasSlot'
    BY <1>1, <1>9 DEF IInv, Coherent, Stored, Quiet, SlotsTell, EveryPublicHasSlot
  <1>15. Indices'
    <2>1. rebuild[i].phase = "none" => i = FirstIndex
      BY <1>1 DEF IInv, Coherent, Stored, Indices
    <2> QED BY <1>1, <1>7, <1>8, <2>1 DEF IInv, Coherent, Stored, Indices
  <1>16. CandidateSound'
    <2> SUFFICES ASSUME NEW j \in Indexes, NEW b \in Articles,
                        rebuild[j].phase \in {"snapshot", "catchup"}, slot[b].seq <= Mark(j)
                 PROVE  IF Public(article[b])
                        THEN \/ Ahead(j, b)'
                             \/ slot[b] # NoSlot /\ (Shows(j, b)' \/ delivery'[b][j] = "owed")
                        ELSE Shows(j, b)'
      BY <1>1, <1>13 DEF CandidateSound
    <2>1. Ahead(j, b)' = Ahead(j, b)
      BY <1>1 DEF Ahead
    <2>2. CASE j # i \/ b # a
      BY <1>7, <1>10, <2>1, <2>2 DEF IInv, Coherent, Stored, CandidateSound
    <2>3. CASE j = i /\ b = a
      BY <1>12, <2>1, <2>3 DEF IInv, Coherent, Stored, CandidateSound
    <2> QED BY <2>2, <2>3
  <1>17. ReadyComplete'
    <2> SUFFICES ASSUME NEW j \in Indexes, Ready(j), NEW b \in Articles
                 PROVE  slot[b] = NoSlot \/ delivery'[b][j] = "owed" \/ Shows(j, b)'
      BY <1>1 DEF ReadyComplete, Complete, Ready
    <2>1. slot[b] = NoSlot \/ delivery[b][j] = "owed" \/ Shows(j, b)
      BY DEF IInv, Coherent, ReadyComplete, Complete
    <2> QED BY <1>7, <1>10, <1>12, <2>1
  <1>18. Phased' /\ Places'
    <2>1. cli.index \in Indexes
      BY KeptType DEF IInv, Inv
    <2> QED BY <1>1, <1>8, <2>1 DEF IInv, Coherent, Phased, Places, Live
  <1>19. Item'
    <2>1. \A j \in Indexes, b \in Articles : Unwalked(j, b)' = Unwalked(j, b)
      BY <1>1, <1>13 DEF Unwalked
    <2>2. \A j \in Indexes, b \in Articles : slot[b] # NoSlot /\ doc[j][b].target = Fact(b) => doc'[j][b].target = Fact(b)
      BY <1>6, <1>7, <1>11
    <2>3. \A b \in Articles : slot[b].seq \in Nat /\ (slot[b].seq >= 1 => slot[b] # NoSlot)
      BY SlotType DEF IInv, Inv
    <2>4. SnapshotItem' /\ SnapshotOver'
      BY <1>1, <1>9, <1>13, <2>1, <2>2 DEF IInv, Coherent, Item, SnapshotItem, SnapshotOver, AtHand
    <2>5. DrainItem'
      <3>1. \A j \in Indexes, b \in Articles :
              slot[b].seq <= Mark(j) /\ Shows(j, b) /\ rebuild[j].phase = "catchup" => Shows(j, b)'
        BY <1>10, <1>12 DEF IInv, Coherent, Stored, CandidateSound, Ahead
      <3>2. cli.pc = "converge" /\ cli.loop = "drain" => rebuild[cli.index].phase = "catchup"
        BY DEF IInv, Coherent, Phased
      <3> QED BY <1>1, <1>9, <1>13, <3>1, <3>2 DEF IInv, Coherent, Item, DrainItem, AtHand
    <2>6. ScanItem'
      <3>1. cli.high \in Nat
        BY DEF IInv, Inv, TypeOK, Command
      <3>2. ASSUME NEW j \in Indexes, NEW b \in Articles, AtHand(j, b, "scan"),
                   cli.pc \in {"converge", "mark"}, slot[b].seq = cli.high
            PROVE  doc'[j][b].target = Fact(b)
        <4>1. cli.high > Mark(j)
          BY <3>2 DEF IInv, Coherent, Item, ScanItem
        <4>2. slot[b] # NoSlot /\ doc[j][b].target = Fact(b)
          BY <1>13, <2>3, <3>1, <3>2, <4>1 DEF IInv, Coherent, Item, ScanItem
        <4> QED BY <2>2, <4>2
      <3>3. \A j \in Indexes, b \in Articles : AtHand(j, b, "scan")' = AtHand(j, b, "scan")
        BY <1>1 DEF AtHand
      <3> QED BY <1>1, <1>9, <1>13, <3>2, <3>3 DEF IInv, Coherent, Item, ScanItem
    <2> QED BY <2>4, <2>5, <2>6 DEF Item
  <1> QED BY <1>14, <1>15, <1>16, <1>17, <1>18, <1>19 DEF Coherent, Stored

LEMMA WindowCoheres ==
  ASSUME IInv, WindowPasses
  PROVE  Coherent'
  <1>1. /\ UNCHANGED <<article, slot, delivery, seq, rebuild, exists, alias, doc, wire, opened>> /\ cli' = cli
    BY DEF WindowPasses, store, search
  <1>2. PICK c \in Indexes, r \in Indexes \cup {NoIndex} : c = served.current /\ r = served.rollback
    BY DEF IInv, Inv, TypeOK, Served
  <1>3. served'.current = c /\ served'.rollback = r /\ served'.expired = TRUE
    BY <1>2 DEF WindowPasses, IInv, Inv, TypeOK, Served
  <1>4. Stored'
    BY <1>1, StoredStays DEF IInv, Coherent
  <1>5. ReadyComplete'
    BY <1>1, <1>2, <1>3, ReadyStays DEF IInv, Coherent, Ready
  <1>6. Phased' /\ Places'
    BY <1>1, <1>2, <1>3 DEF IInv, Coherent, Phased, Places, Live
  <1>7. SnapshotItem' /\ SnapshotOver' /\ DrainItem' /\ ScanItem'
    BY <1>1 DEF IInv, Coherent, Item, SnapshotItem, SnapshotOver, DrainItem, ScanItem,
                AtHand, Unwalked, Mark, Shows, Fact
  <1> QED BY <1>4, <1>5, <1>6, <1>7 DEF Coherent, Item

-----------------------------------------------------------------------------
(* The commands start and stop.                                            *)

(* A step of the command that writes nothing and has no item at hand.      *)
LEMMA ReadCoheres ==
  ASSUME IInv, UNCHANGED <<article, slot, delivery, seq, served, rebuild, exists, alias, doc, wire, opened>>,
         cli'.pc \notin ItemSteps, Phased', Places',
         \A i \in Indexes : Ready(i)' => Ready(i) \/ Complete(i)
  PROVE  Coherent'
  <1>1. Stored' /\ ReadyComplete' /\ Item'
    BY StoredStays, ReadyStays, NoItem DEF IInv, Coherent
  <1> QED BY <1>1 DEF Coherent

(* A command may stop anywhere but between the alias and its row.          *)
LEMMA StopCoheres ==
  ASSUME IInv, Finish, cli.pc \notin {"set", "backset"},
         UNCHANGED <<article, slot, delivery, seq, served, rebuild, exists, alias, doc, wire, opened>>
  PROVE  Coherent'
  <1>1. cli'.pc = "idle"
    BY Ends
  <1>2. Phased' /\ Places' /\ cli'.pc \notin ItemSteps
    BY <1>1 DEF IInv, Coherent, Phased, Places, Live, ItemSteps
  <1>3. \A i \in Indexes : Ready(i)' => Ready(i)
    BY <1>1 DEF Ready
  <1> QED BY <1>2, <1>3, ReadCoheres

LEMMA StartCoheres ==
  ASSUME IInv, NEW i \in Indexes, Start(i)
  PROVE  Coherent'
  <1>1. /\ exists' = [exists EXCEPT ![i] = TRUE] /\ rebuild[i] = NoRebuild /\ i # FirstIndex /\ cli.pc = "idle"
        /\ UNCHANGED <<article, slot, delivery, seq, served, rebuild, alias, doc, wire, opened>>
    BY DEF Start, store, At
  <1>2. cli'.pc = "begin" /\ cli'.index = i
    BY Starts DEF Start, Steps
  <1>3. exists'[i] /\ \A j \in Indexes : exists[j] => exists'[j]
    BY <1>1 DEF IInv, Inv, TypeOK
  <1>4. Quiet' /\ SlotsTell' /\ Indices'
    BY <1>1, <1>3 DEF IInv, Coherent, Stored, Quiet, SlotsTell, Indices, Fact
  <1>5. CandidateSound' /\ EveryPublicHasSlot'
    BY <1>1 DEF IInv, Coherent, Stored, CandidateSound, EveryPublicHasSlot, Mark, Ahead, Shows, Fact
  <1>6. Phased' /\ Places' /\ cli'.pc \notin ItemSteps
    BY <1>1, <1>2, <1>3 DEF IInv, Coherent, Phased, Places, Live, ItemSteps, NoRebuild
  <1>7. ReadyComplete'
    BY <1>1, <1>2, ReadyStays DEF IInv, Coherent, Ready
  <1> QED BY <1>4, <1>5, <1>6, <1>7, NoItem DEF Coherent, Stored

LEMMA OperatorCoheres ==
  ASSUME Undisturbed, IInv, NEW i \in Indexes,
         Resume(i) \/ Cutover(i) \/ Rollback(i) \/ Abandon(i) \/ Cleanup(i)
  PROVE  Coherent'
  <1>1. /\ UNCHANGED <<article, slot, delivery, seq, served, rebuild, exists, alias, doc, wire, opened>>
        /\ cli.pc = "idle"
    BY DEF Resume, Cutover, Rollback, Abandon, Cleanup, store, search, At
  <1>2. ~Abandon(i)
    BY DEF Abandon, Spend, Undisturbed, IInv, Inv, TypeOK
  <1>3. {"page", "drain", "count", "phase", "back", "close", "unused"} \subseteq Steps
    BY DEF Steps
  <1>4. PICK step \in Steps :
          /\ NewCommand(step, i)
          /\ step \in {"page", "drain", "count", "phase", "back", "close", "unused"}
          /\ step = "page" => rebuild[i].phase = "snapshot"
          /\ step = "drain" => rebuild[i].phase = "catchup"
          /\ step = "count" => rebuild[i].phase \in {"validate", "validated"}
          /\ step = "phase" => rebuild[i].phase = "validated"
          /\ step = "back" => rebuild[i].phase = "serving" /\ ~served.expired
          /\ step \in {"close", "unused"} => rebuild[i].phase \notin BuildPhases
          /\ step = "close" => served.rollback = i /\ served.expired
    BY <1>2, <1>3 DEF Resume, Cutover, Rollback, Cleanup, Undisturbed
  <1>5. cli'.pc = step /\ cli'.index = i
    BY <1>4, Starts
  <1>6. Phased' /\ cli'.pc \notin ItemSteps
    BY <1>1, <1>4, <1>5 DEF Phased, ItemSteps
  <1>7. Places'
    <2>1. rebuild[i].phase = "validated" => i # served.current
      BY DEF IInv, Coherent, Places, Live, Stored, Indices
    <2> QED BY <1>1, <1>4, <1>5, <2>1 DEF IInv, Coherent, Places, Live
  <1>8. \A j \in Indexes : Ready(j)' => Ready(j)
    BY <1>1, <1>4, <1>5 DEF Ready
  <1> QED BY <1>1, <1>6, <1>7, <1>8, ReadCoheres

-----------------------------------------------------------------------------
(* The phases of a build.                                                  *)

LEMMA Updates ==
  ASSUME TypeOK, NEW i \in Indexes, NEW r \in Rebuild, Update(i, r)
  PROVE  rebuild'[i] = r /\ \A j \in Indexes : j # i => rebuild'[j] = rebuild[j]
  BY DEF TypeOK, Update

LEMMA BeginCoheres ==
  ASSUME IInv, Begin
  PROVE  Coherent'
  <1>1. /\ UNCHANGED <<article, slot, delivery, served, exists, alias, doc, wire, opened>>
        /\ cli.pc = "begin"
    BY DEF Begin, search, At
  <1>2. CASE Conflict
    <2>1. Finish /\ UNCHANGED <<rebuild, seq>>
      BY <1>2 DEF Begin
    <2> QED BY <1>1, <2>1, StopCoheres
  <1>3. CASE ~Conflict
    <2>1. PICK i \in Indexes : i = cli.index
      BY KeptType DEF IInv, Inv
    <2>2. PICK n \in Nat : n = seq + 1 /\ seq \in Nat
      BY DEF IInv, Inv, TypeOK
    <2>3. PICK r : r = [phase |-> "snapshot", start |-> n, snap |-> 0, catch |-> 0]
      OBVIOUS
    <2>4. seq' = n /\ rebuild' = [rebuild EXCEPT ![i] = r] /\ Go("register")
      BY <1>3, <2>1, <2>2, <2>3 DEF Begin, Candidate
    <2>5. r.phase = "snapshot" /\ r.start = n /\ r.snap = 0 /\ r.catch = 0
      BY <2>3
    <2>6. rebuild'[i] = r /\ \A j \in Indexes : j # i => rebuild'[j] = rebuild[j]
      BY <2>4 DEF IInv, Inv, TypeOK
    <2>7. cli'.pc = "register" /\ cli'.index = i
      BY <2>1, <2>4, Goes DEF IInv, Inv, TypeOK, Steps
    <2>8. rebuild[i].phase = "none" /\ i # FirstIndex /\ exists[i]
      BY <1>1, <2>1 DEF IInv, Coherent, Phased
    <2>9. \A b \in Articles : doc[i][b] = NoDoc /\ delivery[b][i] = "none"
      BY <2>8 DEF IInv, Coherent, Stored, Indices
    <2>10. \A j \in Indexes : rebuild[j].start \in Nat /\ rebuild[j].catch \in Nat
      BY DEF IInv, Inv, TypeOK, Rebuild
    <2>11. Quiet' /\ SlotsTell'
      <3>1. \A b \in Articles : slot[b].seq \in Nat
        BY SlotType DEF IInv, Inv
      <3> QED BY <1>1, <2>2, <2>4, <3>1 DEF IInv, Coherent, Stored, Quiet, SlotsTell, Fact
    <2>12. Indices'
      <3>1. rebuild'[FirstIndex].phase = "none"
        BY <2>6, <2>8, RebuildAssumption DEF IInv, Coherent, Stored, Indices
      <3>2. ASSUME NEW j \in Indexes
            PROVE  /\ rebuild'[j].start <= seq' /\ rebuild'[j].catch <= seq'
                   /\ rebuild'[j].phase = "snapshot" => rebuild'[j].catch = 0
                   /\ rebuild'[j].phase \in BuildPhases => exists'[j]
                   /\ rebuild'[j].phase = "none" /\ j # FirstIndex =>
                        \A a \in Articles : doc'[j][a] = NoDoc /\ delivery'[a][j] = "none"
        <4>1. CASE j = i
          BY <1>1, <2>2, <2>4, <2>5, <2>6, <2>8, <4>1
        <4>2. CASE j # i
          BY <1>1, <2>2, <2>4, <2>6, <2>10, <4>2 DEF IInv, Coherent, Stored, Indices
        <4> QED BY <4>1, <4>2
      <3> QED BY <3>1, <3>2 DEF Indices
    <2>13. CandidateSound'
      <3> SUFFICES ASSUME NEW j \in Indexes, NEW b \in Articles,
                          rebuild'[j].phase \in {"snapshot", "catchup"}, slot[b].seq <= Mark(j)'
                   PROVE  IF Public(article[b])
                          THEN \/ Ahead(j, b)'
                               \/ slot[b] # NoSlot /\ (Shows(j, b)' \/ delivery[b][j] = "owed")
                          ELSE Shows(j, b)'
        BY <1>1 DEF CandidateSound
      <3>1. CASE j = i
        <4>1. b > 0
          BY RebuildAssumption
        <4>2. Ahead(i, b)'
          BY <2>5, <2>6, <4>1 DEF Ahead
        <4>3. ~Public(article[b]) => Shows(i, b)'
          BY <1>1, <2>9 DEF Shows, NoDoc, NoTarget
        <4> QED BY <3>1, <4>2, <4>3
      <3>2. CASE j # i
        <4>1. rebuild'[j] = rebuild[j]
          BY <2>6, <3>2
        <4>2. Mark(j)' = Mark(j) /\ Ahead(j, b)' = Ahead(j, b)
          BY <4>1 DEF Mark, Ahead
        <4>3. Shows(j, b)' = Shows(j, b)
          BY <1>1 DEF Shows, Fact
        <4> QED BY <4>1, <4>2, <4>3 DEF IInv, Coherent, Stored, CandidateSound
      <3> QED BY <3>1, <3>2
    <2>14. EveryPublicHasSlot'
      BY <1>1, <2>5, <2>6 DEF IInv, Coherent, Stored, EveryPublicHasSlot
    <2>15. Phased'
      BY <2>5, <2>6, <2>7 DEF Phased
    <2>16. ~Live(i) /\ i # served.current
      BY <1>1, <2>8, BuiltIsUnread
    <2>17. \A j \in Indexes \cup {NoIndex} : Live(j) /\ j \in Indexes => Live(j)'
      BY <2>6, <2>16 DEF Live
    <2>18. Places'
      <3>1. served.current \in Indexes /\ served.rollback \in Indexes \cup {NoIndex}
        BY DEF IInv, Inv, TypeOK, Served
      <3> QED BY <1>1, <2>7, <2>17, <3>1 DEF IInv, Coherent, Places
    <2>19. ReadyComplete'
      <3>1. \A j \in Indexes : Ready(j)' => Ready(j)
        BY <1>1, <2>5, <2>6, <2>7 DEF Ready
      <3> QED BY <1>1, <3>1, ReadyStays DEF IInv, Coherent
    <2>20. Item'
      BY <2>7, NoItem DEF ItemSteps
    <2> QED BY <2>11, <2>12, <2>13, <2>14, <2>15, <2>18, <2>19, <2>20 DEF Coherent, Stored
  <1> QED BY <1>2, <1>3

(* The deliveries of the candidate are only added to.                      *)
LEMMA RegisterCoheres ==
  ASSUME IInv, RegisterCandidate
  PROVE  Coherent'
  <1>1. PICK i \in Indexes : i = cli.index
    BY KeptType DEF IInv, Inv
  <1>2. /\ UNCHANGED <<article, slot, seq, served, rebuild, exists, alias, doc, wire, opened>>
        /\ cli.pc = "register" /\ Go("page")
        /\ delivery' = [a \in Articles |->
             IF slot[a] = NoSlot THEN delivery[a] ELSE [delivery[a] EXCEPT ![i] = "owed"]]
    BY <1>1 DEF RegisterCandidate, search, At, Candidate
  <1>3. cli'.pc = "page" /\ cli'.index = i
    BY <1>1, <1>2, Goes DEF IInv, Inv, TypeOK, Steps
  <1>4. rebuild[i].phase = "snapshot"
    BY <1>1, <1>2 DEF IInv, Coherent, Phased
  <1>5. \A b \in Articles, j \in Indexes : /\ j # i => delivery'[b][j] = delivery[b][j]
                                           /\ delivery[b][j] = "owed" => delivery'[b][j] = "owed"
    BY <1>2 DEF IInv, Inv, TypeOK
  <1>6. \A b \in Articles, j \in Indexes : Shows(j, b)' = Shows(j, b) /\ Mark(j)' = Mark(j) /\ Ahead(j, b)' = Ahead(j, b)
    BY <1>2 DEF Shows, Fact, Mark, Ahead
  <1>7. Quiet' /\ SlotsTell' /\ EveryPublicHasSlot'
    BY <1>2 DEF IInv, Coherent, Stored, Quiet, SlotsTell, EveryPublicHasSlot, Fact
  <1>8. Indices'
    BY <1>2, <1>4, <1>5 DEF IInv, Coherent, Stored, Indices
  <1>9. CandidateSound'
    BY <1>2, <1>5, <1>6 DEF IInv, Coherent, Stored, CandidateSound
  <1>10. ReadyComplete'
    <2>1. \A j \in Indexes : Ready(j)' => Ready(j)
      BY <1>2, <1>3 DEF Ready
    <2>2. \A j \in Indexes : Complete(j) => Complete(j)'
      BY <1>2, <1>5, <1>6 DEF Complete
    <2> QED BY <2>1, <2>2 DEF ReadyComplete, IInv, Coherent
  <1>11. Phased' /\ Places' /\ Item'
    BY <1>2, <1>3, <1>4, NoItem DEF IInv, Coherent, Phased, Places, Live, ItemSteps
  <1> QED BY <1>7, <1>8, <1>9, <1>10, <1>11 DEF Coherent, Stored

-----------------------------------------------------------------------------
(* The loops of a build.                                                   *)

(* A step of a loop that only chooses, reads or leaves an item.            *)
LEMMA LoopCoheres ==
  ASSUME IInv, UNCHANGED <<article, slot, delivery, seq, served, rebuild, exists, alias, doc, wire, opened>>,
         cli.pc \notin {"set", "backset"},
         cli'.pc \in {"page", "drain", "scan", "lag"} \cup ItemSteps,
         Phased', Item', \A i \in Indexes : cli'.pc = "lag" /\ cli'.index = i => Complete(i)
  PROVE  Coherent'
  <1>1. Stored'
    BY StoredStays DEF IInv, Coherent
  <1>2. Places'
    BY DEF IInv, Coherent, Places, Live, ItemSteps
  <1>3. \A i \in Indexes : Ready(i)' => Ready(i) \/ Complete(i)
    BY DEF Ready, ItemSteps
  <1>4. ReadyComplete'
    BY <1>3, ReadyStays DEF IInv, Coherent
  <1> QED BY <1>1, <1>2, <1>4 DEF Coherent

LEMMA PageCoheres ==
  ASSUME IInv, SnapshotPage
  PROVE  Coherent'
  <1> DEFINE left == {a \in Articles : Public(article[a]) /\ a > Kept.snap}
  <1>1. /\ UNCHANGED <<article, slot, delivery, seq, served, rebuild, exists, alias, doc, wire, opened>>
        /\ cli.pc = "page"
    BY DEF SnapshotPage, store, search, At
  <1>2. PICK i \in Indexes : i = cli.index
    BY KeptType DEF IInv, Inv
  <1>3. rebuild[i].phase = "snapshot"
    BY <1>1, <1>2 DEF IInv, Coherent, Phased
  <1>4. \A b \in Articles : Unwalked(i, b) => b \in left
    BY <1>2 DEF Unwalked, Kept, Candidate
  <1>5. \A b \in Articles : Unwalked(i, b)' = Unwalked(i, b)
    BY <1>1 DEF Unwalked, Mark
  <1>6. CASE left = {}
    <2>1. Go("caught")
      BY <1>6 DEF SnapshotPage
    <2>2. cli'.pc = "caught" /\ cli'.index = i
      BY <1>2, <2>1, Goes DEF IInv, Inv, TypeOK, Steps
    <2>3. SnapshotOver'
      BY <1>2, <1>4, <1>5, <1>6, <2>2 DEF SnapshotOver
    <2>4. Item'
      BY <2>2, <2>3 DEF Item, SnapshotItem, DrainItem, ScanItem
    <2>5. Phased'
      BY <1>1, <1>3, <2>2 DEF Phased
    <2> QED BY <1>1, <2>2, <2>4, <2>5, LoopCoheres DEF ItemSteps
  <1>7. CASE left # {}
    <2>1. left \in SUBSET Nat
      BY RebuildAssumption
    <2>2. PICK a \in Articles : a = MinOf(left) /\ a \in left /\ \A b \in left : a <= b
      BY <1>7, <2>1, MinOfIsLeast
    <2>3. PICK t \in Target, m \in BOOLEAN : t = Fact(a) /\ m = (left # {a})
      BY TargetType DEF Fact, IInv, Inv, TypeOK
    <2>4. cli' = [cli EXCEPT !.pc = "ensure", !.loop = "snapshot", !.art = a, !.read = t, !.more = m]
      BY <1>7, <2>2, <2>3 DEF SnapshotPage
    <2>5. /\ cli'.pc = "ensure" /\ cli'.index = i /\ cli'.loop = "snapshot" /\ cli'.art = a
          /\ cli'.read = t /\ cli'.more = m
      BY <1>2, <2>4 DEF IInv, Inv, TypeOK, Command
    <2>6. \A b \in Articles : Unwalked(i, b) => b >= a /\ (m \/ b = a)
      BY <1>4, <2>2, <2>3
    <2>7. SnapshotItem'
      BY <1>1, <1>5, <2>3, <2>5, <2>6 DEF SnapshotItem, AtHand, Fact
    <2>8. Item'
      BY <2>5, <2>7 DEF Item, SnapshotOver, DrainItem, ScanItem, AtHand
    <2>9. Phased'
      BY <1>1, <1>3, <2>5 DEF Phased
    <2> QED BY <1>1, <2>5, <2>8, <2>9, LoopCoheres DEF ItemSteps
  <1> QED BY <1>6, <1>7

(* The slot of an article that had none is a change like another; the      *)
(* generation is read after the document was built.                        *)
LEMMA EnsureCoheres ==
  ASSUME IInv, EnsureSlot
  PROVE  Coherent'
  <1>1. UNCHANGED <<article, served, rebuild, exists, alias, doc, wire, opened>> /\ cli.pc = "ensure"
    BY DEF EnsureSlot, search, At
  <1>2. PICK i \in Indexes, a \in Articles : i = cli.index /\ a = cli.art
    BY <1>1, KeptType DEF IInv, Inv, ItemAtHand
  <1>3. rebuild[i].phase = "snapshot" /\ cli.loop = "snapshot"
    BY <1>1, <1>2 DEF IInv, Coherent, Phased
  <1>4. slot[a] = NoSlot \/ UNCHANGED <<slot, delivery, seq>>
    BY <1>2 DEF EnsureSlot
  <1>5. slot[a] = NoSlot => Changes(a)
    <2> SUFFICES ASSUME slot[a] = NoSlot
                 PROVE  Changes(a)
      OBVIOUS
    <2>1. PICK t \in Target : t = Fact(a)
      BY TargetType DEF Fact, IInv, Inv, TypeOK
    <2>2. Advance(a, t) /\ t = Fact(a)'
      BY <1>1, <1>2, <2>1 DEF EnsureSlot, Fact
    <2>3. t # slot[a].target
      BY <2>1 DEF NoSlot, NoTarget, Fact, TargetOf
    <2> QED BY <1>1, <2>2, <2>3, AdvanceChanges DEF IInv
  <1>6. PICK n \in Nat : n = slot'[a].gen
    <2>1. CASE slot[a] = NoSlot
      BY <1>5, <2>1, SlotType DEF Changes, IInv, Inv
    <2>2. CASE slot[a] # NoSlot
      BY <1>4, <2>2, SlotType DEF IInv, Inv
    <2> QED BY <2>1, <2>2
  <1>7. cli' = [cli EXCEPT !.pc = "write", !.gen = n]
    BY <1>2, <1>6 DEF EnsureSlot
  <1>8. /\ cli'.pc = "write" /\ cli'.index = i /\ cli'.loop = "snapshot" /\ cli'.art = a
        /\ cli'.read = cli.read /\ cli'.more = cli.more /\ cli'.gen = n
    BY <1>2, <1>3, <1>7 DEF IInv, Inv, TypeOK, Command
  <1>9. \A j \in Indexes : Ready(j)' => Ready(j)
    BY <1>1, <1>8 DEF Ready
  <1>10. Stored' /\ ReadyComplete'
    <2>1. CASE slot[a] = NoSlot
      BY <1>1, <1>5, <1>9, <2>1, ChangeKeeps
    <2>2. CASE slot[a] # NoSlot
      BY <1>1, <1>4, <1>9, <2>2, StoredStays, ReadyStays DEF IInv, Coherent
    <2> QED BY <2>1, <2>2
  <1>11. Phased' /\ Places'
    BY <1>1, <1>3, <1>8 DEF IInv, Coherent, Phased, Places, Live
  <1>12. SnapshotItem'
    <2>1. Mark(i)' = Mark(i) /\ Mark(i) \in Nat
      BY <1>1, MarkType DEF Mark, IInv, Inv
    <2>2. \A b \in Articles : b # a => slot'[b] = slot[b]
      BY <1>4, <1>5 DEF Changes
    <2>3. slot'[a] # NoSlot /\ (slot'[a].seq <= Mark(i) => slot'[a] = slot[a])
      <3>1. CASE slot[a] = NoSlot
        <4>1. slot'[a] # NoSlot /\ slot'[a].seq = seq + 1
          BY <1>5, <3>1 DEF Changes
        <4>2. Mark(i) <= seq /\ seq \in Nat
          BY DEF IInv, Inv, TypeOK, Coherent, Stored, Indices, Mark, Later
        <4> QED BY <2>1, <4>1, <4>2
      <3>2. CASE slot[a] # NoSlot
        BY <1>4, <3>2
      <3> QED BY <3>1, <3>2
    <2>4. \A b \in Articles : Unwalked(i, b)' => Unwalked(i, b)
      BY <1>1, <2>1, <2>2, <2>3 DEF Unwalked
    <2>5. /\ \A b \in Articles : Unwalked(i, b) => b >= a /\ (cli.more \/ b = a)
          /\ slot[a].seq <= Mark(i) => cli.read = Fact(a)
      BY <1>1, <1>2, <1>3 DEF IInv, Coherent, Item, SnapshotItem, AtHand
    <2>6. slot'[a].seq <= Mark(i) => cli'.read = Fact(a)' /\ cli'.gen = slot'[a].gen
      BY <1>1, <1>6, <1>8, <2>3, <2>5 DEF Fact
    <2>7. \A b \in Articles : Unwalked(i, b)' => b >= a /\ (cli'.more \/ b = a)
      BY <1>8, <2>4, <2>5
    <2> QED BY <1>8, <2>1, <2>3, <2>6, <2>7 DEF SnapshotItem, AtHand
  <1>13. Item'
    BY <1>8, <1>12 DEF Item, SnapshotOver, DrainItem, ScanItem, AtHand
  <1> QED BY <1>10, <1>11, <1>13 DEF Coherent

(* The document of the item is stored: no version stands in its way, for    *)
(* it has the generation of the slot unless the article has changed.       *)
LEMMA WriteItemCoheres ==
  ASSUME IInv, WriteItem
  PROVE  Coherent'
  <1>1. /\ UNCHANGED <<article, slot, delivery, seq, served, rebuild, alias, wire, opened>>
        /\ cli.pc = "write" /\ Go("converge") /\ Index(cli.index, cli.art, cli.gen, cli.read)
    BY DEF WriteItem, store, At, Candidate
  <1>2. PICK i \in Indexes, a \in Articles, gen \in Nat, read \in Target :
          i = cli.index /\ a = cli.art /\ gen = cli.gen /\ read = cli.read
    BY <1>1, KeptType DEF IInv, Inv, ItemAtHand, TypeOK, Command
  <1>3. PICK d \in Doc : d = doc[i][a]
    BY DEF IInv, Inv, TypeOK
  <1>4. PICK new \in Doc : new = Put(d, gen, read)
    BY PutDoc
  <1>5. doc' = [doc EXCEPT ![i][a] = new] /\ exists' = [exists EXCEPT ![i] = TRUE]
    BY <1>1, <1>2, <1>3, <1>4 DEF Index
  <1>6. /\ cli'.pc = "converge" /\ cli'.index = i /\ cli'.art = a /\ cli'.loop = cli.loop
        /\ cli'.more = cli.more /\ cli'.high = cli.high
    BY <1>1, <1>2, Goes DEF IInv, Inv, TypeOK, Steps
  <1>7. gen = slot[a].gen => doc'[i][a].target = read
    <2>1. doc[i][a].gen <= slot[a].gen
      BY DEF IInv, Inv, VersionsComeFromSlots
    <2> QED BY <1>3, <1>4, <1>5, <2>1, PutExact DEF IInv, Inv, TypeOK
  <1>8. \A j \in Indexes, b \in Articles : j # i \/ b # a => doc'[j][b] = doc[j][b]
    BY <1>5 DEF IInv, Inv, TypeOK
  <1>9. \A j \in Indexes : exists[j] => exists'[j]
    BY <1>5 DEF IInv, Inv, TypeOK
  <1>10. \A b \in Articles : Fact(b)' = Fact(b)
    BY <1>1 DEF Fact
  <1>11. \A j \in Indexes, b \in Articles : j # i \/ b # a => Shows(j, b)' = Shows(j, b)
    BY <1>1, <1>8, <1>10 DEF Shows
  <1>12. doc'[i][a].target = Fact(a) => Shows(i, a)'
    BY <1>1, <1>10 DEF Shows, Fact, TargetOf
  <1>13. /\ rebuild[i].phase = IF cli.loop = "snapshot" THEN "snapshot" ELSE "catchup"
         /\ i # FirstIndex
    BY <1>1, <1>2 DEF IInv, Coherent, Phased, Stored, Indices
  <1>14. cli.loop \in {"snapshot", "drain", "scan"}
    BY DEF IInv, Inv, TypeOK, Command
  <1>15. \A j \in Indexes : Mark(j)' = Mark(j) /\ Mark(j) \in Nat
    BY <1>1, MarkType DEF Mark, Later, IInv, Inv
  <1>16. /\ cli.loop \in {"snapshot", "drain"} /\ slot[a].seq <= Mark(i) => doc'[i][a].target = Fact(a)
         /\ cli.loop = "scan" => ~(slot[a].seq <= Mark(i))
         /\ cli.loop = "scan" /\ slot[a].seq = cli.high => doc'[i][a].target = Fact(a)
         /\ cli.loop = "snapshot" => slot[a] # NoSlot
    <2>1. CASE cli.loop = "snapshot"
      BY <1>1, <1>2, <1>7, <2>1 DEF IInv, Coherent, Item, SnapshotItem, AtHand
    <2>2. CASE cli.loop = "drain"
      BY <1>1, <1>2, <1>7, <2>2 DEF IInv, Coherent, Item, DrainItem, AtHand
    <2>3. CASE cli.loop = "scan"
      <3>1. PICK high \in Nat : high = cli.high
        BY DEF IInv, Inv, TypeOK, Command
      <3>2. high > Mark(i) /\ slot[a].seq >= high /\ slot[a].seq \in Nat
        BY <1>1, <1>2, <2>3, <3>1, SlotType DEF IInv, Inv, Coherent, Item, ScanItem, AtHand
      <3>3. slot[a].seq = high => doc'[i][a].target = Fact(a)
        BY <1>1, <1>2, <1>7, <2>3, <3>1 DEF IInv, Coherent, Item, ScanItem, AtHand
      <3> QED BY <1>15, <2>3, <3>1, <3>2, <3>3
    <2> QED BY <1>14, <2>1, <2>2, <2>3
  <1>17. Quiet' /\ SlotsTell' /\ EveryPublicHasSlot'
    BY <1>1, <1>10 DEF IInv, Coherent, Stored, Quiet, SlotsTell, EveryPublicHasSlot
  <1>18. Indices'
    BY <1>1, <1>8, <1>9, <1>13 DEF IInv, Coherent, Stored, Indices
  <1>19. CandidateSound'
    <2> SUFFICES ASSUME NEW j \in Indexes, NEW b \in Articles,
                        rebuild[j].phase \in {"snapshot", "catchup"}, slot[b].seq <= Mark(j)
                 PROVE  IF Public(article[b])
                        THEN \/ Ahead(j, b)'
                             \/ slot[b] # NoSlot /\ (Shows(j, b)' \/ delivery[b][j] = "owed")
                        ELSE Shows(j, b)'
      BY <1>1, <1>15 DEF CandidateSound
    <2>1. Ahead(j, b)' = Ahead(j, b)
      BY <1>1 DEF Ahead
    <2>2. CASE j # i \/ b # a
      BY <1>11, <2>1, <2>2 DEF IInv, Coherent, Stored, CandidateSound
    <2>3. CASE j = i /\ b = a
      <3>1. Shows(i, a)'
        BY <1>12, <1>14, <1>16, <2>3
      <3> QED BY <2>1, <2>3, <3>1 DEF IInv, Coherent, Stored, CandidateSound
    <2> QED BY <2>2, <2>3
  <1>20. ReadyComplete'
    <2> SUFFICES ASSUME NEW j \in Indexes, Ready(j)', NEW b \in Articles
                 PROVE  slot[b] = NoSlot \/ delivery[b][j] = "owed" \/ Shows(j, b)'
      BY <1>1 DEF ReadyComplete, Complete
    <2>1. Ready(j)
      BY <1>1, <1>6 DEF Ready
    <2>2. j # i
      BY <1>1, <1>13, <2>1, BuiltIsUnread
    <2> QED BY <1>11, <2>1, <2>2 DEF IInv, Coherent, ReadyComplete, Complete
  <1>21. Phased' /\ Places'
    BY <1>1, <1>6, <1>13 DEF IInv, Coherent, Phased, Places, Live
  <1>22. Item'
    <2>1. \A b \in Articles : Unwalked(i, b)' = Unwalked(i, b)
      BY <1>1, <1>15 DEF Unwalked
    <2>2. SnapshotItem' /\ SnapshotOver'
      <3>1. cli.loop = "snapshot" => \A b \in Articles : Unwalked(i, b) => b >= a /\ (cli.more \/ b = a)
        BY <1>1, <1>2 DEF IInv, Coherent, Item, SnapshotItem, AtHand
      <3> QED BY <1>1, <1>6, <1>10, <1>15, <1>16, <2>1, <3>1 DEF SnapshotItem, SnapshotOver, AtHand
    <2>3. DrainItem'
      BY <1>1, <1>6, <1>12, <1>15, <1>16 DEF DrainItem, AtHand
    <2>4. ScanItem'
      <3>1. cli.loop = "scan" =>
              /\ cli.high > Mark(i) /\ slot[a].seq >= cli.high
              /\ \A b \in Articles : slot[b].seq > Mark(i) => b = a \/ slot[b].seq > cli.high
        BY <1>1, <1>2 DEF IInv, Coherent, Item, ScanItem, AtHand
      <3> QED BY <1>1, <1>6, <1>10, <1>15, <1>16, <3>1 DEF ScanItem, AtHand
    <2> QED BY <2>2, <2>3, <2>4 DEF Item
  <1> QED BY <1>17, <1>18, <1>19, <1>20, <1>21, <1>22 DEF Coherent, Stored

(* Without a failed Bulk item none fails: an index that is built exists.   *)
LEMMA ItemsDoNotFail ==
  ASSUME Undisturbed, IInv
  PROVE  ~ItemFails
  <1> SUFFICES ASSUME ItemFails
               PROVE  FALSE
    OBVIOUS
  <1>1. spent["lost"] \in Nat
    BY DEF IInv, Inv, TypeOK
  <1>2. PICK i \in Indexes : i = cli.index
    BY KeptType DEF IInv, Inv
  <1>3. cli.pc = "write" /\ (~exists[i] \/ Spend("lost", MaxLost))
    BY <1>2 DEF ItemFails, At, Candidate
  <1>4. ~exists[i]
    BY <1>1, <1>3 DEF Spend, Undisturbed
  <1>5. rebuild[i].phase \in BuildPhases
    BY <1>2, <1>3 DEF IInv, Coherent, Phased, BuildPhases
  <1> QED BY <1>4, <1>5 DEF IInv, Coherent, Stored, Indices

(* What is marked as delivered is shown, unless the article has changed.   *)
LEMMA ConvergeCoheres ==
  ASSUME IInv, ConvergeCandidate
  PROVE  Coherent'
  <1>1. UNCHANGED <<article, slot, seq, served, rebuild, exists, alias, doc, wire, opened>> /\ cli.pc = "converge"
    BY DEF ConvergeCandidate, search, At
  <1>2. PICK i \in Indexes, a \in Articles : i = cli.index /\ a = cli.art
    BY <1>1, KeptType DEF IInv, Inv, ItemAtHand
  <1>3. delivery' = delivery \/ delivery' = [delivery EXCEPT ![a][i] = "done"]
    BY <1>2 DEF ConvergeCandidate, Candidate
  <1>4. \A j \in Indexes, b \in Articles : j # i \/ b # a => delivery'[b][j] = delivery[b][j]
    BY <1>3 DEF IInv, Inv, TypeOK
  <1>5. \A j \in Indexes, b \in Articles :
          /\ Fact(b)' = Fact(b) /\ Shows(j, b)' = Shows(j, b) /\ Unwalked(j, b)' = Unwalked(j, b)
          /\ Mark(j)' = Mark(j) /\ Mark(j) \in Nat /\ Ahead(j, b)' = Ahead(j, b)
    BY <1>1, MarkType DEF Fact, Shows, Unwalked, Mark, Ahead, IInv, Inv
  <1>6. /\ rebuild[i].phase = IF cli.loop = "snapshot" THEN "snapshot" ELSE "catchup"
        /\ i # FirstIndex /\ cli.loop \in {"snapshot", "drain", "scan"}
    BY <1>1, <1>2 DEF IInv, Coherent, Phased, Stored, Indices, Inv, TypeOK, Command
  <1>7. \/ cli.loop = "drain" /\ cli'.pc = "drain" /\ cli'.index = i
        \/ /\ cli.loop # "drain" /\ cli'.pc = "mark" /\ cli'.index = i /\ cli'.loop = cli.loop
           /\ cli'.art = a /\ cli'.more = cli.more /\ cli'.high = cli.high
    <2>1. CASE cli.loop = "drain"
      <3>1. NewCommand("drain", i)
        BY <1>2, <2>1 DEF ConvergeCandidate, NextItem, Candidate
      <3> QED BY <2>1, <3>1, Starts DEF Steps
    <2>2. CASE cli.loop # "drain"
      <3>1. Go("mark")
        BY <2>2 DEF ConvergeCandidate
      <3> QED BY <1>2, <2>2, <3>1, Goes DEF IInv, Inv, TypeOK, Steps
    <2> QED BY <2>1, <2>2
  <1>8. slot[a].seq <= Mark(i) => Shows(i, a)
    <2>1. cli.loop = "snapshot" /\ slot[a].seq <= Mark(i) => doc[i][a].target = Fact(a)
      BY <1>1, <1>2 DEF IInv, Coherent, Item, SnapshotItem, AtHand
    <2>2. doc[i][a].target = Fact(a) => Shows(i, a)
      BY DEF Shows, Fact, TargetOf
    <2>3. cli.loop = "drain" /\ slot[a].seq <= Mark(i) => Shows(i, a)
      BY <1>1, <1>2 DEF IInv, Coherent, Item, DrainItem, AtHand
    <2>4. cli.loop = "scan" => ~(slot[a].seq <= Mark(i))
      <3>1. PICK high \in Nat : high = cli.high
        BY DEF IInv, Inv, TypeOK, Command
      <3>2. cli.loop = "scan" => high > Mark(i) /\ slot[a].seq >= high
        BY <1>1, <1>2, <3>1 DEF IInv, Coherent, Item, ScanItem, AtHand
      <3>3. slot[a].seq \in Nat
        BY SlotType DEF IInv, Inv
      <3> QED BY <1>5, <3>2, <3>3
    <2> QED BY <1>6, <2>1, <2>2, <2>3, <2>4
  <1>9. Quiet' /\ SlotsTell' /\ EveryPublicHasSlot'
    BY <1>1, <1>5 DEF IInv, Coherent, Stored, Quiet, SlotsTell, EveryPublicHasSlot
  <1>10. Indices'
    BY <1>1, <1>4, <1>6 DEF IInv, Coherent, Stored, Indices
  <1>11. CandidateSound'
    <2>1. \A j \in Indexes, b \in Articles : slot[b].seq <= Mark(j) /\ delivery[b][j] = "owed" =>
            Shows(j, b) \/ delivery'[b][j] = "owed"
      BY <1>4, <1>8
    <2> QED BY <1>1, <1>5, <2>1 DEF IInv, Coherent, Stored, CandidateSound
  <1>12. ReadyComplete'
    <2> SUFFICES ASSUME NEW j \in Indexes, Ready(j)', NEW b \in Articles
                 PROVE  slot[b] = NoSlot \/ delivery'[b][j] = "owed" \/ Shows(j, b)
      BY <1>1, <1>5 DEF ReadyComplete, Complete
    <2>1. Ready(j)
      BY <1>1, <1>7 DEF Ready
    <2>2. j # i
      BY <1>1, <1>6, <2>1, BuiltIsUnread
    <2> QED BY <1>4, <2>1, <2>2 DEF IInv, Coherent, ReadyComplete, Complete
  <1>13. Phased' /\ Places'
    BY <1>1, <1>6, <1>7 DEF IInv, Coherent, Phased, Places, Live
  <1>14. Item'
    <2>1. SnapshotItem'
      <3>1. cli.loop = "snapshot" =>
              /\ \A b \in Articles : Unwalked(i, b) => b >= a /\ (cli.more \/ b = a)
              /\ slot[a] # NoSlot
              /\ slot[a].seq <= Mark(i) => doc[i][a].target = Fact(a)
        BY <1>1, <1>2 DEF IInv, Coherent, Item, SnapshotItem, AtHand
      <3> QED BY <1>1, <1>5, <1>7, <3>1 DEF SnapshotItem, AtHand
    <2>2. ScanItem'
      <3>1. cli.loop = "scan" =>
              /\ cli.high > Mark(i) /\ slot[a].seq >= cli.high
              /\ \A b \in Articles : slot[b].seq > Mark(i) => b = a \/ slot[b].seq > cli.high
              /\ slot[a].seq = cli.high => doc[i][a].target = Fact(a)
        BY <1>1, <1>2 DEF IInv, Coherent, Item, ScanItem, AtHand
      <3> QED BY <1>1, <1>5, <1>7, <3>1 DEF ScanItem, AtHand
    <2>3. SnapshotOver' /\ DrainItem'
      BY <1>7 DEF SnapshotOver, DrainItem, AtHand
    <2> QED BY <2>1, <2>2, <2>3 DEF Item
  <1> QED BY <1>9, <1>10, <1>11, <1>12, <1>13, <1>14 DEF Coherent, Stored

(* The watermark of the snapshot passes the item at hand and none other     *)
(* that it had to come to.                                                 *)
LEMMA MarkSnapshotCoheres ==
  ASSUME IInv, MarkProgress, cli.loop = "snapshot"
  PROVE  Coherent'
  <1>1. UNCHANGED <<article, slot, delivery, seq, served, exists, alias, doc, wire, opened>> /\ cli.pc = "mark"
    BY DEF MarkProgress, store, search, At
  <1>2. PICK i \in Indexes, a \in Articles : i = cli.index /\ a = cli.art
    BY <1>1, KeptType DEF IInv, Inv, ItemAtHand
  <1>3. PICK k \in Rebuild : k = rebuild[i]
    BY DEF IInv, Inv, TypeOK
  <1>4. PICK snap \in Nat : snap = Later(k.snap, a)
    BY RebuildAssumption DEF Later, Rebuild
  <1>5. PICK r \in Rebuild : r = [k EXCEPT !.snap = snap]
    BY DEF Rebuild
  <1>6. /\ Update(i, r)
        /\ \/ NewCommand("page", i) /\ cli.more
           \/ NewCommand("caught", i) /\ ~cli.more
    <2>1. /\ Update(Candidate, [Kept EXCEPT !.snap = Later(Kept.snap, cli.art)])
          /\ NextItem(IF cli.more THEN "page" ELSE "caught")
      BY DEF MarkProgress
    <2>2. Kept = k /\ Candidate = i
      BY <1>2, <1>3 DEF Kept, Candidate
    <2>3. [Kept EXCEPT !.snap = Later(Kept.snap, cli.art)] = r
      BY <1>2, <1>4, <1>5, <2>2
    <2> QED BY <2>1, <2>2, <2>3 DEF NextItem
  <1>7. r.phase = k.phase /\ r.start = k.start /\ r.catch = k.catch /\ r.snap = snap
    BY <1>5 DEF Rebuild
  <1>8. rebuild'[i] = r /\ \A j \in Indexes : j # i => rebuild'[j] = rebuild[j]
    BY <1>6, Updates DEF IInv, Inv
  <1>9. cli'.index = i /\ (cli'.pc = "page" \/ (cli'.pc = "caught" /\ ~cli.more))
    BY <1>6, Starts DEF Steps
  <1>10. k.phase = "snapshot"
    BY <1>1, <1>2, <1>3 DEF IInv, Coherent, Phased
  <1>11. \A j \in Indexes : /\ Mark(j)' = Mark(j) /\ rebuild'[j].phase = rebuild[j].phase
                            /\ rebuild'[j].start = rebuild[j].start /\ rebuild'[j].catch = rebuild[j].catch
    BY <1>3, <1>7, <1>8 DEF Mark
  <1>12. \A j \in Indexes, b \in Articles : Fact(b)' = Fact(b) /\ Shows(j, b)' = Shows(j, b)
    BY <1>1 DEF Fact, Shows
  <1>13. /\ \A b \in Articles : Unwalked(i, b) => b >= a /\ (cli.more \/ b = a)
         /\ slot[a] # NoSlot /\ (slot[a].seq <= Mark(i) => doc[i][a].target = Fact(a))
    BY <1>1, <1>2 DEF IInv, Coherent, Item, SnapshotItem, AtHand
  <1>14. snap \in {k.snap, a} /\ k.snap <= snap /\ a <= snap /\ k.snap \in Nat /\ a \in Nat
    BY <1>4, RebuildAssumption DEF Later, Rebuild
  <1>15. Stored'
    <2>1. Quiet' /\ SlotsTell' /\ EveryPublicHasSlot'
      BY <1>1, <1>11, <1>12 DEF IInv, Coherent, Stored, Quiet, SlotsTell, EveryPublicHasSlot
    <2>2. Indices'
      BY <1>1, <1>11, RebuildAssumption DEF IInv, Coherent, Stored, Indices
    <2>3. CandidateSound'
      <3> SUFFICES ASSUME NEW j \in Indexes, NEW b \in Articles,
                          rebuild[j].phase \in {"snapshot", "catchup"}, slot[b].seq <= Mark(j)
                   PROVE  IF Public(article[b])
                          THEN \/ Ahead(j, b)'
                               \/ slot[b] # NoSlot /\ (Shows(j, b) \/ delivery[b][j] = "owed")
                          ELSE Shows(j, b)
        BY <1>1, <1>11, <1>12 DEF CandidateSound
      <3>1. Ahead(j, b)' = Ahead(j, b) \/ (j = i /\ b > k.snap /\ ~(b > snap))
        BY <1>3, <1>7, <1>8, <1>10, <1>14, RebuildAssumption DEF Ahead
      <3>2. CASE Ahead(j, b)' = Ahead(j, b)
        BY <3>2 DEF IInv, Coherent, Stored, CandidateSound
      <3>3. CASE j = i /\ b > k.snap /\ ~(b > snap) /\ Public(article[b])
        <4>1. Unwalked(i, b)
          BY <1>3, <3>3 DEF Unwalked
        <4>2. b = a
          BY <1>13, <1>14, <3>3, <4>1, RebuildAssumption
        <4>3. Shows(i, a)
          BY <1>13, <3>3, <4>2 DEF Shows
        <4> QED BY <1>13, <3>3, <4>2, <4>3
      <3>4. CASE ~Public(article[b])
        BY <3>4 DEF IInv, Coherent, Stored, CandidateSound
      <3> QED BY <3>1, <3>2, <3>3, <3>4
    <2> QED BY <2>1, <2>2, <2>3 DEF Stored
  <1>16. Phased' /\ Places'
    BY <1>1, <1>9, <1>10, <1>3, <1>11 DEF IInv, Coherent, Phased, Places, Live, Inv, TypeOK, Served
  <1>17. ReadyComplete'
    <2>1. \A j \in Indexes : Ready(j)' => Ready(j)
      BY <1>1, <1>9, <1>11 DEF Ready
    <2> QED BY <1>1, <2>1, ReadyStays DEF IInv, Coherent
  <1>18. SnapshotOver'
    <2> SUFFICES ASSUME ~cli.more, NEW b \in Articles, Unwalked(i, b)'
                 PROVE  FALSE
      BY <1>9 DEF SnapshotOver
    <2>1. b > snap /\ b \in Nat
      BY <1>7, <1>8, RebuildAssumption DEF Unwalked
    <2>2. Unwalked(i, b)
      BY <1>1, <1>3, <1>11, <1>14, <2>1 DEF Unwalked
    <2> QED BY <1>13, <1>14, <2>1, <2>2
  <1>19. Item'
    BY <1>9, <1>18 DEF Item, SnapshotItem, DrainItem, ScanItem
  <1> QED BY <1>15, <1>16, <1>17, <1>19 DEF Coherent

(* The watermark of the catch-up moves to the change at hand: it is the     *)
(* next one, and if its slot still has its number the candidate shows it.  *)
LEMMA MarkScanCoheres ==
  ASSUME IInv, MarkProgress, cli.loop # "snapshot"
  PROVE  Coherent'
  <1>1. UNCHANGED <<article, slot, delivery, seq, served, exists, alias, doc, wire, opened>> /\ cli.pc = "mark"
    BY DEF MarkProgress, store, search, At
  <1>2. PICK i \in Indexes, a \in Articles, high \in Nat : i = cli.index /\ a = cli.art /\ high = cli.high
    BY <1>1, KeptType DEF IInv, Inv, ItemAtHand, TypeOK, Command
  <1>3. PICK k \in Rebuild : k = rebuild[i]
    BY DEF IInv, Inv, TypeOK
  <1>4. PICK catch \in Nat : catch = Later(k.catch, high)
    BY DEF Later, Rebuild
  <1>5. PICK r \in Rebuild : r = [k EXCEPT !.catch = catch]
    BY DEF Rebuild
  <1>6. Update(i, r) /\ NewCommand("scan", i)
    <2>1. Update(Candidate, [Kept EXCEPT !.catch = Later(Kept.catch, cli.high)]) /\ NextItem("scan")
      BY DEF MarkProgress
    <2>2. Kept = k /\ Candidate = i
      BY <1>2, <1>3 DEF Kept, Candidate
    <2>3. [Kept EXCEPT !.catch = Later(Kept.catch, cli.high)] = r
      BY <1>2, <1>4, <1>5, <2>2
    <2> QED BY <2>1, <2>2, <2>3 DEF NextItem
  <1>7. r.phase = k.phase /\ r.start = k.start /\ r.catch = catch
    BY <1>5 DEF Rebuild
  <1>8. rebuild'[i] = r /\ \A j \in Indexes : j # i => rebuild'[j] = rebuild[j]
    BY <1>6, Updates DEF IInv, Inv
  <1>9. cli'.index = i /\ cli'.pc = "scan"
    BY <1>6, Starts DEF Steps
  <1>10. cli.loop = "scan" /\ k.phase = "catchup"
    BY <1>1, <1>2, <1>3 DEF IInv, Coherent, Phased, Inv, TypeOK, Command
  <1>11. /\ high > Mark(i) /\ slot[a].seq >= high
         /\ \A b \in Articles : slot[b].seq > Mark(i) => b = a \/ slot[b].seq > high
         /\ slot[a].seq = high => doc[i][a].target = Fact(a)
    BY <1>1, <1>2, <1>10 DEF IInv, Coherent, Item, ScanItem, AtHand
  <1>12. Mark(i) \in Nat /\ \A b \in Articles : slot[b].seq \in Nat /\ (slot[b].seq >= 1 => slot[b] # NoSlot)
    BY MarkType, SlotType DEF IInv, Inv
  <1>13. catch = high /\ Mark(i)' = high
    <2>1. k.catch \in Nat /\ k.start \in Nat /\ k.catch <= Mark(i) /\ k.start <= Mark(i)
      BY <1>3, MarkType DEF Rebuild, IInv, Inv
    <2>2. catch = high
      BY <1>4, <1>11, <1>12, <2>1 DEF Later
    <2>3. Mark(i)' = Later(high, k.start)
      BY <1>7, <1>8, <2>2 DEF Mark
    <2> QED BY <1>11, <1>12, <2>1, <2>2, <2>3 DEF Later
  <1>14. \A j \in Indexes : rebuild'[j].phase = rebuild[j].phase /\ rebuild'[j].start = rebuild[j].start
    BY <1>3, <1>7, <1>8
  <1>15. \A j \in Indexes, b \in Articles : Fact(b)' = Fact(b) /\ Shows(j, b)' = Shows(j, b)
    BY <1>1 DEF Fact, Shows
  <1>16. Stored'
    <2>1. Quiet' /\ SlotsTell' /\ EveryPublicHasSlot'
      BY <1>1, <1>14, <1>15 DEF IInv, Coherent, Stored, Quiet, SlotsTell, EveryPublicHasSlot
    <2>2. Indices'
      <3>1. high <= seq
        <4>1. slot[a].seq <= seq /\ seq \in Nat
          BY <1>11, <1>12 DEF IInv, Inv, TypeOK, Coherent, Stored, SlotsTell
        <4> QED BY <1>11, <1>12, <4>1
      <3>2. \A j \in Indexes : rebuild'[j].catch <= seq
        BY <1>7, <1>8, <1>13, <3>1 DEF IInv, Coherent, Stored, Indices
      <3>3. \A j \in Indexes : rebuild'[j].phase = "snapshot" => rebuild'[j].catch = 0
        BY <1>7, <1>8, <1>10 DEF IInv, Coherent, Stored, Indices
      <3> QED BY <1>1, <1>14, <3>2, <3>3, RebuildAssumption DEF IInv, Coherent, Stored, Indices
    <2>3. CandidateSound'
      <3> SUFFICES ASSUME NEW j \in Indexes, NEW b \in Articles,
                          rebuild[j].phase \in {"snapshot", "catchup"}, slot[b].seq <= Mark(j)'
                   PROVE  IF Public(article[b])
                          THEN \/ Ahead(j, b)'
                               \/ slot[b] # NoSlot /\ (Shows(j, b) \/ delivery[b][j] = "owed")
                          ELSE Shows(j, b)
        BY <1>1, <1>14, <1>15 DEF CandidateSound
      <3>1. Ahead(j, b)' = Ahead(j, b)
        BY <1>3, <1>7, <1>8, <1>10 DEF Ahead
      <3>2. CASE slot[b].seq <= Mark(j)
        BY <3>1, <3>2 DEF IInv, Coherent, Stored, CandidateSound
      <3>3. CASE ~(slot[b].seq <= Mark(j))
        <4>1. j = i
          BY <1>8, <3>3 DEF Mark
        <4>2. slot[b].seq > Mark(i) /\ ~(slot[b].seq > high)
          BY <1>12, <1>13, <3>3, <4>1
        <4>3. b = a /\ slot[a].seq = high
          BY <1>11, <1>12, <1>13, <4>1, <4>2
        <4>4. Shows(i, a)
          BY <1>11, <4>3 DEF Shows, Fact, TargetOf
        <4>5. slot[a] # NoSlot
          BY <1>11, <1>12
        <4> QED BY <4>1, <4>3, <4>4, <4>5
      <3> QED BY <3>2, <3>3
    <2> QED BY <2>1, <2>2, <2>3 DEF Stored
  <1>17. Phased' /\ Places'
    BY <1>1, <1>9, <1>10, <1>3, <1>14 DEF IInv, Coherent, Phased, Places, Live, Inv, TypeOK, Served
  <1>18. ReadyComplete'
    <2>1. \A j \in Indexes : Ready(j)' => Ready(j)
      BY <1>1, <1>9, <1>14 DEF Ready
    <2> QED BY <1>1, <2>1, ReadyStays DEF IInv, Coherent
  <1>19. Item'
    BY <1>9, NoItem DEF ItemSteps
  <1> QED BY <1>16, <1>17, <1>18, <1>19 DEF Coherent

LEMMA DrainCoheres ==
  ASSUME IInv, DrainUntouched
  PROVE  Coherent'
  <1>1. /\ UNCHANGED <<article, slot, delivery, seq, served, rebuild, exists, alias, doc, wire, opened>>
        /\ cli.pc = "drain"
    BY DEF DrainUntouched, store, search, At
  <1>2. PICK i \in Indexes : i = cli.index
    BY KeptType DEF IInv, Inv
  <1>3. rebuild[i].phase = "catchup"
    BY <1>1, <1>2 DEF IInv, Coherent, Phased
  <1>4. CASE Go("scan")
    <2>1. cli'.pc = "scan" /\ cli'.index = i
      BY <1>2, <1>4, Goes DEF IInv, Inv, TypeOK, Steps
    <2>2. Phased' /\ Item'
      BY <1>1, <1>3, <2>1, NoItem DEF Phased, ItemSteps
    <2> QED BY <1>1, <2>1, <2>2, LoopCoheres
  <1>5. CASE ~Go("scan")
    <2> DEFINE owed == Lagging(Candidate)
    <2>1. owed \in SUBSET Nat /\ owed # {} /\ owed \subseteq Articles
      BY <1>5, RebuildAssumption DEF DrainUntouched, Lagging
    <2>2. PICK a \in Articles : a = MinOf(owed)
      <3> HIDE DEF owed
      <3> QED BY <2>1, MinOfIsLeast
    <2>3. PICK n \in Nat : n = slot[a].gen
      BY SlotType DEF IInv, Inv
    <2>4. cli' = [cli EXCEPT !.pc = "read", !.loop = "drain", !.art = a, !.gen = n]
      BY <1>5, <2>2, <2>3 DEF DrainUntouched
    <2>5. cli'.pc = "read" /\ cli'.index = i /\ cli'.loop = "drain" /\ cli'.art = a /\ cli'.gen = n
      BY <1>2, <2>4 DEF IInv, Inv, TypeOK, Command
    <2>6. DrainItem'
      BY <1>1, <2>3, <2>5 DEF DrainItem, AtHand
    <2>7. Phased' /\ Item'
      BY <1>1, <1>3, <2>5, <2>6 DEF Phased, Item, SnapshotItem, SnapshotOver, ScanItem, AtHand
    <2> QED BY <1>1, <2>5, <2>7, LoopCoheres DEF ItemSteps
  <1> QED BY <1>4, <1>5

(* Without a change beyond the watermark the candidate is complete.        *)
LEMMA ScanCoheres ==
  ASSUME IInv, ScanChanges
  PROVE  Coherent'
  <1> DEFINE changed == {a \in Articles : slot[a].seq > Later(Kept.catch, Kept.start)}
  <1>1. /\ UNCHANGED <<article, slot, delivery, seq, served, rebuild, exists, alias, doc, wire, opened>>
        /\ cli.pc = "scan"
    BY DEF ScanChanges, store, search, At
  <1>2. PICK i \in Indexes : i = cli.index
    BY KeptType DEF IInv, Inv
  <1>3. rebuild[i].phase = "catchup"
    BY <1>1, <1>2 DEF IInv, Coherent, Phased
  <1>4. changed \subseteq Articles /\ \A b \in Articles : b \in changed <=> slot[b].seq > Mark(i)
    BY <1>2 DEF Mark, Kept, Candidate
  <1>5. Mark(i) \in Nat /\ \A b \in Articles : slot[b].seq \in Nat /\ (slot[b].seq >= 1 => slot[b] # NoSlot)
    BY MarkType, SlotType DEF IInv, Inv
  <1>6. CASE changed = {}
    <2>1. Go("lag")
      BY <1>6 DEF ScanChanges
    <2>2. cli'.pc = "lag" /\ cli'.index = i
      BY <1>2, <2>1, Goes DEF IInv, Inv, TypeOK, Steps
    <2>3. Complete(i)
      <3>1. ASSUME NEW b \in Articles
            PROVE  slot[b].seq <= Mark(i)
        <4>1. ~(slot[b].seq > Mark(i))
          <5> HIDE DEF changed
          <5> QED BY <1>4, <1>6
        <4> QED BY <1>5, <4>1
      <3> QED BY <1>3, <3>1 DEF Complete, IInv, Coherent, Stored, CandidateSound, Ahead
    <2>4. Phased' /\ Item'
      BY <1>1, <1>3, <2>2, NoItem DEF Phased, ItemSteps
    <2> QED BY <1>1, <2>2, <2>3, <2>4, LoopCoheres
  <1>7. CASE changed # {}
    <2>1. PICK a \in changed : a = NextChange(changed) /\ \A c \in changed : slot[a].seq <= slot[c].seq
      BY <1>7, NextChangeIsLeast DEF IInv, Inv
    <2>2. PICK n \in Nat, t \in Target, h \in Nat : n = slot[a].gen /\ t = slot[a].target /\ h = slot[a].seq
      BY DEF IInv, Inv, TypeOK, Slot
    <2>3. cli' = [cli EXCEPT !.pc = "read", !.loop = "scan", !.art = a, !.gen = n, !.read = t, !.high = h]
      BY <1>7, <2>1, <2>2 DEF ScanChanges, NextChange
    <2>4. /\ cli'.pc = "read" /\ cli'.index = i /\ cli'.loop = "scan" /\ cli'.art = a
          /\ cli'.gen = n /\ cli'.read = t /\ cli'.high = h
      BY <1>2, <2>3 DEF IInv, Inv, TypeOK, Command
    <2>5. h > Mark(i) /\ slot[a] # NoSlot
      <3> HIDE DEF changed
      <3> QED BY <1>4, <1>5, <2>1, <2>2
    <2>6. t = Fact(a)
      BY <2>1, <2>2, <2>5 DEF IInv, Coherent, Stored, SlotsTell
    <2>7. \A b \in Articles : slot[b].seq > Mark(i) => b = a \/ slot[b].seq > h
      <3>1. \A b \in Articles : slot[b].seq = slot[a].seq => b = a
        BY <2>5 DEF IInv, Coherent, Stored, SlotsTell
      <3>2. \A b \in Articles : slot[b].seq > Mark(i) => h <= slot[b].seq
        <4> HIDE DEF changed
        <4> QED BY <1>4, <2>1, <2>2
      <3> QED BY <1>5, <2>2, <3>1, <3>2
    <2>8. ScanItem'
      BY <1>1, <1>5, <2>2, <2>4, <2>5, <2>6, <2>7 DEF ScanItem, AtHand, Mark, Fact
    <2>9. Phased' /\ Item'
      BY <1>1, <1>3, <2>4, <2>8 DEF Phased, Item, SnapshotItem, SnapshotOver, DrainItem, AtHand
    <2> QED BY <1>1, <2>4, <2>9, LoopCoheres DEF ItemSteps
  <1> QED BY <1>6, <1>7

(* What is not written is not there, or belongs to a slot that has moved.   *)
LEMMA ReadCurrentCoheres ==
  ASSUME IInv, ReadCurrent
  PROVE  Coherent'
  <1>1. /\ UNCHANGED <<article, slot, delivery, seq, served, rebuild, exists, alias, doc, wire, opened>>
        /\ cli.pc = "read"
    BY DEF ReadCurrent, store, search, At
  <1>2. PICK i \in Indexes, a \in Articles : i = cli.index /\ a = cli.art
    BY <1>1, KeptType DEF IInv, Inv, ItemAtHand
  <1>3. rebuild[i].phase = "catchup" /\ cli.loop \in {"drain", "scan"}
    BY <1>1, <1>2 DEF IInv, Coherent, Phased, Inv, TypeOK, Command
  <1>4. \A j \in Indexes, b \in Articles :
          Mark(j)' = Mark(j) /\ Fact(b)' = Fact(b) /\ Shows(j, b)' = Shows(j, b)
    BY <1>1 DEF Mark, Fact, Shows
  <1>5. CASE cli.loop = "drain"
    <2>1. PICK t \in Target : t = Fact(a)
      BY TargetType DEF Fact, IInv, Inv, TypeOK
    <2>2. PICK step \in {"write", "converge"} :
            /\ cli' = [cli EXCEPT !.pc = step, !.read = t]
            /\ step = "converge" => ~Public(article[a])
      BY <1>2, <1>5, <2>1 DEF ReadCurrent
    <2>3. /\ cli'.pc = step /\ cli'.index = i /\ cli'.loop = "drain" /\ cli'.art = a
          /\ cli'.gen = cli.gen /\ cli'.read = t
      BY <1>2, <1>5, <2>2 DEF IInv, Inv, TypeOK, Command
    <2>4. slot[a].seq <= Mark(i) => cli.gen = slot[a].gen /\ (~Public(article[a]) => Shows(i, a))
      BY <1>1, <1>2, <1>3, <1>5 DEF IInv, Coherent, Item, DrainItem, AtHand, Stored, CandidateSound
    <2>5. DrainItem'
      BY <1>1, <1>4, <2>1, <2>2, <2>3, <2>4 DEF DrainItem, AtHand
    <2>6. Phased' /\ Item'
      BY <1>1, <1>3, <2>2, <2>3, <2>5 DEF Phased, Item, SnapshotItem, SnapshotOver, ScanItem, AtHand
    <2> QED BY <1>1, <2>2, <2>3, <2>6, LoopCoheres DEF ItemSteps
  <1>6. CASE cli.loop = "scan"
    <2>1. \/ Go("write") /\ Fact(a) = cli.read
          \/ Go("mark") /\ Fact(a) # cli.read
      BY <1>2, <1>6 DEF ReadCurrent
    <2>2. /\ cli'.index = i /\ cli'.loop = "scan" /\ cli'.art = a /\ cli'.gen = cli.gen
          /\ cli'.read = cli.read /\ cli'.high = cli.high
          /\ cli'.pc = "write" \/ (cli'.pc = "mark" /\ Fact(a) # cli.read)
      BY <1>2, <1>6, <2>1, Goes DEF IInv, Inv, TypeOK, Steps
    <2>3. /\ cli.high > Mark(i) /\ slot[a].seq >= cli.high
          /\ \A b \in Articles : slot[b].seq > Mark(i) => b = a \/ slot[b].seq > cli.high
          /\ slot[a].seq = cli.high => cli.gen = slot[a].gen /\ cli.read = Fact(a)
      BY <1>1, <1>2, <1>6 DEF IInv, Coherent, Item, ScanItem, AtHand
    <2>4. ScanItem'
      BY <1>1, <1>4, <2>2, <2>3 DEF ScanItem, AtHand
    <2>5. Phased' /\ Item'
      BY <1>1, <1>3, <2>2, <2>4 DEF Phased, Item, SnapshotItem, SnapshotOver, DrainItem, AtHand
    <2> QED BY <1>1, <2>2, <2>5, LoopCoheres DEF ItemSteps
  <1> QED BY <1>3, <1>5, <1>6

-----------------------------------------------------------------------------
(* The changes of phase.                                                   *)

(* The row of one rebuild takes another phase, its watermarks as they are.  *)
LEMMA PhaseMoves ==
  ASSUME TypeOK, NEW i \in Indexes, NEW phase \in Phases, Update(i, [rebuild[i] EXCEPT !.phase = phase])
  PROVE  /\ rebuild'[i].phase = phase /\ CanTransition(rebuild[i].phase, phase)
         /\ \A j \in Indexes : j # i => rebuild'[j] = rebuild[j]
         /\ \A j \in Indexes : rebuild'[j].start = rebuild[j].start /\ rebuild'[j].catch = rebuild[j].catch
                               /\ rebuild'[j].snap = rebuild[j].snap
  <1>1. PICK k \in Rebuild : k = rebuild[i]
    BY DEF TypeOK
  <1>2. PICK r \in Rebuild : r = [k EXCEPT !.phase = phase]
    BY DEF Rebuild
  <1>3. r.phase = phase /\ r.start = k.start /\ r.catch = k.catch /\ r.snap = k.snap
    BY <1>2 DEF Rebuild
  <1>4. Update(i, r)
    BY <1>1, <1>2
  <1>5. rebuild'[i] = r /\ \A j \in Indexes : j # i => rebuild'[j] = rebuild[j]
    BY <1>4, Updates
  <1>6. CanTransition(rebuild[i].phase, phase)
    BY <1>3, <1>4 DEF Update
  <1> QED BY <1>1, <1>3, <1>5, <1>6

(* From the catch-up on, a rebuild goes to a later phase: nothing that does *)
(* not look at the command asks more of it, but for the slots that a        *)
(* validation needs.                                                       *)
LEMMA StoredMovesOn ==
  ASSUME IInv, NEW i \in Indexes, UNCHANGED <<article, slot, delivery, seq, exists, doc, wire, opened>>,
         rebuild[i].phase \notin {"none", "snapshot"}, rebuild'[i].phase \notin {"none", "snapshot", "catchup"},
         rebuild'[i].phase \in BuildPhases => rebuild[i].phase \in BuildPhases,
         rebuild'[i].phase \in {"validate", "validated"} =>
           \A a \in Articles : Public(article[a]) => slot[a] # NoSlot,
         \A j \in Indexes : j # i => rebuild'[j] = rebuild[j],
         \A j \in Indexes : rebuild'[j].start = rebuild[j].start /\ rebuild'[j].catch = rebuild[j].catch
                            /\ rebuild'[j].snap = rebuild[j].snap
  PROVE  Stored' /\ \A j \in Indexes : (j = FirstIndex => j # i) /\ (j # i => Live(j)' = Live(j))
  <1>1. \A j \in Indexes, b \in Articles :
          Mark(j)' = Mark(j) /\ Fact(b)' = Fact(b) /\ Shows(j, b)' = Shows(j, b) /\ (j # i => Ahead(j, b)' = Ahead(j, b))
    BY DEF Mark, Fact, Shows, Ahead
  <1>2. i # FirstIndex
    BY DEF IInv, Coherent, Stored, Indices
  <1>3. Quiet' /\ SlotsTell'
    BY <1>1 DEF IInv, Coherent, Stored, Quiet, SlotsTell
  <1>4. Indices'
    <2>1. rebuild'[FirstIndex].phase = "none"
      BY <1>2, RebuildAssumption DEF IInv, Coherent, Stored, Indices
    <2>2. \A j \in Indexes : j = i \/ rebuild'[j] = rebuild[j]
      OBVIOUS
    <2> QED BY <2>1, <2>2 DEF IInv, Coherent, Stored, Indices
  <1>5. CandidateSound'
    BY <1>1 DEF IInv, Coherent, Stored, CandidateSound
  <1>6. EveryPublicHasSlot'
    BY DEF IInv, Coherent, Stored, EveryPublicHasSlot
  <1>7. \A j \in Indexes : (j = FirstIndex => j # i) /\ (j # i => Live(j)' = Live(j))
    BY <1>2 DEF Live
  <1> QED BY <1>3, <1>4, <1>5, <1>6, <1>7 DEF Stored

(* After the snapshot no public article is ahead of it.                    *)
LEMMA SnapshotDoneCoheres ==
  ASSUME IInv, SnapshotDone
  PROVE  Coherent'
  <1>1. /\ UNCHANGED <<article, slot, delivery, seq, served, exists, alias, doc, wire, opened>>
        /\ cli.pc = "caught" /\ Go("drain")
    BY DEF SnapshotDone, store, search, At
  <1>2. PICK i \in Indexes, k \in Rebuild : i = cli.index /\ k = rebuild[i]
    BY KeptType DEF IInv, Inv, Kept, Candidate
  <1>3. k.phase = "snapshot" /\ k.catch = 0 /\ k.start \in Nat /\ k.start <= seq /\ seq \in Nat
    BY <1>1, <1>2 DEF IInv, Inv, TypeOK, Coherent, Phased, Stored, Indices, Rebuild
  <1>4. PICK r : r = [k EXCEPT !.phase = "catchup", !.catch = k.start]
    OBVIOUS
  <1>5. r \in Rebuild /\ r.phase = "catchup" /\ r.catch = k.start /\ r.start = k.start /\ r.snap = k.snap
    BY <1>3, <1>4 DEF Rebuild, Phases
  <1>6. Update(i, r)
    <2>1. Update(Candidate, [Kept EXCEPT !.phase = "catchup", !.catch = Later(Kept.catch, Kept.start)])
      BY DEF SnapshotDone
    <2>2. Kept = k /\ Candidate = i /\ Later(k.catch, k.start) = k.start
      BY <1>2, <1>3 DEF Kept, Candidate, Later
    <2> QED BY <1>4, <2>1, <2>2
  <1>7. rebuild'[i] = r /\ \A j \in Indexes : j # i => rebuild'[j] = rebuild[j]
    BY <1>5, <1>6, Updates DEF IInv, Inv
  <1>8. cli'.pc = "drain" /\ cli'.index = i
    BY <1>1, <1>2, Goes DEF IInv, Inv, TypeOK, Steps
  <1>9. \A j \in Indexes : Mark(j)' = Mark(j)
    BY <1>2, <1>3, <1>5, <1>7 DEF Mark, Later
  <1>10. \A j \in Indexes, b \in Articles : Fact(b)' = Fact(b) /\ Shows(j, b)' = Shows(j, b)
    BY <1>1 DEF Fact, Shows
  <1>11. i # FirstIndex
    BY <1>2, <1>3 DEF IInv, Coherent, Stored, Indices
  <1>12. Quiet' /\ SlotsTell' /\ EveryPublicHasSlot'
    BY <1>1, <1>5, <1>7, <1>10 DEF IInv, Coherent, Stored, Quiet, SlotsTell, EveryPublicHasSlot
  <1>13. Indices'
    <2>1. rebuild'[FirstIndex].phase = "none"
      BY <1>7, <1>11, RebuildAssumption DEF IInv, Coherent, Stored, Indices
    <2>2. exists[i]
      BY <1>2, <1>3 DEF IInv, Coherent, Stored, Indices, BuildPhases
    <2>3. \A j \in Indexes : j = i \/ rebuild'[j] = rebuild[j]
      BY <1>7
    <2> QED BY <1>1, <1>3, <1>5, <1>7, <2>1, <2>2, <2>3 DEF IInv, Coherent, Stored, Indices
  <1>14. CandidateSound'
    <2> SUFFICES ASSUME NEW j \in Indexes, NEW b \in Articles,
                        rebuild'[j].phase \in {"snapshot", "catchup"}, slot[b].seq <= Mark(j)
                 PROVE  IF Public(article[b])
                        THEN \/ Ahead(j, b)'
                             \/ slot[b] # NoSlot /\ (Shows(j, b) \/ delivery[b][j] = "owed")
                        ELSE Shows(j, b)
      BY <1>1, <1>9, <1>10 DEF CandidateSound
    <2>1. CASE j = i
      <3>1. ~Unwalked(i, b)
        BY <1>1, <1>2 DEF IInv, Coherent, Item, SnapshotOver
      <3>2. Public(article[b]) => ~Ahead(i, b)
        BY <2>1, <3>1 DEF Unwalked, Ahead
      <3> QED BY <1>2, <1>3, <2>1, <3>2 DEF IInv, Coherent, Stored, CandidateSound
    <2>2. CASE j # i
      <3>1. Ahead(j, b)' = Ahead(j, b) /\ rebuild'[j] = rebuild[j]
        BY <1>7, <2>2 DEF Ahead
      <3> QED BY <3>1 DEF IInv, Coherent, Stored, CandidateSound
    <2> QED BY <2>1, <2>2
  <1>15. Phased'
    BY <1>5, <1>7, <1>8 DEF Phased
  <1>16. Places'
    <2>1. ~Live(i)
      BY <1>2, <1>3, <1>11 DEF Live
    <2>2. \A j \in Indexes : Live(j) => Live(j)'
      BY <1>7, <2>1 DEF Live
    <2>3. served.current \in Indexes /\ served.rollback \in Indexes \cup {NoIndex}
      BY DEF IInv, Inv, TypeOK, Served
    <2> QED BY <1>1, <1>8, <2>2, <2>3 DEF IInv, Coherent, Places
  <1>17. ReadyComplete'
    <2>1. \A j \in Indexes : Ready(j)' => Ready(j)
      BY <1>1, <1>5, <1>7, <1>8 DEF Ready
    <2> QED BY <1>1, <2>1, ReadyStays DEF IInv, Coherent
  <1> QED BY <1>8, <1>12, <1>13, <1>14, <1>15, <1>16, <1>17, NoItem DEF Coherent, Stored, ItemSteps

(* The catch-up ends with a complete candidate; the validation reads.      *)
LEMMA CatchUpDoneCoheres ==
  ASSUME IInv, CatchUpDone
  PROVE  Coherent'
  <1>1. /\ UNCHANGED <<article, slot, delivery, seq, served, exists, alias, doc, wire, opened>>
        /\ cli.pc = "lag"
    BY DEF CatchUpDone, store, search, At
  <1>2. PICK i \in Indexes : i = cli.index
    BY KeptType DEF IInv, Inv
  <1>3. rebuild[i].phase = "catchup"
    BY <1>1, <1>2 DEF IInv, Coherent, Phased
  <1>4. CASE Go("scan") /\ UNCHANGED rebuild
    <2>1. cli'.pc = "scan" /\ cli'.index = i
      BY <1>2, <1>4, Goes DEF IInv, Inv, TypeOK, Steps
    <2>2. Phased' /\ Item'
      BY <1>3, <1>4, <2>1, NoItem DEF Phased, ItemSteps
    <2> QED BY <1>1, <1>4, <2>1, <2>2, LoopCoheres
  <1>5. CASE Update(Candidate, [Kept EXCEPT !.phase = "validate"]) /\ Go("count")
    <2>1. cli'.pc = "count" /\ cli'.index = i
      BY <1>2, <1>5, Goes DEF IInv, Inv, TypeOK, Steps
    <2>2. Update(i, [rebuild[i] EXCEPT !.phase = "validate"]) /\ "validate" \in Phases
      BY <1>2, <1>5 DEF Candidate, Kept, Phases
    <2>3. /\ rebuild'[i].phase = "validate"
          /\ \A j \in Indexes : j # i => rebuild'[j] = rebuild[j]
          /\ \A j \in Indexes : rebuild'[j].start = rebuild[j].start /\ rebuild'[j].catch = rebuild[j].catch
                                /\ rebuild'[j].snap = rebuild[j].snap
      BY <2>2, PhaseMoves DEF IInv, Inv
    <2>4. \A b \in Articles : Public(article[b]) => slot[b] # NoSlot
      <3>1. Mark(i) \in Nat /\ \A b \in Articles : slot[b].seq \in Nat /\ (slot[b].seq >= 1 => slot[b] # NoSlot)
        BY MarkType, SlotType DEF IInv, Inv
      <3>2. \A b \in Articles : slot[b].seq <= Mark(i) /\ Public(article[b]) => slot[b] # NoSlot
        BY <1>3 DEF IInv, Coherent, Stored, CandidateSound, Ahead
      <3>3. \A b \in Articles : ~(slot[b].seq <= Mark(i)) => slot[b] # NoSlot
        BY <3>1
      <3> QED BY <3>2, <3>3
    <2>5. Stored' /\ \A j \in Indexes : (j = FirstIndex => j # i) /\ (j # i => Live(j)' = Live(j))
      BY <1>1, <1>3, <2>3, <2>4, StoredMovesOn DEF BuildPhases
    <2>6. Phased'
      BY <2>1, <2>3 DEF Phased
    <2>7. Places'
      <3>1. ~Live(i)
        BY <1>3, <2>5 DEF Live
      <3>2. served.current \in Indexes /\ served.rollback \in Indexes \cup {NoIndex}
        BY DEF IInv, Inv, TypeOK, Served
      <3> QED BY <1>1, <2>1, <2>5, <3>1, <3>2 DEF IInv, Coherent, Places
    <2>8. ReadyComplete'
      <3>1. \A j \in Indexes : Ready(j)' => Ready(j)
        BY <1>1, <1>2, <2>1, <2>3 DEF Ready
      <3> QED BY <1>1, <3>1, ReadyStays DEF IInv, Coherent
    <2> QED BY <2>1, <2>5, <2>6, <2>7, <2>8, NoItem DEF Coherent, ItemSteps
  <1> QED BY <1>4, <1>5 DEF CatchUpDone

LEMMA ValidateCoheres ==
  ASSUME IInv, CountPublic \/ Inspect \/ CheckLagging
  PROVE  Coherent'
  <1>1. /\ UNCHANGED <<article, slot, delivery, seq, served, rebuild, exists, alias, doc, wire, opened>>
        /\ cli.pc \in {"count", "inspect", "lagging"}
    BY DEF CountPublic, Inspect, CheckLagging, store, search, At
  <1>2. CASE Finish
    BY <1>1, <1>2, StopCoheres
  <1>3. CASE ~Finish
    <2>2. cli'.pc \in {"inspect", "lagging", "sample"} /\ cli'.index = cli.index
      <3>1. CASE CountPublic
        <4>1. PICK n : n = Cardinality({a \in Articles : Public(article[a])})
          OBVIOUS
        <4>2. cli' = [cli EXCEPT !.pc = "inspect", !.public = n]
          BY <3>1, <4>1 DEF CountPublic
        <4> QED BY <4>2 DEF IInv, Inv, TypeOK, Command
      <3>2. CASE Inspect
        <4>1. PICK m : m = Cardinality({a \in Articles : Shown(Candidate, a)})
          OBVIOUS
        <4>2. cli' = [cli EXCEPT !.pc = "lagging", !.visible = m]
          BY <1>3, <3>2, <4>1 DEF Inspect
        <4> QED BY <4>2 DEF IInv, Inv, TypeOK, Command
      <3>3. CASE CheckLagging
        <4>1. PICK b : b = (Lagging(Candidate) = {})
          OBVIOUS
        <4>2. cli' = [cli EXCEPT !.pc = "sample", !.clean = b]
          BY <3>3, <4>1 DEF CheckLagging
        <4> QED BY <4>2 DEF IInv, Inv, TypeOK, Command
      <3> QED BY <3>1, <3>2, <3>3
    <2>3. Phased' /\ Places' /\ cli'.pc \notin ItemSteps
      BY <1>1, <2>2 DEF IInv, Coherent, Phased, Places, Live, ItemSteps
    <2>4. \A j \in Indexes : Ready(j)' => Ready(j)
      BY <1>1, <2>2 DEF Ready
    <2> QED BY <1>1, <2>3, <2>4, ReadCoheres
  <1> QED BY <1>2, <1>3

(* The phases from the validation to the serving index: what is ready      *)
(* stays ready.                                                            *)
LEMMA PhaseStepCoheres ==
  ASSUME IInv, NEW i \in Indexes, i = cli.index, NEW phase \in Phases,
         Update(i, [rebuild[i] EXCEPT !.phase = phase]),
         \/ rebuild[i].phase \in {"validate", "validated"} /\ phase \in {"validate", "validated", "cutover"}
         \/ rebuild[i].phase = "cutover" /\ phase = "serving",
         UNCHANGED <<article, slot, delivery, seq, served, exists, alias, doc, wire, opened>>,
         cli.pc \notin {"set", "backset"}, cli'.pc \in {"idle", "switch"},
         cli'.pc = "switch" => phase = "cutover" /\ cli'.index = i /\ i # served.current
  PROVE  Coherent'
  <1>1. /\ rebuild'[i].phase = phase
        /\ \A j \in Indexes : j # i => rebuild'[j] = rebuild[j]
        /\ \A j \in Indexes : rebuild'[j].start = rebuild[j].start /\ rebuild'[j].catch = rebuild[j].catch
                              /\ rebuild'[j].snap = rebuild[j].snap
    BY PhaseMoves DEF IInv, Inv
  <1>2. Stored' /\ \A j \in Indexes : (j = FirstIndex => j # i) /\ (j # i => Live(j)' = Live(j))
    <2>1. phase \in {"validate", "validated"} => \A a \in Articles : Public(article[a]) => slot[a] # NoSlot
      BY DEF IInv, Coherent, Stored, EveryPublicHasSlot
    <2> QED BY <1>1, <2>1, StoredMovesOn DEF BuildPhases
  <1>3. Live(i) => Live(i)'
    BY <1>1, <1>2 DEF Live
  <1>4. Phased'
    BY <1>1 DEF Phased
  <1>5. Places'
    <2>1. served.current \in Indexes /\ served.rollback \in Indexes \cup {NoIndex}
      BY DEF IInv, Inv, TypeOK, Served
    <2> QED BY <1>2, <1>3, <2>1 DEF IInv, Coherent, Places
  <1>6. ReadyComplete'
    <2>1. \A j \in Indexes : Ready(j)' => Ready(j)
      BY <1>1 DEF Ready
    <2> QED BY <2>1, ReadyStays DEF IInv, Coherent
  <1> QED BY <1>2, <1>4, <1>5, <1>6, NoItem DEF Coherent, ItemSteps

LEMMA PhasesCohere ==
  ASSUME IInv, Verdict \/ EnterCutover \/ Serve
  PROVE  Coherent'
  <1>1. UNCHANGED <<article, slot, delivery, seq, served, exists, alias, doc, wire, opened>>
    BY DEF Verdict, EnterCutover, Serve, store, search
  <1>2. PICK i \in Indexes : i = cli.index
    BY KeptType DEF IInv, Inv
  <1>3. {"validate", "validated", "cutover", "serving"} \subseteq Phases
    BY DEF Phases
  <1>4. CASE Verdict
    <2>1. cli.pc = "sample" /\ cli'.pc = "idle"
      BY <1>4, Ends DEF Verdict, At
    <2>2. rebuild[i].phase \in {"validate", "validated"}
      BY <1>2, <2>1 DEF IInv, Coherent, Phased
    <2>3. PICK phase \in {"validate", "validated"} : Update(i, [rebuild[i] EXCEPT !.phase = phase])
      BY <1>2, <1>4 DEF Verdict, Candidate, Kept
    <2> QED BY <1>1, <1>2, <1>3, <2>1, <2>2, <2>3, PhaseStepCoheres
  <1>5. CASE EnterCutover
    <2>1. cli.pc = "phase" /\ Go("switch") /\ Update(i, [rebuild[i] EXCEPT !.phase = "cutover"])
      BY <1>2, <1>5 DEF EnterCutover, At, Candidate, Kept
    <2>2. cli'.pc = "switch" /\ cli'.index = i
      BY <1>2, <2>1, Goes DEF IInv, Inv, TypeOK, Steps
    <2>3. rebuild[i].phase = "validated" /\ i # served.current
      BY <1>2, <2>1 DEF IInv, Coherent, Phased, Places
    <2> QED BY <1>1, <1>2, <1>3, <2>1, <2>2, <2>3, PhaseStepCoheres
  <1>6. CASE Serve
    <2>1. cli.pc = "serve" /\ cli'.pc = "idle" /\ Update(i, [rebuild[i] EXCEPT !.phase = "serving"])
      BY <1>2, <1>6, Ends DEF Serve, At, Candidate, Kept
    <2>2. rebuild[i].phase = "cutover"
      BY <1>2, <2>1 DEF IInv, Coherent, Phased
    <2> QED BY <1>1, <1>2, <1>3, <2>1, <2>2, PhaseStepCoheres
  <1> QED BY <1>4, <1>5, <1>6

-----------------------------------------------------------------------------
(* The switch and the way back.                                            *)

LEMMA AliasCoheres ==
  ASSUME IInv, Switch \/ SwitchBack
  PROVE  Coherent'
  <1>1. UNCHANGED <<article, slot, delivery, seq, served, rebuild, exists, doc, wire, opened>>
    BY DEF Switch, SwitchBack, store
  <1>2. PICK i \in Indexes, c \in Indexes, r \in Indexes \cup {NoIndex} :
          i = cli.index /\ c = served.current /\ r = served.rollback
    BY KeptType DEF IInv, Inv, TypeOK, Served
  <1>3. cli.pc \in {"switch", "back"} /\ alias = c
    BY <1>2 DEF Switch, SwitchBack, At, IInv, Coherent, Places
  <1>4. CASE Finish /\ UNCHANGED alias
    BY <1>1, <1>3, <1>4, StopCoheres
  <1>5. CASE ~(Finish /\ UNCHANGED alias)
    <2>1. Stored'
      BY <1>1, StoredStays DEF IInv, Coherent
    <2>2. CASE Switch
      <3>1. alias' = i /\ Go("set") /\ cli.pc = "switch"
        BY <1>2, <1>5, <2>2 DEF Switch, SwitchAliases, Candidate, At
      <3>2. cli'.pc = "set" /\ cli'.index = i
        BY <1>2, <3>1, Goes DEF IInv, Inv, TypeOK, Steps
      <3>3. Phased' /\ Places'
        BY <1>1, <1>2, <3>1, <3>2 DEF IInv, Coherent, Phased, Places, Live
      <3>4. \A j \in Indexes : Ready(j)' => Ready(j)
        BY <1>1, <3>2 DEF Ready
      <3> QED BY <1>1, <2>1, <3>2, <3>3, <3>4, ReadyStays, NoItem DEF IInv, Coherent, ItemSteps
    <2>3. CASE SwitchBack
      <3>1. alias' = r /\ alias \in {i, r} /\ Go("backset") /\ cli.pc = "back"
        BY <1>2, <1>5, <2>3 DEF SwitchBack, SwitchAliases, Candidate, At
      <3>2. cli'.pc = "backset" /\ cli'.index = i
        BY <1>2, <3>1, Goes DEF IInv, Inv, TypeOK, Steps
      <3>3. r # NoIndex /\ r # c
        BY <1>2, <3>1 DEF IInv, Inv, IndexAtHand, Coherent, Places
      <3>4. i # r
        BY <1>3, <3>1, <3>3
      <3>5. Phased' /\ Places'
        BY <1>1, <1>2, <3>1, <3>2, <3>4 DEF IInv, Coherent, Phased, Places, Live
      <3>6. \A j \in Indexes : Ready(j)' => Ready(j)
        BY <1>1, <3>1, <3>2 DEF Ready
      <3> QED BY <1>1, <2>1, <3>2, <3>5, <3>6, ReadyStays, NoItem DEF IInv, Coherent, ItemSteps
    <2> QED BY <2>2, <2>3
  <1> QED BY <1>4, <1>5

(* search_index_state names the index behind the alias, and goes back to a  *)
(* complete one.                                                           *)
LEMMA ServedCoheres ==
  ASSUME IInv, SetServed \/ SetBack \/ CloseWindow
  PROVE  Coherent'
  <1>1. UNCHANGED <<article, slot, delivery, seq, rebuild, exists, alias, doc, wire, opened>>
    BY DEF SetServed, SetBack, CloseWindow, store, search
  <1>2. PICK i \in Indexes, c \in Indexes, r \in Indexes \cup {NoIndex} :
          i = cli.index /\ c = served.current /\ r = served.rollback
    BY KeptType DEF IInv, Inv, TypeOK, Served
  <1>3. Stored'
    BY <1>1, StoredStays DEF IInv, Coherent
  <1>4. CASE SetServed
    <2>1. cli.pc = "set" /\ served' = [current |-> i, rollback |-> c, expired |-> FALSE] /\ Go("serve")
      BY <1>2, <1>4 DEF SetServed, At, Candidate
    <2>2. cli'.pc = "serve" /\ cli'.index = i
      BY <1>2, <2>1, Goes DEF IInv, Inv, TypeOK, Steps
    <2>3. rebuild[i].phase = "cutover" /\ i # c /\ alias = i
      BY <1>2, <2>1 DEF IInv, Coherent, Phased, Places
    <2>4. Phased' /\ Places'
      BY <1>1, <1>2, <2>1, <2>2, <2>3 DEF IInv, Coherent, Phased, Places, Live
    <2>5. \A j \in Indexes : Ready(j)' => Ready(j)
      BY <1>1, <1>2, <2>1, <2>2, <2>3 DEF Ready
    <2> QED BY <1>1, <1>3, <2>2, <2>4, <2>5, ReadyStays, NoItem DEF IInv, Coherent, ItemSteps
  <1>5. CASE SetBack
    <2>1. cli.pc = "backset" /\ served' = [current |-> r, rollback |-> NoIndex, expired |-> FALSE] /\ Go("backdetach")
      BY <1>2, <1>5 DEF SetBack, At
    <2>2. cli'.pc = "backdetach" /\ cli'.index = i
      BY <1>2, <2>1, Goes DEF IInv, Inv, TypeOK, Steps
    <2>3. r # NoIndex /\ i # r /\ alias = r /\ rebuild[i].phase = "serving"
      BY <1>2, <2>1 DEF IInv, Inv, IndexAtHand, Coherent, Phased, Places
    <2>4. Phased' /\ Places'
      BY <1>1, <1>2, <2>1, <2>2, <2>3 DEF IInv, Coherent, Phased, Places, Live
    <2>5. \A j \in Indexes : Ready(j)' => Ready(j)
      BY <1>1, <1>2, <2>1, <2>2, <2>3 DEF Ready
    <2> QED BY <1>1, <1>3, <2>2, <2>4, <2>5, ReadyStays, NoItem DEF IInv, Coherent, ItemSteps
  <1>6. CASE CloseWindow
    <2>1. cli.pc = "closeset" /\ served' = [current |-> c, rollback |-> NoIndex, expired |-> FALSE] /\ Go("complete")
      BY <1>2, <1>6 DEF CloseWindow, At
    <2>2. cli'.pc = "complete" /\ cli'.index = i
      BY <1>2, <2>1, Goes DEF IInv, Inv, TypeOK, Steps
    <2>3. rebuild[i].phase \notin BuildPhases
      BY <1>2, <2>1 DEF IInv, Coherent, Phased
    <2>4. Phased' /\ Places'
      BY <1>1, <1>2, <2>1, <2>2, <2>3 DEF IInv, Coherent, Phased, Places, Live
    <2>5. \A j \in Indexes : Ready(j)' => Ready(j)
      BY <1>1, <1>2, <2>1, <2>2 DEF Ready
    <2> QED BY <1>1, <1>3, <2>2, <2>4, <2>5, ReadyStays, NoItem DEF IInv, Coherent, ItemSteps
  <1> QED BY <1>4, <1>5, <1>6

(* The deliveries that are removed are those of an index that nobody reads. *)
LEMMA DetachCoheres ==
  ASSUME IInv, DetachCandidate
  PROVE  Coherent'
  <1>1. UNCHANGED <<article, slot, seq, served, rebuild, exists, alias, doc, wire, opened>>
    BY DEF DetachCandidate, search
  <1>2. PICK i \in Indexes : i = cli.index
    BY KeptType DEF IInv, Inv
  <1>3. \/ cli.pc = "backdetach" /\ Go("backphase")
        \/ cli.pc = "close" /\ Go("closeset")
    BY DEF DetachCandidate, At, IInv, Coherent, Phased
  <1>4. /\ cli'.index = i
        /\ \/ cli.pc = "backdetach" /\ cli'.pc = "backphase"
           \/ cli.pc = "close" /\ cli'.pc = "closeset"
    <2>1. "backphase" \in Steps /\ "closeset" \in Steps /\ cli \in Command
      BY DEF Steps, IInv, Inv, TypeOK
    <2>2. CASE Go("backphase") /\ cli.pc = "backdetach"
      <3>1. cli'.pc = "backphase" /\ cli'.index = cli.index
        BY <2>1, <2>2, Goes
      <3> QED BY <1>2, <2>2, <3>1
    <2>3. CASE Go("closeset") /\ cli.pc = "close"
      <3>1. cli'.pc = "closeset" /\ cli'.index = cli.index
        BY <2>1, <2>3, Goes
      <3> QED BY <1>2, <2>3, <3>1
    <2> QED BY <1>3, <2>2, <2>3
  <1>5. \A j \in Indexes, b \in Articles : (j # i => delivery'[b][j] = delivery[b][j]) /\ delivery'[b][i] = "none"
    <2>1. delivery' = [b \in Articles |-> [delivery[b] EXCEPT ![i] = "none"]]
      BY <1>2 DEF DetachCandidate, Detached, Candidate
    <2> QED BY <2>1 DEF IInv, Inv, TypeOK
  <1>6. ~Ready(i) /\ rebuild[i].phase \notin BuildPhases
    <2>1. CASE cli.pc = "backdetach"
      <3>1. i # served.current /\ served.rollback = NoIndex /\ rebuild[i].phase = "serving"
        BY <1>2, <2>1 DEF IInv, Coherent, Phased, Places
      <3> QED BY <2>1, <3>1 DEF Ready, BuildPhases
    <2>2. CASE cli.pc = "close"
      <3>1. i # served.current /\ served.expired /\ rebuild[i].phase \notin BuildPhases
        BY <1>2, <2>2 DEF IInv, Inv, IndexAtHand, Coherent, Phased, Places
      <3> QED BY <2>2, <3>1 DEF Ready, BuildPhases
    <2> QED BY <1>4, <2>1, <2>2
  <1>7. \A j \in Indexes, b \in Articles : Shows(j, b)' = Shows(j, b) /\ Mark(j)' = Mark(j) /\ Ahead(j, b)' = Ahead(j, b)
    BY <1>1 DEF Shows, Fact, Mark, Ahead
  <1>8. Quiet' /\ SlotsTell' /\ EveryPublicHasSlot'
    BY <1>1 DEF IInv, Coherent, Stored, Quiet, SlotsTell, EveryPublicHasSlot, Fact
  <1>9. Indices'
    BY <1>1, <1>5 DEF IInv, Coherent, Stored, Indices
  <1>10. CandidateSound'
    <2>1. rebuild[i].phase \notin {"snapshot", "catchup"}
      BY <1>6 DEF BuildPhases
    <2> QED BY <1>1, <1>5, <1>7, <2>1 DEF IInv, Coherent, Stored, CandidateSound
  <1>11. ReadyComplete'
    <2> SUFFICES ASSUME NEW j \in Indexes, Ready(j)', NEW b \in Articles
                 PROVE  slot[b] = NoSlot \/ delivery'[b][j] = "owed" \/ Shows(j, b)
      BY <1>1, <1>7 DEF ReadyComplete, Complete
    <2>1. Ready(j)
      BY <1>1, <1>4 DEF Ready
    <2> QED BY <1>5, <1>6, <2>1 DEF IInv, Coherent, ReadyComplete, Complete
  <1>12. Phased' /\ Places'
    <2>1. cli.pc = "close" => served.expired
      BY DEF IInv, Coherent, Places
    <2>2. cli.pc = "backdetach" => rebuild[i].phase = "serving"
      BY <1>2 DEF IInv, Coherent, Phased
    <2> QED BY <1>1, <1>4, <1>6, <2>1, <2>2 DEF IInv, Coherent, Phased, Places, Live
  <1> QED BY <1>4, <1>8, <1>9, <1>10, <1>11, <1>12, NoItem DEF Coherent, Stored, ItemSteps

(* A serving rebuild is abandoned after a rollback, or completed.          *)
LEMMA EndsOfServingCohere ==
  ASSUME IInv, NEW i \in Indexes, NEW phase \in {"abandoned", "completed"}, rebuild[i].phase = "serving",
         rebuild' = [rebuild EXCEPT ![i].phase = phase],
         UNCHANGED <<article, slot, delivery, seq, served, exists, alias, doc, wire, opened>>,
         cli.pc \notin {"set", "backset"}, cli'.pc \in {"idle", "unused"},
         cli'.pc = "unused" => rebuild[cli'.index].phase \notin BuildPhases /\ cli'.index \in Indexes
  PROVE  Coherent'
  <1>1. PICK k \in Rebuild : k = rebuild[i]
    BY DEF IInv, Inv, TypeOK
  <1>2. PICK r : r = [k EXCEPT !.phase = phase]
    OBVIOUS
  <1>3. r.phase = phase /\ r.start = k.start /\ r.catch = k.catch /\ r.snap = k.snap
    BY <1>2 DEF Rebuild
  <1>4. rebuild'[i] = r /\ \A j \in Indexes : j # i => rebuild'[j] = rebuild[j]
    BY <1>1, <1>2 DEF IInv, Inv, TypeOK
  <1>5. \A j \in Indexes : rebuild'[j].start = rebuild[j].start /\ rebuild'[j].catch = rebuild[j].catch
                           /\ rebuild'[j].snap = rebuild[j].snap
    BY <1>1, <1>3, <1>4
  <1>6. Stored' /\ \A j \in Indexes : (j = FirstIndex => j # i) /\ (j # i => Live(j)' = Live(j))
    BY <1>3, <1>4, <1>5, StoredMovesOn DEF BuildPhases
  <1>7. Live(i)'
    BY <1>3, <1>4 DEF Live
  <1>8. Phased'
    <2>1. cli'.pc = "unused" => rebuild'[cli'.index].phase \notin BuildPhases
      <3>1. PICK j : j = cli'.index
        OBVIOUS
      <3>2. cli'.pc = "unused" => rebuild'[j].phase \notin BuildPhases
        BY <1>3, <1>4, <3>1 DEF BuildPhases
      <3> QED BY <3>1, <3>2
    <2> QED BY <2>1 DEF Phased
  <1>9. Places'
    <2>1. served.current \in Indexes /\ served.rollback \in Indexes \cup {NoIndex}
      BY DEF IInv, Inv, TypeOK, Served
    <2> QED BY <1>6, <1>7, <2>1 DEF IInv, Coherent, Places
  <1>10. ReadyComplete'
    <2>1. \A j \in Indexes : Ready(j)' => Ready(j)
      BY <1>3, <1>4 DEF Ready
    <2> QED BY <2>1, ReadyStays DEF IInv, Coherent
  <1> QED BY <1>6, <1>8, <1>9, <1>10, NoItem DEF Coherent, ItemSteps

LEMMA LastStepsCohere ==
  ASSUME IInv, EnterAbandoned \/ CompleteRebuild \/ CheckUnused
  PROVE  Coherent'
  <1>1. UNCHANGED <<article, slot, delivery, seq, served, exists, alias, doc, wire, opened>>
    BY DEF EnterAbandoned, CompleteRebuild, CheckUnused, store, search
  <1>2. PICK i \in Indexes, c \in Indexes : i = cli.index /\ c = served.current
    BY KeptType DEF IInv, Inv, TypeOK, Served
  <1>3. CASE EnterAbandoned
    <2>1. cli.pc = "backphase" /\ rebuild[i].phase = "serving" /\ Finish
      BY <1>2, <1>3 DEF EnterAbandoned, At, IInv, Coherent, Phased
    <2>2. cli'.pc = "idle"
      BY <2>1, Ends
    <2>3. rebuild' = [rebuild EXCEPT ![i].phase = "abandoned"] \/ UNCHANGED rebuild
      BY <1>2, <1>3 DEF EnterAbandoned, Candidate
    <2>4. CASE UNCHANGED rebuild
      BY <1>1, <2>1, <2>4, StopCoheres
    <2>5. CASE rebuild' = [rebuild EXCEPT ![i].phase = "abandoned"]
      BY <1>1, <2>1, <2>2, <2>5, EndsOfServingCohere
    <2> QED BY <2>3, <2>4, <2>5
  <1>4. CASE CompleteRebuild
    <2>1. cli.pc = "complete" /\ Go("unused")
      BY <1>4 DEF CompleteRebuild, At
    <2>2. cli'.pc = "unused" /\ cli'.index = i
      BY <1>2, <2>1, Goes DEF IInv, Inv, TypeOK, Steps
    <2>3. rebuild[i].phase \notin BuildPhases
      BY <1>2, <2>1 DEF IInv, Coherent, Phased
    <2>4. CASE rebuild[c].phase = "serving"
      <3>1. rebuild' = [rebuild EXCEPT ![c].phase = "completed"]
        BY <1>2, <1>4, <2>4 DEF CompleteRebuild
      <3> QED BY <1>1, <2>1, <2>2, <2>3, <2>4, <3>1, EndsOfServingCohere
    <2>5. CASE rebuild[c].phase # "serving"
      <3>1. UNCHANGED rebuild
        BY <1>2, <1>4, <2>5 DEF CompleteRebuild
      <3>2. Phased' /\ Places' /\ cli'.pc \notin ItemSteps
        BY <1>1, <2>1, <2>2, <2>3, <3>1 DEF IInv, Coherent, Phased, Places, Live, ItemSteps
      <3>3. \A j \in Indexes : Ready(j)' => Ready(j)
        BY <1>1, <2>2, <3>1 DEF Ready
      <3> QED BY <1>1, <3>1, <3>2, <3>3, ReadCoheres
    <2> QED BY <2>4, <2>5
  <1>5. CASE CheckUnused
    <2>1. cli.pc = "unused" /\ UNCHANGED rebuild /\ (Go("remove") \/ Finish)
      BY <1>5 DEF CheckUnused, At
    <2>2. CASE Finish
      BY <1>1, <2>1, <2>2, StopCoheres
    <2>3. CASE Go("remove")
      <3>1. cli'.pc = "remove" /\ cli'.index = i
        BY <1>2, <2>3, Goes DEF IInv, Inv, TypeOK, Steps
      <3>2. Phased' /\ Places' /\ cli'.pc \notin ItemSteps
        BY <1>1, <1>2, <2>1, <3>1 DEF IInv, Coherent, Phased, Places, Live, ItemSteps
      <3>3. \A j \in Indexes : Ready(j)' => Ready(j)
        BY <1>1, <2>1, <3>1 DEF Ready
      <3> QED BY <1>1, <2>1, <3>2, <3>3, ReadCoheres
    <2> QED BY <2>1, <2>2, <2>3
  <1> QED BY <1>3, <1>4, <1>5

(* What is removed is neither read nor built.                              *)
LEMMA RemoveCoheres ==
  ASSUME IInv, RemoveIndex
  PROVE  Coherent'
  <1>1. UNCHANGED <<article, slot, delivery, seq, served, rebuild, alias, wire, opened>> /\ Finish /\ cli.pc = "remove"
    BY DEF RemoveIndex, store, At
  <1>2. PICK i \in Indexes : i = cli.index
    BY KeptType DEF IInv, Inv
  <1>3. PICK row \in [Articles -> {NoDoc}] : row = [a \in Articles |-> NoDoc]
    OBVIOUS
  <1>4. \/ UNCHANGED <<exists, doc>>
        \/ exists' = [exists EXCEPT ![i] = FALSE] /\ doc' = [doc EXCEPT ![i] = row]
    BY <1>2, <1>3 DEF RemoveIndex, Candidate
  <1>5. CASE UNCHANGED <<exists, doc>>
    BY <1>1, <1>5, StopCoheres
  <1>6. CASE exists' = [exists EXCEPT ![i] = FALSE] /\ doc' = [doc EXCEPT ![i] = row]
    <2>1. \A j \in Indexes, b \in Articles : (j # i => exists'[j] = exists[j] /\ doc'[j][b] = doc[j][b]) /\ doc'[i][b] = NoDoc
      BY <1>3, <1>6 DEF IInv, Inv, TypeOK
    <2>2. cli'.pc = "idle"
      BY <1>1, Ends
    <2>3. rebuild[i].phase \notin BuildPhases /\ i # served.current /\ (served.rollback # NoIndex => i # served.rollback)
      BY <1>1, <1>2 DEF IInv, Inv, IndexAtHand, Coherent, Phased
    <2>4. ~Ready(i)
      BY <1>1, <2>3 DEF Ready, BuildPhases
    <2>5. \A j \in Indexes, b \in Articles : /\ j # i => Shows(j, b)' = Shows(j, b)
                                             /\ Mark(j)' = Mark(j) /\ Ahead(j, b)' = Ahead(j, b)
      BY <1>1, <2>1 DEF Shows, Fact, Mark, Ahead
    <2>6. Quiet' /\ SlotsTell' /\ EveryPublicHasSlot'
      BY <1>1 DEF IInv, Coherent, Stored, Quiet, SlotsTell, EveryPublicHasSlot, Fact
    <2>7. Indices'
      <3>1. \A j \in Indexes : rebuild[j].phase \in BuildPhases => j # i /\ exists'[j]
        BY <1>6, <2>3 DEF IInv, Inv, TypeOK, Coherent, Stored, Indices
      <3>2. \A j \in Indexes, b \in Articles : doc'[j][b] \in {doc[j][b], NoDoc}
        BY <2>1
      <3> QED BY <1>1, <3>1, <3>2 DEF IInv, Coherent, Stored, Indices
    <2>8. CandidateSound'
      <3>1. rebuild[i].phase \notin {"snapshot", "catchup"}
        BY <2>3 DEF BuildPhases
      <3> QED BY <1>1, <2>5, <3>1 DEF IInv, Coherent, Stored, CandidateSound
    <2>9. ReadyComplete'
      <3> SUFFICES ASSUME NEW j \in Indexes, Ready(j)', NEW b \in Articles
                   PROVE  slot[b] = NoSlot \/ delivery[b][j] = "owed" \/ Shows(j, b)'
        BY <1>1 DEF ReadyComplete, Complete
      <3>1. Ready(j)
        BY <1>1, <2>2 DEF Ready
      <3> QED BY <2>4, <2>5, <3>1 DEF IInv, Coherent, ReadyComplete, Complete
    <2>10. Phased' /\ Places'
      BY <1>1, <2>2 DEF IInv, Coherent, Phased, Places, Live
    <2> QED BY <2>2, <2>6, <2>7, <2>8, <2>9, <2>10, NoItem DEF Coherent, Stored, ItemSteps
  <1> QED BY <1>4, <1>5, <1>6

-----------------------------------------------------------------------------
(* The theorems about what is read.                                        *)

(* No new article stays open and no answer is on the wire.                 *)
LEMMA NothingOpen ==
  ASSUME Undisturbed, IInv
  PROVE  /\ \A a \in Articles : ~BeginInsert(a)
         /\ ~CommitInsert /\ \A m \in wire : ~Land(m)
  BY DEF Undisturbed, IInv, Coherent, Stored, Quiet, BeginInsert, CommitInsert

LEMMA StepCoheres ==
  ASSUME Undisturbed, IInv, [Next]_vars
  PROVE  Coherent'
  <1>1. CASE World
    BY <1>1, NothingOpen, WriteCoheres, DeliverCoheres, WindowCoheres DEF World
  <1>2. CASE Operator
    BY <1>2, StartCoheres, OperatorCoheres DEF Operator
  <1>3. CASE RunStep
    <2>1. cli.loop = "snapshot" \/ cli.loop # "snapshot"
      OBVIOUS
    <2> QED BY <1>3, <2>1, BeginCoheres, RegisterCoheres, PageCoheres, EnsureCoheres, SnapshotDoneCoheres,
               WriteItemCoheres, ItemsDoNotFail, ConvergeCoheres, MarkSnapshotCoheres, MarkScanCoheres,
               DrainCoheres, ScanCoheres, ReadCurrentCoheres, CatchUpDoneCoheres, ValidateCoheres,
               PhasesCohere DEF RunStep
  <1>4. CASE SwitchStep
    BY <1>4, PhasesCohere, AliasCoheres, ServedCoheres, DetachCoheres, LastStepsCohere, RemoveCoheres DEF SwitchStep
  <1>5. CASE Crash
    <2>1. UNCHANGED <<article, slot, delivery, seq, served, rebuild, exists, alias, doc, wire, opened>>
      BY <1>5 DEF Crash, store, search
    <2>2. Finish /\ cli.pc \notin {"set", "backset"}
      BY <1>5 DEF Crash, Undisturbed
    <2> QED BY <2>1, <2>2, StopCoheres
  <1>6. CASE UNCHANGED vars
    <2>1. /\ UNCHANGED <<article, slot, delivery, seq, served, rebuild, exists, alias, doc, wire, opened>>
          /\ cli' = cli
      BY <1>6 DEF vars
    <2>2. Stored'
      BY <2>1, StoredStays DEF IInv, Coherent
    <2>3. ReadyComplete'
      BY <2>1, ReadyStays DEF IInv, Coherent, Ready
    <2>4. Phased' /\ Places'
      BY <2>1 DEF IInv, Coherent, Phased, Places, Live
    <2>5. SnapshotItem' /\ SnapshotOver' /\ DrainItem' /\ ScanItem'
      BY <2>1 DEF IInv, Coherent, Item, SnapshotItem, SnapshotOver, DrainItem, ScanItem,
                  AtHand, Unwalked, Mark, Shows, Fact
    <2> QED BY <2>2, <2>3, <2>4, <2>5 DEF Coherent, Item
  <1> QED BY <1>1, <1>2, <1>3, <1>4, <1>5, <1>6 DEF Next

LEMMA InitCoheres ==
  ASSUME Init
  PROVE  Coherent
  <1> USE DEF Init
  <1>1. /\ cli.pc = "idle" /\ FirstIndex \in Indexes
        /\ \A a \in Articles : slot[a] = NoSlot
        /\ \A i \in Indexes : rebuild[i] = NoRebuild
    BY RebuildAssumption DEF Idle
  <1>2. \A a \in Articles : article[a].status = "absent" \/ Public(article[a])
    BY DEF AbsentArticle, FirstRow, Public
  <1>3. Stored
    BY <1>1, <1>2, RebuildAssumption DEF Stored, Quiet, SlotsTell, Indices, CandidateSound, EveryPublicHasSlot,
                      NoRebuild, BuildPhases
  <1>4. Phased /\ Places
    BY <1>1, RebuildAssumption DEF Phased, Places, Live
  <1>5. ReadyComplete
    BY <1>1 DEF ReadyComplete, Complete
  <1>6. Item
    BY <1>1 DEF Item, SnapshotItem, SnapshotOver, DrainItem, ScanItem
  <1> QED BY <1>3, <1>4, <1>5, <1>6 DEF Coherent

(* The index behind the alias is one of those that are ready.              *)
LEMMA CoherentServes ==
  ASSUME IInv
  PROVE  ServedOrOwed /\ CandidateComplete
  <1>1. ServedOrOwed
    <2>1. alias \in Indexes /\ Ready(alias)
      <3>1. PICK i \in Indexes : i = alias
        BY DEF IInv, Inv, TypeOK
      <3>2. CASE cli.pc = "set"
        <4>1. i = cli.index /\ rebuild[i].phase = "cutover"
          BY <3>1, <3>2 DEF IInv, Coherent, Phased, Places
        <4> QED BY <3>1, <4>1 DEF Ready
      <3>3. CASE cli.pc = "backset"
        <4>1. i = served.rollback /\ i # NoIndex
          BY <3>1, <3>3 DEF IInv, Inv, IndexAtHand, Coherent, Places
        <4> QED BY <3>1, <3>3, <4>1 DEF Ready
      <3>4. CASE cli.pc \notin {"set", "backset"}
        <4>1. i = served.current
          BY <3>1, <3>4 DEF IInv, Coherent, Places
        <4> QED BY <3>1, <4>1 DEF Ready
      <3> QED BY <3>2, <3>3, <3>4
    <2>2. Complete(alias)
      BY <2>1 DEF IInv, Coherent, ReadyComplete
    <2> QED BY <2>2 DEF ServedOrOwed, Complete, Shows, Shown
  <1>2. CandidateComplete
    <2> SUFFICES ASSUME NEW i \in Indexes, NEW a \in Articles,
                        rebuild[i].phase \in {"catchup", "validate", "validated"}, Public(article[a])
                 PROVE  doc[i][a].target = Fact(a) \/ delivery[a][i] = "owed" \/ slot[a].seq > Mark(i)
      BY DEF CandidateComplete, Mark
    <2>1. CASE rebuild[i].phase = "catchup"
      <3>1. Mark(i) \in Nat /\ slot[a].seq \in Nat
        BY MarkType, SlotType DEF IInv, Inv
      <3>2. slot[a].seq <= Mark(i) => Shows(i, a) \/ delivery[a][i] = "owed"
        BY <2>1 DEF IInv, Coherent, Stored, CandidateSound, Ahead
      <3> QED BY <3>1, <3>2 DEF Shows
    <2>2. CASE rebuild[i].phase \in {"validate", "validated"}
      <3>1. slot[a] # NoSlot
        BY <2>2 DEF IInv, Coherent, Stored, EveryPublicHasSlot
      <3>2. Complete(i)
        BY <2>2 DEF IInv, Coherent, ReadyComplete, Ready
      <3> QED BY <3>1, <3>2 DEF Complete, Shows
    <2> QED BY <2>1, <2>2
  <1> QED BY <1>1, <1>2

(* The second invariant is inductive where nothing disturbs a rebuild.     *)
THEOREM CoherentInvariance == Undisturbed => (Spec => []IInv)
  <1> SUFFICES ASSUME Undisturbed
               PROVE  Spec => []IInv
    OBVIOUS
  <1>1. Init => IInv
    BY InitHolds, InitCoheres DEF IInv
  <1>2. IInv /\ [Next]_vars => IInv'
    BY StepKeeps, StepCoheres DEF IInv
  <1> QED BY <1>1, <1>2, PTL DEF Spec

(* What a reader gets through the alias is the current fact, or a delivery *)
(* is owed that makes it so, through every order of writes, deliveries,    *)
(* snapshot, catch-up, cutover, rollback, cleanup and crashes of the       *)
(* command at any other step. (Rebuilder.Start, Cutover, Rollback.)        *)
THEOREM ReadersAreServed == Undisturbed => (Spec => []ServedOrOwed)
  <1> SUFFICES ASSUME Undisturbed
               PROVE  Spec => []ServedOrOwed
    OBVIOUS
  <1>1. IInv => ServedOrOwed
    BY CoherentServes
  <1> QED BY <1>1, CoherentInvariance, PTL

(* After the snapshot the candidate shows every public article as it is,    *)
(* or is owed it, or the catch-up has not come to the change yet; resumed   *)
(* or not, whoever writes meanwhile. (snapshot, catchUp.)                  *)
THEOREM CandidatesAreComplete == Undisturbed => (Spec => []CandidateComplete)
  <1> SUFFICES ASSUME Undisturbed
               PROVE  Spec => []CandidateComplete
    OBVIOUS
  <1>1. IInv => CandidateComplete
    BY CoherentServes
  <1> QED BY <1>1, CoherentInvariance, PTL

=============================================================================
