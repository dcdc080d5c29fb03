----------------------- MODULE ArticlePipeline_proofs -----------------------
(***************************************************************************)
(* Proofs about ArticlePipeline, for every set of articles and event ids  *)
(* and every bound.                                                        *)
(***************************************************************************)
EXTENDS ArticlePipeline, TLAPS

(* What a kept row and a free row look like.                               *)
LEMMA RowTypes ==
  ASSUME TypeOK, NEW e \in EventIds
  PROVE  /\ Appended(e) => outbox[e] \in OutboxRow
         /\ ~Appended(e) => outbox[e] = FreeRow
  BY DEF TypeOK, Appended, OutboxRow, FreeRow

(* The operations write well-formed article rows.                          *)
LEMMA RowsWritten ==
  /\ \A s \in {"draft", "published"} : FirstRow(s) \in ArticleRow
  /\ \A r \in ArticleRow : Revised(r) \in ArticleRow
  /\ \A r \in ArticleRow, s \in Statuses, x \in Reasons : WithState(r, s, x) \in ArticleRow
  BY DEF ArticleRow, FirstRow, Revised, WithState, Statuses, Reasons

(* The events emitted have one of the declared types, or are none.         *)
LEMMA EventKinds ==
  /\ \A b, r, c : TransitionEvent(b, r, c) \in EventTypes \cup {"none"}
  /\ \A b : IngestEvent(b) \in EventTypes \cup {"none"}
  BY DEF TransitionEvent, IngestEvent, EventTypes

(* A step that appends: one free id becomes a pending row, or nothing.     *)
LEMMA AppendType ==
  ASSUME TypeOK, NEW a \in Articles, NEW type \in EventTypes \cup {"none"}, NEW ver \in Nat,
         AppendEvent(a, type, ver)
  PROVE  /\ outbox' \in [EventIds -> OutboxRow \cup {FreeRow}]
         /\ \A e \in EventIds : Appended(e) => Appended(e)' /\ outbox'[e] = outbox[e]
  <1>1. CASE type = "none"
    BY <1>1 DEF TypeOK, AppendEvent, Appended
  <1>2. CASE type # "none"
    <2>1. PICK f \in EventIds : ~Appended(f) /\ outbox' = [outbox EXCEPT ![f] = NewRow(a, type, ver)]
      BY <1>2 DEF AppendEvent
    <2>2. NewRow(a, type, ver) \in OutboxRow
      BY <1>2 DEF NewRow, OutboxRow
    <2> QED BY <2>1, <2>2 DEF TypeOK, Appended
  <1> QED BY <1>1, <1>2

(* The projector writes well-formed tasks.                                 *)
LEMMA ProjectedType ==
  ASSUME NEW t \in Task, NEW row \in ArticleRow
  PROVE  Projected(t, row) \in Task
  <1>1. row.rev \in Nat /\ row.ver \in Nat
    BY DEF ArticleRow
  <1>2. t \in [status : {"none", "pending", "canceled"}, gen : Nat, rev : Nat, observed : Nat]
    BY DEF Task
  <1> QED BY <1>1, <1>2 DEF Projected, Task, Public

(* An article write, whatever it is, keeps the types.                      *)
LEMMA CommitType ==
  ASSUME TypeOK, NEW a \in Articles, NEW after \in ArticleRow,
         NEW type \in EventTypes \cup {"none"}, Commit(a, after, type)
  PROVE  TypeOK'
  <1>1. after.ver \in Nat
    BY DEF ArticleRow
  <1>2. AppendEvent(a, type, after.ver)
    BY DEF Commit
  <1>3. /\ outbox' \in [EventIds -> OutboxRow \cup {FreeRow}]
        /\ \A e \in EventIds : Appended(e) => Appended(e)'
    BY <1>1, <1>2, AppendType
  <1>4. article' \in [Articles -> ArticleRow]
    BY DEF Commit, TypeOK
  <1>5. \A w \in workers : w.event \in EventIds
    BY DEF TypeOK, Worker
  <1>6. \A m \in msgs : m.event \in EventIds
    BY DEF TypeOK, Message
  <1> QED BY <1>3, <1>4, <1>5, <1>6 DEF Commit, TypeOK

(* The same for the back-fill, which changes nothing but the outbox.       *)
LEMMA BackfillType ==
  ASSUME TypeOK, NEW a \in Articles, Backfill(a)
  PROVE  TypeOK'
  <1>1. article[a].ver \in Nat
    BY DEF TypeOK, ArticleRow
  <1>2. "published" \in EventTypes
    BY DEF EventTypes
  <1>3. /\ outbox' \in [EventIds -> OutboxRow \cup {FreeRow}]
        /\ \A e \in EventIds : Appended(e) => Appended(e)'
    BY <1>1, <1>2, AppendType DEF Backfill
  <1> QED BY <1>3 DEF Backfill, TypeOK, Worker, Message

(* What the article writes have in common: a well-formed row with the next *)
(* version is committed, silently only if nobody could see the article     *)
(* before or after.                                                        *)
WriteAs(a, after, type) ==
  /\ Commit(a, after, type)
  /\ after \in ArticleRow
  /\ type \in EventTypes \cup {"none"}
  /\ after.ver = article[a].ver + 1
  /\ after.status # "absent"
  /\ type = "none" => ~Public(article[a]) /\ ~Public(after)

Writes(a) ==
  \/ \E status \in {"draft", "published"} : Create(a, status)
  \/ Update(a) \/ Publish(a) \/ Offline(a) \/ Delete(a)
  \/ AdminOffline(a) \/ AdminRestore(a)
  \/ Ingest(a)

(* An absent article has version 0.                                        *)
AbsentIsNew == \A a \in Articles : article[a].status = "absent" => article[a].ver = 0

LEMMA WritesCommit ==
  ASSUME TypeOK, AbsentIsNew, NEW a \in Articles, Writes(a)
  PROVE  \E after \in ArticleRow, type \in EventTypes \cup {"none"} : WriteAs(a, after, type)
  <1> DEFINE row == article[a]
             Silent(after, c) == TransitionEvent(row, after, c) = "none"
  <1>1. row \in ArticleRow
    BY DEF TypeOK
  <1>2. ASSUME NEW after \in ArticleRow, NEW c \in BOOLEAN, UserWrite(a, after, c),
               after.ver = row.ver + 1, after.status # "absent",
               Silent(after, c) => ~Public(row) /\ ~Public(after)
        PROVE  \E r \in ArticleRow, type \in EventTypes \cup {"none"} : WriteAs(a, r, type)
    <2>1. TransitionEvent(row, after, c) \in EventTypes \cup {"none"}
      BY EventKinds
    <2> QED BY <1>2, <2>1 DEF WriteAs, UserWrite
  <1>3. ASSUME NEW s \in {"draft", "published"}, Create(a, s)
        PROVE  \E r \in ArticleRow, type \in EventTypes \cup {"none"} : WriteAs(a, r, type)
    <2>1. FirstRow(s) \in ArticleRow
      BY RowsWritten
    <2>2. FirstRow(s).ver = row.ver + 1 /\ FirstRow(s).status # "absent"
      BY <1>3 DEF Create, AbsentIsNew, FirstRow
    <2>3. Silent(FirstRow(s), TRUE) => ~Public(row) /\ ~Public(FirstRow(s))
      BY <1>3 DEF Create, TransitionEvent, FirstRow, Public
    <2> QED BY <1>2, <1>3, <2>1, <2>2, <2>3 DEF Create
  <1>4. ASSUME Update(a)
        PROVE  \E r \in ArticleRow, type \in EventTypes \cup {"none"} : WriteAs(a, r, type)
    <2>1. Revised(row) \in ArticleRow
      BY <1>1, RowsWritten
    <2>2. Revised(row).ver = row.ver + 1 /\ Revised(row).status = row.status /\ row.status # "absent"
      BY <1>4 DEF Revised, Update, MayUpdateByAuthor
    <2>3. Silent(Revised(row), TRUE) => ~Public(row) /\ ~Public(Revised(row))
      BY <2>2, <1>4 DEF Update, MayUpdateByAuthor, TransitionEvent, Public
    <2> QED BY <1>2, <1>4, <2>1, <2>2, <2>3 DEF Update
  <1>5. ASSUME NEW s \in Statuses, NEW x \in Reasons, UserWrite(a, WithState(row, s, x), FALSE),
               s = "deleted" \/ (Public(row) /\ s = "offline") \/ (~Public(row) /\ s = "published")
        PROVE  \E r \in ArticleRow, type \in EventTypes \cup {"none"} : WriteAs(a, r, type)
    <2>1. WithState(row, s, x) \in ArticleRow
      BY <1>1, RowsWritten
    <2>2. WithState(row, s, x).ver = row.ver + 1 /\ WithState(row, s, x).status = s
      BY DEF WithState
    <2>3. ~Silent(WithState(row, s, x), FALSE)
      BY <2>2, <1>5 DEF TransitionEvent, Public
    <2> QED BY <1>2, <1>5, <2>1, <2>2, <2>3
  <1>6. ASSUME Publish(a) \/ AdminRestore(a)
        PROVE  \E r \in ArticleRow, type \in EventTypes \cup {"none"} : WriteAs(a, r, type)
    <2>1. ~Public(row) /\ UserWrite(a, WithState(row, "published", "none"), FALSE)
      BY <1>6 DEF Publish, AdminRestore, MayPublish, MayRestore, Public
    <2>2. "published" \in Statuses /\ "none" \in Reasons
      BY DEF Statuses, Reasons
    <2> QED BY <1>5, <2>1, <2>2
  <1>7. ASSUME Offline(a) \/ AdminOffline(a)
        PROVE  \E r \in ArticleRow, type \in EventTypes \cup {"none"} : WriteAs(a, r, type)
    <2>1. Public(row) /\ \E x \in {"author", "admin"} : UserWrite(a, WithState(row, "offline", x), FALSE)
      BY <1>7 DEF Offline, AdminOffline, MayOffline, Public
    <2>2. "offline" \in Statuses /\ {"author", "admin"} \subseteq Reasons
      BY DEF Statuses, Reasons
    <2> QED BY <1>5, <2>1, <2>2
  <1>8. ASSUME Delete(a)
        PROVE  \E r \in ArticleRow, type \in EventTypes \cup {"none"} : WriteAs(a, r, type)
    <2>1. "deleted" \in Statuses /\ "none" \in Reasons
      BY DEF Statuses, Reasons
    <2> QED BY <1>5, <1>8, <2>1 DEF Delete
  <1>9. ASSUME Ingest(a)
        PROVE  \E r \in ArticleRow, type \in EventTypes \cup {"none"} : WriteAs(a, r, type)
    <2>1. PICK after \in {FirstRow("published"), Revised(row)} :
             /\ Commit(a, after, IngestEvent(row))
             /\ after.ver = row.ver + 1
             /\ after.status # "absent"
      BY <1>9 DEF Ingest, AbsentIsNew, FirstRow, Revised
    <2>2. after \in ArticleRow
      BY <1>1, RowsWritten
    <2>3. IngestEvent(row) \in EventTypes /\ IngestEvent(row) # "none"
      BY DEF IngestEvent, EventTypes
    <2> QED BY <2>1, <2>2, <2>3 DEF WriteAs
  <1> QED BY <1>3, <1>4, <1>6, <1>7, <1>8, <1>9 DEF Writes

-----------------------------------------------------------------------------
(* The frame of the steps that write no article: events keep their         *)
(* identity and no event appears.                                          *)
OutboxFrame ==
  \A e \in EventIds :
     /\ Appended(e)' <=> Appended(e)
     /\ Appended(e) => /\ outbox'[e].article = outbox[e].article
                       /\ outbox'[e].ver = outbox[e].ver

(* A claimed, released or otherwise updated row is still a row.            *)
LEMMA RowUpdates ==
  ASSUME NEW row \in OutboxRow, NEW n \in Nat
  PROVE  /\ [row EXCEPT !.attempts = n, !.token = n, !.expired = FALSE] \in OutboxRow
         /\ [row EXCEPT !.copies = n] \in OutboxRow
         /\ [row EXCEPT !.due = TRUE] \in OutboxRow
         /\ [row EXCEPT !.expired = TRUE] \in OutboxRow
         /\ [row EXCEPT !.state = "deleted"] \in OutboxRow
         /\ [Release(row) EXCEPT !.state = "published"] \in OutboxRow
         /\ [Release(row) EXCEPT !.due = FALSE] \in OutboxRow
  BY DEF OutboxRow, Release

(* Replacing one appended row by a row of the same event is a frame.       *)
LEMMA RowStep ==
  ASSUME TypeOK, NEW e \in EventIds, Appended(e), NEW row \in OutboxRow,
         row.article = outbox[e].article, row.ver = outbox[e].ver,
         outbox' = [outbox EXCEPT ![e] = row]
  PROVE  /\ outbox' \in [EventIds -> OutboxRow \cup {FreeRow}]
         /\ OutboxFrame
         /\ outbox'[e] = row
  BY DEF TypeOK, OutboxFrame, Appended, OutboxRow

(* Everything but the row that an outbox update leaves well-typed.         *)
LEMMA FrameType ==
  ASSUME TypeOK, OutboxFrame, outbox' \in [EventIds -> OutboxRow \cup {FreeRow}],
         UNCHANGED article, task' \in [Articles -> Task], faults' \in 0..MaxFaults,
         workers' \subseteq Worker, \A w \in workers' : Appended(w.event),
         msgs' \subseteq Message, \A m \in msgs' : Appended(m.event),
         consumed' \subseteq EventIds, \A e \in consumed' : Appended(e)
  PROVE  TypeOK'
  BY DEF TypeOK, OutboxFrame, Worker, Message

LEMMA FaultType ==
  ASSUME TypeOK, Fault
  PROVE  faults' \in 0..MaxFaults
  BY PipelineAssumption DEF TypeOK, Fault

(* The relay changes only the outbox, its workers, the queue and the fault *)
(* budget, and keeps the types.                                            *)
LEMMA ClaimType ==
  ASSUME TypeOK, NEW e \in EventIds, Claim(e)
  PROVE  TypeOK' /\ OutboxFrame
  <1> DEFINE token == outbox[e].attempts + 1
             row   == [outbox[e] EXCEPT !.attempts = token, !.token = token, !.expired = FALSE]
  <1>1. Appended(e) /\ outbox[e] \in OutboxRow
    BY RowTypes DEF Claim, Claimable, Appended
  <1>2. token \in Nat
    BY <1>1 DEF OutboxRow
  <1>3. row \in OutboxRow /\ row.article = outbox[e].article /\ row.ver = outbox[e].ver
    <2>1. row \in OutboxRow
      BY <1>1, <1>2, RowUpdates
    <2> QED BY <2>1, <1>1 DEF OutboxRow
  <1>4. outbox' = [outbox EXCEPT ![e] = row]
    BY DEF Claim, TypeOK
  <1>5. [event |-> e, token |-> token, phase |-> "publish"] \in Worker
    BY <1>2 DEF Worker
  <1> HIDE DEF row
  <1>6. OutboxFrame /\ outbox' \in [EventIds -> OutboxRow \cup {FreeRow}]
    BY <1>1, <1>3, <1>4, RowStep
  <1> QED BY <1>1, <1>5, <1>6, FrameType DEF Claim, TypeOK

(* A new copy in the queue.                                                *)
LEMMA EnqueueType ==
  ASSUME TypeOK, NEW e \in EventIds, Appended(e), Enqueue(e)
  PROVE  /\ outbox' \in [EventIds -> OutboxRow \cup {FreeRow}]
         /\ OutboxFrame
         /\ msgs' \subseteq Message
         /\ \A m \in msgs' : Appended(m.event)
         /\ \E m \in msgs' : m.event = e /\ m.place = "ready"
         /\ msgs \subseteq msgs'
         /\ \A m \in msgs' : m \in msgs \/ (m.event = e /\ m.place = "ready")
         /\ outbox'[e].state = outbox[e].state
         /\ \A f \in EventIds \ {e} : outbox'[f] = outbox[f]
  <1> DEFINE n   == outbox[e].copies + 1
             row == [outbox[e] EXCEPT !.copies = n]
  <1>1. outbox[e] \in OutboxRow
    BY RowTypes
  <1>2. n \in Nat
    BY <1>1 DEF OutboxRow
  <1>3. row \in OutboxRow
    BY <1>1, <1>2, RowUpdates
  <1>4. row.article = outbox[e].article /\ row.ver = outbox[e].ver /\ row.state = outbox[e].state
    BY <1>1 DEF OutboxRow
  <1>5. outbox' = [outbox EXCEPT ![e] = row]
    BY DEF Enqueue, TypeOK
  <1>6. [event |-> e, copy |-> n, place |-> "ready", tries |-> 0] \in Message
    BY <1>2 DEF Message, Places
  <1>7. msgs' = msgs \cup {[event |-> e, copy |-> n, place |-> "ready", tries |-> 0]}
    BY DEF Enqueue
  <1>8. \A f \in EventIds \ {e} : outbox'[f] = outbox[f]
    BY <1>5 DEF TypeOK
  <1> HIDE DEF row, n
  <1>9. /\ outbox' \in [EventIds -> OutboxRow \cup {FreeRow}]
        /\ OutboxFrame
        /\ outbox'[e] = row
    BY <1>3, <1>4, <1>5, RowStep
  <1> QED BY <1>4, <1>6, <1>7, <1>8, <1>9 DEF TypeOK

LEMMA WorkerStep ==
  ASSUME TypeOK, NEW w \in workers, NEW phase \in {"confirm", "fail"}, Step(w, phase)
  PROVE  /\ workers' \subseteq Worker
         /\ \A v \in workers' : Appended(v.event)
         /\ \A v \in workers' : v \in workers \/ (v.event = w.event /\ v.phase = phase)
  BY DEF TypeOK, Step, Worker

(* The publish outcomes.                                                   *)
LEMMA PublishType ==
  ASSUME TypeOK, NEW w \in workers,
         PublishConfirmed(w) \/ PublishUnknown(w) \/ PublishRefused(w)
  PROVE  TypeOK' /\ OutboxFrame
  <1>1. w.event \in EventIds /\ Appended(w.event)
    BY DEF TypeOK, Worker
  <1>2. CASE PublishConfirmed(w)
    <2>1. Enqueue(w.event) /\ Step(w, "confirm")
      BY <1>2 DEF PublishConfirmed
    <2> QED BY <1>1, <1>2, <2>1, EnqueueType, WorkerStep, FrameType DEF PublishConfirmed, TypeOK
  <1>3. CASE PublishUnknown(w)
    <2>1. Enqueue(w.event) /\ Step(w, "fail") /\ Fault
      BY <1>3 DEF PublishUnknown
    <2> QED BY <1>1, <1>3, <2>1, EnqueueType, WorkerStep, FaultType, FrameType
            DEF PublishUnknown, TypeOK
  <1>4. CASE PublishRefused(w)
    <2>1. Step(w, "fail") /\ Fault
      BY <1>4 DEF PublishRefused
    <2>2. OutboxFrame
      BY <1>4 DEF PublishRefused, OutboxFrame, Appended
    <2> QED BY <1>4, <2>1, <2>2, WorkerStep, FaultType, FrameType DEF PublishRefused, TypeOK
  <1> QED BY <1>2, <1>3, <1>4

(* The outcomes written back, fenced or not.                               *)
LEMMA SettleType ==
  ASSUME TypeOK, NEW w \in workers, Confirm(w) \/ Fail(w)
  PROVE  TypeOK' /\ OutboxFrame
  <1> DEFINE e == w.event
  <1>1. e \in EventIds /\ Appended(e) /\ outbox[e] \in OutboxRow
    BY RowTypes DEF TypeOK, Worker
  <1>2. workers' = workers \ {w} /\ UNCHANGED <<article, msgs, consumed, task, faults>>
    BY DEF Confirm, Fail
  <1>3. outbox' \in [EventIds -> OutboxRow \cup {FreeRow}] /\ OutboxFrame
    <2>1. CASE outbox' = outbox
      BY <2>1 DEF TypeOK, OutboxFrame, Appended
    <2>2. CASE Confirm(w) /\ Holds(w)
      <3> DEFINE row == [Release(outbox[e]) EXCEPT !.state = "published"]
      <3>1. row \in OutboxRow /\ row.article = outbox[e].article /\ row.ver = outbox[e].ver
        BY <1>1, RowUpdates DEF OutboxRow, Release
      <3>2. outbox' = [outbox EXCEPT ![e] = row]
        BY <2>2 DEF Confirm
      <3> HIDE DEF row
      <3> QED BY <1>1, <3>1, <3>2, RowStep
    <2>3. CASE Fail(w) /\ Holds(w)
      <3> DEFINE row == [Release(outbox[e]) EXCEPT !.due = FALSE]
      <3>1. row \in OutboxRow /\ row.article = outbox[e].article /\ row.ver = outbox[e].ver
        BY <1>1, RowUpdates DEF OutboxRow, Release
      <3>2. outbox' = [outbox EXCEPT ![e] = row]
        BY <2>3 DEF Fail
      <3> HIDE DEF row
      <3> QED BY <1>1, <3>1, <3>2, RowStep
    <2> QED BY <2>1, <2>2, <2>3 DEF Confirm, Fail
  <1> QED BY <1>2, <1>3, FrameType DEF TypeOK

(* Time passing, clean-up and crashes.                                     *)
LEMMA TimeType ==
  ASSUME TypeOK, NEW e \in EventIds,
         BackoffElapsed(e) \/ LeaseExpires(e) \/ LeaseOutlived(e) \/ CleanupOutbox(e)
  PROVE  TypeOK' /\ OutboxFrame
  <1>1. Appended(e) /\ outbox[e] \in OutboxRow
    BY RowTypes DEF Appended, BackoffElapsed, LeaseExpires, LeaseOutlived, ExpireLease, Leased,
                    CleanupOutbox
  <1>2. \E row \in OutboxRow : /\ row.article = outbox[e].article /\ row.ver = outbox[e].ver
                               /\ outbox' = [outbox EXCEPT ![e] = row]
    <2>1. CASE BackoffElapsed(e)
      <3>1. outbox' = [outbox EXCEPT ![e] = [outbox[e] EXCEPT !.due = TRUE]]
        BY <2>1 DEF BackoffElapsed
      <3> QED BY <1>1, <3>1, RowUpdates, ZenonT(40) DEF OutboxRow
    <2>2. CASE LeaseExpires(e) \/ LeaseOutlived(e)
      <3>1. outbox' = [outbox EXCEPT ![e] = [outbox[e] EXCEPT !.expired = TRUE]]
        BY <2>2 DEF LeaseExpires, LeaseOutlived, ExpireLease
      <3> QED BY <1>1, <3>1, RowUpdates, ZenonT(40) DEF OutboxRow
    <2>3. CASE CleanupOutbox(e)
      <3>1. outbox' = [outbox EXCEPT ![e] = [outbox[e] EXCEPT !.state = "deleted"]]
        BY <2>3 DEF CleanupOutbox
      <3> QED BY <1>1, <3>1, RowUpdates, ZenonT(40) DEF OutboxRow
    <2> QED BY <2>1, <2>2, <2>3
  <1>3. outbox' \in [EventIds -> OutboxRow \cup {FreeRow}] /\ OutboxFrame
    BY <1>1, <1>2, RowStep
  <1>4. faults' \in 0..MaxFaults
    BY FaultType DEF BackoffElapsed, LeaseExpires, LeaseOutlived, CleanupOutbox, TypeOK
  <1>5. UNCHANGED <<article, workers, msgs, consumed, task>>
    BY DEF BackoffElapsed, LeaseExpires, LeaseOutlived, ExpireLease, CleanupOutbox
  <1> QED BY <1>3, <1>4, <1>5, FrameType DEF TypeOK

LEMMA RelayType ==
  ASSUME TypeOK, RelayNext
  PROVE  TypeOK' /\ OutboxFrame /\ UNCHANGED <<article, consumed, task>>
  <1>1. ASSUME NEW w \in workers, RelayCrash(w) PROVE TypeOK' /\ OutboxFrame
    BY <1>1, FaultType, FrameType DEF RelayCrash, TypeOK, OutboxFrame, Appended
  <1>2. TypeOK' /\ OutboxFrame
    BY <1>1, ClaimType, PublishType, SettleType, TimeType DEF RelayNext
  <1>3. UNCHANGED <<article, consumed, task>>
    BY DEF RelayNext, Claim, PublishConfirmed, PublishUnknown, PublishRefused, Confirm, Fail,
           BackoffElapsed, RelayCrash, LeaseExpires, LeaseOutlived, ExpireLease, CleanupOutbox
  <1> QED BY <1>2, <1>3

(* A copy moved to another place is still a message of its event.          *)
LEMMA MoveType ==
  ASSUME TypeOK, NEW m \in msgs, NEW place \in Places, Move(m, place)
  PROVE  /\ msgs' \subseteq Message
         /\ \A k \in msgs' : Appended(k.event)
         /\ \E k \in msgs' : k.event = m.event /\ k.place = place
         /\ \A k \in msgs : k = m \/ k \in msgs'
         /\ \A k \in msgs' : k \in msgs \/ (k.event = m.event /\ k.place = place)
  <1>1. [m EXCEPT !.place = place] \in Message
    BY DEF TypeOK, Message
  <1>2. [m EXCEPT !.place = place].event = m.event /\ [m EXCEPT !.place = place].place = place
    BY DEF TypeOK, Message
  <1> QED BY <1>1, <1>2 DEF TypeOK, Move

LEMMA ReturnedType ==
  ASSUME TypeOK, NEW m \in msgs
  PROVE  /\ Returned(m) \in Message
         /\ Returned(m).event = m.event
         /\ Returned(m).place \in {"ready", "dead"}
         /\ [m EXCEPT !.place = "ready"] \in Message
         /\ [m EXCEPT !.place = "ready"].event = m.event
         /\ [m EXCEPT !.place = "ready"].place = "ready"
  <1>1. m \in Message /\ m.tries + 1 \in Nat
    BY DEF TypeOK, Message
  <1>2. {"ready", "dead"} \subseteq Places
    BY DEF Places
  <1>3. ASSUME NEW n \in Nat, NEW place \in {"ready", "dead"}
        PROVE  /\ [m EXCEPT !.tries = n, !.place = place] \in Message
               /\ [m EXCEPT !.tries = n, !.place = place].event = m.event
               /\ [m EXCEPT !.tries = n, !.place = place].place = place
    BY <1>1, <1>2, <1>3 DEF Message
  <1>4. [m EXCEPT !.place = "ready"] \in Message /\ [m EXCEPT !.place = "ready"].event = m.event
    BY <1>1, <1>2 DEF Message
  <1>5. [m EXCEPT !.place = "ready"].place = "ready"
    BY <1>1 DEF Message
  <1> QED BY <1>1, <1>3, <1>4, <1>5 DEF Returned

(* A failed delivery: the copy is offered again or dead-lettered.          *)
LEMMA LostType ==
  ASSUME TypeOK, NEW m \in msgs, ProjectError(m) \/ ConsumerLost(m)
  PROVE  \E k \in Message : /\ k.event = m.event
                           /\ k.place \in {"ready", "dead"}
                           /\ msgs' = (msgs \ {m}) \cup {k}
  BY ReturnedType DEF ProjectError, ConsumerLost

LEMMA Unchanged_OutboxFrame ==
  ASSUME UNCHANGED outbox
  PROVE  OutboxFrame
  BY DEF OutboxFrame, Appended

LEMMA ConsumerType ==
  ASSUME TypeOK, ConsumerNext
  PROVE  TypeOK' /\ OutboxFrame /\ UNCHANGED <<article, outbox, workers>>
  <1>1. PICK m \in msgs : Deliver(m) \/ Project(m) \/ Ack(m) \/ ProjectError(m) \/ ConsumerLost(m)
    BY DEF ConsumerNext
  <1>2. UNCHANGED <<article, outbox, workers>>
    BY <1>1 DEF Deliver, Project, Ack, ProjectError, ConsumerLost
  <1>3. OutboxFrame
    BY <1>2, Unchanged_OutboxFrame
  <1>4. m.event \in EventIds /\ Appended(m.event) /\ outbox[m.event] \in OutboxRow
    BY RowTypes DEF TypeOK, Message
  <1>5. msgs' \subseteq Message /\ \A k \in msgs' : Appended(k.event)
    <2>1. CASE Deliver(m)
      BY <2>1, MoveType DEF Deliver, Places
    <2>2. CASE Project(m)
      BY <2>2, MoveType DEF Project, Places
    <2>3. CASE Ack(m)
      BY <2>3 DEF Ack, TypeOK
    <2>4. CASE ProjectError(m) \/ ConsumerLost(m)
      BY <2>4, <1>4, LostType DEF TypeOK
    <2> QED BY <1>1, <2>1, <2>2, <2>3, <2>4
  <1>6. /\ task' \in [Articles -> Task]
        /\ consumed' \subseteq EventIds
        /\ \A e \in consumed' : Appended(e)
    <2>1. CASE Project(m) /\ m.event \notin consumed
      <3> DEFINE a == outbox[m.event].article
      <3>1. a \in Articles
        BY <1>4 DEF OutboxRow
      <3>2. Projected(task[a], article[a]) \in Task
        BY <3>1, ProjectedType DEF TypeOK
      <3>3. /\ task' = [task EXCEPT ![a] = Projected(task[a], article[a])]
            /\ consumed' = consumed \cup {m.event}
        BY <2>1 DEF Project
      <3> QED BY <1>4, <3>1, <3>2, <3>3 DEF TypeOK
    <2>2. CASE UNCHANGED <<consumed, task>>
      BY <2>2 DEF TypeOK
    <2> QED BY <1>1, <2>1, <2>2 DEF Deliver, Project, Ack, ProjectError, ConsumerLost
  <1>7. faults' \in 0..MaxFaults
    BY <1>1, FaultType DEF Deliver, Project, Ack, ProjectError, ConsumerLost, TypeOK
  <1> QED BY <1>2, <1>3, <1>5, <1>6, <1>7, FrameType DEF TypeOK

LEMMA RepublishType ==
  ASSUME TypeOK, NEW m \in msgs, NEW place \in Places, Republish(m, place)
  PROVE  /\ outbox' \in [EventIds -> OutboxRow \cup {FreeRow}]
         /\ OutboxFrame
         /\ msgs' \subseteq Message
         /\ \A k \in msgs' : Appended(k.event)
         /\ \E k \in msgs' : k.event = m.event /\ k.place = "ready"
         /\ \A k \in msgs : k = m \/ k \in msgs'
         /\ \A k \in msgs' : k \in msgs \/ (k.event = m.event /\ k.place \in {place, "ready"})
         /\ \A f \in EventIds : Appended(f) => outbox'[f].state = outbox[f].state
                                           /\ outbox'[f].token = outbox[f].token
                                           /\ outbox'[f].attempts = outbox[f].attempts
  <1> DEFINE e   == m.event
             n   == outbox[e].copies + 1
             row == [outbox[e] EXCEPT !.copies = n]
             old == [m EXCEPT !.place = place]
             new == [event |-> e, copy |-> n, place |-> "ready", tries |-> 0]
  <1>1. e \in EventIds /\ Appended(e) /\ outbox[e] \in OutboxRow
    BY RowTypes DEF TypeOK, Message
  <1>2. n \in Nat
    BY <1>1 DEF OutboxRow
  <1>3. row \in OutboxRow /\ row.article = outbox[e].article /\ row.ver = outbox[e].ver
    BY <1>1, <1>2, RowUpdates DEF OutboxRow
  <1>4. row.state = outbox[e].state /\ row.token = outbox[e].token /\ row.attempts = outbox[e].attempts
    BY <1>1 DEF OutboxRow
  <1>5. outbox' = [outbox EXCEPT ![e] = row]
    BY DEF Republish
  <1>6. old \in Message /\ old.event = e /\ old.place = place
    BY DEF TypeOK, Message
  <1>7. new \in Message /\ new.event = e /\ new.place = "ready"
    BY <1>1, <1>2 DEF Message, Places
  <1>8. msgs' = (msgs \ {m}) \cup {old, new}
    BY DEF Republish
  <1> HIDE DEF row, n, old, new
  <1>9. /\ outbox' \in [EventIds -> OutboxRow \cup {FreeRow}]
        /\ OutboxFrame
        /\ outbox'[e] = row
    BY <1>1, <1>3, <1>5, RowStep
  <1>10. \A f \in EventIds \ {e} : outbox'[f] = outbox[f]
    BY <1>5 DEF TypeOK
  <1> HIDE DEF e
  <1> QED BY <1>1, <1>4, <1>6, <1>7, <1>8, <1>9, <1>10 DEF TypeOK, e

LEMMA ReplayType ==
  ASSUME TypeOK, ReplayNext
  PROVE  TypeOK' /\ OutboxFrame /\ UNCHANGED <<article, workers, consumed, task>>
  <1>1. PICK m \in msgs : \/ ReplayGet(m) \/ ReplayConfirmed(m) \/ ReplayUnconfirmed(m)
                         \/ ReplayAck(m) \/ ReplayLost(m)
    BY DEF ReplayNext
  <1>2. UNCHANGED <<article, workers, consumed, task>>
    BY <1>1 DEF ReplayGet, ReplayConfirmed, ReplayUnconfirmed, ReplayAck, ReplayLost
  <1>3. faults' \in 0..MaxFaults
    BY <1>1, FaultType DEF ReplayGet, ReplayConfirmed, ReplayUnconfirmed, ReplayAck, ReplayLost, TypeOK
  <1>4. {"replaying", "replayed", "dead"} \subseteq Places
    BY DEF Places
  <1>5. /\ msgs' \subseteq Message
        /\ \A k \in msgs' : Appended(k.event)
        /\ outbox' \in [EventIds -> OutboxRow \cup {FreeRow}]
        /\ OutboxFrame
    <2>1. CASE UNCHANGED outbox /\ \E place \in Places : Move(m, place)
      BY <2>1, MoveType, Unchanged_OutboxFrame DEF TypeOK
    <2>2. CASE \E place \in Places : Republish(m, place)
      BY <2>2, RepublishType
    <2>3. CASE UNCHANGED outbox /\ msgs' = msgs \ {m}
      BY <2>3, Unchanged_OutboxFrame DEF TypeOK
    <2> QED BY <1>1, <1>4, <2>1, <2>2, <2>3
            DEF ReplayGet, ReplayConfirmed, ReplayUnconfirmed, ReplayAck, ReplayLost
  <1> QED BY <1>2, <1>3, <1>5, FrameType DEF TypeOK

LEMMA WriteType ==
  ASSUME TypeOK, AbsentIsNew, NEW a \in Articles, Writes(a)
  PROVE  TypeOK'
  BY WritesCommit, CommitType DEF WriteAs

LEMMA InitType == Init => TypeOK /\ AbsentIsNew
  <1>1. FirstRow("published") \in ArticleRow /\ AbsentArticle \in ArticleRow
    BY RowsWritten DEF ArticleRow, AbsentArticle, Statuses, Reasons
  <1>2. NoTask \in Task
    BY DEF NoTask, Task
  <1>3. 0 \in 0..MaxFaults
    BY PipelineAssumption
  <1>4. FirstRow("published").status # "absent" /\ AbsentArticle.ver = 0
    BY DEF FirstRow, AbsentArticle
  <1> QED BY <1>1, <1>2, <1>3, <1>4 DEF Init, TypeOK, AbsentIsNew

-----------------------------------------------------------------------------
(* The inductive invariant.                                                *)

Safe(e) == e \in consumed \/ HasCopy(e)

(* Whoever will mark an event as delivered, or drop a copy of it, can rely *)
(* on the projector or on another copy.                                    *)
Ledger ==
  /\ \A e \in EventIds : Appended(e) /\ outbox[e].state # "pending" => Safe(e)
  /\ \A w \in workers : w.phase = "confirm" => Safe(w.event)
  /\ \A m \in msgs : m.place = "projected" => m.event \in consumed
  /\ \A m \in msgs : m.place = "replayed" => Safe(m.event)

(* No event is ahead of its article.                                       *)
Versions ==
  \A e \in EventIds : Appended(e) => outbox[e].ver <= article[outbox[e].article].ver

(* A lease carries the newest token.                                       *)
Tokens == \A e \in EventIds : Appended(e) => outbox[e].token \in {0, outbox[e].attempts}

IInv ==
  /\ TypeOK /\ AbsentIsNew
  /\ Ledger /\ Versions /\ Tokens
  /\ TaskReflectsFact /\ ObservedCoversConsumed /\ OneEventPerVersion

(* Safety of an event survives a step that keeps a copy in hand.           *)
LEMMA SafeKept ==
  ASSUME NEW e \in EventIds, Safe(e), consumed \subseteq consumed',
         \A m \in msgs : m.event = e /\ m.place \in {"ready", "unacked", "dead", "replaying"}
            => \/ e \in consumed'
               \/ \E k \in msgs' : k.event = e /\ k.place \in {"ready", "unacked", "dead", "replaying"}
  PROVE  Safe(e)'
  BY DEF Safe, HasCopy

LEMMA RelaySafe ==
  ASSUME TypeOK, RelayNext, NEW e \in EventIds, Safe(e)
  PROVE  Safe(e)'
  <1>1. msgs \subseteq msgs' /\ consumed' = consumed
    BY DEF RelayNext, Claim, PublishConfirmed, PublishUnknown, PublishRefused, Confirm, Fail, Enqueue,
           BackoffElapsed, RelayCrash, LeaseExpires, LeaseOutlived, ExpireLease, CleanupOutbox
  <1> QED BY <1>1, SafeKept

LEMMA ConsumerSafe ==
  ASSUME TypeOK, Ledger, ConsumerNext, NEW e \in EventIds, Safe(e)
  PROVE  Safe(e)'
  <1> DEFINE InHand == {"ready", "unacked", "dead", "replaying"}
  <1>1. PICK m \in msgs : Deliver(m) \/ Project(m) \/ Ack(m) \/ ProjectError(m) \/ ConsumerLost(m)
    BY DEF ConsumerNext
  <1>2. consumed \subseteq consumed'
    BY <1>1 DEF Deliver, Project, Ack, ProjectError, ConsumerLost
  <1>3. \A k \in msgs : k = m \/ k \in msgs'
    BY <1>1, MoveType, LostType DEF Deliver, Project, Ack, ProjectError, ConsumerLost, Places, Move
  <1>4. m.event = e /\ m.place \in InHand
           => e \in consumed' \/ \E k \in msgs' : k.event = e /\ k.place \in InHand
    <2>1. CASE Deliver(m)
      BY <2>1, MoveType DEF Deliver, Places
    <2>2. CASE Project(m)
      BY <2>2 DEF Project
    <2>3. CASE Ack(m)
      BY <2>3 DEF Ack
    <2>4. CASE ProjectError(m) \/ ConsumerLost(m)
      BY <2>4, LostType
    <2> QED BY <1>1, <2>1, <2>2, <2>3, <2>4
  <1> QED BY <1>2, <1>3, <1>4, SafeKept

LEMMA ReplaySafe ==
  ASSUME TypeOK, Ledger, ReplayNext, NEW e \in EventIds, Safe(e)
  PROVE  Safe(e)'
  <1> DEFINE InHand == {"ready", "unacked", "dead", "replaying"}
  <1>1. PICK m \in msgs : \/ ReplayGet(m) \/ ReplayConfirmed(m) \/ ReplayUnconfirmed(m)
                         \/ ReplayAck(m) \/ ReplayLost(m)
    BY DEF ReplayNext
  <1>2. consumed' = consumed
    BY ReplayType
  <1>3. \A k \in msgs : k = m \/ k \in msgs'
    BY <1>1, MoveType, RepublishType
       DEF ReplayGet, ReplayConfirmed, ReplayUnconfirmed, ReplayAck, ReplayLost, Places
  <1>4. m.event = e /\ m.place \in InHand => \E k \in msgs' : k.event = e /\ k.place \in InHand
    <2>1. CASE ReplayGet(m) \/ ReplayLost(m)
      BY <2>1, MoveType DEF ReplayGet, ReplayLost, Places
    <2>2. CASE ReplayConfirmed(m) \/ ReplayUnconfirmed(m)
      BY <2>2, MoveType, RepublishType DEF ReplayConfirmed, ReplayUnconfirmed, Places
    <2>3. CASE ReplayAck(m)
      BY <2>3 DEF ReplayAck
    <2> QED BY <1>1, <2>1, <2>2, <2>3
  <1> QED BY <1>2, <1>3, <1>4, SafeKept

(* A relay step makes an event "published" only by a confirmed worker.     *)
LEMMA RelayRows ==
  ASSUME TypeOK, RelayNext, NEW e \in EventIds, Appended(e)
  PROVE  \/ outbox'[e].state # "pending" => outbox[e].state # "pending"
         \/ \E w \in workers : w.event = e /\ w.phase = "confirm"
  <1>1. outbox[e] \in OutboxRow
    BY RowTypes
  <1>2. CASE \E f \in EventIds : Claim(f)
    BY <1>1, <1>2 DEF Claim, TypeOK, OutboxRow
  <1>3. CASE \E f \in EventIds : BackoffElapsed(f)
    BY <1>1, <1>3 DEF BackoffElapsed, TypeOK, OutboxRow
  <1>4. CASE \E f \in EventIds : LeaseExpires(f) \/ LeaseOutlived(f)
    BY <1>1, <1>4 DEF LeaseExpires, LeaseOutlived, ExpireLease, TypeOK, OutboxRow
  <1>5. CASE \E f \in EventIds : CleanupOutbox(f)
    BY <1>1, <1>5 DEF CleanupOutbox, TypeOK, OutboxRow
  <1>6. CASE \E w \in workers : PublishConfirmed(w) \/ PublishUnknown(w)
    <2>1. PICK w \in workers : Enqueue(w.event)
      BY <1>6 DEF PublishConfirmed, PublishUnknown
    <2>2. w.event \in EventIds /\ Appended(w.event)
      BY DEF TypeOK, Worker
    <2> QED BY <2>1, <2>2, EnqueueType
  <1>7. CASE \E w \in workers : PublishRefused(w) \/ RelayCrash(w)
    BY <1>7 DEF PublishRefused, RelayCrash
  <1>8. CASE \E w \in workers : Confirm(w)
    BY <1>8 DEF Confirm, TypeOK
  <1>9. CASE \E w \in workers : Fail(w)
    BY <1>1, <1>9 DEF Fail, Release, TypeOK, OutboxRow
  <1> QED BY <1>2, <1>3, <1>4, <1>5, <1>6, <1>7, <1>8, <1>9 DEF RelayNext

LEMMA RelayActors ==
  ASSUME TypeOK, RelayNext
  PROVE  /\ \A w \in workers' : w.phase = "confirm" =>
                w \in workers \/ \E m \in msgs' : m.event = w.event /\ m.place = "ready"
         /\ \A m \in msgs' : m \in msgs \/ m.place = "ready"
  <1>1. CASE \E e \in EventIds : \/ Claim(e) \/ BackoffElapsed(e) \/ LeaseExpires(e)
                                \/ LeaseOutlived(e) \/ CleanupOutbox(e)
    BY <1>1 DEF Claim, BackoffElapsed, LeaseExpires, LeaseOutlived, ExpireLease, CleanupOutbox
  <1>2. ASSUME NEW w \in workers, PublishConfirmed(w) \/ PublishUnknown(w)
        PROVE  /\ \A v \in workers' : v.phase = "confirm" =>
                      v \in workers \/ \E m \in msgs' : m.event = v.event /\ m.place = "ready"
               /\ \A m \in msgs' : m \in msgs \/ m.place = "ready"
    <2>1. Enqueue(w.event) /\ \E phase \in {"confirm", "fail"} : Step(w, phase)
      BY <1>2 DEF PublishConfirmed, PublishUnknown
    <2>2. w.event \in EventIds /\ Appended(w.event)
      BY DEF TypeOK, Worker
    <2> QED BY <2>1, <2>2, EnqueueType, WorkerStep
  <1>3. ASSUME NEW w \in workers, PublishRefused(w)
        PROVE  /\ \A v \in workers' : v.phase = "confirm" => v \in workers
               /\ msgs' = msgs
    BY <1>3, WorkerStep DEF PublishRefused
  <1>4. CASE \E w \in workers : Confirm(w) \/ Fail(w) \/ RelayCrash(w)
    BY <1>4 DEF Confirm, Fail, RelayCrash
  <1> QED BY <1>1, <1>2, <1>3, <1>4 DEF RelayNext

LEMMA RelayLedger ==
  ASSUME TypeOK, Ledger, RelayNext
  PROVE  Ledger'
  <1>0. TypeOK' /\ OutboxFrame /\ consumed' = consumed
    BY RelayType
  <1>1. ASSUME NEW e \in EventIds, Appended(e)', outbox'[e].state # "pending" PROVE Safe(e)'
    <2>1. Appended(e)
      BY <1>0, <1>1 DEF OutboxFrame
    <2>2. Safe(e)
      BY <1>1, <2>1, RelayRows DEF Ledger
    <2> QED BY <2>2, RelaySafe
  <1>2. ASSUME NEW w \in workers', w.phase = "confirm" PROVE Safe(w.event)'
    <2>1. w.event \in EventIds
      BY <1>0 DEF TypeOK, Worker
    <2>2. CASE w \in workers
      BY <1>2, <2>1, <2>2, RelaySafe DEF Ledger
    <2>3. CASE w \notin workers
      BY <1>2, <2>3, RelayActors DEF Safe, HasCopy
    <2> QED BY <2>2, <2>3
  <1>3. ASSUME NEW m \in msgs', m.place = "projected" PROVE m.event \in consumed'
    BY <1>0, <1>3, RelayActors DEF Ledger
  <1>4. ASSUME NEW m \in msgs', m.place = "replayed" PROVE Safe(m.event)'
    <2>1. m \in msgs
      BY <1>4, RelayActors
    <2>2. m.event \in EventIds
      BY <1>0 DEF TypeOK, Message
    <2> QED BY <1>4, <2>1, <2>2, RelaySafe DEF Ledger
  <1> QED BY <1>1, <1>2, <1>3, <1>4 DEF Ledger

LEMMA ConsumerLedger ==
  ASSUME TypeOK, Ledger, ConsumerNext
  PROVE  Ledger'
  <1>0. TypeOK' /\ UNCHANGED <<outbox, workers>>
    BY ConsumerType
  <1>1. \A e \in EventIds : Safe(e) => Safe(e)'
    BY ConsumerSafe
  <1>2. ASSUME NEW e \in EventIds, Appended(e)', outbox'[e].state # "pending" PROVE Safe(e)'
    BY <1>0, <1>1, <1>2 DEF Ledger, Appended
  <1>3. ASSUME NEW w \in workers', w.phase = "confirm" PROVE Safe(w.event)'
    BY <1>0, <1>1, <1>3 DEF Ledger, TypeOK, Worker
  <1>4. PICK m \in msgs : Deliver(m) \/ Project(m) \/ Ack(m) \/ ProjectError(m) \/ ConsumerLost(m)
    BY DEF ConsumerNext
  <1>5. consumed \subseteq consumed'
    BY <1>4 DEF Deliver, Project, Ack, ProjectError, ConsumerLost
  <1>6. \A k \in msgs' : \/ k \in msgs
                        \/ k.place \in {"ready", "unacked", "dead"}
                        \/ k.event \in consumed'
    <2>1. CASE Deliver(m)
      BY <2>1, MoveType DEF Deliver, Places
    <2>2. CASE Project(m)
      <3>1. m.event \in consumed'
        BY <2>2 DEF Project
      <3> QED BY <2>2, <3>1, MoveType DEF Project, Places
    <2>3. CASE Ack(m)
      BY <2>3 DEF Ack
    <2>4. CASE ProjectError(m) \/ ConsumerLost(m)
      BY <2>4, LostType
    <2> QED BY <1>4, <2>1, <2>2, <2>3, <2>4
  <1>7. ASSUME NEW k \in msgs', k.place = "projected" PROVE k.event \in consumed'
    BY <1>5, <1>6, <1>7 DEF Ledger
  <1>8. ASSUME NEW k \in msgs', k.place = "replayed" PROVE Safe(k.event)'
    <2>1. k.event \in EventIds
      BY <1>0 DEF TypeOK, Message
    <2> QED BY <1>1, <1>6, <1>8, <2>1 DEF Ledger, Safe
  <1> QED BY <1>2, <1>3, <1>7, <1>8 DEF Ledger

LEMMA ReplayLedger ==
  ASSUME TypeOK, Ledger, ReplayNext
  PROVE  Ledger'
  <1>0. TypeOK' /\ OutboxFrame /\ UNCHANGED <<workers, consumed>>
    BY ReplayType
  <1>1. \A e \in EventIds : Safe(e) => Safe(e)'
    BY ReplaySafe
  <1>2. PICK m \in msgs : \/ ReplayGet(m) \/ ReplayConfirmed(m) \/ ReplayUnconfirmed(m)
                         \/ ReplayAck(m) \/ ReplayLost(m)
    BY DEF ReplayNext
  <1>3. \A e \in EventIds : Appended(e) => outbox'[e].state = outbox[e].state
    BY <1>2, RepublishType
       DEF ReplayGet, ReplayConfirmed, ReplayUnconfirmed, ReplayAck, ReplayLost, Places
  <1>4. ASSUME NEW e \in EventIds, Appended(e)', outbox'[e].state # "pending" PROVE Safe(e)'
    BY <1>0, <1>1, <1>3, <1>4 DEF Ledger, OutboxFrame
  <1>5. ASSUME NEW w \in workers', w.phase = "confirm" PROVE Safe(w.event)'
    BY <1>0, <1>1, <1>5 DEF Ledger, TypeOK, Worker
  <1>6. \A k \in msgs' : \/ k \in msgs
                        \/ k.place \in {"ready", "dead", "replaying"}
                        \/ \E j \in msgs' : j.event = k.event /\ j.place = "ready"
    <2>1. CASE ReplayGet(m) \/ ReplayLost(m)
      BY <2>1, MoveType DEF ReplayGet, ReplayLost, Places
    <2>2. CASE ReplayConfirmed(m)
      BY <2>2, RepublishType DEF ReplayConfirmed, Places
    <2>3. CASE ReplayUnconfirmed(m)
      BY <2>3, MoveType, RepublishType DEF ReplayUnconfirmed, Places
    <2>4. CASE ReplayAck(m)
      BY <2>4 DEF ReplayAck
    <2> QED BY <1>2, <2>1, <2>2, <2>3, <2>4
  <1>7. ASSUME NEW k \in msgs', k.place = "projected" PROVE k.event \in consumed'
    <2>1. k \in msgs
      <3>1. CASE ReplayGet(m) \/ ReplayLost(m)
        BY <1>7, <3>1, MoveType DEF ReplayGet, ReplayLost, Places
      <3>2. CASE ReplayConfirmed(m)
        BY <1>7, <3>2, RepublishType DEF ReplayConfirmed, Places
      <3>3. CASE ReplayUnconfirmed(m)
        BY <1>7, <3>3, MoveType, RepublishType DEF ReplayUnconfirmed, Places
      <3>4. CASE ReplayAck(m)
        BY <3>4 DEF ReplayAck
      <3> QED BY <1>2, <3>1, <3>2, <3>3, <3>4
    <2> QED BY <1>0, <1>7, <2>1 DEF Ledger
  <1>8. ASSUME NEW k \in msgs', k.place = "replayed" PROVE Safe(k.event)'
    <2>1. k.event \in EventIds
      BY <1>0 DEF TypeOK, Message
    <2>2. CASE k \in msgs
      BY <1>1, <1>8, <2>1, <2>2 DEF Ledger
    <2>3. CASE k \notin msgs
      BY <1>6, <1>8, <2>3 DEF Safe, HasCopy
    <2> QED BY <2>2, <2>3
  <1> QED BY <1>4, <1>5, <1>7, <1>8 DEF Ledger

(* Tokens: only Claim draws one, and it is the newest.                     *)
LEMMA RelayTokens ==
  ASSUME TypeOK, Tokens, RelayNext
  PROVE  Tokens'
  <1> SUFFICES ASSUME NEW e \in EventIds, Appended(e)'
               PROVE  outbox'[e].token \in {0, outbox'[e].attempts}
    BY DEF Tokens
  <1>1. Appended(e)
    BY RelayType DEF OutboxFrame
  <1>2. outbox[e] \in OutboxRow /\ outbox[e].token \in {0, outbox[e].attempts}
    BY <1>1, RowTypes DEF Tokens
  <1>3. CASE \E f \in EventIds : Claim(f)
    BY <1>2, <1>3 DEF Claim, TypeOK, OutboxRow
  <1>4. CASE \E f \in EventIds : BackoffElapsed(f)
    BY <1>2, <1>4 DEF BackoffElapsed, TypeOK, OutboxRow
  <1>5. CASE \E f \in EventIds : LeaseExpires(f) \/ LeaseOutlived(f)
    BY <1>2, <1>5 DEF LeaseExpires, LeaseOutlived, ExpireLease, TypeOK, OutboxRow
  <1>6. CASE \E f \in EventIds : CleanupOutbox(f)
    BY <1>2, <1>6 DEF CleanupOutbox, TypeOK, OutboxRow
  <1>7. CASE \E w \in workers : PublishConfirmed(w) \/ PublishUnknown(w)
    <2>1. PICK f \in EventIds : outbox' = [outbox EXCEPT ![f].copies = outbox[f].copies + 1]
      BY <1>7 DEF PublishConfirmed, PublishUnknown, Enqueue, TypeOK, Worker
    <2> QED BY <1>2, <2>1 DEF TypeOK, OutboxRow
  <1>8. CASE \E w \in workers : PublishRefused(w) \/ RelayCrash(w)
    BY <1>2, <1>8 DEF PublishRefused, RelayCrash
  <1>9. CASE \E w \in workers : Confirm(w)
    BY <1>2, <1>9 DEF Confirm, Release, TypeOK, OutboxRow
  <1>10. CASE \E w \in workers : Fail(w)
    BY <1>2, <1>10 DEF Fail, Release, TypeOK, OutboxRow
  <1> QED BY <1>3, <1>4, <1>5, <1>6, <1>7, <1>8, <1>9, <1>10 DEF RelayNext

(* A step that writes neither articles nor tasks keeps what relates them   *)
(* to the events.                                                          *)
LEMMA FrameKeeps ==
  ASSUME TypeOK, OutboxFrame, UNCHANGED <<article, consumed, task>>,
         AbsentIsNew, Versions, TaskReflectsFact, ObservedCoversConsumed
  PROVE  AbsentIsNew' /\ Versions' /\ TaskReflectsFact' /\ ObservedCoversConsumed'
  <1>1. AbsentIsNew' /\ Versions'
    BY DEF AbsentIsNew, Versions, OutboxFrame
  <1>2. \A a \in Articles : EventsOf(a)' = EventsOf(a)
    BY DEF EventsOf, OutboxFrame
  <1>3. TaskReflectsFact'
    BY <1>2 DEF TaskReflectsFact
  <1>4. ObservedCoversConsumed'
    BY DEF ObservedCoversConsumed, OutboxFrame, TypeOK
  <1> QED BY <1>1, <1>3, <1>4

(* Outside a write no two kept rows start to collide: a row never returns  *)
(* from "deleted".                                                         *)
LEMMA FrameDistinct ==
  ASSUME OutboxFrame, OneEventPerVersion,
         \A e \in EventIds : Appended(e) /\ outbox'[e].state # "deleted" => outbox[e].state # "deleted"
  PROVE  OneEventPerVersion'
  BY DEF OneEventPerVersion, OutboxFrame

LEMMA RelayKeepsRows ==
  ASSUME TypeOK, RelayNext, NEW e \in EventIds, Appended(e), outbox'[e].state # "deleted"
  PROVE  outbox[e].state # "deleted"
  <1>1. outbox[e] \in OutboxRow
    BY RowTypes
  <1>2. CASE \E f \in EventIds : Claim(f) \/ BackoffElapsed(f)
    BY <1>1, <1>2 DEF Claim, BackoffElapsed, TypeOK, OutboxRow
  <1>4. CASE \E f \in EventIds : LeaseExpires(f) \/ LeaseOutlived(f)
    BY <1>1, <1>4 DEF LeaseExpires, LeaseOutlived, ExpireLease, TypeOK, OutboxRow
  <1>5. CASE \E f \in EventIds : CleanupOutbox(f)
    BY <1>1, <1>5 DEF CleanupOutbox, TypeOK, OutboxRow
  <1>6. CASE \E w \in workers : PublishConfirmed(w) \/ PublishUnknown(w)
    <2>1. PICK w \in workers : Enqueue(w.event)
      BY <1>6 DEF PublishConfirmed, PublishUnknown
    <2>2. w.event \in EventIds /\ Appended(w.event)
      BY DEF TypeOK, Worker
    <2> QED BY <2>1, <2>2, EnqueueType
  <1>7. CASE \E w \in workers : PublishRefused(w) \/ RelayCrash(w)
    BY <1>7 DEF PublishRefused, RelayCrash
  <1>8. CASE \E w \in workers : Confirm(w) \/ Fail(w)
    BY <1>1, <1>8 DEF Confirm, Fail, Holds, Release, TypeOK, OutboxRow
  <1> QED BY <1>2, <1>4, <1>5, <1>6, <1>7, <1>8 DEF RelayNext

LEMMA RelayKeeps ==
  ASSUME IInv, RelayNext
  PROVE  IInv'
  <1>1. TypeOK' /\ OutboxFrame /\ UNCHANGED <<article, consumed, task>>
    BY RelayType DEF IInv
  <1>2. OneEventPerVersion'
    BY <1>1, RelayKeepsRows, FrameDistinct DEF IInv
  <1> QED BY <1>1, <1>2, FrameKeeps, RelayLedger, RelayTokens DEF IInv

LEMMA ReplayKeeps ==
  ASSUME IInv, ReplayNext
  PROVE  IInv'
  <1>1. TypeOK' /\ OutboxFrame /\ UNCHANGED <<article, workers, consumed, task>>
    BY ReplayType DEF IInv
  <1>2. PICK m \in msgs : \/ ReplayGet(m) \/ ReplayConfirmed(m) \/ ReplayUnconfirmed(m)
                         \/ ReplayAck(m) \/ ReplayLost(m)
    BY DEF ReplayNext
  <1>3. \A e \in EventIds : Appended(e) => /\ outbox'[e].state = outbox[e].state
                                         /\ outbox'[e].token = outbox[e].token
                                         /\ outbox'[e].attempts = outbox[e].attempts
    BY <1>2, RepublishType
       DEF ReplayGet, ReplayConfirmed, ReplayUnconfirmed, ReplayAck, ReplayLost, Places, IInv
  <1>4. OneEventPerVersion'
    BY <1>1, <1>3, FrameDistinct DEF IInv
  <1>5. Tokens'
    BY <1>1, <1>3 DEF IInv, Tokens, OutboxFrame
  <1> QED BY <1>1, <1>4, <1>5, FrameKeeps, ReplayLedger DEF IInv

(* What the projector makes of a task: the right one for the row it read,  *)
(* a new generation exactly when the work changed, and an observed version *)
(* not below the row's.                                                    *)
LEMMA ProjectedIsRight ==
  ASSUME NEW t \in Task, NEW row \in ArticleRow
  PROVE  LET p == Projected(t, row)
         IN  /\ Reflects(p, row)
             /\ p.gen \in {t.gen, t.gen + 1}
             /\ p.gen = t.gen <=> (p.status = t.status /\ p.rev = t.rev)
             /\ p.status # "none" => p.observed >= row.ver
  <1> DEFINE seen  == [t EXCEPT !.observed = IF @ < row.ver THEN row.ver ELSE @]
             to(s) == [status |-> s, gen |-> t.gen + 1, rev |-> row.rev, observed |-> row.ver]
  <1>1. /\ t.status \in {"none", "pending", "canceled"} /\ t.gen \in Nat
        /\ t.rev \in Nat /\ t.observed \in Nat /\ row.ver \in Nat /\ row.rev \in Nat
    BY DEF Task, ArticleRow
  <1>2. /\ seen.status = t.status /\ seen.gen = t.gen /\ seen.rev = t.rev
        /\ seen.observed >= row.ver
    BY <1>1 DEF Task
  <1>3. \A s : to(s).status = s /\ to(s).gen = t.gen + 1 /\ to(s).rev = row.rev /\ to(s).observed = row.ver
    OBVIOUS
  <1>4. Projected(t, row) =
          IF Public(row)
          THEN IF t.status # "pending" \/ t.rev # row.rev THEN to("pending") ELSE seen
          ELSE IF t.status = "none" THEN t
               ELSE IF t.status = "pending" THEN to("canceled") ELSE seen
    BY <1>1 DEF Projected
  <1> HIDE DEF seen, to
  <1> QED BY <1>1, <1>2, <1>3, <1>4 DEF Reflects

LEMMA ConsumerKeeps ==
  ASSUME IInv, ConsumerNext
  PROVE  IInv'
  <1>1. TypeOK' /\ OutboxFrame /\ UNCHANGED <<article, outbox, workers>> /\ Ledger'
    BY ConsumerType, ConsumerLedger DEF IInv
  <1>2. Tokens' /\ OneEventPerVersion' /\ AbsentIsNew' /\ Versions'
    BY <1>1 DEF IInv, Tokens, OneEventPerVersion, AbsentIsNew, Versions, Appended
  <1>3. PICK m \in msgs : Deliver(m) \/ Project(m) \/ Ack(m) \/ ProjectError(m) \/ ConsumerLost(m)
    BY DEF ConsumerNext
  <1>4. CASE UNCHANGED <<consumed, task>>
    BY <1>1, <1>2, <1>4, FrameKeeps DEF IInv
  <1>5. CASE Project(m) /\ m.event \notin consumed
    <2> DEFINE a == outbox[m.event].article
               p == Projected(task[a], article[a])
    <2>1. m.event \in EventIds /\ Appended(m.event) /\ outbox[m.event] \in OutboxRow
      BY RowTypes DEF IInv, TypeOK, Message
    <2>2. a \in Articles /\ task[a] \in Task /\ article[a] \in ArticleRow
      BY <2>1 DEF IInv, TypeOK, OutboxRow
    <2>3. task' = [task EXCEPT ![a] = p] /\ consumed' = consumed \cup {m.event}
      BY <1>5 DEF Project
    <2>4. Reflects(p, article[a]) /\ (p.status # "none" => p.observed >= article[a].ver)
      BY <2>2, ProjectedIsRight
    <2>5. task'[a] = p /\ \A b \in Articles \ {a} : task'[b] = task[b]
      BY <2>2, <2>3 DEF IInv, TypeOK
    <2> HIDE DEF p
    <2>6. TaskReflectsFact'
      <3> SUFFICES ASSUME NEW b \in Articles, EventsOf(b)' # {}, EventsOf(b)' \subseteq consumed'
                   PROVE  Reflects(task'[b], article'[b])
        BY DEF TaskReflectsFact
      <3>1. EventsOf(b)' = EventsOf(b)
        BY <1>1 DEF EventsOf, Appended
      <3>2. CASE b = a
        BY <1>1, <2>4, <2>5, <3>2
      <3>3. CASE b # a
        <4>1. m.event \notin EventsOf(b)
          BY <3>3 DEF EventsOf
        <4>2. EventsOf(b) # {} /\ EventsOf(b) \subseteq consumed
          BY <2>3, <3>1, <4>1
        <4> QED BY <1>1, <2>5, <3>3, <4>2 DEF IInv, TaskReflectsFact
      <3> QED BY <3>2, <3>3
    <2>7. ObservedCoversConsumed'
      <3> SUFFICES ASSUME NEW e \in consumed', task'[outbox[e].article].status # "none"
                   PROVE  task'[outbox[e].article].observed >= outbox[e].ver
        BY <1>1 DEF ObservedCoversConsumed
      <3>1. e \in EventIds /\ Appended(e) /\ outbox[e] \in OutboxRow
        BY <2>1, <2>3, RowTypes DEF IInv, TypeOK
      <3>2. outbox[e].article \in Articles /\ outbox[e].ver \in Nat
        BY <3>1 DEF OutboxRow
      <3>3. CASE outbox[e].article = a
        <4>1. outbox[e].ver <= article[a].ver
          BY <3>1, <3>3 DEF IInv, Versions
        <4>2. p \in Task
          BY <2>2, ProjectedType DEF p
        <4>3. p.observed \in Nat /\ article[a].ver \in Nat
          BY <2>2, <4>2 DEF Task, ArticleRow
        <4>4. p.observed >= article[a].ver
          BY <2>4, <2>5, <3>3
        <4> QED BY <2>5, <3>2, <3>3, <4>1, <4>3, <4>4
      <3>4. CASE outbox[e].article # a
        <4>1. e \in consumed
          BY <2>3, <3>4
        <4> QED BY <2>5, <3>2, <3>4, <4>1 DEF IInv, ObservedCoversConsumed
      <3> QED BY <3>3, <3>4
    <2> QED BY <1>1, <1>2, <2>6, <2>7 DEF IInv
  <1> QED BY <1>3, <1>4, <1>5 DEF Deliver, Project, Ack, ProjectError, ConsumerLost

(* An appended event, or none, next to rows that stay as they are.         *)
LEMMA AppendOne ==
  ASSUME TypeOK, NEW a, NEW type, NEW ver, AppendEvent(a, type, ver), type # "none"
  PROVE  \E f \in EventIds : /\ ~Appended(f) /\ f \notin consumed /\ Appended(f)'
                            /\ outbox'[f] = NewRow(a, type, ver)
                            /\ \A e \in EventIds \ {f} : outbox'[e] = outbox[e]
  <1>1. PICK f \in EventIds : ~Appended(f) /\ outbox' = [outbox EXCEPT ![f] = NewRow(a, type, ver)]
    BY DEF AppendEvent
  <1>2. outbox'[f] = NewRow(a, type, ver) /\ \A e \in EventIds \ {f} : outbox'[e] = outbox[e]
    BY <1>1 DEF TypeOK
  <1>3. f \notin consumed
    BY <1>1 DEF TypeOK
  <1>4. NewRow(a, type, ver).state # "free"
    BY DEF NewRow
  <1> QED BY <1>1, <1>2, <1>3, <1>4 DEF Appended

(* The invariants that only mind the events: a fresh pending row keeps     *)
(* them whenever its version is that of its article.                       *)
LEMMA AppendKeeps ==
  ASSUME IInv, NEW a \in Articles, NEW type, NEW ver \in Nat, AppendEvent(a, type, ver),
         UNCHANGED <<workers, msgs, consumed, task>>, TypeOK',
         \A b \in Articles : article'[b].ver >= article[b].ver, article'[a].ver = ver
  PROVE  Ledger' /\ Versions' /\ Tokens' /\ ObservedCoversConsumed'
  <1> USE DEF IInv
  <1>1. \A b \in Articles : article[b].ver \in Nat /\ article'[b].ver \in Nat
    BY DEF TypeOK, ArticleRow
  <1>2. \A e \in EventIds : Appended(e) => outbox[e].article \in Articles /\ outbox[e].ver \in Nat
    BY RowTypes DEF OutboxRow
  <1>3. \A e \in EventIds : Safe(e)' <=> Safe(e)
    BY DEF Safe, HasCopy
  <1>4. \A w \in workers : w.event \in EventIds
    BY DEF TypeOK, Worker
  <1>5. \A m \in msgs : m.event \in EventIds
    BY DEF TypeOK, Message
  <1>6. \A e \in consumed : e \in EventIds /\ Appended(e)
    BY DEF TypeOK
  <1>7. CASE type = "none"
    <2>1. outbox' = outbox
      BY <1>7 DEF AppendEvent
    <2>2. Versions'
      <3> SUFFICES ASSUME NEW e \in EventIds, Appended(e)
                   PROVE  outbox[e].ver <= article'[outbox[e].article].ver
        BY <2>1 DEF Versions, Appended
      <3>1. outbox[e].ver <= article[outbox[e].article].ver
        BY DEF Versions
      <3> QED BY <1>1, <1>2, <3>1
    <2> QED BY <1>3, <1>4, <1>5, <2>1, <2>2
            DEF Ledger, Tokens, ObservedCoversConsumed, Appended
  <1>8. CASE type # "none"
    <2>1. PICK f \in EventIds : /\ ~Appended(f) /\ f \notin consumed
                              /\ outbox'[f] = NewRow(a, type, ver)
                              /\ \A e \in EventIds \ {f} : outbox'[e] = outbox[e]
      BY <1>8, AppendOne
    <2>2. /\ outbox'[f].article = a /\ outbox'[f].ver = ver
          /\ outbox'[f].token = 0 /\ outbox'[f].state = "pending"
      BY <2>1 DEF NewRow
    <2>3. Ledger'
      BY <1>3, <1>4, <1>5, <2>1, <2>2 DEF Ledger, Appended
    <2>4. Versions'
      <3> SUFFICES ASSUME NEW e \in EventIds, Appended(e)'
                   PROVE  outbox'[e].ver <= article'[outbox'[e].article].ver
        BY DEF Versions
      <3>1. CASE e = f
        BY <1>1, <2>2, <3>1
      <3>2. CASE e # f
        <4>1. Appended(e) /\ outbox'[e] = outbox[e]
          BY <2>1, <3>2 DEF Appended
        <4>2. outbox[e].ver <= article[outbox[e].article].ver
          BY <4>1 DEF Versions
        <4> QED BY <1>1, <1>2, <4>1, <4>2
      <3> QED BY <3>1, <3>2
    <2>5. Tokens'
      BY <2>1, <2>2 DEF Tokens, Appended
    <2>6. ObservedCoversConsumed'
      BY <1>6, <2>1 DEF ObservedCoversConsumed
    <2> QED BY <2>3, <2>4, <2>5, <2>6
  <1> QED BY <1>7, <1>8

LEMMA WriteKeeps ==
  ASSUME IInv, NEW a \in Articles, Writes(a)
  PROVE  IInv'
  <1>1. TypeOK'
    BY WriteType DEF IInv
  <1>2. PICK after \in ArticleRow, type \in EventTypes \cup {"none"} : WriteAs(a, after, type)
    BY WritesCommit DEF IInv
  <1>3. /\ article' = [article EXCEPT ![a] = after]
        /\ AppendEvent(a, type, after.ver)
        /\ UNCHANGED <<workers, msgs, consumed, task>>
        /\ after.ver = article[a].ver + 1
        /\ after.status # "absent"
        /\ type = "none" => ~Public(article[a]) /\ ~Public(after)
    BY <1>2 DEF WriteAs, Commit
  <1>4. after.ver \in Nat /\ \A b \in Articles : article[b].ver \in Nat
    BY DEF ArticleRow, IInv, TypeOK
  <1>5. article'[a] = after /\ \A b \in Articles \ {a} : article'[b] = article[b]
    BY <1>3 DEF IInv, TypeOK
  <1>6. \A b \in Articles : article'[b].ver >= article[b].ver
    BY <1>3, <1>4, <1>5
  <1>7. Ledger' /\ Versions' /\ Tokens' /\ ObservedCoversConsumed'
    BY <1>1, <1>3, <1>4, <1>5, <1>6, AppendKeeps
  <1>8. AbsentIsNew'
    BY <1>3, <1>5 DEF AbsentIsNew, IInv
  <1>9. TaskReflectsFact' /\ OneEventPerVersion'
    <2>1. CASE type = "none"
      <3>1. outbox' = outbox
        BY <1>3, <2>1 DEF AppendEvent
      <3>2. \A b \in Articles : EventsOf(b)' = EventsOf(b)
        BY <3>1 DEF EventsOf, Appended
      <3>3. \A t : Reflects(t, article[a]) => Reflects(t, after)
        BY <1>3, <2>1 DEF Reflects
      <3>4. TaskReflectsFact'
        BY <1>3, <1>5, <3>2, <3>3 DEF TaskReflectsFact, IInv
      <3> QED BY <3>1, <3>4 DEF OneEventPerVersion, Appended, IInv
    <2>2. CASE type # "none"
      <3>1. PICK f \in EventIds : /\ ~Appended(f) /\ f \notin consumed /\ Appended(f)'
                                /\ outbox'[f] = NewRow(a, type, after.ver)
                                /\ \A e \in EventIds \ {f} : outbox'[e] = outbox[e]
        BY <1>3, <2>2, AppendOne DEF IInv
      <3>2. outbox'[f].article = a /\ outbox'[f].ver = after.ver
        BY <3>1 DEF NewRow
      <3>3. TaskReflectsFact'
        <4> SUFFICES ASSUME NEW b \in Articles, EventsOf(b)' # {}, EventsOf(b)' \subseteq consumed
                     PROVE  Reflects(task[b], article'[b])
          BY <1>3 DEF TaskReflectsFact
        <4>1. b # a
          BY <3>1, <3>2 DEF EventsOf
        <4>2. EventsOf(b)' = EventsOf(b)
          BY <3>1, <3>2, <4>1 DEF EventsOf, Appended
        <4> QED BY <1>5, <4>1, <4>2 DEF TaskReflectsFact, IInv
      <3>4. \A e \in EventIds : Appended(e) => /\ outbox[e].article \in Articles
                                             /\ outbox[e].ver \in Nat
                                             /\ outbox[e].ver <= article[outbox[e].article].ver
        BY RowTypes DEF OutboxRow, Versions, IInv
      <3>5. \A e \in EventIds \ {f} : Appended(e)' /\ outbox'[e].article = a => outbox'[e].ver # after.ver
        BY <1>3, <1>4, <3>1, <3>4 DEF Appended
      <3>6. OneEventPerVersion'
        BY <3>1, <3>2, <3>5 DEF OneEventPerVersion, Appended, IInv
      <3> QED BY <3>3, <3>6
    <2> QED BY <2>1, <2>2
  <1> QED BY <1>1, <1>7, <1>8, <1>9 DEF IInv

LEMMA BackfillKeeps ==
  ASSUME IInv, NEW a \in Articles, Backfill(a)
  PROVE  IInv'
  <1>1. TypeOK'
    BY BackfillType DEF IInv
  <1>2. /\ AppendEvent(a, "published", article[a].ver)
        /\ UNCHANGED <<article, workers, msgs, consumed, task>>
        /\ \A e \in EventsOf(a) : outbox[e].state = "deleted"
    BY DEF Backfill
  <1>3. \A b \in Articles : article[b].ver \in Nat
    BY DEF IInv, TypeOK, ArticleRow
  <1>4. Ledger' /\ Versions' /\ Tokens' /\ ObservedCoversConsumed'
    BY <1>1, <1>2, <1>3, AppendKeeps
  <1>5. PICK f \in EventIds : /\ ~Appended(f) /\ f \notin consumed /\ Appended(f)'
                            /\ outbox'[f] = NewRow(a, "published", article[a].ver)
                            /\ \A e \in EventIds \ {f} : outbox'[e] = outbox[e]
    BY <1>2, AppendOne DEF IInv
  <1>6. outbox'[f].article = a
    BY <1>5 DEF NewRow
  <1>7. TaskReflectsFact'
    <2> SUFFICES ASSUME NEW b \in Articles, EventsOf(b)' # {}, EventsOf(b)' \subseteq consumed
                 PROVE  Reflects(task[b], article[b])
      BY <1>2 DEF TaskReflectsFact
    <2>1. b # a
      BY <1>5, <1>6 DEF EventsOf
    <2>2. EventsOf(b)' = EventsOf(b)
      BY <1>5, <1>6, <2>1 DEF EventsOf, Appended
    <2> QED BY <2>1, <2>2 DEF TaskReflectsFact, IInv
  <1>8. \A e \in EventIds \ {f} : Appended(e)' /\ outbox'[e].article = a => outbox'[e].state = "deleted"
    BY <1>2, <1>5 DEF EventsOf, Appended
  <1>9. OneEventPerVersion'
    BY <1>5, <1>6, <1>8 DEF OneEventPerVersion, Appended, IInv
  <1>10. AbsentIsNew'
    BY <1>2 DEF AbsentIsNew, IInv
  <1> QED BY <1>1, <1>4, <1>7, <1>9, <1>10 DEF IInv

LEMMA InitInv == Init => IInv
  <1>1. Init => \A e \in EventIds : ~Appended(e)
    BY DEF Init, Appended, FreeRow
  <1> QED BY <1>1, InitType
          DEF Init, IInv, Ledger, Versions, Tokens, TaskReflectsFact, EventsOf,
              ObservedCoversConsumed, OneEventPerVersion

LEMMA StutterKeeps ==
  ASSUME IInv, UNCHANGED vars
  PROVE  IInv'
  BY DEF vars, IInv, TypeOK, AbsentIsNew, Ledger, Versions, Tokens, TaskReflectsFact, EventsOf,
         ObservedCoversConsumed, OneEventPerVersion, Appended, Safe, HasCopy

LEMMA StepKeeps ==
  ASSUME IInv, [Next]_vars
  PROVE  IInv'
  <1>1. CASE ArticleNext
    <2>1. PICK a \in Articles : Writes(a) \/ Backfill(a)
      BY <1>1 DEF ArticleNext, Writes
    <2> QED BY <2>1, WriteKeeps, BackfillKeeps
  <1>2. CASE RelayNext
    BY <1>2, RelayKeeps
  <1>3. CASE ConsumerNext
    BY <1>3, ConsumerKeeps
  <1>4. CASE ReplayNext
    BY <1>4, ReplayKeeps
  <1>5. CASE UNCHANGED vars
    BY <1>5, StutterKeeps
  <1> QED BY <1>1, <1>2, <1>3, <1>4, <1>5 DEF Next

(* The strengthened invariant holds throughout.                            *)
THEOREM Invariance == Spec => []IInv
  BY InitInv, StepKeeps, PTL DEF Spec

(* Every variable keeps the type the code's tables and queues give it.     *)
THEOREM TypeCorrect == Spec => []TypeOK
  <1>1. IInv => TypeOK
    BY DEF IInv
  <1> QED BY <1>1, Invariance, PTL

(* No crash, expired lease, lost confirm, redelivery, replay or clean-up  *)
(* loses an event, for any number of relays, consumers, events and faults. *)
THEOREM EventsSurvive == Spec => []NoEventLost
  <1>1. IInv => NoEventLost
    BY DEF IInv, Ledger, Safe, NoEventLost, Unconsumed
  <1> QED BY <1>1, Invariance, PTL

(* When the projector has seen every event of an article, in whatever     *)
(* order and however often, the task is the one the article calls for.     *)
THEOREM TasksConverge == Spec => []TaskReflectsFact
  <1>1. IInv => TaskReflectsFact
    BY DEF IInv
  <1> QED BY <1>1, Invariance, PTL

(* A task never rests on an article older than an event consumed for it.  *)
THEOREM ObservationsCover == Spec => []ObservedCoversConsumed
  <1>1. IInv => ObservedCoversConsumed
    BY DEF IInv
  <1> QED BY <1>1, Invariance, PTL

(* The unique key of the outbox never makes an article write fail.         *)
THEOREM EventsDistinct == Spec => []OneEventPerVersion
  <1>1. IInv => OneEventPerVersion
    BY DEF IInv
  <1> QED BY <1>1, Invariance, PTL

-----------------------------------------------------------------------------
(* Action properties.                                                      *)

(* One step of the fencing of leases.                                      *)
LEMMA SettleStep ==
  ASSUME IInv, [Next]_vars, NEW e \in EventIds,
         Appended(e), outbox[e].token # 0, outbox'[e].token = 0
  PROVE  \E w \in workers \ workers' : w.event = e /\ w.token = outbox[e].attempts
  <1>1. outbox[e] \in OutboxRow /\ outbox[e].token = outbox[e].attempts
    BY RowTypes DEF IInv, Tokens
  <1>2. CASE ArticleNext
    <2>1. PICK a \in Articles : Writes(a) \/ Backfill(a)
      BY <1>2 DEF ArticleNext, Writes
    <2>2. CASE Writes(a)
      <3>1. PICK after \in ArticleRow, type \in EventTypes \cup {"none"} : WriteAs(a, after, type)
        BY <2>2, WritesCommit DEF IInv
      <3>2. after.ver \in Nat /\ AppendEvent(a, type, after.ver)
        BY <3>1 DEF WriteAs, Commit, ArticleRow
      <3> QED BY <3>2, AppendType DEF IInv
    <2>3. CASE Backfill(a)
      <3>1. article[a].ver \in Nat /\ "published" \in EventTypes
        BY DEF IInv, TypeOK, ArticleRow, EventTypes
      <3> QED BY <2>3, <3>1, AppendType DEF IInv, Backfill
    <2> QED BY <2>1, <2>2, <2>3
  <1>3. CASE RelayNext
    <2>1. CASE \E f \in EventIds : Claim(f)
      BY <1>1, <2>1 DEF Claim, IInv, TypeOK, OutboxRow
    <2>2. CASE \E f \in EventIds : BackoffElapsed(f)
      BY <1>1, <2>2 DEF BackoffElapsed, IInv, TypeOK, OutboxRow
    <2>3. CASE \E f \in EventIds : LeaseExpires(f) \/ LeaseOutlived(f)
      BY <1>1, <2>3 DEF LeaseExpires, LeaseOutlived, ExpireLease, IInv, TypeOK, OutboxRow
    <2>4. CASE \E f \in EventIds : CleanupOutbox(f)
      BY <1>1, <2>4 DEF CleanupOutbox, IInv, TypeOK, OutboxRow
    <2>5. CASE \E w \in workers : PublishConfirmed(w) \/ PublishUnknown(w)
      <3>1. PICK f \in EventIds : outbox' = [outbox EXCEPT ![f].copies = outbox[f].copies + 1]
        BY <2>5 DEF PublishConfirmed, PublishUnknown, Enqueue, IInv, TypeOK, Worker
      <3> QED BY <1>1, <3>1 DEF IInv, TypeOK, OutboxRow
    <2>6. CASE \E w \in workers : PublishRefused(w) \/ RelayCrash(w)
      BY <2>6 DEF PublishRefused, RelayCrash
    <2>7. ASSUME NEW w \in workers, Confirm(w) \/ Fail(w)
          PROVE  \E v \in workers \ workers' : v.event = e /\ v.token = outbox[e].attempts
      <3>1. w \in workers \ workers'
        BY <2>7 DEF Confirm, Fail
      <3>2. Holds(w) /\ w.event = e
        BY <1>1, <2>7 DEF Confirm, Fail, IInv, TypeOK
      <3> QED BY <1>1, <3>1, <3>2 DEF Holds
    <2> QED BY <1>3, <2>1, <2>2, <2>3, <2>4, <2>5, <2>6, <2>7 DEF RelayNext
  <1>4. CASE ConsumerNext
    BY <1>4, ConsumerType DEF IInv
  <1>5. CASE ReplayNext
    <2>1. PICK m \in msgs : \/ ReplayGet(m) \/ ReplayConfirmed(m) \/ ReplayUnconfirmed(m)
                           \/ ReplayAck(m) \/ ReplayLost(m)
      BY <1>5 DEF ReplayNext
    <2> QED BY <2>1, RepublishType
            DEF ReplayGet, ReplayConfirmed, ReplayUnconfirmed, ReplayAck, ReplayLost, Places, IInv
  <1>6. CASE UNCHANGED vars
    BY <1>6 DEF vars
  <1> QED BY <1>2, <1>3, <1>4, <1>5, <1>6 DEF Next

(* A lease is given up only by the worker that holds the newest token.     *)
THEOREM LeaseFencing == Spec => OnlyHolderSettles
  <1> DEFINE Settles ==
        \A e \in EventIds :
           Appended(e) /\ outbox[e].token # 0 /\ outbox'[e].token = 0
             => \E w \in workers \ workers' : w.event = e /\ w.token = outbox[e].attempts
  <1>1. IInv /\ [Next]_vars => [Settles]_vars
    BY SettleStep
  <1> HIDE DEF Settles
  <1>2. Spec => [][Settles]_vars
    BY <1>1, Invariance, PTL DEF Spec
  <1> QED BY <1>2 DEF OnlyHolderSettles, Settles

(* The steps that touch a task are those of the projector.                 *)
LEMMA TaskSteps ==
  ASSUME IInv, [Next]_vars
  PROVE  \/ UNCHANGED task
         \/ \E m \in msgs : /\ Project(m) /\ m.event \in EventIds /\ Appended(m.event)
                           /\ m.event \notin consumed
                           /\ outbox[m.event].article \in Articles
                           /\ outbox[m.event] \in OutboxRow
  <1>1. CASE ArticleNext
    <2>1. PICK a \in Articles : Writes(a) \/ Backfill(a)
      BY <1>1 DEF ArticleNext, Writes
    <2> QED BY <2>1, WritesCommit DEF IInv, WriteAs, Commit, Backfill
  <1>2. CASE RelayNext
    BY <1>2, RelayType DEF IInv
  <1>3. CASE ConsumerNext
    <2>1. PICK m \in msgs : Deliver(m) \/ Project(m) \/ Ack(m) \/ ProjectError(m) \/ ConsumerLost(m)
      BY <1>3 DEF ConsumerNext
    <2>2. m.event \in EventIds /\ Appended(m.event) /\ outbox[m.event] \in OutboxRow
      BY RowTypes DEF IInv, TypeOK, Message
    <2>3. outbox[m.event].article \in Articles
      BY <2>2 DEF OutboxRow
    <2> QED BY <2>1, <2>2, <2>3 DEF Deliver, Project, Ack, ProjectError, ConsumerLost
  <1>4. CASE ReplayNext
    BY <1>4, ReplayType DEF IInv
  <1>5. CASE UNCHANGED vars
    BY <1>5 DEF vars
  <1> QED BY <1>1, <1>2, <1>3, <1>4, <1>5 DEF Next

(* One step of the generations.                                            *)
LEMMA GenerationStep ==
  ASSUME IInv, [Next]_vars, NEW a \in Articles
  PROVE  /\ task'[a].gen >= task[a].gen
         /\ (task'[a].status # task[a].status \/ task'[a].rev # task[a].rev)
               => task'[a].gen > task[a].gen
  <1>1. task[a] \in Task /\ task[a].gen \in Nat /\ article[a] \in ArticleRow
    BY DEF IInv, TypeOK, Task
  <1>2. CASE UNCHANGED task
    BY <1>1, <1>2
  <1>3. ASSUME NEW m \in msgs, Project(m), m.event \notin consumed,
               outbox[m.event].article \in Articles
        PROVE  \/ task'[a] = task[a]
               \/ task'[a] = Projected(task[a], article[a])
    BY <1>3 DEF Project, IInv, TypeOK
  <1>4. CASE task'[a] = Projected(task[a], article[a])
    <2>1. LET p == Projected(task[a], article[a])
          IN  /\ p.gen \in {task[a].gen, task[a].gen + 1}
              /\ p.gen = task[a].gen <=> (p.status = task[a].status /\ p.rev = task[a].rev)
      BY <1>1, ProjectedIsRight
    <2> QED BY <1>1, <1>4, <2>1
  <1>5. CASE task'[a] = task[a]
    BY <1>1, <1>5
  <1> QED BY <1>2, <1>3, <1>4, <1>5, TaskSteps

(* The generation fences the executors of older work.                      *)
THEOREM GenerationsFence == Spec => GenerationFences
  <1> DEFINE Fences ==
        \A a \in Articles :
           /\ task'[a].gen >= task[a].gen
           /\ (task'[a].status # task[a].status \/ task'[a].rev # task[a].rev)
                 => task'[a].gen > task[a].gen
  <1>1. IInv /\ [Next]_vars => [Fences]_vars
    BY GenerationStep
  <1> HIDE DEF Fences
  <1>2. Spec => [][Fences]_vars
    BY <1>1, Invariance, PTL DEF Spec
  <1> QED BY <1>2 DEF GenerationFences, Fences

-----------------------------------------------------------------------------
(* The pipeline implements TaskConvergence.                                *)

Owed    == {a \in Articles : EventsOf(a) \ consumed # {}}
Tracked == {a \in Articles : EventsOf(a) # {}}

LEMMA FrameStutters ==
  ASSUME OutboxFrame, UNCHANGED <<article, consumed, task>>
  PROVE  UNCHANGED <<article, task, Owed, Tracked>>
  <1>1. \A a \in Articles : EventsOf(a)' = EventsOf(a)
    BY DEF EventsOf, OutboxFrame
  <1> QED BY <1>1 DEF Owed, Tracked

LEMMA ProjectLooks ==
  ASSUME IInv, NEW m \in msgs, Project(m), m.event \in EventIds, Appended(m.event),
         m.event \notin consumed, NEW a \in Articles, outbox[m.event].article = a
  PROVE  Abstract!Look(a)
  <1> DEFINE p == Projected(task[a], article[a])
  <1>1. task[a] \in Task /\ article[a] \in ArticleRow
    BY DEF IInv, TypeOK
  <1>2. /\ task' = [task EXCEPT ![a] = p]
        /\ consumed' = consumed \cup {m.event}
        /\ UNCHANGED <<article, outbox>>
    BY DEF Project
  <1>3. task'[a] = p /\ \A b \in Articles \ {a} : task'[b] = task[b]
    BY <1>2 DEF IInv, TypeOK
  <1>4. /\ Reflects(p, article[a])
        /\ p.gen \in {task[a].gen, task[a].gen + 1}
        /\ p.gen = task[a].gen <=> (p.status = task[a].status /\ p.rev = task[a].rev)
    BY <1>1, ProjectedIsRight
  <1> HIDE DEF p
  <1>5. \A b \in Articles : EventsOf(b)' = EventsOf(b)
    BY <1>2 DEF EventsOf, Appended
  <1>6. m.event \in EventsOf(a) /\ \A b \in Articles \ {a} : m.event \notin EventsOf(b)
    BY DEF EventsOf
  <1>7. \A b \in Articles \ {a} : EventsOf(b)' \ consumed' # {} <=> EventsOf(b) \ consumed # {}
    BY <1>2, <1>5, <1>6
  <1>8. Tracked' = Tracked
    BY <1>5 DEF Tracked
  <1>9. a \in Owed /\ Owed' \in {Owed, Owed \ {a}}
    <2>1. a \in Owed
      BY <1>6 DEF Owed
    <2>2. \A b \in Articles \ {a} : b \in Owed' <=> b \in Owed
      BY <1>7 DEF Owed
    <2>3. Owed \subseteq Articles /\ Owed' \subseteq Articles
      BY DEF Owed
    <2>4. a \in Owed' => Owed' = Owed
      BY <2>1, <2>2, <2>3
    <2>5. a \notin Owed' => Owed' = Owed \ {a}
      BY <2>2, <2>3
    <2> QED BY <2>1, <2>4, <2>5
  <1>10. Abstract!RightTask(task'[a], article[a])
    BY <1>3, <1>4 DEF Reflects, Public, Abstract!RightTask, Abstract!Public
  <1>11. task'[a].gen = task[a].gen <=> Abstract!SameWork(task[a], task'[a])
    BY <1>3, <1>4 DEF Abstract!SameWork
  <1> QED BY <1>2, <1>3, <1>4, <1>8, <1>9, <1>10, <1>11
          DEF Abstract!Look, Abstract!OnlyAt, Owed, Tracked

LEMMA WriteChanges ==
  ASSUME IInv, NEW a \in Articles, Writes(a)
  PROVE  Abstract!Change(a)
  <1>1. PICK after \in ArticleRow, type \in EventTypes \cup {"none"} : WriteAs(a, after, type)
    BY WritesCommit DEF IInv
  <1>2. /\ article' = [article EXCEPT ![a] = after]
        /\ AppendEvent(a, type, after.ver)
        /\ UNCHANGED <<consumed, task>>
        /\ after.ver = article[a].ver + 1
        /\ type = "none" => ~Public(article[a]) /\ ~Public(after)
    BY <1>1 DEF WriteAs, Commit
  <1>3. article'[a] = after /\ \A b \in Articles \ {a} : article'[b] = article[b]
    BY <1>2 DEF IInv, TypeOK
  <1>4. Abstract!Visible(article[a], after) => type # "none"
    BY <1>2 DEF Abstract!Visible, Abstract!Public, Public
  <1>5. /\ Owed' \in {Owed, Owed \cup {a}}
        /\ Tracked' = IF a \in Owed' THEN Tracked \cup {a} ELSE Tracked
        /\ type # "none" => a \in Owed' /\ a \in Tracked'
    <2>1. CASE type = "none"
      <3>1. outbox' = outbox
        BY <1>2, <2>1 DEF AppendEvent
      <3>2. Owed' = Owed /\ Tracked' = Tracked
        BY <1>2, <3>1 DEF Owed, Tracked, EventsOf, Appended
      <3>3. a \in Owed => a \in Tracked
        BY DEF Owed, Tracked
      <3> QED BY <2>1, <3>2, <3>3
    <2>2. CASE type # "none"
      <3>1. PICK f \in EventIds : /\ ~Appended(f) /\ f \notin consumed /\ Appended(f)'
                                /\ outbox'[f] = NewRow(a, type, after.ver)
                                /\ \A e \in EventIds \ {f} : outbox'[e] = outbox[e]
        BY <1>2, <2>2, AppendOne DEF IInv
      <3>2. outbox'[f].article = a
        BY <3>1 DEF NewRow
      <3>3. f \in EventsOf(a)' /\ \A b \in Articles \ {a} : EventsOf(b)' = EventsOf(b)
        BY <3>1, <3>2 DEF EventsOf, Appended
      <3>4. Owed' = Owed \cup {a} /\ Tracked' = Tracked \cup {a}
        BY <1>2, <3>1, <3>3 DEF Owed, Tracked
      <3> QED BY <2>2, <3>4
    <2> QED BY <2>1, <2>2
  <1> QED BY <1>2, <1>3, <1>4, <1>5 DEF Abstract!Change, Abstract!OnlyAt, Owed, Tracked

LEMMA BackfillAnnounces ==
  ASSUME IInv, NEW a \in Articles, Backfill(a)
  PROVE  Abstract!Announce(a)
  <1>1. /\ AppendEvent(a, "published", article[a].ver)
        /\ UNCHANGED <<article, consumed, task>>
    BY DEF Backfill
  <1>2. PICK f \in EventIds : /\ ~Appended(f) /\ f \notin consumed /\ Appended(f)'
                            /\ outbox'[f] = NewRow(a, "published", article[a].ver)
                            /\ \A e \in EventIds \ {f} : outbox'[e] = outbox[e]
    BY <1>1, AppendOne DEF IInv
  <1>3. outbox'[f].article = a
    BY <1>2 DEF NewRow
  <1>4. f \in EventsOf(a)' /\ \A b \in Articles \ {a} : EventsOf(b)' = EventsOf(b)
    BY <1>2, <1>3 DEF EventsOf, Appended
  <1>5. Owed' = Owed \cup {a} /\ Tracked' = Tracked \cup {a}
    BY <1>1, <1>2, <1>4 DEF Owed, Tracked
  <1> QED BY <1>1, <1>5 DEF Abstract!Announce, Owed, Tracked

(* Every step is an abstract step or leaves the article, the task and what *)
(* is owed alone.                                                          *)
LEMMA StepSimulates ==
  ASSUME IInv, [Next]_vars
  PROVE  Abstract!Next \/ UNCHANGED <<article, task, Owed, Tracked>>
  <1>1. CASE ArticleNext
    <2>1. PICK a \in Articles : Writes(a) \/ Backfill(a)
      BY <1>1 DEF ArticleNext, Writes
    <2> QED BY <2>1, WriteChanges, BackfillAnnounces DEF Abstract!Next
  <1>2. CASE RelayNext
    BY <1>2, RelayType, FrameStutters DEF IInv
  <1>3. CASE ConsumerNext
    <2>1. OutboxFrame /\ UNCHANGED article
      BY <1>3, ConsumerType DEF IInv
    <2>2. PICK m \in msgs : Deliver(m) \/ Project(m) \/ Ack(m) \/ ProjectError(m) \/ ConsumerLost(m)
      BY <1>3 DEF ConsumerNext
    <2>3. CASE UNCHANGED <<consumed, task>>
      BY <2>1, <2>3, FrameStutters
    <2>4. CASE Project(m) /\ m.event \notin consumed
      <3>1. m.event \in EventIds /\ Appended(m.event) /\ outbox[m.event] \in OutboxRow
        BY RowTypes DEF IInv, TypeOK, Message
      <3>2. outbox[m.event].article \in Articles
        BY <3>1 DEF OutboxRow
      <3> QED BY <2>4, <3>1, <3>2, ProjectLooks DEF Abstract!Next
    <2> QED BY <2>2, <2>3, <2>4 DEF Deliver, Project, Ack, ProjectError, ConsumerLost
  <1>4. CASE ReplayNext
    BY <1>4, ReplayType, FrameStutters DEF IInv
  <1>5. CASE UNCHANGED vars
    <2>1. OutboxFrame /\ UNCHANGED <<article, consumed, task>>
      BY <1>5, Unchanged_OutboxFrame DEF vars
    <2> QED BY <2>1, FrameStutters
  <1> QED BY <1>1, <1>2, <1>3, <1>4, <1>5 DEF Next

LEMMA InitSimulates ==
  ASSUME Init
  PROVE  Abstract!Init
  <1>1. \A e \in EventIds : ~Appended(e)
    BY DEF Init, Appended, FreeRow
  <1>2. \A a \in Articles : EventsOf(a) = {}
    BY <1>1 DEF EventsOf
  <1> QED BY <1>2 DEF Init, Abstract!Init, FirstRow, AbsentArticle, NoTask

(* Seen from articles and tasks, the whole pipeline - outbox, relays,     *)
(* broker, redeliveries, replays, crashes - is TaskConvergence.            *)
THEOREM Refinement == Spec => ImplementsTaskConvergence
  <1>1. IInv /\ [Next]_vars => [Abstract!Next]_(Abstract!vars)
    BY StepSimulates DEF Abstract!vars, Owed, Tracked
  <1>2. Init => Abstract!Init
    BY InitSimulates
  <1> QED BY <1>1, <1>2, Invariance, PTL DEF Spec, ImplementsTaskConvergence, Abstract!Spec

=============================================================================
