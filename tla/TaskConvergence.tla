--------------------------- MODULE TaskConvergence ---------------------------
(***************************************************************************)
(* What the article pipeline promises, with no outbox, relay, broker or   *)
(* consumer in it: a visible change of an article leaves it owed a look,   *)
(* and a look brings its enrichment task in line with the article as it is *)
(* at that moment.  An article nobody looks at keeps its task; an article *)
(* that is tracked and owes nothing has the right task.                    *)
(*                                                                         *)
(* ArticlePipeline implements this specification with owed = the articles *)
(* that have an event the projector has not consumed.                      *)
(***************************************************************************)
EXTENDS ArticleFact

VARIABLES article,  \* the article rows
          task,     \* the enrichment task of each article
          owed,     \* articles with a look outstanding
          tracked   \* articles that have ever been announced

vars == <<article, task, owed, tracked>>

SameWork(t, u) == t.status = u.status /\ t.rev = u.rev

(* The task the current article calls for.                                 *)
RightTask(t, row) ==
  IF Public(row) THEN t.status = "pending" /\ t.rev = row.rev
                 ELSE t.status # "pending"

(* A change the public can see.                                            *)
Visible(before, after) ==
  \/ Public(before) # Public(after)
  \/ Public(after) /\ after.rev # before.rev

Init ==
  /\ \A a \in Articles : article[a].status \in {"absent", "published"}
  /\ \A a \in Articles : task[a].status = "none"
  /\ owed = {}
  /\ tracked = {}

OnlyAt(f, a, before) == \A b \in Articles \ {a} : f[b] = before[b]

(* One article changes; a visible change makes it owed, a private one may. *)
Change(a) ==
  /\ article'[a].ver = article[a].ver + 1
  /\ OnlyAt(article', a, article)
  /\ owed' \in {owed, owed \cup {a}}
  /\ tracked' = IF a \in owed' THEN tracked \cup {a} ELSE tracked
  /\ Visible(article[a], article'[a]) => a \in owed' /\ a \in tracked'
  /\ UNCHANGED task

(* An article is announced without a change (the back-fill).               *)
Announce(a) ==
  /\ owed' = owed \cup {a}
  /\ tracked' = tracked \cup {a}
  /\ UNCHANGED <<article, task>>

(* A look: more may be outstanding after it.  New work, a new generation. *)
Look(a) ==
  /\ a \in owed
  /\ RightTask(task'[a], article[a])
  /\ task'[a].gen \in {task[a].gen, task[a].gen + 1}
  /\ task'[a].gen = task[a].gen <=> SameWork(task[a], task'[a])
  /\ OnlyAt(task', a, task)
  /\ owed' \in {owed, owed \ {a}}
  /\ UNCHANGED <<article, tracked>>

Next == \E a \in Articles : Change(a) \/ Announce(a) \/ Look(a)

Spec == Init /\ [][Next]_vars

(* A tracked article that owes nothing has the right task.                 *)
Converged == \A a \in tracked \ owed : RightTask(task[a], article[a])
=============================================================================
