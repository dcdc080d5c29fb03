# Velis Feed: TLA+ specifications and proofs

Velis Feed collects articles from feeds and authors, publishes them, enriches
them with summaries and embeddings from AI models, and makes them searchable.
Its backend (Go, `src/backend`) keeps every fact in PostgreSQL and lets
asynchronous components follow the facts: a transactional outbox, relays,
RabbitMQ, a task projector, an AI executor, a search projection executor and an
online rebuild of the OpenSearch index. Around them stand the fetching of
sources, accounts and sessions, images in an object store, and what readers
use: the latest list, the search and the recommendations, each paged over facts
that change meanwhile. All of it runs several times at once, may die between
any two steps, and talks to systems that lose answers.

This directory models those components, checks them with TLC on small
instances, and proves the central ones with TLAPS for every instance.

    tlc -workers 2 -config Readers.cfg MCReaders.tla
    for m in ArticlePipeline SearchProjection IndexRebuild Enrichment SourceFetch Ingest Access Readers
    do tlapm ${m}_proofs.tla; done

`PROJECT.json` lists the runs, the source lines every definition stands for, the
hazards, the mutants that show each property can fail, and the theorems.


## 1. Inventory

Paths are below `src/backend/internal`.

| Component | State | Operations | What is hard | What makes it correct | Where |
|---|---|---|---|---|---|
| Article fact (`domain/article`, `application/article`) | `velis.articles`, revisions | create, update, publish, offline, restore, delete, ingest | authors, administrators and feeds write one row; optimistic lock | every public change leaves an event and a search target in its transaction | `ArticleFact` |
| Outbox and events (`application/articleevent`, `application/outbox`) | `velis.outbox_events` | append, clean up | unique key of article, type, version; clean-up beside replay | one event per version; none is dropped before it is published | `ArticlePipeline` |
| Relay (`application/relay`) | lease and token in the outbox row | claim, publish, confirm, fail | lost confirms, crash between publish and confirm, takeover of a lease | no event lost; only the holder settles a row | `ArticlePipeline` |
| RabbitMQ (`infrastructure/messaging/rabbitmq`) | queue, dead-letter queue | publish, deliver, ack, reject, dead-letter | duplicates, any order, delivery limit | a copy stays until the projector has recorded the event | `ArticlePipeline` |
| DLQ replay (`application/dlq`) | message in hand | get, republish, ack | interruption between two of them | a copy too many, never one too few | `ArticlePipeline` |
| Task projector and event back-fill (`application/asynctask`) | `consumed_events`, `async_tasks` | project, back-fill | late and duplicated events; back-fill beside writers | the task is the one the current article calls for; a generation fences old work | `ArticlePipeline`, `TaskConvergence` |
| Enrichment executor (`application/enrichment`) | lease, stage and attempts in `async_tasks`; results; current selections | claim, generate, repair, embed, save, fail, fall back | model calls outside transactions, leases, stale results, profiles that change | complete results under a success, one repair, no older result over a newer | `Enrichment` |
| AI back-fill (`application/enrichment/backfill.go`) | the same rows | advance a candidate | resets a task somebody works on | as above | `Enrichment` |
| Search projection (`domain/searchprojection`, `application/searchprojection`) | `search_projection_jobs`, `..._deliveries`, documents | advance, claim, read, Bulk, write back, replan, retry | stale reads, lost answers that land late, partly failed Bulk, takeover | a success means the index shows the article; documents never regress; slots settle | `ProjectionSlot`, `SearchProjection` |
| Index rebuild (`application/searchprojection/rebuild.go`) | `search_index_rebuilds`, `search_index_state`, aliases | start, resume, cutover, rollback, abandon, cleanup | resumed from watermarks after a crash; writers beside it; two systems of record | readers never get a stale document nobody owes; live indexes are not deleted | `IndexRebuild` |
| Source fetch, scheduler, source administration (`application/source`, `interfaces/scheduler`) | `sources` (leases, failures), `source_fetch_runs` | add, pause, resume, claim, fetch by hand, complete, fail, abort a stale run | a manual fetch beside the scheduler, a lease that ran out or was cut, a save that breaks half-way | a fetch that was cut saves nothing; runs end; failures in a row are failed runs | `SourceFetch` |
| Feed fetcher (`infrastructure/fetcher/httpfeed`) and ingestion | none; revisions of items | validate, resolve, connect, follow a redirect, parse, upsert | DNS that answers differently each time; duplicate or nameless items | public addresses only; the same document again changes nothing | `FeedFetch` |
| Accounts and sessions (`application/account`) | `users`, `auth_sessions`, `refresh_tokens` | register, login, refresh, log out, set role and status, first administrator, clean up | concurrent refreshes, reuse detection, operators at once | one successor per token; revoked is final; an administrator stays | `Accounts` |
| Login throttle (`application/account`) | `login_failure_events`, `login_blocks` | check, record a failure, clean up, resolve the address | failures recorded late and out of order | limits hold in every window; the clean-up is not seen | `LoginThrottle` |
| Idempotency (`application/idempotency`) | `idempotency_operations` | reserve, settle | a repeat beside the first attempt | a key settles with the run it started | `SourceFetch` (fetch by hand only) |
| Assets (`application/asset`) | `article_assets`, objects in MinIO | upload, confirm, bind, release, clean up | object and row in two systems, rows written back without a version | quota; images of deleted articles go, others stay | `Authoring` |
| Reads and caches (`application/articleread`, `articlecache`) | Redis | list, fill, invalidate | a fill that began before an invalidation, pages of any age | nothing withdrawn, nothing missed | `Reading` |
| Feedback (`application/articlefeedback`) | read windows, favourites, "not interested" | record, set, clear, expire | withdrawal between check and commit, the clean-up | only on public articles | `Recommend` |
| Recommendation (`application/recommendation`) | plans in Redis, signed cursors | profile, recall, rank, page, fill up | frozen candidates over moving facts | no repeat, nothing hidden shown, nothing lost | `Recommend` |
| Article search (`application/articlesearch`) | points in time, signed cursors | first query, continue, fuse, check, close | look-ahead, scan limit, stale documents, lost closings | order of the first page; no hit skipped; no point in time leaked | `ArticleSearch` |
| AI workflow and providers (`infrastructure/ai/eino`) | none | prompts, HTTP | - | outcome classes are inputs of `Enrichment` | - |
| Bootstrap, HTTP, CLI, configuration, Markdown, metrics, web client | none of their own | - | - | wiring, formats, pure I/O | - |

How they interact. A write of an article is one PostgreSQL transaction over the
article, its outbox event and its search target. Relays move outbox rows to the
broker; the projector turns each event, once, into a look at the article *as it
is now*, which decides the enrichment task. Executors run the task and select
results, again advancing the search target in their transaction. Search
executors bring every active index to the target. A rebuild adds a candidate
index to the active ones, fills it and moves the alias.

    feeds -> fetch -> ingestion      authors (text, images)
                    |                 |
    article tx --+-- outbox --> relay --> RabbitMQ --> projector --> async_tasks
                 |                                                      |
                 |                                        enrichment executor
                 |                                                      |
                 +-- search slot <------------------- selected AI result +
                          |
                search executor --> OpenSearch indexes <-- rebuild command
                                          |
    latest list (Redis)     search and recommendation pages
              \                           |
               +---- checked against the article facts, page by page


## 2. Modules

`ArticleFact` (the row of an article: statuses, revision, lock version, which
operation which row admits, what it leaves) is the base of everything. Writes
compare and set `lock_version` or hold the row lock, so a write is one step.

`ArticlePipeline` has one variable per table or place: `article`, `outbox`,
`workers` (relay goroutines between Claim and Confirm/Fail), `msgs` (copies in the
broker or in somebody's hand), `consumed`, `task`. Its actions are the handlers of
the user, admin and feed services, the relay (`Claim`, `PublishConfirmed`,
`PublishUnknown`, `PublishRefused`, `Confirm`, `Fail`, crash, lease expiry), clean-up, the
consumer (`Deliver`, `Project`, `Ack`, errors, lost connection) and the replay.
Relays are anonymous: any number of them run, as in production.

`TaskConvergence` is what the pipeline promises, without outbox, relay, broker or
consumer: a visible change leaves an article *owed* a look, a look brings its task
in line with the article of that moment. `ArticlePipeline` implements it with
`owed` = the articles that have an unconsumed event.

`ProjectionSlot` holds the domain functions of the search projection: targets,
`domain.Advance`, `NextDeliveryStatus`, `ConvergedStatus`, settlement, and
OpenSearch's `external_gte` versioning. `SearchProjection` is the executor over it:
`Advance` inside the transactions that change the fact, `Claim`, `ReadCurrent` (the
unlocked read), `ReplanStale`, `Bulk` with an outcome per item, `Complete` (the fenced
write-back), lease expiry with and without a holder, and `search retry` in two
steps, because its snapshot and its locks are of different moments. A request
whose answer was lost stays in `wire` and may land at any later time, or never.

`IndexRebuild` is the rebuild over the same slots: `rebuild` is the persisted row
(phase and watermarks), `cli` the program counter and the locals of the running
command, `alias`, `exists`, `doc` belong to OpenSearch, `served` is
`search_index_state`. Every call of the command is a step, and a crash may come before
each of the steps in `CrashSteps`; `Resume` starts from what was persisted.

`Enrichment` is the AI executor: `task` with stage, profiles, attempts, repair mark
and lease; `selection` with the summary and the embedding and what it was made
of; `workers` with what they read. `Save` takes the fence (and with it the task's row
lock), `CommitGeneration` and `CommitEmbedding` are the rest of the transaction; between
them the article may change, since the fence does not lock it. `Redeploy` moves to
the next configuration, `Backfill` is `AdvanceCandidate`.

`SourceFetch` has the claims of the scheduler (`ClaimDue`), of the CLI and by hand. A
claim, the record of its run, the network, and the save are four moments, the
process may stop between them, and a save may break after the run was marked
succeeded in memory. An administrator pauses, resumes and re-times a source at any of them. The
idempotency key of a fetch by hand is reserved in a transaction of its own and
settled with the save.

`FeedFetch` is what one fetch does: `Send` validates and resolves the URL, `Dial` resolves
again and connects, `Follow` takes a redirect, `Answer` has each class of answer and ingests
the document item by item (`After`, a recursive function that takes one item at a time
with `Take` and `Upsert` and counts it in the report), in one step since the code ingests in
one transaction. The DNS changes between any two steps.

`Accounts` has requests (login, refresh, authenticated calls) that read and then
write in another transaction with the clock of their beginning, and operator
commands under the admin advisory lock. `LoginThrottle` is what precedes a login: `Blocked`
is read first, the password is checked outside any transaction, and a failure is recorded for the
account and for the address one transaction each.

`Authoring` follows an image from the signed upload to the removal of its object,
with the article that shows it. Creating a row reads the usage without a lock and commits later (`CreateAsset`, `EndCreate`). A confirmation has a read and a commit, the clean-up a
list, a `Save` per row that compares nothing, and the removal of objects.

`Reading` is `ListLatest`: per page a cached or read batch of candidates, a snapshot of their
facts, and the fill of the cache; writes commit in between and invalidate later, or
never. `ArticleSearch` is both search services, from the point in time to the cursor;
`Recommend` is the feedback of a user and the recommendations that follow from it; an article
may be published for the first time while a walk is under way.
In the three of them `walk` (or `shown`) is what a client has got page by page since its
first query: the properties compare it with what was true all along. `Ordering` is what the
three ask of `ORDER BY`, `WHERE` and `LIMIT`: a set in an order, the elements of a sequence at some
positions, the first few; by rank, so that they can be proved about.

### Instances and sums

`Ingest` (pipeline, `SourceFetch`, `FeedFetch`, `Authoring`), `Access` (`Accounts`, `LoginThrottle`)
and `Readers` (pipeline, `Reading`, `ArticleSearch`, `Recommend`) put components together which in
the code run beside each other and share no state but the article facts, of
which each has its own abstraction: `INSTANCE ... WITH` gives each its constants and
renames its variables, `focus` is chosen in the initial state and says whose steps a behaviour
takes. Interleaving them would multiply their states and add no behaviour of any.
What these modules define besides is only conjunctions of the components'
properties, under one name for the run; the comment at each part, in the component's module, states it.
`MCRebuild` holds two instances of the same module with different bounds.

The other `MC` modules give constants their values for TLC: `MCIngest` to `Ingest`, `MCReaders` to `Readers`, `MCAccess` to `Access`,
`MCArticlePipeline`, `MCSearchProjection`, `MCIndexRebuild` and `MCEnrichment` to one component each.

A `*_proofs` module holds the theorems about the module it is named after. `PROJECT.json` (`map`)
says which lines each definition translates.


## 3. What is checked

Definitions commented `Mutant:` are plausible mistakes (a dropped guard, a lost
fence, a forgotten reset). Putting one in the place of the definition after it makes
TLC report the property the mutant is listed with, so no property is vacuous. A
property that is a conjunction has a mutant for each of its parts of substance.

| Run | Checks | Bounds |
|---|---|---|
| `readers` (`MCReaders`) | pipeline: `TaskReflectsFact`, `ObservedCoversConsumed`, `OneEventPerVersion`, `GenerationFences`, `ImplementsTaskConvergence` | an author's article, 3 events, 3 versions, the back-fill after its outbox row was cleaned up |
| | `LatestWalk` = `WalkComplete`, `WalkDescends`; `NothingWithdrawn` | 2 articles, 2 sort times, pages of 1, 2 candidates per request, 2 writes, 3 ticks, 2 walks |
| | `SearchWalk` = `KeepsOrder`, `NothingStale`, `SkipsNone`; `PitsAccounted` | 3 articles, pages and batches of 1, keyword and hybrid, 1 write, 1 tick, 1 lost reply or restart |
| | `RecommendWalk` = `NoRepeat`, `OldNewsStaysHidden`, `WalkShowsAll`; `FeedbackHolds` = `FeedbackWhilePublic`, `CleanupUnseen` | 2 articles, any of them not published yet, 1 write, 1 feedback (a read or a dislike), 1 walk, 2 ticks, 2 read windows a day, reads kept until the next window |
| `ingest` (`MCIngest`) | pipeline: `NoEventLost`, `OnlyHolderSettles`, `EventDelivered` | a feed's article, 1 event, 3 faults, delivery limit 1 |
| | `CutNeverSaves`; `RunsAccounted` = `KeySettledByItsRun`, `FailuresAreRuns`; `RunsEnd` | 1 source, 1 key, 3 claims, 1 crash or broken save |
| | `FeedFetchSafe` = `OnlyPublicReached`, `RedirectBudget`, `SameDocumentUnchanged` | 2 hosts, 2 redirects, 4 documents, 2 fetches |
| | `AuthorWithinLimits` = `QuotaHolds`, `PublishedIsNotBlank`; `DeletedArticleReleases` | 2 images, quota of 1, 2 confirmations under way, 1 article, 2 writes, 1 failure of the clean-up |
| `search` | `SucceededIsCurrent`, `IndexNeverRegresses`, `SuccessIsFinal`, `SlotSettles` | 1 article, 2 indexes, 2 attempts, 1 AI result, and either 2 versions and 1 fault or 1 version and 2 faults |
| `rebuild` (`MCRebuild`) | `ServedOrOwed`, `CandidateComplete` | 1 article older than the slots, 2 versions, 3 indexes (two rebuilds), 2 crashes at the steps of `PairedSteps` |
| | `FaultyTypesOK` (with `VersionsComeFromSlots`), `FaultyAliasIsLive` = `AliasIsLive` | 2 versions, 2 indexes, a crash before any step, 1 lost item, 1 abandon, an insert that stays open, cleanup of any candidate |
| `enrichment` | `SucceededIsComplete`, `RepairOnce`, `SelectionNeverRegresses`, `TaskSettles` | 1 feed article of 2 revisions, 3 deployments, 2 attempts, a back-fill per generation up to 1, 1 crash or outlived lease |
| `access` (`MCAccess`) | `OneChain` = `TokenChain`, `OneSuccessor`; `DecisionsHold` = `AdminStays`, `OnlyFirstAdmin`, `RevokedIsFinal` | 2 users that an operator writes twice after they were made, 1 session of 2 tokens, 2 requests or commands under way, names interchangeable (`Symmetry`) |
| | `FailuresCounted` = `FailuresWithinLimit`, `CleanupUnseen`, `AddressNotChosen` | 1 account, 2 addresses of which one is a proxy, calls direct and through one or two proxies with and without headers, limits 1 and 2, an address window longer than block and retention cover, 2 logins, 4 ticks |
| `pipeline_private` | `PrivateEditIsSilent` fails | finding 1 |
| `search_isolation` | `FailureIsIsolated` fails | finding 2 |
| `rebuild_catchup` | `ServedOrOwed` fails with 1 lost item | finding 3 |
| `enrichment_attempts` | `AttemptsBounded` fails | finding 4 |
| `asset_images` | `ImagesStay` fails | finding 5 |
| `recommend_dismissed` | `DismissedNeverShown` fails | finding 6 |

Each passing run also checks the type invariants (`TypeOK`, `AllTypesOK`).

What they show. Events in any order, duplicated or late, and the back-fill, leave
the right task under a growing generation, and the pipeline implements
`TaskConvergence`; no three of lost confirm, refused publish, crash, outlived lease,
redelivery and interrupted replay lose an event, and each is consumed or waits in the
dead-letter queue. A success of the search projection is never a lie, late requests
never bring an old document back, a worker that lost its lease undoes no
success, and every slot settles. Rebuilds serve no stale document that nobody owes and
delete no index in use. Sources, sessions, throttle and quota keep what they
promise under concurrent callers. A reader who pages through the latest list,
a search or recommendations gets nothing withdrawn, nothing twice and everything
that could be shown all along, up to the exceptions the properties name (an
article sorted anew, a cursor that expired).

Why the bounds are enough. Articles do not share rows, messages or slots, so one
article shows the interleavings of a slot or a task; that no event reaches another
article's task is proved for any number of them. Of the five kinds of feedback
(`FeedbackKinds`) `readers` has a read and a dislike, the one that expires and the one that
hides; `recommend_dismissed` and the proofs have all. Three versions give a fact before, during and after a
step that was in flight; the search and rebuild runs have two, one before
and one after, and the search also an AI result between them. Two indexes are
the least for a partial failure, three for a second rebuild while the first can still be rolled back. One fault exposes a
single point of failure, two a failure during recovery: in `search` a worker that outlived its lease
and then fails late, beside the one that took over. Three versions of an account let the second of two
administrators be made and then taken down again, so that two operators can each take down one of them. Pages and batches of one
article make every position a page boundary and every article a look-ahead; two
walks let a cached page outlive the first. Limits of
one and two are the least at which one failure too many and the last one
allowed differ. Tokens and claims are
numbered instead of drawn at random: equality is all the code asks of them. Times
are replaced by what is compared with them: `due` and `expired` may become true at
any moment, so every value of the lease and the back-off is covered.

`CHECK_DEADLOCK FALSE` stands in every configuration since the bounds on versions,
walks and faults let the system come to rest with nothing to do.

### Findings

1. `pipeline_private`: a feed that revises an offline article writes a `revised` event
   (`application/article/service.go:105` looks at updated or not, never at the status);
   the reliable-article-async specification forbids events for private edits. The
   projector survives it: the task stays canceled.
2. `search_isolation`: once one index failed for good the slot is `failed`, and `Claim` takes
   no failed slot, so another index waiting for its retry is never retried, although
   `domain/searchprojection/projection.go:229` says that other deliveries are not
   affected.
3. `rebuild_catchup`: the catch-up skips an item that failed, then stores the
   watermark beyond it (`rebuild.go:349-362`); the next scan does not return it, the delivery
   was marked done by the snapshot, and the cutover serves the old document. The
   comment beside it says that the next round scans the slot again.
4. `enrichment_attempts`: a task whose executor died is claimed again whatever its
   number of attempts; only `finishFailure` compares it with the maximum.
5. `asset_images`: the clean-up lists unbound images, then changes and saves them one by
   one without a transaction (`application/asset/cleanup.go:95`), and `Save` compares
   nothing; an edit that binds one in between is overwritten and the image of a current
   article is deleted. The comment at `cleanup.go:69` names three sources of deletion, all of them
   images that are not bound to a live article.
6. `recommend_dismissed`: a page reads the published facts first and the exclusions
   of published articles afterwards (`application/recommendation/service.go:266-277`); an article
   the user dismissed and that is withdrawn between the two passes both. The
   article-recommendation specification excludes a dismissed article
   unconditionally.

Seen while modelling, without a run of its own. In the relay: the back-off is
computed in floating point and converted before it is capped (`relay/service.go:132`),
which from about the 35th attempt is out of the range of a Duration; the model
lets a row become due after any time. In the accounts: a login that verified the password while
an operator disables the account inserts its session after the revocation
(`account/auth.go:127`), and that session is live once the account is enabled
again. In the throttle: `validateThrottleConfig` (`config/auth.go:189`) lets the window of the addresses be
longer than the block and than the 30 minutes failures are kept (`account/cleanup.go:15`); the limit then holds over the
part of the window that both cover (`Horizon`), not over the window. In the uploads: the pending limit is read
without a lock (`asset/service.go:83`), so two uploads begun together may exceed it; the quota is checked again
under a lock. In the search: a page that fails closes the point in time its still valid cursor
names (`articlesearch/service.go:94`), and so does the last page when its answer is lost, while
openspec/specs/article-search/spec.md:57 lets a valid cursor go on in the same snapshot;
`PitsAccounted` therefore only demands that no point in time is left open that no cursor was given for. In the rebuild: `abandon` of a rebuild
that already serves drops deliveries it owed (`rebuild.go:672`); a change numbered before the
rebuild began and committed after its snapshot is missed
(`search_index_rebuild_repository.go:71`; with `SlowInserts = TRUE`, `ServedOrOwed` fails); a crash
between the move of the alias and the state row leaves the row naming the old
index (`rebuild.go:600`), which is why the first instance of `rebuild` uses `PairedSteps`; a writer between
`DetachCandidate` and the end of the phase registers the index again
(`rebuild.go:653`); and `cleanup` asks for deliveries and aliases only, so it removes the candidate
of a rebuild under way that has neither yet (`rebuild.go:719-732`). In the search projection: `search retry` racing the last write-back
leaves a pending delivery in a failed slot; the back-off of a delivery is
overridden by its slot's. In enrichment: a task bound to a profile that is no
longer configured waits for an operator; an embedding back-fill can replace a
queued regeneration; a rule-based summary can replace one a model made under an
older profile.

### Fairness

Only what runs by itself is fair, and only weakly. Relays, the enrichment executor
and the search executor poll on tickers and are restarted by the supervisor
(`bootstrap/worker.go`), their calls have deadlines, and leases run out by the clock:
`RelayStep`, `ExecutorStep`. The broker delivers while a consumer is connected:
`ConsumerStep`. A transaction or replay once begun ends. Nothing is assumed of authors,
feeds, administrators, operators, retention, the order of messages, or that a lost
request ever lands. The scheduler claims due sources, intervals and leases pass
by the clock, and a fetch has a deadline: `ClaimDue`, `ComeDue`, `Expire`, `Work` of
`SourceFetch`. The clean-up of images runs on a ticker and time passes: `Clean`, `Age` of
`Authoring`. `Ingest` states these as weak fairness of disjunctions with one disjunct
per component; `focus` never changes, so at most one disjunct is ever enabled and
each formula is the fairness of that action. Fairness is per article or per event: claims are ordered by
due time, so no row is passed over for ever, and the fairness is on the disjunction
of a component's steps, not on each action.


## 4. What is proved

Every theorem holds for every value of the constants that the named assumption of its
module admits (`ArticleAssumption`, `PipelineAssumption`, `SlotAssumption`, `ProjectionAssumption`,
`RebuildAssumption`, `EnrichmentAssumption`, `SourceFetchAssumption`, `IngestAssumption`,
`AccountsAssumption`, `AccessAssumption`, `ReadersAssumption`). These are types, with few exceptions that the
code gives reasons for. Usernames, article ids (`bigint GENERATED ALWAYS AS IDENTITY`) and
images are finite sets; a document is a finite sequence of items; the answers of an
index name no article twice (`parseSearchResponse` refuses one that does); a page of the latest list, at most 50, is
shorter than the 500 candidates a request may check (`articleread/latest.go`), and a search may scan
at least one batch. `NoIndex` is no index and `Unattended` no key. Of the throttle's
configuration only what `config/auth.go` validates is assumed, and that a login takes no longer than the
24 hours an expired block is kept (`account/cleanup.go:16`). The few theorems that need more say so as a hypothesis, below.
The runs check the same formulas on their instances, and the larger invariants were put
to TLC before they were proved.

### `ArticlePipeline_proofs`

| Theorem | States |
|---|---|
| `Invariance` | `Spec => []IInv` |
| `TypeCorrect` | `Spec => []TypeOK` |
| `EventsSurvive` | `Spec => []NoEventLost` |
| `TasksConverge` | `Spec => []TaskReflectsFact` |
| `ObservationsCover` | `Spec => []ObservedCoversConsumed` |
| `EventsDistinct` | `Spec => []OneEventPerVersion` |
| `LeaseFencing` | `Spec => OnlyHolderSettles` |
| `GenerationsFence` | `Spec => GenerationFences` |
| `Refinement` | `Spec => ImplementsTaskConvergence` |

`NoEventLost` is not inductive. Whoever drops a copy, or marks a row published,
relies on knowledge gathered earlier: a worker that may confirm has seen a copy
enqueued, a message waiting for its ack has been recorded, a replayed message
has a new copy. `Ledger` says so for each of them. `OneEventPerVersion` needs that no
event is ahead of its article (`Versions`), `OnlyHolderSettles` that a lease carries the
newest token (`Tokens`), and `NoEventLost` follows from `Ledger`. `IInv` is the conjunction with the
type invariant; one lemma per component shows that its steps keep each part.

### `SearchProjection_proofs`

| Theorem | States |
|---|---|
| `Invariance` | `Spec => []IInv` |
| `TypeCorrect` | `Spec => []TypeOK` |
| `SuccessIsCurrent` | `Spec => []SucceededIsCurrent` |
| `IndexOrder` | `Spec => IndexNeverRegresses` |
| `SuccessStays` | `Spec => SuccessIsFinal` |

A document, a request on its way, an executor and the slot each carry a stamp,
that is a generation and a target. `OrderedAt` says that no stamp of an article is newer than the
slot's, that equal generations carry equal targets and that an older one carries no newer
fact: so a document as new as the slot is the slot's (`NewestIsSlot`), whoever
wrote it and however late it landed. `SlotFollowsFact` ties the slot's target to the
article, which makes a success current; `SuccessIsShown` carries what an executor knows from
the answer to the write-back. `OneHolder` (a token belongs to one executor, and what its
holder has still to write back has not succeeded) and `PickedStayFailed` (what `search
retry` has locked stays failed) are why a success is not undone. Two facts about
the code came out of it: the write-back needs no comparison with the document, since generation
and token together imply it; and the replanning branch of the executor finds the slot
already advanced, because every transaction that changes the fact advances it.

### `IndexRebuild_proofs`

| Theorem | States |
|---|---|
| `Invariance` | `Spec => []Inv` |
| `TypeCorrect` | `Spec => []TypeOK` |
| `VersionsAreOfSlots` | `Spec => []VersionsComeFromSlots` |
| `AliasLives` | `Spec => []AliasIsLive` |
| `CoherentInvariance` | `Undisturbed => (Spec => []IInv)` |
| `CandidatesAreComplete` | `Undisturbed => (Spec => []CandidateComplete)` |
| `ReadersAreServed` | `Undisturbed => (Spec => []ServedOrOwed)` |

Two invariants, since two things are promised under different conditions. `Inv` holds
whatever fails: the item a command has in hand carries a generation of its slot
(`ItemAtHand`), and a command that is about to set the row, or to remove an index, has made sure
in an earlier step that the index exists, or is not the one in use (`IndexAtHand`).

`IInv` adds `Coherent`, which says what the candidate holds at each step of the command:
the slot tells the fact (`SlotsTell`), the phase admits the step (`Phased`), the alias is where the
row says except between the two steps of a switch (`Places`), every index that is read,
may be read next or may be gone back to shows each article or is owed it (`ReadyComplete`),
a change up to the watermark is in the candidate, owed, or an article the snapshot
has not come to (`CandidateSound`), and for each of the three loops what has been
read is still the fact unless a newer change, above the watermark, will bring
the article again (`SnapshotItem`, `DrainItem`, `ScanItem`).

`Undisturbed` names what this needs: no Bulk item of the command fails (finding 3), no insert
stays open past the snapshot, nothing under way is abandoned or cleaned up, and the command does not stop
between the alias and its row. These are the bounds of the first instance of run
`rebuild`; crashes everywhere else, resumptions, writers, executors and further rebuilds are
all in. `rebuild_catchup` shows what is lost without the first condition, and section 3 names
the code behind the others.

### `Enrichment_proofs`

| Theorem | States |
|---|---|
| `Invariance` | `Spec => []IInv` |
| `TypeCorrect` | `Spec => []TypeOK` |
| `RepairsOnce` | `Spec => []RepairOnce` |
| `SuccessIsComplete` | `Spec => []SucceededIsComplete` |
| `RevisionsAdvance` | a selection never goes back to an older revision |
| `LateResultsLose` | `ProfilesAscend => (Spec => SelectionNeverRegresses)` |

A token is drawn once in a generation, so whoever presents it is one executor (`Tokens`),
and what the fence compared is still so when the transaction commits (`SavingIsFenced`). The
repair is reserved in the task before it is made (`RepairReserved`), and an embedding is of
the summary that is still selected (`ReadIsCurrent`), since only the holder of the lease could have
replaced it. `ProfilesAscend` says that no profile is deployed again after its
successor, which is how they are numbered; going back to an older one replaces a summary on purpose.

### `SourceFetch_proofs` and `Ingest_proofs`

| Theorem | States |
|---|---|
| `SourceFetch_proofs!Invariance`, `TypeCorrect` | `Spec => []IInv`, `[]TypeOK` |
| `TakenBackNeverSaves` | `[]CutNeverSaves` |
| `FailuresCount`, `KeysSettle` | `[]FailuresAreRuns`, `[]KeySettledByItsRun` |
| `Ingest_proofs!TakenBackNeverSaves` | `AllSpec => []CutNeverSaves` |
| `RunsAreAccounted` | `AllSpec => []RunsAccounted` |
| `AuthorsWithinLimits` | `AllSpec => []AuthorWithinLimits` |
| `FetchesAreSafe` | `AllSpec => []FeedFetchSafe` |
| `Ingest_proofs!AllTypesHold` | `AllSpec => []AllTypesOK` |

Of a source only the newest generation can be held (`Leases`), its run is the only one
that can be settled (`RunsDrawn`), and its fetch has read the failures the source still has
(`WorkersDrawn`): so counting from a read of the claim counts failed runs. `KeyOnce` keeps a
second fetch or run of a key away, `KeyWithRun` lets both succeed together. A
behaviour of the sum is one of its parts, so `Ingest_proofs` takes these from an instance of
`SourceFetch_proofs`. The quota rests on `Uploaded` (exactly the rows
confirmed once count) and on `ListedCount`: the clean-up writes back rows it has read long
before, yet a row that is listed counted then, and one it is about to mark counts still.

The ingestion of a document is a loop, and `RunOf` the sequence of accumulators it passes
through. That there is one (`RunExists`), and what holds after each item (`RunHolds`), are
inductions over the items, done by the least item at which they fail (`NoLeast`), since the
library's induction rules cannot be instantiated here. After k items the report adds up to k, each
item is the current revision of its identity unless a later one shares it, and where all were
current before, nothing has changed. `Accounted` keeps this of the last document, from which
`SameDocumentUnchanged` follows.

### `Access_proofs`

| Theorem | States |
|---|---|
| `Invariance`, `TypeCorrect` | `Spec => []IInv`, `[]TypeOK` |
| `TokensChain` | `Spec => []OneChain` |
| `OperatorsDecide` | `Spec => DecisionsHold` |
| `FailuresAreCounted` | `AllSpec => []FailuresCounted` |
| `AllTypesHold` | `AllSpec => []AllTypesOK` |

The tokens of a session that can be refreshed are a `Chain`, and who has exchanged a
token leaves none up to it unconsumed (`Spent`), which is why a second request with it fails.
`CommandsAlone` is the admin advisory lock: what a command counted is so when it commits.
`FullIsBlocked` is the heart of the throttle: a window that is full is blocked to its end
for every login that may still be recorded in it, however late, so none is recorded
beyond the limit (`WithinLimit`), and what the clean-up took is older than any window in use
(`Retained`), both as far as block and retention cover the window (`Horizon`, `Kept`), which for the default
configuration is all of it. The address a failure is counted under is the client's own or, for a
malformed header, the proxy's it came through (`OwnAddress`).

### `Readers_proofs`

| Theorem | States |
|---|---|
| `LatestWalkHolds` | `AllSpec => []LatestWalk` |
| `NothingWithdrawnHolds` | `AllSpec => []NothingWithdrawn` |
| `SearchWalkHolds` | `AllSpec => []SearchWalk` |
| `PitsAccountedHolds` | `AllSpec => []PitsAccounted` |
| `RecommendWalkHolds` | `AllSpec => []RecommendWalk` |
| `FeedbackIsSafe` | `AllSpec => FeedbackHolds` |
| `ReaderTypesHold` | `AllSpec => []AllTypesOK` |

The lemmas about `Ordering` come first: sorting by rank is a bijection that follows the order
(`OrderedLists`), and filtering and cutting keep the elements and their order (`AtSelects`, `TopIsPrefix`).

*The latest list* (`ListInv`). A cached page is a piece of the list under its position (`Fits`) and has
whatever has not changed since a snapshot's length before it was made, or leaves
it for later pages (`Right`); that is what a fill that began before an invalidation may
still get wrong, and only for articles that changed. A request works on a page that
is not too old for its walk (`PageHolds`) and on facts that agree with the articles
that have not changed since the walk began (`ViewHolds`). What a walk has listed lies at or above its position
(`WalkDown`), and what it has to list is listed or below (`WalkCovers`); a request in flight
stands further down in the same way (`Under`, `Covers`).

*The search* (`SearchInv`). What was shown, and what the cursor has passed, are the same, of all
the candidates that stayed public (`WalkAt`), be the cursor a rank in a point in
time (`PagedHolds`) or an offset into a frozen order (`FrozenHolds`). A request that pages
through a point in time keeps what it has found public between the cursor and the rank it has
scanned to, and has all of it up to the one candidate more than a page (`BatchHolds`): so
neither the look-ahead nor the limit on scanned candidates skips one. `PitHolds` says
whose a point in time is.

*Feedback* (`FeedbackInv`). The share lock keeps an article public from the check to the commit
(`LockHolds`), and expiry is what the readers of feedback already ask for, so the clean-up is not seen.

*Recommendations* (`RecommendInv`). Plans, whether cached, ranked or frozen in a cursor, name no
article twice, and hold the current vector of whatever has not changed since they were made
(`OrderHolds`). `Gathered` describes a walk by where its cursor, or the request in flight, stands:
everything shown is of the plan up to the offset, or not of the plan and not below the position in the latest order; and
of both everything that nothing happened to (`Steady`) has been shown. It survives a cursor that changes its plan
for the latest list, since the plan's articles are then left out of it. `Agrees` is what the two reads of
a page may be relied on for, and `Timely` what a page shows.

### Left to TLC

Every invariant and every action property of the passing runs is a theorem, but for the
ones below.

Liveness (`EventDelivered`, `SlotSettles`, `TaskSettles`, `RunsEnd`, `DeletedArticleReleases`), since
the prover has no ENABLED. `FaultyTypesOK` and `FaultyAliasIsLive` of the second instance of `rebuild` are
`VersionsAreOfSlots`, `TypeCorrect` and `AliasLives` of `IndexRebuild_proofs` at that instance's constants. No module
that a theorem reaches declares a RECURSIVE operator.


## 5. Abstractions and limits

- A payload, document, summary or vector is represented by the versions it was
  made from; hashes are equal exactly when these are.
- PostgreSQL runs a transaction as one step, except where its parts are at
  different moments and that matters: the statement of `search retry`, the fence and
  the writes of `Enrichment`, the open insert of `IndexRebuild`. Deadlocks between row
  locks, which PostgreSQL resolves by aborting one side, are not modelled.
- `ArticlePipeline` folds the executor's statuses into "pending"; `Enrichment` has them
  and derives the task without the events. `SearchProjection` takes the set of active
  indexes as fixed; `IndexRebuild` changes it and takes an executor as one step.
- `IndexRebuild` runs one command at a time, since it is started by hand, takes a batch
  as one article, and lets `waitLeaseBarrier` only delay. Writing to an index that
  does not exist creates it, which is OpenSearch's default. Schema identity, `InitIndex`
  and `CloseRollbackWindow`, which no command calls, are left out.
- A model call of `Enrichment` changes nothing shared, so it is part of the step that
  writes its outcome; the repair call, which must not be made twice, is a step.
- `SourceFetch` keeps the generation of a lease, not its owner or deadline; intervals,
  error codes and metadata are left out. Of idempotency only the fetch by hand
  is there: `Execute`, which runs a write and stores its answer in one
  transaction, and the retention of keys are left out.
- `FeedFetch` keeps of an address whether it is public, of an item its identity
  and hash. XML, charsets and sanitizing are left out, and so is a proxy beyond the fact that with
  one the addresses are not checked.
- `Accounts` and `LoginThrottle` leave out passwords, signatures, the form of names and the audit log;
  a token, a session and an account are their names.
- `Authoring` has one author and images of one size. What an image's bytes are, its
  private reading and its signatures are left out.
- `Reading`, `Recommend` and `ArticleSearch` know an article by visibility, sort time and vector. The cache of card
  fragments, which is keyed by what the snapshot identifies, and the budget of Redis
  calls are left out; scores are left open where they are floating point
  (`Recommend` lets a plan order its candidates in any way), and are ranks where
  they are fused (`ArticleSearch`).
- In the sums, articles do not flow from one component into another: that a
  write is one transaction over article, event and slot is `ArticlePipeline`'s and
  `SearchProjection`'s own.
- Token budgets, chunking, prompts, parsing and the numbers of the back-offs are not
  modelled.


### Not modelled

The AI workflow and its providers are prompts and calls to external models; their
outcome classes are inputs of `Enrichment`. Bootstrap and supervision are wiring,
and appear as the fairness. HTTP, CLI and presenters decode and format. Configuration, metrics
and the rendering of Markdown are pure and have no protocol to check; the
embedding storage package is empty. The web client only calls the HTTP API.


## 6. Plan

Done: all modules of section 2, their runs and their proofs.

Left, in this order:

1. A composition of `SearchProjection` and `IndexRebuild` in which the executor's leases run
   beside the rebuild.
2. `Idempotency.Execute` with the writes it wraps, and the retention of its keys.
3. The numbers of the relay's back-off against a reference definition.
4. The cache of card fragments with its degraded modes.
