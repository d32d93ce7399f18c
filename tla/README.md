# Price monitor: a specification of the collection and alert pipeline

The price monitor watches the shop listings of a set of *monitored models*. A scheduler creates
*collection runs*; a desktop collector claims a run, reads prices on screen, and submits one report;
the API stores the report, evaluates it against the catalog's rules, stores *price alerts*, and tells
operators in one WeCom message per run. Operators then decide about the alerts.

The TLA+ modules here model the part of this that is hard to test: a run's life in the database under
concurrent schedulers, operators and agents; the collector that works it, with its checkpoints, over a
connection that loses calls; evidence files that several processes publish; report ingestion around a
transaction boundary; what captured prices become, from the page's labels to alert and report page;
alert evaluation and delivery with leases, crashes and an unreliable receiver; and decisions that race.

## Inventory

Paths are relative to `src/`; `api/` stands for `apps/api/src/`, `collector/` for `apps/collector/src/`.

| Component | Code | State | Operations | Hard because | What makes it correct |
|---|---|---|---|---|---|
| Run queue | `api/collection/collection-run-queue.service.ts` | rows of `CollectionRun` | `createOrCoalesce`, `requeuePaused` | scheduler and operators at once, serialization retries | one unfinished run per model; a coalesced slot points at a run that works |
| Collector agent API | `api/collector-agent/*` | status, agent, frozen job, heartbeat of a run | claim, heartbeat, pause, release | several processes with one token, expired leases, late calls | agent and job frozen from the first claim; closed runs stay closed |
| Report ingestion | `api/collection/desktop-report-ingestion.service.ts`, `prisma-desktop-report.repository.ts` | report digest, summary, exploded rows | `ingest`, `uploadEvidence`, `recordSystemError` | checks before the transaction, unclear commits, replays | one report per run; who is acknowledged submitted the stored one |
| Evidence store | `api/collection/collection-evidence-store.ts` | files, lock, publication and reclaim claims | `put`, `read`, `has` | processes racing on directory entries, leases | an object is written whole, once, and never replaced |
| Alert evaluation | `api/alerts/run-alert-reconciler.ts`, `prisma-run-alert-evaluation.repository.ts`, `api/collection/run-alert.service.ts`, `prisma-run-alert.repository.ts` | `alertEvaluation*` columns, price alerts, notification batch | claim, evaluate, mark, record failure | leases, limited attempts, crashes, repeated evaluations | every reported run gets one batch; every alert is listed by it |
| Alert notification | `api/alerts/run-alert-notifier.ts`, `prisma-run-alert-notification.repository.ts`, `wecom/wecom.client.ts` | batch state, attempts, delivery fields of the alerts | claim batch, deliver, complete, sweep | lost answers, slow senders, crashes after delivery | at most one message per run; the row tells the truth |
| Approval | `api/alerts/run-alert-notification-approval.service.ts`, `api/settings/*` | approval setting | preview, approve | concurrent with loop and ingestion | nothing is sent before the first approval |
| Alert actions | `api/alerts/alert-action.service.ts`, `prisma-alert-action.repository.ts`, `api/audit/*` | alert status, action history, audit log | decide | check before transaction, separate audit | final decisions are final; history and audit tell what happened |
| Manual classification | `api/operations/manual-classification.service.ts` | candidate's decision | classify | competes with the next report and evaluation | an operator's decision survives |
| Collector worker | `collector/agent/collector-worker.ts`, `evidence-uploader.ts`, `collector-api-client.ts` | job in hand, heartbeat timer, uploaded keys | claim, process, upload, release, stop | retries of unclear calls, shutdown, restart | every claimed run is reported, paused or released |
| Runner and checkpoint | `collector/core/*` | checkpoint file, report so far | search, open, enumerate, capture, resume | crash between any two steps | a resumed run reports what an uninterrupted one would |
| Desktop driver and helper | `collector/drivers/macos/*`, `apps/collector-macos` | child process, pending requests | read screens | timeouts, restarts of the helper | an answer reaches its own request |
| Scheduler, processor | `api/collection/collection.scheduler.ts`, `collection.processor.ts` | repeatable jobs in Redis | register, process | partial failure | schedules follow the settings |
| Settings, secrets | `api/settings/*` | settings rows | update, approve | optimistic updates | no update is lost |
| Catalog, import | `api/catalog/*` | models, listings, rules | create, edit, import, enable | edits while a run is worked | one active listing per model |
| Comparison, pricing | `api/collection/run-sku-comparison.ts`, `api/matching`, `api/pricing`, `packages/config` | none | pure functions | boundary arithmetic, combinations | agree with a declarative definition |
| Report queries | `api/operations/*` | none | read | size | totals agree with rows |
| Runtime | `api/runtime.ts`, `runtime-lifecycle.ts`, `startup/*` | resources | start, close | failure half-way | everything opened is closed |
| Legacy collection service | `api/collection/collection.service.ts` | Redis lock | collect | lock and TTL | not constructed by the runtime |
| Controllers, auth, health, web client, seed, scripts | `api/http`, `api/auth`, `api/health`, `apps/web`, `scripts`, `tests` | none of their own | translate and present | – | – |

How they interact: the scheduler's queue calls `enqueueEnabledModels`; agents and operators call over
HTTP; ingestion calls `reconcileRun` after its transaction; a 30-second timer calls `reconcilePending`;
everything else is shared state in PostgreSQL, reached through transactions and guarded updates. One
API process serves all of it.

`PROJECT.json` lists the components with their status and, under `hazards`, what in this code a test
would hardly reach, line by line, with the properties that would catch it.

## Modules

| Module | What it is |
|---|---|
| `CollectionRuns` | run queue, collector agent API and report ingestion over the `CollectionRun` table |
| `RunLedger` | abstract: what those three promise together |
| `CollectionRunsLedger` | `CollectionRuns` implements `RunLedger` |
| `CollectionRunsProofs` | theorems about `CollectionRuns` |
| `CollectionRunsLedgerProofs` | theorem: `CollectionRuns` implements `RunLedger` |
| `RunAlerts` | alert evaluation and notification delivery |
| `AlertOutbox` | abstract: what delivery promises |
| `RunAlertsOutbox` | `RunAlerts` implements `AlertOutbox` |
| `RunAlertsProofs` | theorems about the three modules above |
| `AlertActions` | decisions about alerts |
| `AlertActionsProofs` | theorems about `AlertActions` |
| `CheckpointRunner` | the collector's work on one run, with its checkpoint file |
| `CaptureLog` | abstract: what collecting a run promises however often it is stopped |
| `CheckpointRunnerProofs` | theorems about the two modules above |
| `CollectorWorker` | the collector's process and its calls, composed with `CollectionRuns` |
| `CollectorWorkerProofs` | theorems about `CollectorWorker`, using those of `CollectionRunsProofs` |
| `EvidenceStore` | the publication of one evidence object by several processes |
| `EvidenceObject` | abstract: what the store promises of an object |
| `EvidenceStoreProofs` | theorems about the two modules above |
| `PublicPrice` | operators: a captured SKU's public price, its migration, and the schema's check of it |
| `SkuEvidence` | operators: what a SKU consists of, from the labels of its page |
| `SkuCombination` | operators: the matcher's decision and the combination a SKU sells |
| `SkuComparison` | operators: lower prices, missing combinations, completeness of the own catalogue |
| `ReportAggregation` | operators: the report page, its lists, filters and pages |
| `RunReport` | report, evaluation, operators and report page over the rows of one run, composing the five above |
| `RunReportProofs` | theorems about `RunReport` |
| `MC*` | instances for TLC |

How they fit together. `CollectorWorker` INSTANCEs `CollectionRuns` and calls its actions, one per call
the worker makes in the code. What `CollectorWorker` treats as "takes shots of evidence and ends in one
of several ways" is `CheckpointRunner`; what `CollectionRuns` treats as one report value is what
`RunReport!Ingest` stores; what `RunAlerts` treats as a chosen set of findings is what
`RunReport!Evaluate` computes. `EvidenceStore` is the store behind `CollectorWorker`'s `store`, which
relies on what `EvidenceObject` promises: what was acknowledged stays (but for the finding `evidence_told`).

### CollectionRuns

`runs` maps a run's identity, a model and a slot (the unique key of `CollectionRun`; `desktop` is the
only provider the code enqueues), to its row: status, agent, frozen job, report, the run it is
coalesced into, error, and the ticks since its heartbeat. `enabled` and `active` are what runs read of
the catalog. Each agent call is one transaction or one guarded `UPDATE`, and is one action
(`ReclaimStale`, `ClaimQueued`, `Heartbeat`, `Pause`, `ReleaseRequeue`, `ReleaseQuarantine`).

Ingestion is the exception. `SubmitReport` is what happens before its transaction: ownership, the
stored job and the claim are checked on a row that may change afterwards. The request then waits in
`requests`; its transaction is `AcceptReport` or `ReplayReport`, it may be refused (`RejectReport`),
or the transaction fails in an unclear way (`FailIngest`, committed or not) and `RecordSystemError`
notes it. `acked` is a history variable: which report each submitter was told had been stored.

Agents call in any order at any time. That covers two processes with one token, a call that arrives
after its caller gave up, and every order of the worker's own steps.

Abstractions: a report is its digest, its status and the own listings it names; other content is told
apart by the digest. Prices, evidence, search positions and the exploded rows are left out. An agent
that fails authentication makes no call. A model always has exactly one active own listing, as the
three writers of listings ensure.

### RunAlerts

For each run: its evaluation columns, its batch, its stored alerts. A claim token is the number of the
attempt: attempts only grow, so it is as unique as the random one in the code. Each of the callers,
the loop and the request handlers, has a program counter (`step`) and the data it read. A caller's
steps are the transactions of `claimRun`, `evaluateRun`, `claimBatch`, `completeAttempt` and
`complete`, and the HTTP exchange between two of them.

`from` says where `send` was called, because what follows it differs: the sweep goes on to the next
batch, an evaluation marks its run, an approval ends. An exception of `send` ends a pass, fails an
evaluation, or is answered to the administrator.

Times are ages. The loop reads `attemptedAt` once per pass, so a lease is compared with a time that
grows old: `clock` is its age. `MaxPass` bounds how long a pass takes in ticks.

`delivered` counts the messages WeCom took about a run, a fact outside the program. `Unanswered`
leaves open whether WeCom took the message.

Faults: any database call may fail (`CallFails`), the answer to a committed claim may be lost
(`AnswerLost`), and the process may stop and restart between any two steps (`Crash`), which stops the
loop and every handler, since they share one process. `MaxFaults` bounds their number.

Abstractions: what an evaluation finds is any member of `Findings`; comparison and pricing are not
computed. The loop takes runs in any order and has no limit of 25 per pass: the code's order is one
of the orders explored. Alerts are per run, because the dedup key contains the snapshot of the own
listing. The preview digest and the compare-and-set of the approval setting are left out.

### AlertActions

`past` is the sequence of statuses an alert has had, the last one being `PriceAlert.status`. A decision
is `Check`, `Insert`, `Update`, `Record`; it may die after any of them (`Abort`). `Insert` and `Update`
belong to one transaction under the database's default isolation: only `Update` waits for the row.

### CheckpointRunner

`disk` is `checkpoint.json`, written whole by rename; `mem` is the checkpoint in the running process;
`page` the item being captured and the SKUs still to select. An action is one call to the driver with
everything up to the next one, saves included. `Throw` is the catch of `run()`: a pause, a reset of the
search after an item without an id, or a failure, each with the issues it leaves. `Stop` is every way
to lose the memory: a crash, an interruption, an error that is not the driver's. `BeginResumed` and
`BeginRefused` are the two results of checking a checkpoint (`Coherent` is
`assertCheckpointSemanticCoherence` without the comparison of ids and search limit at its start, which the
runner copies from the job). `moved` are the own items whose url is not the job listing's: the runner
compares the id and the shop of an own page and stores the url the page shows (`WithOwn`), whichever it is.
`ReportValid` is the part of the report's contract that saving and sending check.

Abstractions: an item is its platform id, or its rank in the search when it shows none; scrolling a
page is one outcome, the set of SKUs enumerated and whether it fell short of the page's own count;
a SKU has a result or none, its amounts are `PublicPrice`'s. Issues are told apart by code, item and SKU.

### CollectorWorker

Each agent has one process (`worker`) and the checkpoints of its machine (`disk`). A call is `Answered`,
`Refused`, or `Unanswered`; the API may take an unanswered call much later (`late`), after any number of
other calls, or never. Evidence and the report are tried three times (`tries`), what was acknowledged is
not uploaded again, a signal is looked at where the code looks, a failing release ends the process as a
successful one does. The API's handlers are the actions of `CollectionRuns`. A process that ended is
started again.

Abstractions: the `once` command is `run` with a signal after the first job; identical reports of one run
that are being ingested at the same time are one request; nothing is assumed of how long a lease is
compared with a timeout.

### EvidenceStore

The directory has four entries for an object: its file (`target`) and three names of lock files, `lock`,
`publish` (publication claim) and `reclaim`. Claims are hard links, so an entry is the inode it names.
`file` is a lock file's last lease record and whether its lease runs. A `put` goes through the steps of
`putWithPublicationLock`: create and sign the lock, give way to abandoned claims, claim the publication,
link the object or find it, look again, roll back when the look fails, release by way of a reclaim claim.
`Expire` lets any lease run out at any moment; `Heartbeat` renews it, possibly long after it checked.

A process may stall before every operation, and what it checked may have changed by then.
`unlinkMatchingFile` is three steps (`LookToUnlink`, `Unlink`, `LookAgain`), and `Unlink` removes whatever
its path names: the lock of a successor, or the claim of another's publication. `Rollback` is everything up
to the last check that the lock is held (`collection-evidence-store.ts:1345`), `UnlinkTarget` the unlink.
Reads with no operation between them are one step. `overtaken` is history: a lock was taken from a process
between those two.

What was learned. The promise of `EvidenceObject` does not need the claims, nor that an unlink meets the file
it is for; it needs that who takes the object back still has its lock then. The code cannot ensure this: the
check and the unlink are two operations (finding `evidence_told`). Everything else holds for any stalls and
any hosts, which is what `ImplementsObject` says: the promise is kept up to the first overtaken rollback.
Readers (`has`, `read`) take no lock: one may see an object that a rollback then takes back. A put can also
leave others waiting: a stalled process links its publication claim by path
(`collection-evidence-store.ts:520`) onto its successor's lock, cannot undo it, and the successor can then
not release; lock and claim belong to a live process and are never stale, so further puts of that object
wait until the process ends. This is why there is no liveness property.

### PublicPrice, SkuEvidence, SkuCombination, SkuComparison, ReportAggregation, RunReport

The first five hold the pure functions, in the source's names. `RunReport` has the state: the run's row,
its SKUs, positions, issues, candidates, alerts, the batch, the monitored model, an operator in the
middle of a classification, and a report page being read. `Ingest` and `Evaluate` are one transaction
each. The page (`OpenPage`) is its head and the set of database states its other reads may have seen,
since `getRun` reads in no transaction; the paged lists are requests of their own. `report` and `price`
(what the collector captured and calculated), `decided` and `touched` are history.

A SKU may have been captured now, or by an earlier attempt whose checkpoint was reloaded (`kept`), by
this version or by one that only knew whether a promotion is included in the activity price:
`migrateItemSkus` then prices it anew. The migration does not know the page's own estimate: a SKU whose
public promotion leaves something open is `ESTIMATED` when its run ends without a stop, and
`MANUAL_REVIEW` without a price when the run was stopped and resumed. No document says otherwise, and
neither price raises an alert.

Abstractions: texts are the features the rules look for in them (a model named exactly, by an alias or
not at all, signals of a bundle, excluded words, attributes), so an edit of the model changes only what
it compares. Amounts have no upper bound. Of the counters, those searched, SKUs and failed are kept.
`OwnListing.platformItemId` is written by nothing in the program, so completeness rests on the SKUs
captured. Positions, SKUs and issues of a run are not changed after ingestion, except by evaluation. The
SKU list and the sections are compared on the same rows; when an evaluation falls between those reads a
page may list a row whose section says something newer. An accessory named by two tokens with
different quantities is outside the labels checked.

## Runs

| Run | Shows | Bounds |
|---|---|---|
| `collection_runs` | queue, agent API and ingestion: one run at a time, honest coalescing, frozen claims, one outcome per run; refinement of `RunLedger` | 1 model, 3 slots, 2 agents, 2 listings, 3 reports, 2 in flight (1 with the third slot) |
| `run_alerts` | evaluation and delivery: safety, refinement of `AlertOutbox`, and progress under fairness | 1 run, loop and a handler, 3 evaluation attempts, 2 delivery attempts, 3 HTTP attempts, 1 fault |
| `alert_actions` | racing decisions | 1 alert, 2 operators, 3 actions |
| `checkpoint_runner` | checkpoints hold together over stops and errors; refinement of `CaptureLog`; the run ends | 1 own listing, 2 items, 2 SKUs each, 2 ranks, 2 faults |
| `collector_worker` | no captured work is lost before the API has it; every run comes to an end | 1 agent, 1 run, 2 shots, 3 reports, 4 faults |
| `evidence_store` | refinement of `EvidenceObject`, up to the first overtaken rollback | 2 processes on two hosts, 2 puts, 4 lock files, 1 crash |
| `run_report` | from labels and promotions to prices, comparison, alerts, counters and report page | 334 cases (report and model) of up to 12 SKUs, 2 evaluations, 1 act of an operator |
| `alerts_rules_edited` | finding: an alert that is never announced | 1 handler, rules edited between evaluations |
| `alert_decisions_final` | finding: a final decision is overwritten | 1 alert, 2 operators |
| `evidence_told` | finding: an object that a caller was told of is removed | as `evidence_store`, without crashes |
| `checkpoint_resumes` | finding: a resumed run's checkpoint is refused | as `checkpoint_runner` |
| `checkpoint_address` | finding: a checkpoint is refused for the address of an own item | as `checkpoint_runner` |

Why these bounds are enough to be interesting. Runs of different models share nothing but the agent
that works them, so one model; two slots make two calls that both find no unfinished run, a slot coalesced
into a run that is then worked or closed, and a run after another, with every interleaving of two reports. A
third slot lets a coalesced slot be followed by another, which must not be coalesced into it. The constraint
`ThreeSlotsOneReport` of `MCCollectionRuns` keeps this in reach (201 thousand states): once the third slot has a row,
at most two runs of their own and one report in flight are explored further. Three slots with any number of runs and one report,
or one agent with two reports (0.7 and 1.0 million states), satisfy the same but take longer. Two agents show that a run is never handed to the other. The three reports
differ in digest, listings and status, so that a late, a wrong and a partial report all occur. `Lease`
is one tick: only "before" and "after" the lease matter. In `RunAlerts` a handler that outlives its lease
meets the loop, which is its successor and its sweep, and the other way round. The limits of two delivery
attempts, three evaluation attempts and three HTTP attempts are the code's. Larger instances of `RunAlerts`
(two handlers, 1.0 million states; two runs with one handler, 4.3 million states) satisfy the same safety
properties; they are left out of the routine check.

`CheckpointRunner` (277 thousand states) has an item with an id, one without, an own listing that the
search finds again, and an item at two ranks; two faults reach a pause or reset, a stop after it, and the
attempt after both. `CollectorWorker` (178 thousand states) needs four faults for three unanswered tries
and a lost release. In `EvidenceStore` (1.4 million states) two puts suffice for a lock to be
reclaimed from a slow or dead owner while that owner publishes. The hosts are two because a process on
another host cannot be asked whether it lives, so that a lease is enough to lose a lock; the instance with
one host (`Host <- OneHost`) satisfies the same. The reports of `RunReport` vary one respect of one offer at a time, on
both sides where both matter: labels, stock and price, offer features, failures, promotions with their
ties, thresholds met exactly and missed by one, unfinished searches, and checkpoints reloaded. Two edits
instead of one (by hand, 259 thousand states) satisfy the same.

Symmetry is used in runs without liveness only: agents and operators are interchangeable.
Deadlock is not checked where the system may stop: `AlertActions` when every alert is decided or the
bound is reached, `CheckpointRunner` when the report is handed over, `CollectorWorker` and `EvidenceStore`
at their bounds. `RunEnds` and `RunsComeToAnEnd` say that the collector does not stop before.

### Properties

`CollectionRuns`: `AtMostOneUnfinished`, `CoalescedIntoRealRun`, `JobMatchesAgent` (a run whose stored job named
another agent could never be claimed or reported again), `ClaimFrozen`, `OutcomeExplained` (status,
report and error of a row agree), `ReportCoversClaim` (with the catalog edited while the run is
worked), `AckedIsStored`, `ClosedRunsFrozen` (no late call reaches a closed run), `ImplementsLedger`.

`RunAlerts`: `AtMostOneMessage`, `StateIsTrue` (`NOTIFIED` was taken by WeCom; `FAILED` and `PENDING`
were not), `AlertsFollowBatch`, `OneSender` (two callers never deliver one batch, not even one that
outlived its lease and one that came after), `UntouchedBeforeApproval`, `AlertsAnnounced` (while the
rules stand), `SettledStands`, `ImplementsOutbox`; `ReportedIsPublished`, `ApprovedIsSettled`.

`AlertActions`: `HistoryIsComplete`, `ChangesWereLegalOnce`, `AuditTellsActions`, and, refuted,
`DecisionsAreFinal`.

`CheckpointRunner`: `SavedCheckpointsHoldTogether` (progress, aliases, phase, evidence and report of every
saved checkpoint fit together and satisfy the contract, and the status of a pause has its issue unless the
pause was resumed: so only that, or an own item's address, makes `Coherent` refuse what was saved),
`ReturnedReportIsBacked` (every price handed to the worker has its evidence in the manifest the worker
will read), `SucceededMeansEverything` (over all attempts), `ImplementsCaptureLog` (no SKU captured twice, none lost but with its search), `RunEnds`; and,
refuted, `PausedWorkResumes` (own pages at the job's addresses) and `AdmittedListingsResume` (no resumed
pause).

`CollectorWorker`: `CapturesOutliveWork` (a checkpoint with captures disappears only when the API stored a
report naming just them), `SentReportIsBacked` (when the worker sends a report the API holds all its
evidence), `RunsComeToAnEnd`.

`EvidenceStore`: `ImplementsObject` (at most one creator, and what a caller was told of stays, up to the
first overtaken rollback); and, refuted, `ToldObjectStays`.

`RunReport`: `ConfirmedPricesArePayable` (a price is confirmed exactly when nothing is in doubt and it is
the least a member of the public can pay, by a declarative definition, and the server accepts what its
collector calculated), `AlertsCompareLikeWithLike` (lower prices are told exactly where a declarative
reading of the pages says so, and alerts match them), `ReportTellsOneEvaluation` (a page read while
reports are stored and evaluated tells one evaluation; sections, board, filters and pages agree),
`CountsTellRows` (counters, answer and summary tell the rows, however often a run is evaluated),
`CandidateShowsItsBestSku`.

Each property of a passing run has a mutant in `PROJECT.json`, a plausible bug of the code it models,
under which the run refutes it.

### Fairness

`run_alerts` assumes weak fairness of three things. The loop: `setInterval` keeps firing and a
pass that has begun goes on, because each of its calls returns or throws (the HTTP client and the
transactions have timeouts). Each handler: a request that has begun goes on. Time: `Tick`. Nothing is
assumed about reports, approvals or which outcome a call has.

`ReportedIsPublished` holds for one fault and is not promised for two: one crash can take two of the
three attempts, that of a live claim and that of an expired one, and a second one the third. The run
is then never evaluated, and nothing but its row says so.

`checkpoint_runner` assumes weak fairness of the runner's work: a call of the driver returns or throws, and
a run that was stopped is claimed again. Errors and stops have none. `collector_worker` assumes it of each
process's progress, which includes that an ended process is started again, of the API's answers and of
time. Late calls, heartbeats and faults have none. When the agent never comes back nothing is promised.

## Findings

**An alert that is never announced** (`alerts_rules_edited`). The evaluation's transaction stores alerts
and creates the run's batch; marking the run evaluated is a later transaction. When the process stops
in between, a later pass evaluates the run again, with the rules as they are then. Alerts found only
then are stored, but the batch is created with `skipDuplicates`
(`api/collection/prisma-run-alert.repository.ts:206`), so the standing batch does not list them. The
design (`docs/superpowers/specs/2026-08-26-collector-safety-repair-design.md:94`) says alerts, summary
and batch are committed together.

**A final decision is overwritten** (`alert_decisions_final`). The transition is checked on a status read
before the transaction (`api/alerts/alert-action.service.ts:81`) and the update does not look again
(`prisma-alert-action.repository.ts:58`). Two operators who decide at the same time both succeed.

**A resumed checkpoint is refused** (`checkpoint_resumes`). Resuming a paused run filters the pause's
issue (`collector/core/collection-runner.ts:253`) but keeps the report's paused status until the run ends.
What is saved meanwhile is a paused report without its issue, which `checkpoint-semantics.ts:81` refuses:
a run that is paused, resumed and stopped once more is quarantined, with all it captured. The test
"resumes every persisted successful and paused workflow boundary"
(`collection-runner.spec.ts:1750`) replays no checkpoint saved after a resume.

**A checkpoint is refused for an address** (`checkpoint_address`). An own page is admitted by its item id
and shop (`collection-runner.ts:381`) and its item keeps the url the page shows (`392`); the driver compares
the id only (`taobao-mac-driver.ts:304`). `checkpoint-semantics.ts:97` wants the url of the job's listing, up
to fragment and order of parameters. A page of the same item at another address, with one parameter more
or on the other of the two item hosts, is captured and saved; the first stop or pause after it ends in quarantine,
though the API itself asks for the id only (`desktop-report-ingestion.service.ts:247`). In the test above
the fixture opens each listing at the job's url.

`SavedCheckpointsHoldTogether` is the check without these two rules, and holds; `RefusalsAreKnown` is the proof
that nothing else is refused.

**An object is removed after a caller was told of it** (`evidence_told`). A publication whose directory or
file is not the one it was is rolled back: the lock is checked, then the object unlinked by its path
(`api/collection/collection-evidence-store.ts:1345` and `1346`). A process that stalls in between for longer
than its lease (5 s) loses the lock to another host, which finds the object and tells its caller that it
exists; then the unlink comes. The test "does not expose a final object to another store until publication
cleanup completes" (`collection-evidence-store.spec.ts:571`) has the second store told of the object and
then having it. On one host the lock can be lost to a late unlink of another process, and the same follows.

Met on the way and not given a run: an evidence file that stays unreadable makes its run go round
release and restart without end (hence faults of this kind are bounded in `CollectorWorker`); the order of an alert's actions by `createdAt` need not be the
order in which they were applied (hence the wording of `HistoryIsComplete`); the design says a batch is
created when there is something to announce (line 93), the code creates one for every evaluated run.

A run is bound to the agent of its first claim, and a `RUNNING` one can be freed only by that agent.
When the agent never returns, every later slot of the model is coalesced into a run that does not end.
The model shows this too (nothing forces an agent to act), but no document promises otherwise.

## Proofs

Everything below is proved for every value of the constants that the named assumptions admit, and checked
by TLC on the instances above. TLC checked each inductive invariant, too, before it was proved.

`CollectionRunsProofs` and `CollectionRunsLedgerProofs` prove, for every set of models, slots, agents, listings and reports, every lease
and any number of calls in flight, from the named assumptions on the constants in `CollectionRuns` and
`CollectionRunsLedger` (reports satisfy the contract, slots are numbers, null values are fresh):

| Theorem | States |
|---|---|
| `TypeCorrect` | `Spec => []TypeOK` |
| `Invariance` | `Spec => []IInv` |
| `OneUnfinishedRun` | `Spec => []AtMostOneUnfinished` |
| `CoalescedSlotsPointAtRuns` | `Spec => []CoalescedIntoRealRun` |
| `JobFitsAgent` | `Spec => []JobMatchesAgent` |
| `OutcomesAreExplained` | `Spec => []OutcomeExplained` |
| `ReportsCoverClaims` | `Spec => []ReportCoversClaim` |
| `AcknowledgedReportStored` | `Spec => []AckedIsStored` |
| `ClosedRunsNeverChange` | `Spec => ClosedRunsFrozen` |
| `ClaimsNeverChange` | `Spec => ClaimFrozen` |
| `LedgerRefinement` | `Spec => ImplementsLedger` |

The argument. `TypeStep` shows that every action keeps the types. `RowStep` then reduces each of the
eighteen actions to what it does to one row: leaves it alone, creates it (queued or coalesced), works
on it, claims it, or finishes it. Every invariant is proved from `RowStep` instead of from the
actions. The inductive invariant `IInv` is the conjunction of the type invariant and six safety properties:
they need each other. That a coalescing target is a real run needs that rows are never
removed; that what is acknowledged is what is stored needs that a row with a report is finished
(`OutcomeExplained`) and that a finished row never moves; that a claim is frozen needs that the stored
job fits the agent (`JobMatchesAgent`). For the refinement, a step that keeps a row's standing
(unfinished, finished, its report) leaves the ledger alone (`Alike`), creating a row opens it, and
accepting a report or quarantining closes it; `AtMostOneUnfinished` makes the mapping of `working`
single-valued.

`RunAlertsProofs` proves, for every set of runs, alerts and handlers, every lease, every limit and any
number of faults, from the assumptions of `RunAlerts` (limits are positive, findings are alerts, the
loop is no handler):

| Theorem | States |
|---|---|
| `TypeCorrect` | `Spec => []TypeOK` |
| `AlertsStayInStep` | `Spec => []AlertsFollowBatch` |
| `NoSecondMessage` | `Spec => []AtMostOneMessage` |
| `BatchesTellTheTruth` | `Spec => []StateIsTrue` |
| `SendersAreAlone` | `Spec => []OneSender` |
| `NothingSentUnapproved` | `Spec => []UntouchedBeforeApproval` |
| `WhatIsSettledStands` | `Spec => SettledStands` |
| `StandingRulesAnnounceAll` | `Spec => []AlertsAnnounced`, if `Findings` has one member |
| `OutboxRefinement` | `Spec => ImplementsOutbox` |

The argument has three layers. `TInv` adds to the types that whoever works on a run has one
(`Placed`) and the counts of `AlertsFollowBatch`, without which `recorded` would have no bound. `DInv`
adds what a sender, a caller between its claim and its record, knows (`SendersKnow`): its batch is
`SENDING`, or was closed as `AMBIGUOUS` behind its back, and how many messages WeCom has. A batch is
claimed only when `PENDING`, so a new sender is alone, and an abandoned batch never becomes `PENDING`
again, so it stays alone: safety rests on that and not on the claim token, which the invariant never
mentions. Most actions create no sender and do to a batch only what `Stands` allows
(`DeliveryKept`). `RowStep` reduces every step to one that touches at most one run's batch:
published, worked on by its sender or closer, or told to WeCom. `SettledStands`, the refinement and
`AlertsAnnounced` follow from it. `AlertsAnnounced` needs the rules to stand; `alerts_rules_edited`
shows it fails when they do not.

`AlertActionsProofs` proves, for every set of alerts and operators:

| Theorem | States |
|---|---|
| `CallsStayInformed` | `Spec => []IInv` |
| `HistoriesAreComplete` | `Spec => []HistoryIsComplete` |
| `ChangesAreLegalOnce` | `Spec => []ChangesWereLegalOnce` |
| `AuditIsTrue` | `Spec => []AuditTellsActions` |

None of the three properties is inductive: a step is right because of what its call found earlier. `IInv`
says what a call still knows: that its transition was legal from a status its alert has had (not from the
one it has, which is the finding `alert_decisions_final`), that the action it inserted has a time no other
action of the alert has, and, once applied, that the status came after the one it was checked against.

`CheckpointRunnerProofs` proves, for every job, every set of SKUs, every search result and any number of
stops and errors, from the assumptions of `CheckpointRunner` (a job has an own listing and none twice, as
its contract demands; items are no ranks; null values are fresh):

| Theorem | States |
|---|---|
| `CheckpointsStayTyped` | `Spec => []TypeOK` |
| `SavedCheckpointsAreCoherent` | `Spec => []SavedCheckpointsHoldTogether` |
| `RefusalsAreKnown` | a saved checkpoint that is not `Coherent` is a resumed pause (`StalePause`) or has an own item with another address |
| `ReturnedReportsAreBacked` | `Spec => []ReturnedReportIsBacked` |
| `SuccessIsComplete` | `Spec => []SucceededMeansEverything` |
| `CaptureLogRefinement` | `Spec => ImplementsCaptureLog` |

What is checked on reload is not inductive, because memory is not in that state between two saves. `Sound`
is what the checkpoint in memory always satisfies: at most one item has nothing to show for it (`Bare`),
and it is the one whose page is open or next; each SKU key has a price with its evidence, or an issue;
ranks and aliases agree. `Saved` adds the issue a bare item is saved with. The open page is of that item and
offers no SKU that has a result (`PageSound`), hence no SKU is captured twice; disk and memory have the same
captures, so a stop loses none. `PauseInv` is for the pauses alone: while the runner works no issue of a pause is
left, and what it saves or returns has that of its own status at most.

`CollectorWorkerProofs` proves, for any number of agents, runs, reports and faults, from the assumptions of
`CollectionRuns` and that a report names shots of evidence:

| Theorem | States |
|---|---|
| `Invariance` | `Spec => []IInv` |
| `CollectorsStayTyped` | `Spec => []TypeOK` |
| `SentReportsAreBacked` | `Spec => []SentReportIsBacked` |
| `CapturesAreNotLost` | `Spec => CapturesOutliveWork` |

The proof is compositional: every step is one of `CollectionRuns` on the table, or leaves it alone
(`ApiStep`), so the invariant and the frozen rows of `CollectionRunsProofs` are used as they stand. On top of
them `Fits` says what a process knows at each place: that the report it delivers names the captures of its
checkpoint, that what it remembers as uploaded is in the store, and, before it removes the checkpoint, that
its report is the run's. The last stays true while calls of earlier processes arrive late only because a
row with a report never changes.

`EvidenceStoreProofs` proves, for any number of processes on any hosts, lock files, puts and crashes:

| Theorem | States |
|---|---|
| `StoreStaysSound` | `Spec => []IInv` |
| `ProtocolRefinement` | `Spec => ImplementsObject` |

Locks are stolen, from processes that still run too, and removed by unlinks that come late, so mutual
exclusion does not hold and cannot be the argument. It is this: a lock file is its process's own
(`OwnFiles`), and one that is gone from the directory never comes back. Who created the object may take it
back only while its own lock is still there (`LockedToUnlink`), and as long as it is, nobody else was told of
the object or is about to be (`BackedOutAlone`); whoever is about to tell of it has found it, and it stays
as long as the finder has its lock (`FoundPresent`). No claim occurs in the invariant. `IInv` is
`overtaken \/ Sound`: once a process was overtaken between its last check and its unlink, nothing is
promised, and the step that overtakes it leaves the object as it is (`OvertakingStep`).

`RunReportProofs` proves, for every set of reports, rules and listings and any number of evaluations and
edits, from the assumptions of `RunReport`. `ReportsAssumption`: a report's SKUs and issues are finitely
many, a SKU, its item and its id are numbers and the id is its own, a competitor's item is one of the search
result (what `CheckpointRunner` captures), and no report is longer than the last page the server numbers
(100 000 entries; a report is limited by its size). `PricesAssumption`: amounts are fen or null, inclusions
are those of the contract or of the old version, and a price found in a checkpoint was calculated from the
same evidence, by this version or one that took a promotion that is not included for anything.

| Theorem | States |
|---|---|
| `StoredIsReported` | `Spec => []IInv` |
| `CountsAreOfRows` | `Spec => []CountsTellRows` |
| `CandidatesShowTheirBest` | `Spec => []CandidateShowsItsBestSku` |
| `PricesArePayable` | `Spec => []ConfirmedPricesArePayable` |
| `PagesTellOneEvaluation` | `Spec => []ReportTellsOneEvaluation` |
| `AlertsTellSignedOffers` | `Spec => []AlertsCompareSignatures` |
| `AlertsTellClearOffers` | `Spec => [](SignaturesTellGoods(report.skus) => AlertsCompareLikeWithLike)` |

`CountsTellRows` is not inductive: that an evaluation adds nothing to the counters rests on the missing
baseline being among the issues exactly when there was an evaluation and nothing of ours was captured, and
on each row being rewritten in place (`RowsOfReport`, `KeepsRows`), whatever the comparison finds, which
stays opaque. `CandidatesShowTheirBest` needs that the order of `candidateDecisions` has a best SKU
in every set (`BestSkuExists`) and that the matcher says comparable exactly with a category
(`DecisionKinds`).

Sums over sets are folds, and the induction they need is that of a smallest counterexample among the subsets
of a finite set (`SmallestSet`), from which `Total` gets the laws of a sum. For `PricesArePayable` one
promotion is applied in each stack group (`AppliedOnce`), and any choice of promotions that do not exclude
each other maps injectively to applied ones that are worth at least as much (`TotalReplaced`,
`AppliedIsBest`); a migrated price is kept only where the old reading of its promotions and the new one
agree in what they apply (`KeptIsPriced`).

`PagesTellOneEvaluation` rests on a second invariant, `PageInv`, about every state the reads of an open page
have seen: it is empty, or the report's rows, not evaluated or as one of the recorded evaluations left them
(`StoredDb`); and the head promises nothing or what all of them have. An evaluation is characterised row by
row (`IsOutcome`), from which its rows tell its lower prices and missing combinations (`TellsLows`,
`TellsMissing`): the row of ours named by a matched row is the only one with that id, and has its signature.
A page that joins such rows with another state's issues still agrees, because whether something of ours may
have been missed depends only on the report: an evaluation adds no failure that could hide a SKU
(`StaysComplete`, `WasComplete`). On the board an item goes under the shop of its first rank, hence each
SKU and each lower price under one shop, and the shops' counts, which are disjoint, add up (`DisjointCount`).
The order of the SKU list is total because its last key is the row's id; so its rows fill the places from 0
on (`PlacesFilled`), and pages of equal size show each place once (`PagesShowAll`).

`AlertsCompareSignatures` is `AlertsCompareLikeWithLike` with goods told by the signature the code builds
instead of the declarative reading of the page: which lower prices every evaluation tells, with which row of
ours and which difference, which baseline it keeps, and that the alerts stored are those of all evaluations
together. Its invariant, `AlertInv`, says of each evaluation what it told of the report by the rule it had
(`TellsSigned`), and that a row keeps what was captured of its SKU, its price included (`RowsCapture`). The
rows an evaluation can compare are then the offers, SKU by SKU (`AreOffers`), which needs
`ConfirmedPricesArePayable`: a confirmed price is never negative. That the minimum `Cheapest` chooses exists
is `CheapestIn`.

`AlertsTellClearOffers` brings the two readings together. Nothing a run goes through matters for it, only
what the report says of its SKUs: `SignaturesTellGoods` says that SKUs are signed exactly when the page makes clear what
they sell, and alike exactly when they sell the same. TLC evaluates it on reports of the instance
(`SignaturesAssumption` in `MCRunReport`).

Model-checked only. Liveness under fairness is out of the prover's reach: `ReportedIsPublished`,
`ApprovedIsSettled`, `RunEnds`, `RunsComeToAnEnd`. `AlertsCompareLikeWithLike` is proved for reports whose
signatures tell goods and no others: what the folds over labels compute is a reading of the page in its
order, which agrees with the declarative one where a page does not count the same thing twice, as on the
instances, and need not elsewhere; and that it agrees would take an induction over labels. The findings are
counterexamples.

## Not modelled

- The macOS driver's reading of screens and the Swift helper: heuristics over a third-party application's
  accessibility trees, without state of their own that a specification would relate. To `CheckpointRunner`
  a call of the driver returns or throws.
- The client of the accessibility helper (one request at a time over a child process, with timeouts and
  restarts), the settings with the registration of schedules, and the start and close of the runtime:
  small protocols with hazards of their own (see `PROJECT.json`), left for the next extension.
- `has` and `read` of the evidence store, and several objects (see above).
- The matching rules' texts, the import's validation, the price engine and bundle signatures of the API,
  which are functions of text or of one record.
- The legacy collection service, which the runtime no longer constructs; HTTP translation, authentication,
  the web client, seed data and scripts.

## Plan

1. A declarative reading of labels that agrees with `SkuEvidence` on every page, also on those that count a
   thing twice, so that `AlertsCompareLikeWithLike` can be proved without `SignaturesTellGoods`.
2. `Settings` with the scheduler's registration, `RuntimeLifecycle`, `AxHelperClient`.
