# Verification of market-agent

TLA+ modules, TLC configurations and TLAPS proofs kept beside the code of market-agent,
a TypeScript monorepo: some thirty services under `src/services` around one PostgreSQL
database (`src/db`), composed by `src/services/app`, with a React front end in
`src/web`. The verification follows the parts that have a protocol: workers that claim
leased rows, charge budgets, call language models outside any transaction, and recover
from crashes through checkpoints.

## 1. Inventory

| Component | State it keeps | Operations | Interacts with | Hard behaviour |
|---|---|---|---|---|
| **discovery, run lifecycle** (`run-repo.ts`, `worker-lock.ts`, `runner.ts`, `worker.ts`) | `discovery_runs`: status, stage, lease (owner, epoch, expiry), cancellation, checkpoint, usage | start, claim, heartbeat, requestCancel, saveCheckpoint, finalize | database row lock; worker process; HTTP | replaced workers that go on, cancellation against finalization, lost replies, restart |
| **discovery, stages** (`stages.ts`, `candidate-repo.ts`, `assessment-repo.ts`, `event-repo.ts`) | `discovery_candidates`, cohort ordinals, `discovery_events`; in memory: checkpoint, `incomplete` | admit, commitCohort, commitAssessment, failCandidate | run lifecycle (fence), scout, assessment | crash between two transactions; memory that does not survive |
| **discovery, attempts** (`attempt-repo.ts`, `operations.ts`, `model.ts`) | `discovery_attempts` ledger, usage counters, draft lock | reserveAttempt, finishAttempt, providerAttempt, router loop, repair | `llm` router, search providers | a paid call between two transactions, late answers, budget floors |
| **discovery, scout and leads** (`scout.ts`, `scout-leads.ts`, `merge.ts`) | leads, issuers, lead keys | plan, search, extract, resolve, admit, merge | attempts, resolver | resumed discovery over changed leads |
| **discovery, selection** (`cohort.ts`, `selection.ts`) | none | chooseResearchCohort, rankShortlist | stages | limits, ties, diversity rules |
| **discovery, evidence and visibility** | packets, claims, sources | build, authorize | evidence, snapshot | sources withdrawn under a run |
| **discovery, campaigns** (`campaign-repo.ts`, `service.ts`, `lifecycle.ts`, draft lock of `attempt-repo.ts`) | campaigns, versions of the brief, request keys, draft locks | save, draft, start, delete | run lifecycle | idempotent start, one active run, delete against a lease, a draft that outlives its lock |
| **financial-engine** (`run-repo.ts`, `lease.ts`, `execute.ts`, `finalize.ts`, `recovery.ts`) | `financial_runs`, units, leases, checkpoints | reserve, lease, bind, compute, finalize, recover | financial-core, evidence, chat, discovery | a request handler and supervisors on one run; evidence that changes or is withdrawn |
| **financial-core** | none | exact decimals, derivation graphs | financial-engine | arithmetic |
| **chat** (`coordinator.ts`, `http.ts`, `sse.ts`, `messages.ts`) | turn queues per thread, tombstones, event histories, SSE writers; `chat_messages` | start turn, stream, resume, attach, reload | analyze, snapshot | ordering by promise chains, eviction, reconnects, slow clients, restart |
| **agents** (`agent-run-repo.ts`, `agent-loop.ts`, `watermarks.ts`, `local-runtime.ts` of dev-api) | agent runs, watermarks, findings, alerts | claim, run, expire, commit | evidence, notifications | a claim that runs out under its execution |
| **notifications** (`delivery-processor.ts`, `worker.ts`) | fired alerts, receipts | claim, send, digest, record | agents, providers | delivery passes that overlap or die, a row that cannot be read after its claim |
| **llm** (`router.ts`) | deployments | route with fallback | discovery, chat, agents | fallback after a call that was paid for |
| evidence, snapshot, tools, market, fundamentals, resolver, screener, analyze, analyst-grids, home, watchlists, portfolio, themes, artifact, summary, observability, shared, web | rows of their own, caches | queries and single transactions | each other | little that is concurrent |

What makes each of the first components correct, in one line:

* *run lifecycle*: at any time only the holder of the latest epoch writes; a run that
  was asked to cancel ends as cancelled; an ended run never changes; every run ends.
* *stages*: the cohort is committed once; nothing sealed is researched again; nothing
  that was not settled is skipped; "completed" means complete.
* *attempts*: one reservation pays for one call; the counter is the number of
  reservations; a validated answer is never paid for twice; what is reserved for a
  company is there when it is asked for; a run never blocks on its own reservation.
* *campaigns*: one active run per user, started from the brief that is current; a
  deletion respects a live lease; an overtaken draft does no harm.
* *scout and leads*: one company is one candidate, also after a resume.
* *financial-engine*: one evidence version per run, units published once and never after
  a cancellation; a superseded attempt writes nothing; every run ends.
* *chat*: turns of a thread run one by one, in order, and once each; one answer a turn;
  a stream without gaps; a reload that misses no answer.
* *agents*: one finding and one alert for a cluster, no evidence skipped, though several
  runs may write; no row stays running.
* *notifications*: every alert that is fired ends (beside one that cannot be read it
  does not: see the runs); a repeated message is a known, bounded case.

`PROJECT.json` lists every component with its status, and under `hazards` each place of
the code where one of these could go wrong.

## 2. Modules

| Module | What it is |
|---|---|
| `RunContract` | abstract specification: what the owner of a run can observe |
| `DiscoveryRun` | the run row, its candidates, and workers that claim, execute, lose and reclaim it |
| `DiscoveryRun_proofs` | theorems about `DiscoveryRun`: types, cancellation, finality, what survives a change of worker, the refinement of `RunContract` |
| `SpendingContract` | abstract specification: how the budget of model calls is spent |
| `DiscoveryAttempts` | the attempt ledger, the model budget, the router loop and repair |
| `DiscoveryAttempts_proofs` | theorems about the ledger of `DiscoveryAttempts` |
| `DiscoveryAttemptsHolder_proofs` | theorems about what the holder of the lease meets in it, and the refinement of `SpendingContract` |
| `DiscoveryCampaigns`, `DiscoveryCampaigns_proofs` | the campaigns of one user: briefs, drafts, starts, the queue, deletion |
| `PublicationContract` | abstract specification: what the financial engine promises about one request |
| `FinancialRun`, `FinancialRun_proofs` | one request to the financial engine, its handlers and its supervisors |
| `ThreadContract` | abstract specification: what the chat service promises about the turns of a thread |
| `ChatTurns`, `ChatTurns_proofs` | the turns of one thread, their streams, and the read of a reloading client |
| `AgentContract` | abstract specification: what a research agent promises its owner |
| `AgentRuns`, `AgentRuns_proofs` | the runs of one agent, from claim to commit |
| `AlertDelivery`, `AlertDelivery_proofs` | delivery passes over fired alerts |
| `MCDiscoveryRun`, `MCDiscoveryAttempts`, `MCDiscoveryCampaigns`, `MCFinancialRun`, `MCChatTurns`, `MCAgentRuns`, `MCAlertDelivery` | instances for TLC |

### DiscoveryRun

One run. Every method of a repository is one transaction on the locked run row
(`lockLiveLease` takes `FOR UPDATE`), so every method is one action; what a worker is
doing between two transactions is its control state `pc`. Waiting for a row lock is not
modelled: it orders transactions, which interleaving does too.

| State | Code |
|---|---|
| `status`, `stage`, `owner`, `epoch`, `cancelRequested`, `checkpoint`, `gaps` | columns of `discovery_runs` (`gaps`: `coverage.gaps` is not empty) |
| `leaseState` | `lease_expires_at`: null, in the future, in the past |
| `cohort`, `cstate`, `sealed`, `systemic` | `discovery_candidates`: ordinals, state, `assessment`/`snapshot_id`, reason codes |
| `events` | `discovery_events`, with the epoch of the writer as a history variable |
| `deadline` | `started_at + run_timeout_ms` has passed |
| `pc`, `held`, `local`, `pool`, `pending`, `incomplete`, `aborted`, `verdict` | locals of `executeDiscoveryRun` and `executeStages` in each worker |

Actions follow the code: `Claim` (`claimNextRun`), `Begin`, `Admit`, `CommitCohort`,
`SaveCohort`, `Select`, `StartCompany`, `CommitAssessment`, `FailCandidate`, `Advance`,
`Conclude` (`executeStages`), `Finalize`, `FinalizeFails`, `CatchFinalize`,
`CatchFails`, `LeaseLost`, `SeeCancellation`, `SeeDeadline`, `OutOfBudget`,
`InProgress`, `StageFails`, `HeartbeatFails`, `Abort` (the catch block of
`executeDiscoveryRun`), `RequestCancel`, and the environment: `ExpireLease`, `Stall`,
`Crash`, `PassDeadline`.

Abstractions. Time is two facts: the lease has expired, the deadline has passed. A
successful heartbeat leaves no trace but a lease that does not expire, so it is no
action: `ExpireLease` needs a lease nobody renews, `Stall` is the fault of a worker that
is too slow to renew. `assertRunnable` is an unfenced read before a fenced write; the
two are one step, because whatever can change in between makes the write fail by itself,
except the deadline, and a write does not look at the deadline. What a company's
research *says* is data: it succeeds, fails, or fails with a systemic reason.

### DiscoveryAttempts

One run again, seen from the ledger. A model call is three steps: reserve (insert the
row, charge the run; one transaction), dispatch (no database, no fence), finish (settle
the row; one transaction). `op`, `index`, `try` and `repair` are the locals of the
router loop and of `completeRole`: which operation is asked, at which deployment, as
which attempt number, and whether it is a repair. The outcome of a row folds status and
result: `reserved`, `error`, `unknown`, `valid`, `invalid` (the last two are `succeeded`
with a response that passes or fails the role's validation). The rest of the run is as
small as the ledger allows: cohort, validated roles, assessed and failed companies
decide who is asked next and how many initial calls are still owed (`Unheard`,
`enforceModelReservationFloor`).

Abstractions. The run's deadline and a noticed cancellation end the execution the same
way (`StopEarly`), wherever the code looks at the row. Who made a reservation is
forgotten when the row is settled: only `reservationIsStale` reads it, on reserved rows.
Rows written before the ledger had its present columns are left out. A call that is
reserved and then not made, because the run's time limit cannot be read in between, is
`DispatchFails`: the reservation stays and is stale for the next holder. Limits satisfy
`LimitAssumption`, `2·|ScoutOps| + 2·MaxCohort <= Limit`: `policy.ts` has 2·4 + 2·25 <=
64. The branch of `providerAttempt` for an operation in progress is not an action
because it cannot be reached inside one run; the invariant `NeverInProgress` states just
that.

`DiscoveryRun` abstracts the ledger to `OutOfBudget` and `InProgress` (which it allows,
as a fault, though `NeverInProgress` shows it does not happen: the liveness result does
not lean on it); `DiscoveryAttempts` abstracts the run to its lease. The two meet in the
lease, which both model from `worker-lock.ts`.

`SpendingContract` knows no worker and no lease: calls charged, calls still owed to the
selected companies, and per charge what came of it and whether the provider was called.
A charge is made only while what is owed to others stays affordable, a second one only
after the first came to nothing, a call at most once per charge (perhaps after the
charge was written off as unknown: a late call of a worker that lost its lease), and a
charge is settled once, with an answer only of a call. `DiscoveryAttempts!KeepsContract`
maps `owed` to `Unheard` and `entry` to the outcomes of the ledger (`Entries`).

### RunContract and the refinement

`RunContract` knows no worker, lease or checkpoint: a run is queued, started, its
companies chosen once, each sealed at most once and never after a cancellation, and
ended: as cancelled exactly if that was asked, as completed only if every chosen company
is sealed. `DiscoveryRun!KeepsContract` is `INSTANCE RunContract WITH cancel <-
cancelRequested, chosen <- Elems(cohort)`; `run_safety` checks it as a temporal
property, and `DiscoveryRun_proofs!Refinement` proves it: every step of every
worker is a step of the contract or a stutter.

### DiscoveryCampaigns

The campaigns of one user. `startRun` and `deleteCampaign` are transactions of several
statements, and what happens between their checks and their writes is the question, so
they are two actions each (`StartCheck`, `StartInsert`; `DeleteCheck`, `Delete`) and
`open` is the transaction between them. There is at most one, because both lock the
user's row first and `claimNextRun` skips a run whose user is locked (`UserFree`).
`SaveBrief` and the draft lock take the campaign's row only (`CampaignLocked`). A draft
reads the brief, acquires the lock of 90 seconds, calls a model, checks that its token
and its base version still stand, and releases the lock in a `finally` (`DraftReads` ...
`DraftReleases`); `DraftDies` is a process that never gets there, `DraftLockExpires` is
time.

Abstractions. The hourly limit of drafts is the freedom of `DraftAcquires` to refuse. A
running run appears as its lease and its end; its inside is `DiscoveryRun`. The
collection of evidence, quotes and tool calls after a deletion is left out.

### FinancialRun and PublicationContract

One row of `financial_runs` and its units, the handlers that retry its request
(`Requests`, all in one process and hence under one worker id) and the supervisors that
tick. `Acquire`, `BindInputs`, `DeclareUnits`, `CheckpointUnit`, `ReadyToSeal`,
`PublishUnit`, `HonourCancel`, `FailRun`, `Release`, `Recover`, `Erase` are the
transactions of `lease.ts`, `execute.ts`, `finalize.ts` and `recovery.ts`. Between two
of them a worker has only what it read (`rid`, `tok`, `ver`, `seen`, `basis`, `todo`),
and `Owns` and `Fenced` say what the fence compares. `newest`, `revoked` and `parent`
are the world: evidence that arrives, evidence that is withdrawn, and the parent's
version.

Evidence is a number, and a computed value is the number of the evidence it was computed
from, so that mixing two versions is visible. `PublicationContract` knows no worker: a
request is opened, fixes its evidence once, publishes each unit once from evidence that
stands, never after a cancellation, and ends once. `FinancialRun!KeepsContract` is the
refinement mapping; it is checked by `financial_safety` and proved.

What the model makes visible about the code: two handlers of one process are told apart
by the epoch alone; a supervisor drives the row it listed before it leased it
(`recovery.ts:89`), harmless because every write is fenced; `requestCancellation` has no
caller but recovery and tests; and a run whose units were all rejected stays
`ready_to_seal` and is leased again at every tick (the second clause of `Stuck`).

### ChatTurns

One thread in one JavaScript process: what runs without an `await` is one action.
`retained` and `older` are the coordinator's map of turns: its keys, and the order in
which they were inserted (a turn that was pruned and is known again is the youngest
again). `after` and `tail` are its promise chain (`threadQueues`); `stage`, `events`,
`terminal`, `committed` are a turn's handle;
`conn`, `heard`, `wrote`, `writer` are the stream route of a client with the socket's
buffer and the queue behind it; `goal` and `last` are the client itself, who resumes
from the last event id it saw. `answers` is `chat_messages`, and all that a `Restart`
leaves. `StartRead`, `ReadMessages` and `EndRead` are the three moments of `readThread`.

Abstractions. An event is its number. Pruning by age and by count is a choice of the
prunable turns, the one that has just settled included (a retention of zero turns).
`Replay` writes the stored events into a stream one frame after the other, as a function
of the event's number. A tombstone does not expire during a read. Whether a turn
succeeds is a choice; the bounds `MaxStarts`, `MaxRestarts`, `MaxExpired`, `MaxBeats`,
`MaxFaults` cap what may go on for ever. A client that resumes after a restart with an
event id of the turn's earlier telling hears a mixture of the two (`http.ts:175`);
resume is documented as not durable, and no property is about it.

`ThreadContract` has no promise chain, map, tombstone or stream: a turn is asked for,
waits for those asked for before it, runs, is answered at most once (also when it is
asked for again after a restart), is reported only when its answer is saved, and ends;
a restart forgets all but the answers. `ChatTurns!KeepsContract` maps `ahead` to the
order in which unsettled turns entered the map (`Ahead`): that the chain of promises,
from which entries are removed one by one, runs the turns in this order is what the
refinement says and `OneAtATime` alone does not.

### AgentRuns

One agent: the unique index on its running row and every query of the loop are per
agent, so agents do not meet. A handler is a request to `agents.run`, with a fresh run
id, or a queue message, which may come twice with the same one. The claim is two
statements (`Sweep` fails the runs whose claim has passed, `Insert` makes the row); the
agent is read after it (`LoadAgent`), evidence next (`LoadEvidence`), and one
transaction writes findings, alerts and the watermark (`Begin`, `Cluster` for every
cluster, `Commit`). `Complete` and `Fail` end the row. Nothing in the loop looks at the
claim, so a run that was failed by a sweep goes on: `wrote` and `swept` remember which.

Abstractions. The watermark is the set of claims it names; the evidence limit is any
subset; alerts are modelled for findings a rule matches; clusters of a transaction come
in any order, and one that waits for another is ended by `Deadlocked`. The three answers
of a refused insert are one.

`AgentContract` has no handler, claim, transaction or lock: runs in a log, findings,
processed evidence. Findings and the evidence they process appear in one step, no
cluster is told twice, nothing is processed without a finding, a run is completed only
after it published, and evidence is given back only when a run that was overtaken
publishes. `AgentRuns!KeepsContract` is the mapping (`published` is `wrote`, `overtaken`
is `swept`).

### AlertDelivery

Fired alerts of one agent, hence one digest group, and the passes of
`processPendingNotifications`. `claimPendingAlerts` commits the oldest rows that are
pending or whose claim is too old (`ClaimRows`: `Limit` rows, `Older` says which fired
first) and only then reads them. `Claim` hands them to the pass. `ClaimThrows` is the
row whose channel the processor does not know (`Unreadable`; nothing restricts the
channels of a rule): the pass ends, and the whole batch stays `delivering`. `dropped`
remembers, as history, the alerts whose last claim ended so. `Take`, `Send`, `Digest`
and `Update`, `Finish`, `FinishDigest` walk over the alerts of a pass; `Crash` is a pass
that dies; `Lapse` is a claim that becomes older than fifteen minutes. A provider may
take a message and the answer be lost. `accepted` counts, as history, the messages
providers took for each alert and channel; `lapses` the claims of an alert that became
too old after a pass was handed them.

Which facts may leave how is data (`Withheld`), asked per egress as `egressChannelFor`
does: everything but email, the digest included, leaves as a push (`Barred`).

Abstractions. Preferences and throttles are arguments the worker does not pass. Two
claims at the same moment skip each other's locked rows, as if one had come after the
other. Claims of one batch lapse one by one, which allows more than their common time
stamp does. `Lapse` is bounded only for alerts of a pass that is still at work
(`MaxLapses`); for the others it is time.

### How they meet

`DiscoveryRun`, `DiscoveryAttempts` and `DiscoveryCampaigns` look at one table from
three sides and share the lease of `worker-lock.ts`. `AgentRuns` ends where an alert is
fired and `AlertDelivery` begins there (`Fire`). The financial engine is driven by chat
and by discovery through the same request, and a chat turn sees of it only that it
succeeds or fails.

## 3. Runs

| Run | Instance | States | Question |
|---|---|---|---|
| `run_safety` | 2 workers, 2 companies, cohort of at most 2, 2 faults | 1.05 M | the fence, restarts, cancellation, finality, the contract |
| `run_liveness` | 2 workers, 1 company, 2 faults, fairness | 0.29 M | every run ends |
| `attempts` | 2 workers, 1 company, 1 Scout operation, limit 4, 2 faults | 0.48 M | the ledger under crashes, late answers and cached successes, the counter and the floor, the contract |
| `campaigns` | 2 campaigns, 1 request key each, 2 drafts, 2 versions of a brief | 0.65 M | starts, deletions, claims and drafts against each other |
| `financial_safety` | 2 handlers, 1 supervisor, 2 units, 2 evidence versions, 2 runs of the key, 1 fault | 0.91 M | one evidence version, publication, the fence, the contract |
| `financial_liveness` | 1 handler, 1 supervisor, a plan that is too big and a corrupt unit, 3 epochs, 1 fault, fairness | 0.12 M | every run and every cancellation ends |
| `chat_safety` | 2 turns, 1 client, 3 events, restart, expiry, heartbeat | 1.53 M | the queue, the stream and the reload |
| `chat_liveness` | 2 turns, 1 client, a failing turn, fairness | 0.19 M | the contract, and the queue moves |
| `chat_reported` | 2 turns, 1 client, 1 fault | violation | what the README says of an answered turn |
| `agent_runs` | 2 handlers, 2 run ids, 2 clusters, 1 crash, 1 fault, fairness | 0.32 M | exactly one finding, the watermark, the rows, the contract |
| `alert_delivery` | 2 passes, 3 alerts, 2 of them claimed at a time, a fact that may not leave as a push, an alert with an unknown channel, 1 lapse, 1 crash, fairness | 0.18 M | what is sent, and that it ends |
| `alert_unreadable` | 2 passes, an alert and one with an unknown channel, fairness | violation | what the README says of a claimed alert |

The type invariants (`TypeOK`) are proved, in every module that has one, and no run
repeats them.

What they show:

* `FencedHistory`: a worker that lost its lease leaves nothing behind a later worker's
  writes, and nothing follows the finalization.
* `CheckpointHonest`: what the durable checkpoint has passed is settled in the rows, so
  a resumed worker skips nothing. `NoReplay`: nor does the holder of the lease research
  what is sealed. `CohortOnce`: the cohort is committed once, also after a crash between
  `commitCohort` and `saveCheckpoint`.
* `CompletedIsComplete`: `incomplete` lives in memory, yet no restart turns a run with
  failures into a completed one (the rows are read again after the loop). A company
  whose seal committed and lost its reply is overwritten as failed (`failCandidate`
  looks at no state); however the run ends, its row says assessed again, because
  `finalize` restores what is sealed.
* `CancelWins`, `ResultIsFinal`, `KeepsContract`: see above.
* `RunEnds`: below. With `CancelWins`, a cancelled run ends as cancelled.
* `UsageCounted`, `InitialNeverRefused`: the usage counter is the number of ledger rows,
  within the limit; repairs and fallbacks never take a call that is owed to a selected
  company.
* `OneCallPerRow`, `ValidEndsOp`, `NeverInProgress`, `SettledOnce`: no reservation pays
  for two calls, a valid answer ends its operation, the holder never meets its own
  reservation, and a row is settled once and, with a result, only under the lease that
  reserved it.
* `StartsCurrent`: a run starts from the brief that is current in that moment, and only
  while its user has no active run, although `saveBrief` does not lock the user.
  `DeleteRespectsLease`: no claim slips between the check of a deletion and its delete.
  `DraftsApart`: a draft that was overtaken after its lock ran out returns no proposal
  and leaves the lock of its successor alone.
* `OneEvidence`, `CompletedIsPublished`, `SupersededWritesNothing`, and `KeepsContract`
  of `FinancialRun`: retries after new evidence evaluate what the first attempt bound; a
  run is completed only with something published
  and nothing left open; an
  attempt that was superseded, or whose run was erased and reserved again, changes
  nothing.
* `KeepsContract` of `DiscoveryAttempts`: the ledger spends the budget as
  `SpendingContract` says, at the tightest limit and with one company that is owed its
  calls while Scout and repairs spend.
* `OneAtATime`, `RunOnce`, `AnswerOnce`, `StreamInOrder`, `ReadFindsAnswer`,
  `QueueMoves`: the promise chain keeps turns apart although entries are removed and
  turns evicted; a known turn is not started again; a re-run after a restart keeps the
  first answer; a client hears no gap and no repetition; a reload that is told of no
  active turn has all answers. `KeepsContract` of `ChatTurns`: turns run in the order in
  which they were asked for, and none is reported before its answer is saved.
* `AnsweredNotReported` is violated, and recorded as a finding:
  `src/services/chat/README.md:55` says that a turn whose answer is in `messages` is
  never reported as active, but a turn that saved its answer and then failed while a
  reload was reading is (`coordinator.ts:522` takes an error for an unanswered turn).
  The client attaches and hears the error; no answer is lost.
* `ExactlyOnce`, `NoLostUpdate`, `RowsFinal`, `NotStuck`: runs that outlive their claims
  write beside their successors and may take evidence off the watermark; the lock on the
  cluster's row still keeps findings and alerts at one each. Among runs that kept their
  claims no update of the watermark is lost. `KeepsContract` of `AgentRuns`: findings
  and processed evidence appear together, and a completed run has published.
* `SentPerClaim`, `SettledOnce`, `SettledWhileReadable`: a message is repeated only for
  a claim that was too old after a pass was handed it; the first pass to end an alert
  has the last word; until a claim has met a row it cannot read, every alert ends.
  `failed` is an end: there is no retry.
* `EveryAlertSettles` is violated, and recorded as a finding:
  `src/services/notifications/README.md:17` says that the worker updates each alert it
  claims to `notified` or `failed`. An alert whose channel is none of the five the
  processor knows makes `rowFromDb` throw after the claim is committed
  (`delivery-processor.ts:319`, `:534`), and neither the agents' HTTP routes, the rule
  compiler nor the schema refuses such a channel. The batch stays `delivering`, the
  oldest rows of it are claimed together again after the timeout, and the pass throws
  again, for ever: readable alerts that share the batch are never sent.

Bounds. Two workers are what a lease race needs: the one that lost it and the one that
has it; a third repeats the second. With two faults a worker can crash in the recovery
from another crash, or the successor of a stalled worker can stall. Two companies let
one be settled and the next pending, a checkpoint stop between them, and the cohort be
empty, partial or complete; cohorts are every sequence, so the order does not matter and
`Workers` and the companies are symmetry sets in the safety runs. In `attempts`, `Limit`
4 with one Scout operation and one company leaves no call more than the floor protects;
with two companies, no Scout and `Limit` 5, which leaves one, the seven properties hold
as well (2.49 M states, not among the runs). `MaxFaults`
bounds crashes, stalls, lost replies, failing heartbeats and failing database calls
together; nothing else is bounded, and `epoch` stays finite because a lease changes
hands only by a fault or because its holder left the run. Deadlock checking is on in
`financial_safety` only: elsewhere a finished system stops.

In `campaigns` two campaigns of one user compete for the one active run, and two drafts
for one lock; two request keys per campaign give 4.1 M states and the same answer. In
`financial_safety` two handlers and a supervisor make three ways to hold the lease, two
runs of the key an old attempt on an erased run, two units a crash between two
publications; `Standalone` and `Registered` are true in both runs, the other values are
covered by the proofs. In `chat_safety` three events are the first, one in the middle
and the last; a `HighWater` and a queue of one frame fill at once; with two turns one
waits for the other. One client is enough: clients meet only in the events they hear. In
`agent_runs` a run beside its successor is the overlap that matters; a third
run repeats it. In `alert_delivery` two alerts ask for the digest, one of them may not
leave as a push, so that neither its SMS nor a digest with it is sent (one without it
is), and the third cannot be read; with two rows to a claim it is claimed beside a
readable alert or alone. The run also
passes with the unreadable alert as the oldest, and with one row to a claim. In
`alert_unreadable` the two alerts fit into one claim, and no crash is needed.

Fairness (`FairSpec`). In `DiscoveryRun`, `WF(∃ w : Claim(w))`: `worker.ts` polls for
ever. `∀ w : WF(Work(w))`: a worker that is executing reaches its next await; provider
calls have timeouts. `WF(ExpireLease)`: `lease_expires_at` is a time and time passes.
Nothing is assumed of faults, of a company's research failing, or of the user; the claim
of one particular worker is not fair, only that somebody claims. With these, a run that
nobody holds becomes claimable and ends, and a run that a heartbeat left because it was
being cancelled (`runner.ts`, the aborted signal) is claimed again and finalized as
cancelled, also after its deadline.

`FinancialRun`: workers take their next step, supervisors tick (`createFinancialWorker`
is an interval), an unattended lease runs out; nobody is bound to retry a request.
`RunEnds` allows what `Stuck` names: nothing left that may be published, or the bound on
epochs. `ChatTurns`: a turn's runner makes progress, whether or not a client listens;
providers have timeouts. `AgentRuns`: handlers go on, claims run out, and somebody asks
for the agent again: only a later claim fails the row of a process that died. After a
deletion of the agent nobody does, and `NotStuck` does not ask for it. `AlertDelivery`:
the worker is run again and again, a pass at work proceeds (requests are given up after
ten seconds), time passes. `DiscoveryCampaigns` has no fairness and no liveness
property.

## 4. Proofs

TLAPS proves the following for every value of the constants: any sets of workers,
companies, Scout operations, campaigns, keys, drafts, units, handlers, runs, clusters
and alerts, every size, and any number of faults. The assumptions are the named ones of
the modules: the null values (`NoWorker`, `NoRun`, ...) are not members of the sets they
stand beside, bounds are natural numbers, `ScoutOps` is finite and disjoint from the
roles, `LimitAssumption`; in `FinancialRun` request handlers are not supervisors; in
`ChatTurns` a turn has at least two events (`turn.started` and its last) and the buffers
of a socket and of its queue hold a frame; in `AgentRuns` clusters are disjoint and not
empty; in `AlertDelivery` the set of workers is finite and routes are pairs of an alert
and a channel.

| Theorem | Property | Argument |
|---|---|---|
| `DiscoveryRun_proofs!TypeCorrect` | `TypeOK` | `TypeOK` needs `InLoop`: in the company loop the checkpoint points at a company, so `Current(w)` is one |
| `DiscoveryRun_proofs!CancellationWins` | `CancelWins` | `CancelInv` = types, `LeaseInv` (a live lease belongs to a running run), `VerdictInv` (a worker about to finalize as cancelled has seen a cancellation; one that finalizes for the first time is not about to). `CancelWins` alone is not inductive: it says nothing of what workers carry in their hands |
| `DiscoveryRun_proofs!EndIsFinal` | `ResultIsFinal` | the same invariant: without a live lease no write passes the fence |
| `DiscoveryRun_proofs!HistoryFenced` | `FencedHistory` | `EventInv`: no event is of a later epoch than the row's, an end only of an ended run; and only the holder of the live lease appends |
| `DiscoveryRun_proofs!HonestCheckpoint` | `CheckpointHonest` | `CohortInv` (rows and checkpoint agree) needs `WorkInv`: what the holder remembers of the rows is true of them at every point of its loop. Of a worker that lost its lease nothing is known, and nothing is needed |
| `DiscoveryRun_proofs!ReplayNever` | `NoReplay` | `WorkInv`: a company in `pending` from the present one on is still to be researched |
| `DiscoveryRun_proofs!Completeness` | `CompletedIsComplete` | `WorkInv`: a holder about to finalize as completed has seen the whole cohort sealed, no systemic reason and no gap; `EndRun` is the only step into a terminal status and restores the sealed companies, and nothing is sealed before a run starts |
| `DiscoveryRun_proofs!OneCohort` | `CohortOnce` | `EventInv`: a committed cohort is past the discovery stage, where none is committed |
| `DiscoveryRun_proofs!Refinement` | `KeepsContract` | the invariants above, and `ChosenInv`: before the cohort is committed nobody is chosen |
| `DiscoveryAttempts_proofs!TypeCorrect` | `TypeOK` | with `HasOp`: a worker inside an operation has one |
| `DiscoveryAttempts_proofs!PaidOnce` | `OneCallPerRow` | `LedgerInv`: a worker that is about to call has a row nobody else is about to call, with no call yet (`CallerHasRow`, `NotCalledYet`) |
| `DiscoveryAttempts_proofs!ValidIsEnough` | `ValidEndsOp` | `AskedAfterSpent` and `SecondAfterSpent`: attempt 2 is asked for, and reserved, only when attempt 1 is an error, unknown or invalid; outcomes do not change again |
| `DiscoveryAttempts_proofs!LateAnswersDropped` | `SettledOnce` | `CallerHasRow` keeps the epoch of a reservation equal to the one its caller holds, and `finishAttempt` compares that with the run's |
| `DiscoveryAttempts_proofs!UsageIsLedger` | `UsageCounted` | `StepSettles`: every step settles rows and charges nothing, or reserves one row and charges one |
| `DiscoveryAttemptsHolder_proofs!NeverBlocked` | `NeverInProgress` | `PlacesInv`: at most one worker is current, and where it may be before and after the cohort is committed. `ReservedInv`: a row it reserved under its present lease is in its call, or belongs to an operation it will not ask for again (`Abandoned`) |
| `DiscoveryAttemptsHolder_proofs!FirstCallsGranted` | `InitialNeverRefused` | `FloorInv`: once the cohort is committed, usage plus the calls still owed fits the limit. It starts with the arithmetic of `LimitAssumption` (`ScoutSpends`, `OwedBound`: cardinalities of products), a first attempt moves one call from owed to used, a second one is made only with room left, and failed companies only free calls |
| `DiscoveryAttemptsHolder_proofs!Refinement` | `KeepsContract` | the invariants above. `StepSpends`: every step reserves, dispatches, settles one row or leaves ledger, usage and calls alone (`Quiet`); a reservation meets the floor (`ReserveCharges`), a worker that has an answer has called (`CalledInv`), and a cohort is selected when nothing is owed, within the limit by `FloorInv` of the next state |
| `DiscoveryCampaigns_proofs!CurrentStart` | `StartsCurrent` | `OpenInv`: what the open transaction has checked stays true until it writes |
| `DiscoveryCampaigns_proofs!LeaseRespected` | `DeleteRespectsLease` | `OpenInv`: while a deletion is open no run of its campaign obtains a lease |
| `DiscoveryCampaigns_proofs!DraftsKeptApart` | `DraftsApart` | `DraftInv`: whose token the row holds, and that a draft that was overtaken has none |
| `FinancialRun_proofs!TypeCorrect` | `TypeOK` | inductive by itself |
| `FinancialRun_proofs!EvidenceFixed` | `OneEvidence` | `UnitInv` (results and publications are of the bound evidence) and `BasisInv` (so is what the holder is persisting); `AttemptInv` says which attempts may hold the lease |
| `FinancialRun_proofs!Completion` | `CompletedIsPublished` | `UnitInv`, `EndInv` |
| `FinancialRun_proofs!Fencing` | `SupersededWritesNothing` | `AttemptInv`: tokens and run ids of attempts are never ahead of the row |
| `FinancialRun_proofs!Refinement` | `KeepsContract` | every action is a step of `PublicationContract` or a stutter, under the same invariant |
| `ChatTurns_proofs!TypeCorrect` | `TypeOK` | the whole `IInv`; that a writer never holds more than `HighWater` and `MaxPending` frames is part of it and follows from how `Write` and `Drained` change it (`WriterOK`) |
| `ChatTurns_proofs!TurnsInOrder` | `OneAtATime` | `QueueInv`: the order of the map is total (`OrderInv`); an unsettled turn waits for the youngest of the older unsettled ones, and the tail of the chain is the youngest of all (`ChainInv`); done turns are older than the others (`StageInv`) |
| `ChatTurns_proofs!StartedOnce` | `RunOnce` | `MemoryInv`: starts of a turn are counted by restarts, expired tombstones and being remembered now |
| `ChatTurns_proofs!AnsweredOnce` | `AnswerOnce` | `AnswerInv`: a committed turn has its answer, and answers of one turn are one |
| `ChatTurns_proofs!StreamsInOrder` | `StreamInOrder` | `StreamInv`: the frames on the wire and in the queue are exactly the events between the last one heard and the last one written, in order (`Carries`). Lemmas say what appending, moving frames to the wire and replaying a history do to `Carries`; a subscriber has been written every event of its turn |
| `ChatTurns_proofs!ReadsFindAnswers` | `ReadFindsAnswer` | `ReadInv`: the turns found in flight are finite and ordered, so if one has no answer there is an oldest such (`FiniteMin`, `SuspectIn`) |
| `ChatTurns_proofs!Refinement` | `KeepsContract` | `QueueInv` and `AnswerInv`: a turn that runs is behind nobody, one that settles leaves the order of the others, pruning takes only settled turns (`PruneKept`) |
| `AgentRuns_proofs!FindingsOnce` | `ExactlyOnce` | `LockInv`: transactions lock disjoint clusters and create no finding that is committed; `CoverInv`: what is recorded as processed, or about to be, has its finding |
| `AgentRuns_proofs!UpdatesKept` | `NoLostUpdate` | `OwnInv`: a handler that works is the owner of the running row or was swept, and the owner's reading is not older than the watermark |
| `AgentRuns_proofs!EndsKept` | `RowsFinal` | `OwnInv`: what is to be completed has been committed |
| `AgentRuns_proofs!Refinement` | `KeepsContract` | `LockInv` makes the findings of a commit new, `CoverInv` covers what it processes (`CommitPublishes`), `NoLostUpdate` is its last clause; a sweep overtakes the one running row (`SweepOvertakes`) |
| `AlertDelivery_proofs!OncePerClaim` | `SentPerClaim` | `CountInv`: messages taken, plus passes that may still send, plus one if the alert can still be claimed or its last claim reached no pass (`Avail`), are at most one more than the lapses. Each step moves one unit between the terms, so the proof is one of cardinalities |
| `AlertDelivery_proofs!EndsKept` | `SettledOnce` | `ReceiptInv`: a delivered receipt in a pass, and a row that says notified, have their message |

Every step lemma has one step per action. Two lemmas save most of the work in
`DiscoveryAttempts`: `SettlingKeeps` (steps that reserve nothing and call nobody keep
`LedgerInv`) and `PlacesKeep` / `ReservedKeep` (a step of one worker leaves the others
where they are, and only a current worker changes the selection). In `ChatTurns` the
queue, the memory, the answers, the streams and a read are five invariants over almost
disjoint variables, each with a step lemma of its own. Where its proofs need induction
(the replay of a history frame by frame, the oldest of finitely many turns) they use
`NatInduct` and `FiniteMin`, which are stated over sets of numbers and of turns instead
of predicates. The theorems of `AgentRuns` and `AlertDelivery` are stated of `FairSpec`,
the only specification of these modules; they do not use its fairness.

The strengthenings hold on the instances of the safety runs too, which TLC confirmed:
`InLoop`, `CancelInv`, `EventInv`, `CohortInv`, `WorkInv` and `ChosenInv` on
`MCDiscoveryRun.cfg`; `LedgerInv`, `EpochInv`, `PlaceInv`, `BeforeCohort`, `ReservedInv`
and `FloorInv` on those of `DiscoveryAttempts`; `QueueInv`, `MemoryInv`, `AnswerInv` and
`StreamInv` of `ChatTurns_proofs` on an instance of 5.4 M states with two turns, a
client and a fault; and the `IInv` of
`DiscoveryCampaigns_proofs`, `FinancialRun_proofs`, `AgentRuns_proofs` and
`AlertDelivery_proofs` on the safety instance of each. The contracts of `ChatTurns` and
`DiscoveryAttempts` hold on the instance of `chat_safety` and on that of two companies
without Scout too.

## 5. What is only model-checked, and what is not modelled

Only model-checked: liveness (`RunEnds` of both runs, `CancelEnds`, `QueueMoves`,
`NotStuck`, `SettledWhileReadable`): it needs fairness and `ENABLED`, which the prover
does not reason about. Every other property of a run that passes is a theorem. The
recorded violations of `AnsweredNotReported` and `EveryAlertSettles` are counterexamples
of TLC.

Not modelled, though they have state:

* **Search budgets** of `DiscoveryAttempts`' ledger: limits per phase, second attempts
  charged to verification, and `OperationRunner.run` with its wait for a foreign
  operation.
* **Leads and issuers** of Scout: lead keys, merging, and a discovery that is resumed
  over a changed watchlist. The hazards at `stages.ts:30` and `scout-leads.ts:87` are
  about these; no property covers them, because a candidate of the models has one lead.
* **Replays** and lease renewal of the financial engine; what its plans compute.
* **Chat** beyond one thread: subject resolution, the analyst and financial runtimes,
  titles, and deletion of threads.
* **Thesis stages, rule matching, severity and cadence** of agents; preferences and
  throttles of notifications.
* **analyst-grids**: a bounded pool over cells inside one process.

Left out for good: `financial-core` (exact arithmetic, no protocol), selection and
ranking of candidates (pure functions of one list; `DiscoveryRun` allows every cohort
they may return), snapshot verification, evidence and provider repositories, adapters,
HTTP parsing and routing, the front end, prompts, and SQL that a single transaction
evaluates. They are most of the repository's lines, and what they compute is data to
every protocol above.

Section 2 presents the modules in the order of what they protect: the discovery run
and its ledger first, because money and published results depend on them, then its
campaigns, then the second leased workflow and the services that hold claims. Next would
be contracts for `AlertDelivery` and `DiscoveryCampaigns`, which so far have only
properties of their own, then the search budgets, which extend `DiscoveryAttempts` by a
resource, and leads in `DiscoveryRun`.
