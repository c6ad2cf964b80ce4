# TLA+ verification of Nexus Copilot

Nexus Copilot is a marketing workspace: a web chat in front of the Hermes agent
runtime, and a Marketing Ops service whose campaigns, items and approvals the
agent may change through MCP tools. The services are Node/TypeScript processes;
PostgreSQL and the file system hold the durable state. This directory holds TLA+
models of the parts whose correctness depends on what happens *between* two
awaits, two transactions or two restarts, the TLC runs that check them on small
instances, and the TLAPS proofs of the most important theorems.

Contents: [inventory](#inventory), [plan](#plan), one section per modelled part
([prepared plans](#prepared-agent-plans), [artifact server](#artifact-server),
[chat runs](#chat-runs), [browser and approvals of a run](#the-browser-and-the-approvals-of-a-run),
[domain approvals](#domain-approvals), [production items](#production-items),
[campaigns](#campaigns), [web analytics](#web-analytics)), [runs](#runs),
[supplementary configurations](#supplementary-configurations), [proofs](#proofs),
[what is not modelled](#what-is-not-modelled).

## Inventory

| Component | State | Operations | Talks to |
|---|---|---|---|
| Prepared agent plans (`services/marketing-ops/src/plans`, migration 0017) | table `prepared_agent_plans`: status, key, lease, attempts, receipt | prepare (MCP), list, execute (card) | domain commands, PostgreSQL |
| Command kernel (`domain/idempotency.ts`, `db/actorTransaction.ts`, `domain/audit.ts`, `domain/events.ts`) | idempotency records, audit rows, outbox events | one transaction per command: record lookup, effect, record | every domain command |
| Approvals and action packages (`domain/approvals.ts`, `actionPackages.ts`, `approvalExpiryWorker.ts`) | approval requests, decisions, packages with target hash and version | submit, decide, cancel, supersede, expire (request-time and worker) | items, notifications |
| Items, dependencies, batch, scheduling (`domain/items.ts`, `dependencies.ts`, `batch.ts`, `scheduling.ts`) | items with optimistic versions, dependency edges, schedules | create, update, move, complete, link, batch update | campaigns, approvals |
| Campaigns (`domain/campaigns.ts`, `participants.ts`, `materials.ts`) | a campaign, its participants and materials under one version | edit, move, archive, add, change and remove participants, upload, link, unlink | artifact server, items |
| Web analytics (`domain/webAnalytics.ts`, the setup of `ads.ts`, migration 0022) | connection with sealed tokens, OAuth states, jobs with leases, snapshots | authorize, callback, list, select, synchronize, connect Clarity, disconnect, replace the Google application | Google, Clarity |
| The rest of the domain (content, item artifacts, leads, ads, workspace, timeline) | rows of a campaign or item | single-row commands with versions; reports | items, campaigns |
| Delegation (`marketing-ops/src/delegation`, `chat-bridge/src/marketing-ops-delegation.js`) | short-lived signed tokens; references, one per run | issue, resolve while the run is running, revoke at its end | chat bridge, MCP server |
| Chat bridge runs (`services/chat-bridge/src/server.js` and helpers) | runs in memory and in `chat.bridge_runs`; SSE subscribers; the consumer of each run | create, execute, stop, stream, restart | Hermes, PostgREST, artifact server |
| Approval registry of the bridge (`hermes-approvals.js`) | pending, resolving and resolved requests, in memory | register, claim, complete, release, stream | Hermes, chat runs |
| Hermes sessions (`hermes-state.js`, `hermes-sessions.js`, `picture-mode.js`) | conversation state of a chat | ensure, bind, degrade, recover | PostgREST, Hermes |
| App API (`services/app-api`) | user sessions, chat sessions and messages | login, logout, CRUD, reverse proxy | PostgreSQL, the other services |
| Artifact server (`services/artifact-server`) | objects by content hash, metadata files, workspace locks | upload, promote, clean up, delete, read | chat bridge, App API |
| Chat web (`apps/chat-web`) | stream cursor, card state and the key of each click | send, resume, stop, execute a plan | App API, chat bridge |
| Migrations and operations (`infra`, `scripts`) | schema version, ledgers | migrate, provision, back up | PostgreSQL |

What is hard in them, and what makes them correct:

* **Plans.** Two prepare calls, clicks, retries, a lease that lapses under a live
  executor, commits whose answer is lost, restarts. Correct: one executable plan
  per chat, every action takes effect at most once and in order of creation, one
  receipt, backed by effects, and the answer a client gets is that receipt.
* **Artifacts.** Handlers are chains of awaited file operations with a lock for
  some of them. Correct: an artifact has its bytes, bytes have an artifact, a
  promoted artifact stays, every request returns.
* **Chat runs.** The consumer of the Hermes stream, stop requests, the SSE
  subscribers and the saves of each run share one mutable object and interleave at
  every await; saves are separate HTTP requests, so they can land in another order
  than they were sent. Correct: a run ends once, with the outcome of Hermes; what is
  stored is what is in memory; streams are delivered whole, in order, and closed.
* **Bridge approvals.** A claim precedes the upstream answer and is released when
  it fails, while the stream may resolve the request. Correct: Hermes is given one
  answer, and the registry remembers it.
* **Domain approvals.** A decision, a cancellation, an expiry and a new version of
  the target race. Correct: one terminal decision, never after the expiry, never
  for a version that is not the current one, and the package follows the request.
* **Items and dependencies.** Pre-flight reads outside the lock, a cycle check that
  sees committed edges only, batches that need two connections. Correct: no lost
  update, no completion before what the item depends on, truthful batch answers,
  and no call that waits for ever.
* **Campaigns.** Roles are read before the row is locked; an upload writes to another
  service in the middle of a transaction. Correct: whoever changes a campaign is
  entitled at the commit, and no link is without its bytes.
* **Web analytics.** Calls of Google between short transactions, leases that lapse,
  connections replaced meanwhile. Correct: the tokens are those of the last consent,
  one attempt writes, and what is published was measured for what is selected.
* **Browser.** A cursor counted in three places over a connection that breaks.
  Correct: every event once, in order, and the end reported as it was.
* **Delegation.** A reference is resolved while its run ends. Correct: no token for
  a run that is over.
* **App API sessions.** A password reset between a login's check and its insert
  leaves a session of the old password. Message and counter are two statements.

`PROJECT.json` lists the hazards line by line.

## Plan

Ordered by what a mistake would cost.

1. `PlanLifecycle` (abstract), `AgentPlans` (detailed), `AgentPlansProofs`. **Done.**
2. `ArtifactStore`: bytes and metadata files; `ArtifactStoreProofs`. **Done.**
3. `ChatRuns`: a run of the bridge, its saves, stop requests, subscribers;
   `ChatRunsProofs`. **Done.**
4. `RunStream`, `RunApprovals`: the browser of a run, composed with the registry of
   approvals; `RunApprovalsProofs`, about both. **Done.**
5. `ApprovalVerdict` (abstract), `Approvals` (detailed), `ApprovalsProofs`. **Done.**
6. `ProductionItems`: items, dependencies, batches; `ProductionItemsProofs`. **Done.**
7. `CampaignAggregate`: campaign, participants, materials; `CampaignAggregateProofs`.
   **Done.**
8. `AnalyticsConnection`: tokens, jobs and publications; `AnalyticsConnectionProofs`.
   **Done.**
9. Left: login, logout, password change and reset of the App API; the transports
   `session` and `responses` of the bridge; delegation references.

Every safety property a run checks is also proved; see [proofs](#proofs).

## Prepared agent plans

`AgentPlans.tla` models the table and the code around it; `PlanLifecycle.tla` is
what it promises, and `AgentPlans!Implements` relates them.

| Model | Code |
|---|---|
| `status`, `chat`, `draft`, `expiresAt`, `key`, `startedAt`, `attempts`, `receipt` | columns of `marketing_ops.prepared_agent_plans`; `draft` is the pair of source run and plan hash |
| `call`, `rows` | a prepare call: before, inside and after its transaction, and the rows that transaction is about to invalidate and so has locked |
| `effects[p][a]`, `records` | how often the command of action `a` has committed, and which actions have an idempotency record; `Commit` makes both visible at once |
| `closed` | targets that were archived by somebody else |
| `pc`, `plan`, `rkey`, `at`, `outcome`, `reply` | one call of `AgentPlanService.executePlan`: where it is, its parameters, the loop index, the outcomes so far, the answer |
| `PrepareReplay`, `PrepareLock`, `PrepareCommit` | `prepare` in `repository.ts` with its advisory lock |
| `ListPlans` | the opportunistic expiry of `listPending` and `listRecent` |
| `GetPlan`, `ExpireOnRead` | `getById`, a read and a later write in one transaction without a lock on the row |
| `ReserveRefuse`, `ReserveReplay`, `ReservePending`, `ReserveRecover` | `reserveForExecution` |
| `SkipDependent`, `CheckTarget` | the loop of `executeMarketingOpsPlan`, and what a command looks at before its record |
| `CommandHit`, `InsertRecord`, `InsertTimesOut` | the `INSERT ... ON CONFLICT DO NOTHING` of `executeIdempotentCommand`: it meets a committed record, inserts one that no other transaction sees, or waits for the open transaction that inserted it (`BeingInserted`) until `lock_timeout` |
| `CommandCommits`, `CommandRefused`, `CommandLost` | the end of that transaction |
| `Finalize`, `FinalizeLost` | `finalizeExecution` |
| `Tick`, `CloseTarget`, `Crash` | clock, other users, restart of the service |

A step is a transaction wherever no other transaction can change what it reads
before it commits; the four places where one can are split: `prepare`, `getById`, the
check of a target, and the command between the insert of its record and its commit,
where another executor may come to the same action. That the second waits is what the
unique key does, and with a lookup in its place `EffectOnce` fails. The transaction
of a lost connection or a stopped process is rolled back in the same step. `Refusals` always
contains `plan_hash_mismatch`, since the hash is an input a client may get wrong
at any time; the other members follow the order of the tests in the code. Actions
are abstracted to what the properties tell apart: whether an action uses the ref of
an earlier creation (`RefOf`) and whether its command looks at its target before its
record (`Guarded`). One owner is modelled: row level security hides a plan from
everybody else.

What the model says that a reader of the code may not expect:

* `finalizeExecution` is not fenced by attempt. An executor that lost its lease can
  settle the plan while the one that took over still runs; effects remain single, but
  the receipt can say `failed` for an action the other executor then commits.
  `ReceiptBacked` is therefore one-sided: completed implies took effect.
* `ReplayAbsorbed` and `ExpiryRecorded` are what documents say and the code does not
  do; see [supplementary configurations](#supplementary-configurations).
* The lock on the row goes when the reservation commits, not when the execution ends:
  the second of two clicks is answered `plan_executing`.

Bounds. `Lease = 0` with `MaxClock = 2` allows two successive lapses (the code's
lease test is strict, so one tick lapses it), `Ttl = 1` lets a plan expire before,
between and after the reads of a request, and `MaxAttempts = 2` (10 in the migration)
reaches the last attempt. Three requests under two keys give an executor, a recovering
executor and a stranger. Three actions give a creation, a dependent and an
independent action. One restart suffices because a restart resets all volatile state.

Fairness. `PrepareCommit` and the steps of a request that was admitted are weakly
fair: an `async` chain keeps running and a transaction ends while the process is up.
Nothing else is fair; in particular no client is obliged to retry, which is why
`ExecutionSettles` excuses executions cut short by a restart.

## Artifact server

`ArtifactStore.tla` models `server.js` and `workspaces.js` at the grain of file
operations: each `await` on a file is a step.

| Model | Code |
|---|---|
| `objects` | files `objects/<xx>/<sha256>` |
| `meta` | `metadata/<id>.json`, abstracted to the lifecycle it records; the other fields never change and are the constants `ContentOf`, `SpaceOf`, `Final` |
| `queue` | the promise chain of `workspaceLocks`: first the holder, then the waiting requests |
| `pc` | the file operation a request performs next |
| `names`, `entries`, `hashes`, `hash` | locals: directory entries still to be read, metadata files to remove, contents to count references of, the content being counted |
| `unread` | history: the artifacts whose metadata file could not be read while references were counted |
| `Upload…` | `ensureObjectFromTemp` (stat, rm, rename) and `saveArtifactMetadata`; a `stat` that fails (`UploadStatFails`) is taken for a missing object |
| `Promote…` | `promoteWorkspaceArtifact`; `saveArtifactMetadata` removes the old file, then renames the new one |
| `Cleanup…`, `Delete…`, `RmEntry`, `Scan…`, `RmBytes` | `deleteWorkspaceArtifacts`, `deleteArtifactMetadataAndBytes`, `removeObjectWhenUnreferenced` |
| `CleanupUnreadable`, `ScanUnreadable` | a metadata file that cannot be read: `readAllMetadata` goes on as if it were not there |
| `Fail`, `Crash` | any other file operation, which throws; a restart |

A workspace has one owner here (`listWorkspaceArtifacts` filters by owner, and the
picture flow that creates workspaces gives each one owner). Requests refused before
a file is touched, reads, tokens and ranges change no state and are left out.

`readAllMetadata` swallows every read error (`workspaces.js:99`). While references are
counted, a file that cannot be read names nothing, and the bytes of its artifact are
removed with those of another: `artifacts_unreadable.cfg` shows it. `BytesBacked` says
that this is the only failure that costs an artifact its bytes. It is checked where
it is meant to hold: promotions and cleanups of one
workspace, which share its lock, with shared bytes, failures and restarts. Outside
the lock it does not hold, and two supplementary configurations say where: the cleanup of
*another* workspace in the gap of a promotion, and a delete between an upload's `stat`
and its metadata. A failure inside the gap of a promotion loses the artifact
altogether, which `BytesBacked` permits. `PromotedKept` and `NoOrphanBytes` hold
without any such restriction.

Bounds. Two promotions and two cleanups per workspace let one of each precede and
follow the others; three or four artifacts with the same bytes are enough for
any pair to be removed while a third remains; two faults allow a failure followed by
a restart.

Fairness. The steps of a request that has begun are weakly fair, as file operations
end; requests are not obliged to arrive.

## Chat runs

`ChatRuns.tla` models one run of the bridge in the transport `runs`. Runs share
nothing but the registry of approvals, so one run is enough.

| Model | Code |
|---|---|
| `status`, `log`, `hermesId` | the object in `RunStore.runs`: `status`, `events` (their kinds), whether `hermes_run_id` is set |
| `disk` | its row in `chat.bridge_runs`: the snapshot that landed last |
| `hermes` | the run inside Hermes |
| `pc` | the `await` each actor stands at: the consumer (`createRun`, then `executeRun`) and the stop requests |
| `save` | the snapshot an actor has sent and waits for, or how that ended |
| `result`, `previous` | the parsed end an actor is applying; `previousStatus` of the stop route |
| `stream`, `index` | SSE connections and the cursors their browsers have reached |
| `Accept` … `Waited` | `createRun`, `ensureHermesSessionBinding`, `executeRunsApi`, `consumeEventsResponse` |
| `AppendResult`, `SetResult`, `Finish` | `applyParsedResult`, called by the consumer and by the stop route |
| `ConsumerThrows`, `Unhandled` | `failRun`, and the rejection of `failRun` itself, which nobody handles |
| `Claim` … `StopThrows` | the stop route |
| `Connect`, `Drop`, `Notify` | `subscribe`, a broken connection, `notify` |
| `Land`, `LoseSave`, `Crash`, `Restart` | the database, restarts and `RunStore.init` |

A step is what JavaScript runs between two awaits of a network call. A save is sent
with the state after the step, lands at any later time, and its return is the start of
the next step of the actor that awaits it; so saves of two actors may land in either
order. Of the events only kinds are kept. Hermes may end its run at any time, and
blocks and polls that speak of the time before may still be read afterwards
(`MaxNews` bounds them).

Not in the model: an upstream run created by a call whose answer was lost (Hermes runs
on, and the bridge does not know its id); the `done` event of `server.js:1381-1384`,
which no path reaches since every completion carries one; the guard
`activeRunConsumers`, never hit because a run is executed once; a save of a process
that has stopped which lands only after the next one has loaded the row.

What the model says that a reader of the code may not expect:

* A stop call that fails restores the status it found two awaits earlier, over any
  end the consumer has reached since (`EndIsEnd`). `ReopenedByStopOnly` says that
  this is the only way back from an end.
* The row may keep an older snapshot than the last one sent (`InterruptedUnended`).
* When the save of a claim fails, the run stays `stopping` although Hermes was not
  asked; `RunEnds` is therefore checked without failing saves.
* Subscribers are served by `save`, after the row is stored. When the save of the
  terminal status fails, nobody notifies them: a stream that is open then stays open
  until its connection breaks. `StreamsEnd` is therefore checked without failing
  saves as well; `DoneBeforeClose` and `ReopenedByStopOnly` are checked with them.

Bounds. Two stop requests are enough for a claim to meet another claim. One event or
poll (`MaxNews = 1`) lets the consumer be inside a block, a poll or a pause when a stop
arrives, and text before a failure. One connection that breaks once resumes at its
cursor. After one restart nobody works on the run any more.

Fairness. The consumer and admitted stop requests go on, saves land and Hermes ends
the runs it was given: these are the event loop and the two services the bridge waits
for without a timeout. No request, connection or failure is fair.

## The browser and the approvals of a run

`RunStream.tla` is what `sendMessageToChatbotStream` does from the id of a run to its
end, against the event stream and the snapshot of `RunStore`. `RunApprovals.tla`
extends it with the approvals Hermes asks for during the run: both are read by the
same bridge process, end with the same run and are lost in the same restart.

| Model | Code |
|---|---|
| `status`, `known`, `history`, `row` | the run in memory, how many of the events it ever had it still knows, and its row |
| `wire` | the SSE response: the `index` of its subscriber at the bridge, the `parts` written and not read yet, and whether it is open, ended (`closed`), ended by a proxy (`cut`) or `broken` |
| `at`, `cursor`, `shown`, `outcome` | the loop of the browser, its count of events, the events `processChunk` was given, by their place in the history, how the call returned |
| `Grow`, `End`, `Fail`, `Save`, `Restart` | `appendEvents`, the status set by `applyParsedResult`, `failRun`, `save` with `notify`, `init` |
| `Connect`, `StartIndex`, `Flushed` | the events route with its query, `subscribe`, `flushSubscriber` |
| `Read` … `ReconcileFails` | the read loop, `reconcileSnapshot`, `refreshOrThrow` |
| `hermes`, `heard` | which approval Hermes waits for or has gone past, and how much of that the bridge has read |
| `records` | `HermesApprovalRegistry.records` |
| `answer` | the requests to `POST /api/approvals/respond` and the await each stands at |

The bridge and the browser count apart: the bridge sets the index of a subscriber once,
from the query, and advances it by what it writes; the browser counts each part it is
given, knowing nothing of its number. `ShownInOrder` is that the two never disagree.
With a route that does not read its query it fails.

Who sets the status of a run, and how saves race, is the subject of `ChatRuns`; here
the run grows, ends and is saved, a restart interrupts it, and what was not saved is
gone, so that the cursor may stand beyond what the bridge knows. Nothing after a
`done` event is modelled, since no browser looks at it. `store.get` in the respond
route does not fail: an approval is in memory only together with its run.

What the model says that a reader of the code may not expect: an answer carries the
run and a choice, not the request (`Answered` takes whatever Hermes waits for). If
Hermes has gone on by itself and asks again, the choice meant for one approval reaches
the next, although the design (`docs/plans/2026-09-09-hermes-runs-bridge-design.md:141-143`)
says that resolved requests fail closed. A released approval is pending again, but
`release` notifies nobody, and the window that answered has closed its dialogue; and the
registry does not outlive its process, although the design (line 131) speaks of
persisting the request. No property states these; no code would keep it.

Bounds: five events, one failure of the network, one restart, two approvals and two
requests to answer them: enough for a cursor in the middle of the run, a restart that
forgets events, a second approval asked for while an answer to the first is under way.
Fairness: the browser goes on and a changed run is saved. Network failures are bounded,
which says that the network works in the end.

## Domain approvals

`Approvals.tla` models `approvals.ts`, `actionPackages.ts` and the expiry worker over the
tables of migrations 0006 and 0008; `ApprovalVerdict.tla` is what a request promises, one
verdict for good and its package settled in the same step, and `Approvals!Implements`
relates them.

| Model | Code |
|---|---|
| `status`, `version`, `kind`, `requestedBy`, `expiresAt`, `supersedes` | `approval_requests` |
| `package`, `decisions`, `notices` | `action_packages.status`, `approval_decisions`, `in_app_notifications` |
| `holder`, `batch` | row locks, and the rows the worker's transaction has selected |
| `pc`, `what`, `target`, `actor`, `key`, `seen`, `calledAt`, `reply` | a POST of a decision or cancellation; a retry is another call with the same key |
| `Submit` | `submitOperationalApproval` and its editorial sibling, with supersession |
| `ExpireFirst`, `LockRow`, `Conclude` | the decision's own expiry batch, `loadRequestForUpdate`, the rest of the transaction |
| `SelectBatch`, `ExpireBatch`, `BatchFails` | `expire_approval_requests_batch` as the worker calls it |

A transaction that takes a row lock is two steps, since a batch skips a locked row and a
decision waits for it. Bounds: two requests, one of which may supersede the other, two
calls under one key, a batch of one, one tick, one lost connection. Fairness: calls that
have begun go on and the worker's timer fires. The run `approvals_cancel` shows that no
cancellation is ever stored: its decision row has no comment, and the table demands one.

## Production items

`ProductionItems.tla` models `items.ts`, `dependencies.ts` and `batch.ts` with the
triggers of migration 0014, READ COMMITTED and the pool of connections.

| Model | Code |
|---|---|
| `status`, `version`, `edges` | `campaign_items`, committed rows of `item_dependencies` |
| `saw` | history: the edges the trigger of an insertion could read |
| `pc`, `cmd`, `seen`, `blocked` | a call: where it is, what it asks, the versions it sent, `has_incomplete_dependency` as the locking statement read it |
| `results`, `recorded` | answers of a batch, and the items whose records its key has |
| `RecordBatch`, `Holding` | the idempotency record of the whole batch: its key is held until the batch's own transaction ends, so that an attempt waits for an open one and replays a committed one |

A step ends where another transaction can make a difference. `CyclesAreBlind` is what
holds of cycles: the trigger refuses each one it can see, and a cycle exists only between
two insertions that were open together; nothing in the code excludes those. Bounds: three
calls, three items, a pool of two connections, which two batches exhaust. Boards start without a cycle, and with completed items
that depend on completed ones. Fairness: calls go on, and a wait for a connection ends in its timeout, as in `pool.ts`.

## Campaigns

`CampaignAggregate.tla` models every command that changes a campaign's row, participants
or materials; all share one version. The first check, the idempotency record, the upload
to the Artifact Server, the permission function and the locked rest are separate steps,
with lost answers, failed commits, failed compensations and stops between them. The
fields of an edit are a choice of the model. A patch of a participant names a role, the
primary flag, or both (`to`, `flag`): it may promote a user and give him the flag
in one update, and it may ask to take the flag away, which the primary owner is
refused. The role a user has in the tenant (`Managers`) is given with the session and does
not change. Bounds: three calls of three users over
sixteen commands, two initial teams. Deadlock is checked: no call waits for ever for
another. `EntitledAtCommit` is about the rows as they are at the commit, which the
version check saves although the role was read before the lock.

## Web analytics

`AnalyticsConnection.tla` models one row of `web_analytics_connections` with its OAuth
states, jobs, receipts and snapshots. All transactions of a tenant take the same advisory
locks, so a transaction is a step, and calls of Google or Clarity are between them.

| Model | Code |
|---|---|
| `conn` | the row: status, version, generation, application, whose tokens (`grant`), the generation they are sealed for |
| `oauth`, `jobs`, `receipts`, `snapshots` | the tables of migration 0022 |
| `publication`, `consent` | the Google application in force; history: the last consent |
| `calls` | what each call remembers between its transactions |
| `Lose`, `LeaseLapses` | the process stops within a call; a lease runs out, at any time |

The lease is one clock here. The code reserves with the clock of the database
(`webAnalytics.ts:316`, `320`) and compares with that of the process when it publishes
(line 332). With a process that is ahead, a report is refused a little early. With one
that is behind, it is taken a little after its lease has lapsed in the database: an
attempt of the same job that took over is still fenced by the attempt, but a
synchronization under another key may have begun meanwhile, and then two may write.
`OneWriter` is shown for clocks that agree.
A scheduled synchronization is a call with the hour's key (`next_sync_at` is not
modelled), and an exhausted Clarity quota is one of the provider's failures. Bounds: two
concurrent calls, two keys, two resources, two of each of authorize, select, sync and
connect and one of every other operation, one replacement of the application.

## Runs

| Run | Question | Instance | Result |
|---|---|---|---|
| `plans_execute` | Are effects single, in order and backed by the one receipt that is answered? | one plan of three actions, three requests, two keys, lapses, database faults, a restart | holds |
| `plans_implements` | Does the table keep the promise of `PlanLifecycle`, one executable plan per chat, and a receipt for what was reserved? | two prepare calls, two requests, a restart; fair | holds |
| `artifacts_workspace` | Is a metadata file that cannot be read the only loss of bytes, and do requests return, whatever fails? | two promotions, two cleanups, an upload, two faults; fair | holds |
| `artifacts_shared` | Do promotions survive, and are bytes collected, across workspaces? | four artifacts of the same bytes, two workspaces, two deletes | holds |
| `chat_faults` | With everything failing: no end of a stream before `done`, no return from an end? | two stops, one browser, failing saves and calls, a restart | holds |
| `chat_ends` | Does every accepted run end for good and let its browsers go, as long as saves succeed? | two stops, failing upstream calls, a reconnect, a restart; fair | holds |
| `chat_window` | Does a browser process every event once and learn the end, and is every approval answered by one window at a time and for good? | five events, two approvals, two answers, a network failure, a restart; fair | holds |
| `approvals_decide` | One verdict, in time, answered truthfully, and the promise of `ApprovalVerdict`? | two requests, two calls, the worker, a lost connection; fair | holds |
| `approvals_cancel` | Can the requester cancel? | one request | violated: the table refuses the decision row |
| `items_production` | No lost update, no early completion, no cycle the trigger could see, truthful and answered batches? | three calls, three items, two connections; fair | holds |
| `campaign_commands` | Is whoever changes a campaign entitled, are replays recognized and uploads accounted for? | three calls, three users, sixteen commands | holds, no deadlock |
| `analytics_sync` | Are tokens, writers and publications those of the connection as it is? | two calls, two keys, two resources | holds |

The violated property is what a document of the repository says; the finding in
`PROJECT.json` quotes it and tells the execution. Runs without a liveness property use
symmetry (`plans_execute`, `chat_faults`, `campaign_commands`, `analytics_sync`). Except
in `campaign_commands` deadlock is not checked: requests are finitely many and every
instance stops when they are answered. Besides its run properties each module has a
`TypeOK`, which documents its variables; it is run for `AgentPlans`, where it says that
the attempts of a plan stay within their constraint.

## Supplementary configurations

These configurations each show one known disagreement between the code and what a
document, a test or a message of it says. They are kept for whoever changes that code,
and are run by hand, `tlc -config <file> <MC module>`; each ends in a violation.

| Configuration | Module | Property | What happens |
|---|---|---|---|
| `plans_replay_reported.cfg` | `MCAgentPlans` | `ReplayAbsorbed` | a retried action that took effect is reported as failed, since the command checks its target before its record (`items.ts:451`) |
| `plans_expiry_rollback.cfg` | `MCAgentPlans` | `ExpiryRecorded` | the refusal of an expired plan rolls back the expiry it wrote (`repository.ts:326`) |
| `artifacts_promoted_bytes.cfg` | `MCArtifactStore` | `PromotedBytesKept` | the cleanup of another workspace removes the bytes of an artifact in the gap of its promotion (`workspaces.js:86`) |
| `artifacts_unreadable.cfg` | `MCArtifactStore` | `PromotedBytesKept` | a metadata file that cannot be read counts as no reference, and the bytes of its artifact are removed (`workspaces.js:99`) |
| `artifacts_upload_race.cfg` | `MCArtifactStore` | `UploadPersists` | a delete removes the bytes an upload found, before it saves its metadata (`artifact-server/src/server.js:165`) |
| `chat_stop_failed.cfg` | `MCChatRuns` | `EndIsEnd` | a stop call that fails writes back the status of before over an end (`chat-bridge/src/server.js:2113`) |
| `chat_row_overwritten.cfg` | `MCChatRuns` | `InterruptedUnended` | an older save lands last, and a restart interrupts a run that had ended (`chat-bridge/src/server.js:802`) |

## Proofs

Each proof module holds for every value of the constants, from the assumptions on
them in the modules it extends, which TLC checks in the runs of those modules. They say
which actors, keys and placeholders differ (`None` is no key, no row, no receipt), that
bounds are numbers, and that initial boards, plans and teams are ones the commands
of the code can have made.

| Module | Theorem | Says |
|---|---|---|
| `AgentPlansProofs` | `TypeCorrect` | `TypeOK` |
| | `OnePending` | `OnePendingPerChat` |
| | `EffectsOnce` | `EffectOnce` |
| | `ExecutorsHoldPlan` | `ExecutorHoldsPlan` |
| | `ReceiptsBacked` | `ReceiptBacked` |
| | `CreatorsFirst` | `CreatorFirst` |
| | `AnswersAreReceipts` | `AnswerIsReceipt` |
| | `PlansImplementLifecycle` | `Implements`: every step is one of `PlanLifecycle` or none |
| `ArtifactStoreProofs` | `TypesHold` | `TypeOK` |
| | `PromotionsKept` | `PromotedKept` |
| | `NothingOrphaned` | `NoOrphanBytes` |
| | `BytesOfEveryArtifact` | `BytesBacked`, of the instances that are `Apart` |
| `ChatRunsProofs` | `TypesHold` | `TypeOK` |
| | `DoneComesFirst` | `DoneBeforeClose` |
| | `OnlyStopsReopen` | `ReopenedByStopOnly` |
| `RunApprovalsProofs` | `StreamSafe` | `ShownInOrder` and `OutcomeTrue`, of `RunStream` alone |
| | `OneHolderAlways` | `OneHolder` |
| | `ResolvedAlwaysStays` | `ResolvedStays` |
| | `ImplementsStream` | `RunApprovals` implements `RunStream` |
| | `ShownAlwaysInOrder`, `OutcomeAlwaysTrue` | `ShownInOrder`, `OutcomeTrue`, from `StreamSafe` and `ImplementsStream` |
| `ApprovalsProofs` | `TypesHold` | `TypeOK` |
| | `EachDecidedOnce` | `OneDecision` |
| | `DecisionsInTime` | `DecidedInTime` |
| | `AnswersAreDecisions` | `AnswerIsDecision` |
| | `ApprovalsKeepVerdicts` | `Implements`: every step is one of `ApprovalVerdict` or none |
| `ProductionItemsProofs` | `TypesHold` | `TypeOK` |
| | `CompletedLast` | `CompletedAfterDependencies` |
| | `NoneLost` | `NoLostUpdate` |
| | `BatchesTellTheTruth` | `BatchAnswerIsTrue` |
| | `CyclesNeedTwo` | `CyclesAreBlind` |
| `CampaignAggregateProofs` | `TypesHold` | `TypeOK` |
| | `ThePrimaryOwner` | `OnePrimaryOwner` |
| | `RepliesOfCommitted` | `CommittedIsReplayed` |
| | `NoUploadLost` | `UploadsAccounted` |
| | `CommitsAreEntitled` | `EntitledAtCommit` |
| `AnalyticsConnectionProofs` | `TokensAlwaysInForce` | `TokensInForce` |
| | `OneWriterAlways` | `OneWriter` |
| | `ReceiptsOfAttempts` | `ReceiptOfAttempt` |
| | `PublicationsFresh` | `FreshPublication` |

None of the invariants is inductive alone, and each strengthening was checked by TLC on
the instance of a run before it was proved.

**Plans.** `TypeInv` adds to `TypeOK` that a plan nobody reserved has no attempts and no
key (`Unreserved`: the bound on attempts needs it) and that the loop over the actions
leaves none without an outcome (`Loop`: the type of a receipt needs it). `PrepareInv`
adds what lets `OnePendingPerChat` survive the commit of a prepare call (`Holders`): a
call that holds the advisory lock of a chat is the only one, and the rows it has locked
are exactly the pending plans of the chat. `ExecInv` adds that an admitted request names
one plan and one key (`Named`), and holds `ExecutorHoldsPlan` and `EffectOnce` together:
the count of effects is one exactly where the record was committed (`Recorded`), and an
open transaction that has inserted a record is the only one for it, with nothing
committed before (`OneWorks`), which is what the waiting insert is for. `ReceiptInv` is
about what executors carry: whatever an outcome reports as completed has taken effect
(`OutcomesTrue`), so that it does not matter which of several executors settles the plan,
and who is answered was answered from the row (`Answered`). `RefineInv` adds that a
prepare call has a chat from the moment it takes the lock (`Announced`): taking the lock
is the announcement of `PlanLifecycle`, its commit the preparation.

**Artifacts.** `PromotedKept` rests on the lock: whoever is between its reading and its
last file operation heads the queue of the workspace (`LockInv`), and a cleanup inside
has listed only what is not promoted (`Listed`). `NoOrphanBytes` is proved from its
generalization to all moments: bytes without an artifact are owed by some request, one
that will still count their references or write their metadata (`Owed`). That the last of
several removals sees the count reach zero is why a debt always has a debtor.
`BytesBacked` is not true of every instance. `Apart` names the three races that the code
leaves unlocked: an upload of bytes that another artifact has, the delete of an artifact
that shares bytes with one being promoted, and the cleanup of another workspace that
does. Without them it holds for any number of artifacts, workspaces and requests, with
failures and restarts, but for the artifacts in `unread`. Two configurations show the loss, `artifacts_upload_race` by the
first race and `artifacts_promoted_bytes` by the third; the second loses them as the third
does. `Apart` leaves sharing within a workspace, which is what the lock is for,
and the instance of `artifacts_workspace` is `Apart`.

**Chat runs.** A stream closes by the status of the run, a restart takes status and log
from a row that may be any save that was in flight, and the log is cut to it. So a status
that is an end, and a row that has such a status, each have to imply a done event early
enough (`EndIsTold`, `RowsToldEnd`); then the first done event survives the cut, and it is
the one the browser was sent. `SeenIsStored` says that no browser has seen anything of a
run without a row, `AtRest` that nothing works on what a restart has interrupted or
forgotten, `NotYetStopped` and `FoundGoingOn` that a stop request finds a run Hermes has,
and restores the status of one that goes on: `ReopenedByStopOnly` follows for each step.

**Browser.** `StreamInv` says of the run that the process knows all of its history until
it restarts and that an ended run has its done event there (`DoneKnown`,
`CompletedIsDone`), and of a browser that goes on that it has seen nothing but news
(`NothingEnds`). Then a snapshot that shows no end beyond the cursor shows none at all,
and a run without one is not completed: that is `OutcomeTrue`. `ShownInOrder` needs `WireFits`: the
index of the subscriber at the bridge is the browser's count and the parts on their way,
and these are the events between the two. A chunk moves the boundary, a save moves the
index, a new connection starts where both are equal, and whatever breaks a connection
drops what lies between them.

**Approvals of a run.** `RegistryInv` splits `OneHolder` into existence and uniqueness
of the window at a request, and adds what both need: whoever is at a request has found
it, and left it, resolving or resolved (`HeldIsClaimed`).

**Domain approvals.** `ControlInv` says what the locks are for: a request in a batch is
held by it, a call that goes on to conclude holds its request (`Held`), and calls ask
about requests that were posed (`Posed`) at a time the clock has reached (`Dated`). `LogInv`
says of each decision whose call it is (`Signed`); with it, a repeated call is answered
from a record that the log bears out. `ApprovalsKeepVerdicts` then needs of each step only
that rows with a verdict are left alone, and that a verdict comes with its package.

**Production items.** A change is made by a statement that looks at the version, so what
a call has read holds as long as the version is the one it sent: that is `Sound` for the
status, `Unblocked` for the dependencies, and `Moved` for what is over.
`BatchAnswerIsTrue` needs that one attempt of a key is under way at a time (`Keyed`) and
that its answers so far are those of the records (`Told`). The first attempt at this proof
failed: the model let two attempts of one key run side by side, since it lacked the
record that `executeIdempotentCommand` takes for the whole batch; it now has it
(`RecordBatch`). `CyclesAreBlind` is about cycles of any length. What the triggers saw has
no cycle (`Seen`). `Blind` states the property of every subset of the edges: when an edge
is inserted, a subset that has a cycle without it has two blind edges already; in any
other, its trigger has not seen all of the cycle, and the edge it missed has not seen it.
Reachability is defined by closed sets, so that this needs no induction over paths.

**Campaigns.** Everything follows from the version: whoever is at the locked rest with
the version of the row was granted the permission on the rows as they are (`Granted`), and
a version conflict means that the version has passed the call's (`Stale`), which, by the
records, a repeated request of a committed one never comes to. `UploadsAccounted` is one
statement per call of where its bytes, its link and its answer are (`Accounted`).
`OnePrimaryOwner` names its owner (`Flagged`): a change of participants leaves that user
alone, or puts another in place who is an owner after the same patch.

**Analytics.** `TokensInv` says what a call remembers (`Remembers`): its generation is
that of the row or an earlier one, and as long as it is the row's, the tokens the call
has read are of the authorization in force; an open OAuth state belongs to it as well
(`OpenState`). Two lemmas then do for all steps: one for a row that starts over
(`RowReplaced`), which leaves everything remembered behind, one for a row that goes on
(`RowKept`). `WriterInv` adds that one running job has a lease (`OneLease`) and that no
two synchronizations report under one attempt (`OwnAttempt`). `ReceiptsOfAttempts` and
`PublicationsFresh` come from it: only the holder of the lease publishes, and what it
asked the provider for is what the row still has selected.

Only model-checked is liveness (`ExecutionSettles`, `RequestsReturn`, `RunEnds`,
`StreamsEnd`, `EndSeen`, `OverdueSettles`, `Answered`): the proof system has no support for
`ENABLED`, hence none for fairness. `ImplementsStream` carries the fairness of `RunStream`
over as it is and proves nothing from it. The refinements `Implements` are proved for the
specifications without fairness, which they state.

## What is not modelled

* The transports `session` and `responses` of the bridge and its import of artifacts:
  the first two are one request and one stream each, without stop requests.
* The stream that tells windows of approvals, and the dialogue (`useApprovalStream.ts`).
* The creation of a run by the browser: it repeats a POST whose answer was lost
  (`chatStreamClient.ts:203`), and each POST makes a run of its own.
* App API authentication: a login whose password check precedes a reset creates its
  session after the reset deleted all (`auth/routes.js:43`), and a reset whose second
  statement fails leaves the sessions (`auth/service.js:380`); message and counter of a
  chat are two statements (`chat/service.js:209`).
* Delegation references: a map of one process whose steps wait for nobody.
* Content, item artifacts, leads, ads imports: single-row commands with the versions and
  records that `ProductionItems` and `CampaignAggregate` show on larger aggregates.
* UTM links and reports of web analytics, and its quota: one statement each.
* Migrations, deployment, scripts, agent skills and the pages of the web application: no
  concurrent state of their own.
* Row level security, signatures and rate limits: data the properties do not tell apart.
