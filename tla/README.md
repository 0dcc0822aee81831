# AgentWing: a TLA+ model

AgentWing is a gate in front of AI agents. An agent proposes an action over HTTP; a policy answers
allow, block, approval, sandbox or restore point; the gate then skips the action, runs it in the
workspace's own E2B sandbox, releases it to an external runner, or waits for a human. Each decision
leaves a receipt, and receipts are chained so that the log can be verified offline. The service runs
on Cloudflare Workers over D1: every request is a stateless handler that reads rows, awaits, and
writes rows back. There is no transaction around a handler and no lock; the only protections are
conditional `UPDATE`s and unique indexes. An isolate may die at any `await`. In front of the service
stand clients that retry, poll and overtake themselves: the SDK, the agent hook, the MCP endpoint and
the dashboard. That is what the modules model.

## Inventory

| Component | State | Operations | Interacts with |
|---|---|---|---|
| Run lifecycle (`actionRunLifecycle.ts`, `agentwingStore.ts`) | `action_runs`, `approvals`, the result columns of `receipts`, `execution_events`, `usage` | execute, approve, reject, continue, resolve an approval | policy, sandbox, chain, webhooks, jobs |
| Scheduled jobs (`workers/jobs`) | none of its own | reap stuck runs, expire approvals, sweep keys, sessions, transactions and events, disable endpoints | the same rows, from another worker |
| Receipt chain (`receiptChain*.ts`, migration 0011) | `receipt_chain_head`, `receipt_chain`, `receipt_checkpoints` | append, checkpoint, export | called by `createReceipt`, best effort |
| Offline verifier (`packages/receipt-verifier`) | none | `verifyChain` | reads an export |
| Idempotency keys (`idempotency.ts`) | `idempotency_keys` | look up, remember, sweep | wraps execute-action |
| Webhooks (`webhookStore.ts`, `webhooks.ts`) | `webhook_endpoints`, `webhook_deliveries` | emit, deliver, retry, disable | emitted by the lifecycle |
| Policy engine (`agentwingPolicy.ts`, `policyPattern.ts`, `policyInput.ts`) | `custom_policies` | evaluate, create, edit, delete | lifecycle, check-action |
| Sign-in (`oauthTransactions.ts`, `oidc.ts`, `auth.ts`) | `oauth_transactions`, `users`, `workspaces`, `workspace_members`, `sessions`; the cached JWKS of an isolate | begin, consume, upsert, sign out | Google, routes |
| Keys and account (`agentwingStore.ts`, api-keys, account) | `api_keys`, `users`, `sessions`, `usage` | create, revoke, authenticate, count, delete the account | every route |
| Runner approval tokens | `runner_approval_tokens` | issue, consume | lifecycle |
| Sandbox (`e2b.ts`, the four sandbox routes) | the stored E2B key and its last test, `process.env` of an isolate | save, test, remove, run | lifecycle |
| Rate limiter (`rateLimit.ts`) | a map per isolate | admit or refuse, clear | every route |
| SDK, retry loop (`packages/sdk`) | client memory | `runAction`; attempts with backoff | the API, from outside |
| Hook, MCP endpoint (`packages/hook`, `mcp.ts`) | none | a tool call becomes an action | check-action |
| Dashboard (`ProductPanels.tsx`, `SandboxesPanel.tsx`, playground, the approvals and runs pages) | component state | list, create, edit, revoke, save and test a key, approve, reject | the API, from a browser |
| Roles, wrapper, redaction, site, examples | none | per request | every route |

Behaviours that are hard here, and the properties they call for:

- **Read, await, write by id.** A handler decides on a snapshot and writes with `WHERE run_id = ?`.
  Between the two, a human, a second request, the reaper or the expiry job may have moved the row.
  What must survive: a blocked action has no effect; an action that needs approval has none before an
  approval is recorded; a rejection is undone only by somebody who could not have seen it. The same
  shape recurs in `deliverPending`, in the settings of the sandbox and in the first sign-in.
- **Partial failure.** Inside `runInsideE2B` a failed statement is caught and recorded as a failed
  execution; elsewhere it ends the handler; in `createApproval`, `createReceipt`, `rememberResponse`,
  `revokeAllApiKeys` it is swallowed. What must survive: completed implies a receipt with a result.
- **Counters.** Both usage counters are incremented and compared in two statements.
- **The chain without a transaction.** The head moves first, the row follows. What must survive: one
  chain, no rewound head, gaps only from appends that died half way, signatures that stay true, and
  no false alarm from the verifier however exports and appends interleave.
- **Retries.** The idempotency row is written after the run exists; a client's attempt may time out
  after its work was done; a delivery may be sent and not recorded.
- **Caches and shared memory of an isolate.** The signing keys, the rate windows, `process.env`.
- **Order in a browser.** Answers arrive late, out of order or not at all.
- **Order of rules.** A custom policy beats the built-in table except where it must not; patterns and
  command lines must be read for what they mean.
- **Liveness.** Only the cron rescues a run whose isolate died; only a scheduler delivers an event.

## Modules

| Module | Models | Kind |
|---|---|---|
| `ActionRuns` | run lifecycle, approvals, receipts' results, the sandbox counter, two jobs | component |
| `ExecutionGate` | what the lifecycle promises: an effect only while its gate is open | abstract |
| `ReceiptChain` | append, retry, checkpoint, export | component |
| `AppendOnlyLog` | what the head row promises | abstract |
| `ReceiptVerifier` | the checks of `verifyChain` as operators | pure |
| `ReceiptExport` | chain, export and verifier composed | composition |
| `Idempotency` | keys around execute-action, and the sweep | component |
| `Clients` | the SDK's retry loop in front of `Idempotency` | composition |
| `SdkRun` | the SDK's `runAction` and the guarded runner in front of `ActionRuns` | composition |
| `ApprovalQueue` | the dashboard's three pages that approve and reject, in front of `ActionRuns` | composition |
| `Webhooks` | queueing, overlapping deliverers, backoff, giving up, disabling | component |
| `Delivery` | what webhooks promise an endpoint of one event | abstract |
| `PolicyRules` | the decision table and the mandatory blocks | pure |
| `Policies` | custom policies and the decision of one check | component |
| `ToolCalls` | MCP endpoint and agent hook in front of `Policies` | composition |
| `Playground` | the page that shows the table's verdict on a draft | component |
| `Decisions` | the floor under every decision, on both surfaces (`ToolCalls`, `Playground`), and the types of these and of `ListPanels` | composition |
| `GlobMatch` | `matchesPattern`, one turn of its loop per step | algorithm |
| `CommandSegments` | `commandSegments`, one turn of its loop per step, against what a shell would run | algorithm |
| `ListPanels` | the pages of keys, policies and projects | component |
| `SignIn` | transactions, callback, upsert, sessions, two sweeps | component |
| `IdTokens` | the cached signing keys under overlapping verifications | component |
| `Access` | API keys, check-action's counter, deletion of the account | component |
| `RunnerTokens` | issue and spending of runner approval tokens | component |
| `Sandboxes` | key, test and stand-alone run over shared isolates | component |
| `SandboxPanel` | the settings page in front of `Sandboxes` | composition |
| `RateLimits` | the fixed windows of one isolate | component |
| `MCActionRuns`, `MCReceiptChain`, `MCClients`, `MCRunUsers`, `MCWebhooks`, `MCPolicy`, `MCWorkspace` | what TLC needs: symmetry, inputs | instances |
| `ActionRuns_proofs`, `RunUsers_proofs`, `ReceiptChain_proofs`, `Idempotency_proofs`, `Webhooks_proofs`, `Policies_proofs`, `Identity_proofs`, `Workspace_proofs` | theorems | proofs |

`MCPolicy` and `MCWorkspace` gather components that share no state. A variable `part`, chosen in the
initial state, says which of them a behaviour drives while the others rest; the reachable states are the
sum of the components' and not their product, and no interleaving is lost because nothing one of them
writes is read by another. `MCRunUsers` does the same with two modules that do share a state, the run
lifecycle: each of `SdkRun` and `ApprovalQueue` already lets every other request do as it likes, so what
one of them does is among the steps of the other's surroundings. Where components do share state
(`SandboxPanel` with `Sandboxes`, `ToolCalls` with `Policies`, `SdkRun` and `ApprovalQueue` with
`ActionRuns`, `Clients` with `Idempotency`) one module extends the other and their steps interleave.

Definitions that stand before the one they resemble and are introduced as faulty variants are what a
plausible slip in the code would make of it; each is named by a mutant of `PROJECT.json`, and with it
a property fails.

### How `ActionRuns` corresponds to the code

A *request* is one HTTP request: it starts `"idle"`, picks a handler and a run, and ends `"done"`.
`pc` is the `await` it is at, `seen` the status in its latest snapshot, `outcome` the execution result
it carries. A *run* id names the run, its approval and its receipt. Each action is one awaited
statement with the synchronous code after it:

| Handler | Actions |
|---|---|
| `createExecutionRun` | `Propose` (policy, receipt), `CreateApproval` (INSERT may fail silently), `CreateRun` |
| `continueExecutionForRun` | `ContinueStage` chooses; `MarkExecutionSkipped`, `MarkExternalRunnerRequired` |
| `runInsideE2B` | `ReadE2BKey`, `ReserveSandboxRun`, `CheckSandboxQuota`, `HoldForSandbox`, `StartSandboxRun`, `RunInSandbox`, `RecordResult`, `FinishRun`, `CatchStoreError` |
| `approveRunAndContinue` | `Approve`, `ResolveApproved`, `WriteApproved`, `RereadApproved` |
| `rejectActionRun` | `Reject`, `ResolveRejected`, `WriteRejected` |
| `continueRunFromRunner` | `ContinueRun`, `CreateCheckpoint`, `RecordReport`, `FinishReport`, `TouchRun` |
| `PATCH /approvals/:id` | the approve and reject handlers when a run is linked, else `ResolveUnlinked`, `ResolveOnly` |
| jobs, settings, time | `ReapStuckRuns`, `ExpireApprovals`, `ChangeE2BKey`, `Age`, `Crash` |

`POST /check-action` writes a receipt and perhaps an approval but no run: it is a creator that dies
before `CreateRun`. The policy verdict is any member of `Decisions`, since custom policies can give any
verdict to any action; of an action only three facts matter (shell-like, read-only, has a command), and
they are the sets `ShellActions`, `ReadActions`, `CommandActions`.

Abstractions: an event row is written together with the state change it announces (no handler reads
events back). `updated_at` is the set `stale` of running runs older than the reaper's cutoff. The
`LIMIT` of a job's batch is left out of the reaper (which takes every stuck run) and covered by the
arbitrary subset in `ExpireApprovals`. `CatchStoreError` may strike before or after the statement took
effect. A run's text columns, risk, next step and sandbox metadata are left out. Emitting webhook
events changes nothing a handler reads and is in `Webhooks`.

`SdkRun` adds the agent in front: the SDK's `executeAction` and `runAction`, and the guarded runner,
which does the same by hand. `phase` is where the agent is, `request` the one it waits for; an answer
is what the handler last read back and may never arrive. The request is sent once: what repeating it
means is in `Clients`.

`ApprovalQueue` adds the people. A tab shows the queue, the runs list or one run (`screen`) with buttons
on the runs in `offered`. Loading the queue is two reads in either order (`ReadApprovals`, `ReadRuns`)
joined in `ReadList`; the other pages go by the status alone (`ReadStatuses`). `Click`, `Arrive` and one of
`Succeed`, `Refuse`, `LoseAnswer` are the component's `resolve`, in the three forms it has: `Tells` says
which component reports which failure, `Refreshes` which one reloads and when. The request that arrives is
an ordinary approve or reject of `ActionRuns`, beside those of everybody else. Which rows fall under the
`LIMIT` is left open: a read returns any part of the rows that qualify. `decided` and `result` are
histories.

### How `ReceiptChain` corresponds to the code

`head` is the row of `receipt_chain_head`, `rows` the table, `checkpoints` the signed head hashes. A
hash **is** the sequence of links it commits to: SHA-256 is taken to be free of collisions, the genesis
hash is the empty sequence, and the head's `seq` is the hash's length. The payload of a link is reduced
to whether it carries an execution result. `createReceipt` is `InsertReceipt`, `CheckExisting`,
`ReadHead`, `AdvanceHead` (the compare-and-swap with its bounded retry), `InsertEntry`, and
`AppendFails` at any of them; `UpdateExecutionResult` is the later write to the receipt. The export is
`ReadTip`, `ReadLatestCheckpoint`, `WriteCheckpoint`, `ReadRows`, `ReadCheckpoint`. Whether a signing
key is configured is chosen per export. `ReceiptVerifier` has one operator per loop of `verifyChain`
and yields the set of problem codes; `ReceiptExport` applies it, in seq order, to each export's rows
and checkpoint. Signature validity itself is not modelled: an export carries a checkpoint the server
issued.

### How `Idempotency` and `Clients` correspond to the code

A *call* is one execute-action request with a key. `FindReplay`, `CreateExecutionRun`,
`RememberResponse` are its three stages, `RememberFails` the swallowed exception, `Crash` the isolate's
death; `Lapse` is the twenty-four hours running out and `SweepExpiredKey` the job. The fingerprint is
the body. `kept`, `answered` and `after` are history variables that no action reads. In `Clients` a
client sends attempts under one key until it has an answer or `MaxRetries` attempts; an attempt may
arrive after its client gave up on it (`abandoned`), and its answer may be lost after the run was made.

### How `Webhooks` corresponds to the code

A delivery is a pair of an endpoint and an event. `EmitEvent` is `emitEvent`'s SELECT, `QueueDelivery`
one of its INSERTs, `EmitFails` the exception that `notify` swallows. `SelectDue` is the SELECT of
`deliverPending`, which takes the oldest `Limit` rows and remembers each row's `attempts`;
`Attempt` is the POST, `RecordOutcome` the UPDATE, computed from the remembered value and naming the
row only; `DelivererDies` the isolate's death anywhere between. Dates are order: `due` are the rows
whose `next_attempt_at` has come, `older` the order in which they became due. `sends`, `accepted`,
`refused` and `disturbed` are histories; a delivery is *disturbed* once two deliverers held it at the
same time or one died holding it.

`Delivery` is what this promises of one delivery: the endpoint is asked until it answers yes or no, at
most `MaxAsked` times, the answer is recorded and nothing happens after that. `Promise` is the
refinement mapping: a delivery that is disturbed before it was settled is `"contested"`, about which
nothing is promised; one that is held is at the answer its deliverer got and has yet to record; any
other is at its row's status. So a duplicate request, a request after the last, a settled row that
changes, or a status that is not the last answer would each be a step `Delivery` does not have.

### How the policy modules correspond to the code

`PolicyRules` is `evaluateAgentAction` as the ordered table it is: per rule the action types it applies
to, the *tell* it looks for, decision and risk. What a regular expression finds in the text of an
action is the set of the action's tells, which are chosen freely among those its type is examined for.
`Policies` is `parsePolicyInput`, `createCustomPolicy`, `updateCustomPolicy`, `deleteCustomPolicy`,
`listCustomPolicies` in its `ORDER BY`, `policyMatches` and `evaluateActionPolicy`; a pattern is the
set of values it matches. `ToolCalls` puts the two classifications in front (`mapToolCall` of the hook,
`toolCallToAction` of the MCP endpoint), with everything that can go wrong on the way in each failure
mode. `GlobMatch` gives one step to each turn of `matchesPattern`'s loop, and `CommandSegments`
one to each turn of `commandSegments`' loop: the texts under way (`pieces`) and the commands found
(`segments`) are sets of places in the line, so what is lifted out and what is left over are told apart
however the words repeat. What a shell would run (`ShellRuns`) is defined from where the line's
substitutions begin and end (`subs`), which no action reads. The call for the text within a
substitution is a piece of its own; the code finishes it first, here any piece may go on. `Playground`
and `ListPanels` are pages: the handlers are the components' functions, a request under way is a value
of `call`, and the server's half of each route is an action of its own.

### How `SignIn`, `IdTokens`, `Access`, `RunnerTokens` correspond to the code

A *callback* is one request to the Google callback; `stage` is the statement it is at. A user row is
named by its Google subject, a workspace by the callback that inserted it, and `stamp` is the time
that callback's call of `upsertGoogleUserAndWorkspace` wrote into `created_at`. `IdTokens` keeps one
isolate's `keyCache` and the pending requests for keys, each with the set the provider published when
it answered; `TimePasses` refuses to let a request outlive `FetchTimeout`. In `Access` every database
statement of a request that makes a key, deletes the account or checks an action is a step;
`getUserSession` is two. The two withdrawals of the deletion run side by side (`Promise.all`).
`RunnerTokens` has `consumeRunnerApprovalToken`'s two reads and its conditional UPDATE.

### How `Sandboxes`, `SandboxPanel`, `RateLimits` correspond to the code

All calls of `Sandboxes` are served by one isolate and share `accessToken`, the value of
`process.env.E2B_ACCESS_TOKEN` that is removed before a sandbox is created and put back after.
`alive` are the sandboxes at the provider, `leaked` those whose kill failed or whose isolate died.
`SandboxPanel` adds the page: `config`, the button under way (`request`), its `reply`, and the first
load. `RateLimits` follows `checkRateLimit`: a map of windows, purged of expired ones when it has grown
to `MaxTracked` and cleared if that was not enough. `passed` is the history of requests let through.

## Runs

| Run | Bounds | Shows |
|---|---|---|
| `ActionRunsSafety` | 3 requests, 1 run, 4 actions, limit 3 | type invariant, `EffectsAreReleased`, `ApprovalPrecedesExecution`, `CompletedHasReceipt`, `SandboxQuota`, `RejectionStands`, refinement of `ExecutionGate` |
| `ActionRunsReaper` | 2 requests, 2 runs, no symmetry | `StuckRunsAreReaped` under `FairSpec` |
| `RunUsers` | 3 requests, 1 run, 2 actions, limit 4, 1 tab; `KeyStays`, `HeldShellRuns` | the agent: what runs on its machine was released, and when a report or a place of execution can be wrong; the people: what the buttons offer is open, and a row that comes back says why |
| `ReceiptChainAppend` | 3 receipts, 1 export, 2 attempts, export limit 2 | the chain's invariants and the refinement of `AppendOnlyLog` |
| `ReceiptChainExport` | 3 receipts, 2 exports, 1 attempt, export limit 3 | `ExportsVerify`: what the verifier says of honest exports |
| `IdempotencySafety` | 3 calls, 2 keys, 2 bodies, 2 clients, 3 attempts | replies belong to their request; no second run under a standing key; `RetriesAreSafe` |
| `Webhooks` | 1 endpoint, 2 events, 2 deliverers, 2 attempts, 1 crash | statuses are truthful; refinement of `Delivery` (`PromiseKept`); `NothingIsLost` under fairness |
| `Policy` | 2 policies, 2 workspaces, 1 project; patterns up to 4, texts up to 5; 2 browser calls | decisions, tool calls, patterns (`ScanIsRight`), command lines (`CommandLinesAreReadInFull`), list pages |
| `Workspace` | 3 callbacks, 2 subjects, 2 e-mails, 2 keys, 2 checks, 2 tenants, 3 callers | sessions, signing keys, API keys, tokens, sandboxes, settings page, limiter |
| `ActionRunsTwice`, `WebhooksUndelivered`, `AccountDeletion` | smallest that fail | see *Findings* |

An invariant with several named parts states one concern; the parts are definitions of their own with
a comment each. `EffectsAreReleased` is `BlockedNeverExecutes` and `SandboxOnlyWhereGated`;
`ChainIsSound` is `OneChain` and `InsertCannotCollide`; `ExportsVerify` is `NoFalseTamperAlarm` and
`CompleteExportVerifies`; `RetriesAreSafe` is `RetriesRunOnce` and `ClientsGetTheirOwnRun`;
`StatusesAreTruthful` is `SettledTruthfully` and `DisabledOnlyForFailures`; `LocalRunsAreReleased` is
`LocalRunWasCleared` and `RestorePointFirst`; `AnomaliesHaveACause` is `MisreportNeedsLostReport` and
`TwoPlacesNeedApprovedPoll`; `ApprovalButtonsAreTrue` is `PendingApprovalsHoldTheirRun`,
`DecidedRunsAreNotOffered` and `RowsThatReappearSayWhy`; `ToolCallsAreGated` is `HookPassesOnlyAllowed`,
`DestructiveCallsStop` and `UnfamiliarToolIsHeld`; `DecisionsKeepTheFloor` is `BlocksSurvivePolicies`,
`EveryPolicyConstrains`, `GuaranteesHold` and `PresetsShowWhatTheySay`; `ScanIsRight` is
`ScanIsGlobMatching` and `ScanIsBounded`; `CommandLinesAreReadInFull` is `NoCommandIsHidden` and
`ReadOnlyLinesOnlyRead`;
`PagesTellTheTruth` is `PageTellsTheTruth`, `SavesGoWhereTheFormSays` and `ScreenKeyWorks`;
`SessionsAreSound` is `OneSessionPerAuthorization`, `SessionIsTheSubjects` and `SessionHasWorkspace`;
`SigningKeysAreCurrent` is `TrustEndsWithTheCache` and `NewKeysAreFoundInTime`; `KeysHaveAnEnd` is
`DeletionLeavesOnlyInFlightKeys` and `PlanLimitHolds`; `SandboxCallsAreContained` is
`RunsOnItsOwnKey`, `RunQuotaHolds`, `NoSandboxLeftBehind`, `TokenLostOnlyByOverlap` and
`NoVerdictWithoutKey`; `LimitsAreFair` is `TwiceTheLimitAtMost`, `OnlyTheNoisyAreRefused` and
`MapStaysSmall`; `SettingsPageIsTrue` is `PanelShowsTheSettings` and `OnePageLeavesNoVerdict`. Where
one slip in the code could not break all parts of a property, several mutants are listed for it.

### Bounds

- **Runs.** Rows of different runs meet only in the sandbox counter, and one run can already be
  executed three times (its creator and two approvals of a run whose policy is the sandbox), so one
  run with three requests reaches the limit of three; three requests is one proposer and two that race
  over what it proposed. `RunUsers` bounds the requests by the same three, which is propose,
  poll and report with the human's decision in between, or a proposal and two that decide on one row.
  `KeyStays` lets the sandbox key come but not go again, `HeldShellRuns` lets the people meet only held
  shell actions; both halve the states, and the pages look at nothing but status and approval.
- **Chain.** Three appenders give a winner, a loser that retries and one that arrives later; a second
  attempt is where a stale head could come back; one attempt is enough for the export, which never
  sees attempts. `ExportLimit` 2 makes the `LIMIT` bite with three rows. Two exports let one sign
  between the other's reads.
- **Idempotency.** Two calls race and a third comes after the key lapsed and was reused; a client's
  three attempts are those three calls, or another client takes some of them.
- **Webhooks.** `MaxAttempts` 2 has a first, a last and a next attempt; `Limit` 1 with two deliveries
  makes the order of selection matter; `DeadLimit` 2 needs both deliveries dead; `MaxCrashes` 1 bounds
  the isolates that die, without which no delivery need ever be recorded. The histories count no
  further than the properties look (`CountUpTo`).
- **Policies.** `MaxCreated` 2 gives two policies whose order of priority and of creation may differ.
  `MCBodies` and `MCProposals` hold a request for each way of giving, clearing and missing a
  criterion, and `MCToolCalls` one call of each class. `MaxPattern` 4 with two wildcards has a star
  before and after a letter, and `MaxText` 5 is longer than `MaxSubject` 4, so that a subject is cut;
  command lines have up to three substitutions of either kind, nested and side by side, which is
  `MaxSubstitutions`. The guard of the code's loop is 32; past it the loop stops with the rest of the
  line as it is, which is why `CommandLinesAreReadInFull` speaks of lines that stay within it.
- **Pages.** Two requests under way is every overlap of two; longer queues are sequences of these.
  In `SandboxPanel` nothing new is begun after an answer was lost or another session made a change
  (`Undisturbed`), since every property is conditional on that. Sandboxes has two calls, which is what
  an overlap of `process.env` needs, and `RunLimit` 2.
- **Sign-in.** Three callbacks of two subjects are two that race and one that comes later. Time in
  `IdTokens` goes to `LastTime` 5, past a cache of 3 and a request of 1; one key suffices, since a
  verification looks at its own key only. Time in `RateLimits` goes to `MaxNow` 4, two windows and a
  half; three callers overflow a map of two.

Requests, calls, receipts, exports and callbacks go forward only, so most behaviours end except for
clocks, jobs and settings; the runs that say `CHECK_DEADLOCK FALSE` do for that reason. The lifecycle
never stops (`ChangeE2BKey` is always possible).

Symmetry is used for invariants and for single-step properties only, never for liveness. The sets it
permutes are only compared for equality.

## Fairness

`FairSpec` (`ActionRuns`) assumes that clocks run (`WF(Age)`) and that the cron trigger keeps firing
(`WF(ReapStuckRuns)`); `wrangler.jobs.jsonc` schedules it and each task of the job is caught on its own,
so a failure of one sweep does not starve the reaper. Nothing is assumed of handlers, which may die at
every `await`: that is the point of the reaper.

`WebhooksFairness` assumes that backoffs elapse, that the scheduled task which disables endpoints
runs, and that every deliverer there is calls `deliverPending` again and again and gets on with it. It
may still die, `MaxCrashes` times. What the deployed system lacks is a deliverer: with
`Deliverers = {}` the same specification loses `NothingIsLost` (see *Findings*). `EmitEvent` and
`QueueDelivery` are not fair: an event whose INSERT never happens is lost, silently, and the property
begins with the queued row.

The other modules claim no liveness: an append may fail, a caller may get no answer, a page may wait
for ever, and the code promises nothing else.

## Proofs

The theorems hold for every value of the constants under the named assumptions of the modules, which
TLC evaluates on every run:

- sizes: `SegmentBounds`, `LimitAssumption` (`ActionRuns`), `BoundAssumption` (`ReceiptChain`), `AtLeastOneAttempt`
  (`Clients`), `IdTokenBounds`, `WebhookBounds`, `AccessBounds`, `RateBounds`, `SandboxBounds`,
  `PolicyBounds`, `GlobBounds`: limits are naturals, positive where the code's are; the few sets whose
  members a property counts are finite;
- absent values are not among the present ones: `RepliesAreDistinct`, `NoRowIsNoRow` (`Idempotency`),
  `NobodyIsNobody` (`SignIn`), `ListPanelsAssumption`, and parts of those above;
- what the inputs are: `ActionAssumption` (`ActionRuns`: the three sets are sets of actions,
  a shell command is none of the safe reads, and `NoAction` is not an action),
  `PanelTenantAssumption` (the page belongs to a tenant), `InputsAreValid` (`Policies`: the types
  `parsePolicyInput` insists on, and an empty value is never asked for a pattern),
  `SecretsAreInPaths` (`ToolCalls`: a secret is told by a path or a command, so a call that holds one
  carries one), `LinesAreWellRead` (`CommandSegments`: a line is given with its substitutions as a shell
  pairs their delimiters, so that they nest or follow each other and none is left open).

Nothing else is assumed of the number of requests, runs, receipts, exports, calls, clients, keys,
deliverers, consumers, callbacks, policies, rows, tabs or callers. Each argument is an inductive
invariant (initial states, one step per action, then the temporal conclusion) from which the
properties follow.

- **`ActionRuns_proofs`.** `TypeCorrect` is inductive as it stands. The safety properties are not: a
  handler that is between its check and its write could violate them in one step from a state where
  the property still holds. `GateInv` says what each program point implies: a handler at a stage that
  executes or reports holds a run whose gate is already open, because the snapshot it decided on could
  only have that status if the gate was open then, and neither the decision nor the trail ever goes
  back. `BlockedSafety`, `ApprovalSafety`, `SandboxSafety`, `ReleaseSafety`, `ReceiptSafety` follow
  from it. `RejectionSafety` needs only that a request's stage determines what it has seen.
  `GateRefinement` maps each step to a step of `ExecutionGate` or a stutter. `QuotaSafety` strengthens
  with `QuotaInv`: the requests that hold a reservation are a finite set of at most `used` members, and
  those admitted to the sandbox are a non-empty set only below the limit; counting sets of requests,
  rather than following the counter, is what makes it work. `QueueSafety` strengthens with `QueueInv`:
  only an action that needs approval has an open one, and once a handler is past the statement that
  resolves the approval of its run, that approval is no longer open.
- **`RunUsers_proofs`**, those in front of the lifecycle. *The pages:* `ButtonSafety` needs that a run
  once decided never waits again, which is proved of every step of the lifecycle, so a list read after
  the decision cannot hold it: the queue's list of approvals because a pending one holds its run
  (`QueueSafety`), the other two because they go by the status. A row clicked with success was decided
  before the page was loaded again. *The agent:* `RunsGoOn`, proved of every step of the lifecycle,
  says what of a run is for good (its verdict, its trail, having left the wait for a restore point), so
  an answer the agent acts on stays true however late it is looked at (`AnswerInv` ties the
  pending answer to the run, `LocalInv` what runs locally to the gate). `LocalRunSafety`
  follows. `AnomalySafety` needs in addition who can mark a receipt as failed (`FailureHasAuthor`: a
  sandbox that was started, or a report) and which runs can reach the sandbox at all (`PathInv`), so
  each anomaly is traced to the lost report, or to the poll between an approval and what it leads to,
  that it takes. `UsersTypeCorrect` is the type invariant of the two together, as the run drives them.
- **`ReceiptChain_proofs`.** `ChainInv` relates the head to what every appender read: an appender's
  `from` is a prefix of the head, one that won the swap has its entry inside the head and its receipt
  nowhere else in it, and every row and checkpoint is a prefix. From it: `OneChainSafety`,
  `InsertSafety`, `ChainSafety`, `GapSafety`, `CheckpointSafety`, `LogRefinement`. `ExportSafety`, what
  the verifier says of an export, adds `ExportInv` (an export's rows were in the table, its checkpoint
  was issued and signs a non-empty head). The verifier works on a sorted log: that sorting yields one,
  with each row at one place, is a counting argument (`PlacesAreTaken`: the number of rows before a row
  is different for different rows, so by the pigeonhole principle every place is taken). Two prefixes
  of one head with equal lengths are equal (`SamePrefix`), hence rows are told apart by their seq, a log
  that misses none counts 1, 2, 3 (`CompleteCounts`), each previous hash is the one before, and a
  checkpoint is the hash of the row it covers.
- **`Idempotency_proofs`.** `TypeCorrect` needs `Addressed` (a call that has arrived has a key and a
  body). `ReplyInv` ties rows to the call that wrote them (`ReplySafety`); `KeptInv` says that a kept
  call's row is the live row of its key, so a later call that found nothing came to another key
  (`KeptSafety`). `RetrySafety`, for any number of retrying clients: every step of `Clients` is a step
  of the server or leaves it alone, so both invariants carry over; `ClientInv` adds that a call is an
  attempt of one client, that attempts come in the order they were sent unless the client gave one up
  while it was under way, and that what a client was told stays its own.
- **`Webhooks_proofs`.** `CountersAreSound`: the counter a deliverer remembered, and the one it is
  about to write, is never more than the requests really made, so six recorded failures are six
  requests although deliverers overwrite each other (`StatusSafety`; the disabled endpoint's count
  follows by comparing finite sets). `UndisturbedAreInOrder`: while a delivery was only ever held by
  one deliverer at a time, whoever holds it has it pending and not accepted; `CountersAreExact` adds
  that its counter then is the number of requests, not merely at most. With these `PromiseRefinement`
  maps every step, of any number of deliverers over any number of deliveries, to one of `Delivery`.
- **`Policies_proofs`.** *Decisions:* policies are sorted by priority and date, so "the first that
  matches" needs a least element, which is the library's theorem on well-founded orders (`LeastNumber`).
  Lemmas about the table say which of its rules can speak of an action of each type; from them every
  rule that must block is found before one that would not. `PolicyInv` (stored policies constrain
  something and no two have one date, blocks survive them, and where the table decided it is the table's
  decision) yields
  `PrecedenceSafety`, an action property: the decision of every step is the mandatory block's, else the
  first matching policy's, else the table's. `CallInv` says what the hook and the MCP endpoint hold at
  each stage of a call, for each failure mode (`CallSafety`); with the playground's presets
  (`PresetsAreRight`) it gives `FloorSafety`, and `DecisionsTypeCorrect`, the type invariant of
  the policies, the calls and the pages. *Pages:* `ListInv` says of each request under way whether
  it was alone since it was sent, and of one that was, that its answer fits the table (`AnswerFits`) and
  that applying it to what is shown gives the rows of the table (`NoDoubt`); `FormIsOfItsRow` ties the
  form to the row it was opened for, `KeysComeOnce` a key's text to the one answer that carries it.
  From these `PageSafety`, with `ListPanelsTypeCorrect`. *Patterns:* `ScanSafety` says that the scan,
  which returns to its last star only, decides what a search through every way to cut the subject would.
  What it has passed is covered (`PassedIsCovered`), and every way to cut the subject gives the last
  star at least what the scan has given it, and to the characters after it just what the scan gave them
  (`NoCutIsLost`): so giving that star one more loses nothing, and earlier stars need not be reopened.
  `TurnsAreCounted` bounds the turns: each moves on in the pattern or widens the star. *Command lines:*
  `SegmentsSafety`. Every piece belongs to one scope of the line, the line itself or a substitution, and
  holds all of what is that scope's own (`PieceOf`); what the expression matches in it is a substitution
  of the line and not two halves of different ones, since these nest; and the piece's guard is no less
  than the substitutions still in it. So `NoScopeIsForgotten`: a scope is within a piece, or its
  commands are among the segments, which is all of them when no piece is left.
- **`Identity_proofs`**, who may act. *Signing keys:* each place a set of keys can be, an answer under
  way, the cache, a verification's hands, is late by so much: at most the request's age, the request and
  the cache's life, and both together. The four statements are inductive together (`SigningKeySafety`).
  *Runner tokens:* a consumer past its reads has read of this token what the conditional UPDATE asks
  for (`TokenSafety`). *Sign-in:* `CallbackInv` says what a callback knows at each stage;
  `RowsOnlyJoin`, proved of every step, that workspaces and members only join and that a workspace's
  owner and date are settled, so what one callback knows no other undoes. `SessionSafety` needs in
  addition that a set of workspaces has an oldest one, which is the library's theorem on well-founded
  orders. For `WorkspaceSafety`, `OneWorkspaceUnlessRaced`: of a subject whose first sign-ins did not
  overlap at most one callback is about to insert, and only while there is no workspace. *Keys:*
  `DeletionInv`: a deletion that withdraws has marked the account first, so what survives it was past
  its authorisation (`KeySafety`). `PlanInv`: the calls that have incremented a key's counter are a
  finite set no larger than the counter.
- **`Workspace_proofs`**, what protects a workspace. *The limiter:* every request that passed is the
  n-th of its window, windows of one caller follow each other, and any stretch as long as a window
  meets two of them at most, so it sees at most twice the limit (`LimitSafety`). *Sandboxes:* the stages
  of a call say which steps are left to it; a sandbox is up only between its creation and its kill, the
  operator's token is in `process.env` or in the hands of the one creation under way unless creations
  overlapped, and the runs let through were all counted when the last of them was (`SandboxSafety`).
  *The settings page:* every step of it is a step of the sandboxes' module or leaves that alone
  (`PanelKeepsToSandboxes`), so the above holds in front of it; an answer waits for the page with the
  settings that are still current, unless somebody interfered (`SettingsSafety`).
  `WorkspaceTypeCorrect` is the type invariant of all parts of the run, identity included.

Only model-checked:

- `StuckRunsAreReaped` and `NothingIsLost`: liveness under fairness is beyond the prover.

Every other property of the passing runs, invariant, action property or refinement, is a theorem.

## Findings

Each is a run that TLC ends with a counterexample to what a comment says.

1. `ActionRunsTwice`: `continueActionRunAfterApproval` ignores what `resolveApproval` answers, so two
   concurrent approvals both continue the run: one approval, two executions. The comment on
   `resolveApproval` says that they cannot both succeed.
2. `AccountDeletion`: `revokeAllApiKeys` turns a failed UPDATE into a count of 0 and the route answers
   ok; a request authorised before the revocation inserts its key after it. Either way a key works
   after the deletion was answered. The route's comment says nothing can act after the call returns.
3. `WebhooksUndelivered`: nobody calls `deliverPending`, so a queued event is never sent. The header of
   `webhookStore.ts` says that the scheduled job retries and nothing is lost.

Noticed while reading, without a run of their own. On the lifecycle: a run whose approval has expired is
still approved and executed (`agentwingStore.ts:2053`); a report's status check is on a snapshot and its
`UPDATE` by id, so a rejection that lands in between is rewritten (`RejectionStands` states who can);
the sandbox counter, the check counter and the rate limiter compare with `>=` after they increment, so a
limit of *n* lets *n* - 1 through; `assertNotSelfApproval` guards only `PATCH /approvals/:id`. On the
chain: an append that fails before the head moved leaves no gap and the verifier has nothing to report;
the execution's result is written to the receipt later and never reaches the chain. On keys: two
identical calls that race make two runs; a lapsed row that has not been swept swallows the next
`INSERT OR IGNORE`. On clients: `continueActionRun` inside the SDK's `try` is reported as the runner's
own failure; the SDK runs on `approved` where the guarded runner waits; the hook lets calls through
unchecked without an API key even in closed mode (`ToolCalls` has it as `"unchecked"`). On MCP: a held
call leaves no approval row behind, and its `requestState` is never read back. On webhooks: dead rows
of an endpoint's whole life count as consecutive. On sign-in: two overlapping first sign-ins insert two
workspaces (hence `raced`); when marking the account throws half way its owner can no longer retry. On
sandboxes: a test's verdict is recorded without asking whether the key it tested is still there, and the
operator's token can be lost when two creations overlap (hence `lateTest`, `overlapped`). On pages: a
list that fails to load shows as empty; two quick clicks on a policy's switch send the same value;
revoking any key takes the text of a new one off the screen;
the buttons of the runs list ignore what they are answered (`RunListApprovalActions.tsx:15`), the failure
the queue's buttons are documented to have overcome, and those of the run's page say nothing when the
request cannot be sent; a click on a stale row may reject a run that was already executed, although the
page says that rejecting seals it without execution (`rejectActionRun` asks for no status).

## Not modelled

- **Text and cryptography**: redaction, canonical JSON, SHA-256, ECDSA and RSA, encryption of the E2B
  key, validation of URLs and names, the JSON-RPC envelope. A hash is what it commits to, a token the
  key that signed it, and a regular expression the tell it finds; quotes and parenthesised subshells
  of command lines are left out of `CommandSegments`.
- **Single-row reads and writes** whose only state is the row: statistics, usage, listing of runs and
  receipts, the event log.
- **Rendering**: the site, the documentation pages, the dashboard pages that only show. The component
  `SandboxesPanel` of `ProductPanels.tsx` is not used by any page; the one modelled is
  `SandboxesPanel.tsx`.
- **Examples and scripts**, except the guarded runner's wait for a release, which is in `SdkRun`.

## Plan

Done: every component with state of its own, the clients and pages that race with it, and a proof of
every safety property the runs check. Worth adding, in this order:

1. `Idempotency` as an implementation of at most one run per key and standing row.
2. A lifecycle with two runs and webhooks emitted at each step, if an event's content ever matters.
