# TLA+ models of the vimbuspromax3000 loop

The repository is a local-first agent loop: a planner interviews an operator and
proposes epics, tasks and a verification contract for each task; the operator
approves it; an executor works on one git branch per task through MCP tool
calls; the approved checks run, red before green; a patch is reviewed; an
evaluator and a retry ladder decide what happens to a failed attempt. One Node
process (`apps/api`) serves every request over HTTP, keeps its state in SQLite
or Postgres through Prisma, drives git with synchronous child processes in one
working tree per project, and streams its events over SSE to the CLI.

This directory holds TLA+ modules of that code, TLC configurations for small
instances, and TLAPS proofs of what holds for any number of tasks, executions,
requests, decisions, calls, events and connections, and of what the code's
pure functions return for every input. `PROJECT.json` maps every
definition to the lines it models, lists the hazards found while reading, each
at its line with the properties that would catch it, and names for every
property a single plausible mistake in the code that breaks it (the operators
commented "Faulty").

## 1. Inventory

"Handler" is the code one HTTP request runs. Handlers interleave at every
`await`; a `prisma.$transaction` is atomic for other handlers' rows; git runs
through `spawnSync`, so it never yields. The process may stop anywhere: rows,
files and the working tree stay, what handlers held is gone.

| Component (source) | State it keeps | Operations | Talks to | What is hard | What makes it correct | Module |
|---|---|---|---|---|---|---|
| Verification contract and gate (`db/repositories/approval-, validation-, task-, reviewArtifactRepository`) | `Task`, `VerificationPlan`, `VerificationItem`, `Validation` statuses | decisions, readiness refresh, the gate | execution service, routes | the refresh moves a task whatever it is doing; three tables must agree | nothing executes past a closed gate; late approvals leave no task in a state no execution explains | `ApprovalGate` |
| Task branches (`agent/execution.ts`) | `TaskBranch`, git refs, HEAD, edits | prepare, abandon | executor, runner, tool calls | one tree for all tasks; a row and a ref read before the switch | an executor, its edits and its tests stay on the task's branch | `ExecutionLifecycle` |
| Execution service, patch review (`agent/execution.ts`) | `TaskExecution`, `PatchReview` | start, headless start, patch decisions | branches, agent loop, events | a row inserted several awaits before it is updated | task, execution and patch tell one story; no verified execution writes again | `ExecutionLifecycle` |
| Verification runner (`test-runner/index.ts`) | `TestRun`, item statuses, patch | run | gate's rows, git | runs overlap, last for minutes, stop half way | every run ends; the patch was tested on its own branch | `ExecutionLifecycle` |
| TDD iterations (`driveTddLoop`, `runExecutionVerificationIteration`) | `TestRun` phases, visual results, artefact directories | red, edit, green, retry | runner, evaluator, ladder | items are consumed by the first iteration; rows and files are written apart | green only after red; each item verified once; the loop ends | `TddLoop` |
| Retry ladder (`retryExecution`, `policy-engine`) | `ModelDecision`, `retryCount` | retry | evaluator closes the attempt | read, resolve slot, write, without a lock | one attempt at a time, the strong slot before giving up | `RetryLadder` |
| Evaluator (`evaluator/`) | `EvalRun` | evaluate | reads runs, calls judges, closes attempts | inputs are minutes old when the verdict lands | a verdict closes the attempt it judged; judges cannot overrule the evidence | `RetryLadder`, `Evaluation` |
| Loop events, buses and SSE (`db/eventRepository, eventBus, eventBus.postgres`, `GET /events`) | `LoopEvent`, listeners, queues, LISTEN client | append, publish, notify, subscribe, replay, drain, reconnect | every component appends; the CLI reads | publication inside open transactions; lost notifications; replay races live delivery | each event at most once; none lost unnoticed; queued means written; the listener comes back | `EventStream` |
| MCP tool calls (`mcp-client/service.ts`, `wrappers.ts`) | `McpToolCall`, approvals | create, approve, execute, block, fail | agent loop, branches | check, mark, act and record are separate steps; the row that decides about an approval has several writers | no act without its grant, unless an operator waived it; an act at most once | `ToolCalls`, `CallLedger` |
| Agent loop (`agent/agentLoop.ts`) | `AgentStep`, budget | turns | tool calls | many ways out of a turn | every step closed, the loop ends | `ToolCalls` |
| MCP server setup (`mcp-client`) | `McpServer`, `McpTool` | setup, apply, start, enable, disable, credential | executions start it | several writers of one row with different definitions | what an operator set survives | `McpSetup` |
| Planner runs and review artifacts (`plannerRepository`, `reviewArtifactRepository`, `playwrightGenerator`) | `PlannerRun`, proposal rows, artifacts, spec files | interview, propose, approve, generate, decide | gate | a proposal deletes rows under other handlers; files move outside the transaction | an interview advances by rounds; files follow decisions | `Planning` |
| Decomposition (`planner/service.ts`, agents, `task-intel`) | none | normalise the agents' answers, score complexity | planner runs | missing, empty and clashing keys | ids unique, every task with an item, every item validated once | `Decomposition` |
| Task dependency map (`app.ts`) | none | order, find a cycle | CLI | ties, self-references, canonical form | an order that respects every edge, or a smallest cycle | `DependencyMap` |
| Model registry (`model-registry`, `policy-engine`) | providers, models, slots, secrets | setup, patch, assign, resolve, store a key | execution, planner | fallbacks; partial patches | only active, capable models are returned | `ModelResolution` |
| Jira import (`jira-adapter`) | upserted run, epic, tasks, validations, mapping JSON | search, map, import | planner rows | re-import of moved, approved or cleared tasks | importing twice equals importing once | `JiraImport` |
| Benchmarks (`benchmarks`, `app.ts`) | `EvalRun`, `RegressionBaseline` | score, gate, compare, store | test runs, tool calls | which run counts; what survives storage | a pass is earned; blocked is not promoted | `Benchmarks` |
| CLI live view (`cli/live.ts`) | panes | parse frames, apply events | SSE | chunk boundaries, repeats | the view is that of the whole frames | `LiveView`, `StreamViews` |
| Observability; verification commands and evidence; other CLI commands | none the loop depends on | export, normalise, render | - | - | - | - |

## 2. Modules

**ApprovalGate** (`task`, `plan`, `item`, `validation`). Each operation is one
transaction and one action. The three origins of a task (planner proposal, a
plan older than validations, Jira import) are the initial states. `GateOpen` is
`assertValidationAwareExecutionGate`; `ReadyTaskStatus` is the readiness
refresh, part of every granting action that performs it.

**ExecutionLifecycle** extends it with `branch`, `git` (HEAD, refs, whose edits
are uncommitted), `exec`, `patch` and `job`, the locals and program counter of
each handler. A handler is cut at its awaits:

| handler | actions |
|---|---|
| `prepareTaskBranch` | `ReadContext`, `CheckGate`, `SwitchBranch`, `RecordBranch` |
| `abandonTaskBranch` | `LeaveBranch`, `AbandonBranch` |
| `startTaskExecution` | the above, then `ReReadContext`, `RecheckGate`, `EnqueueExecution`, `LaunchExecution` or `FailLaunch` |
| headless route | `prepareTaskBranch`, then `LaunchHeadless` |
| `executeToolCall` (mutating, as the tree sees it) | `CheckToolCall`, `WriteToolCall` |
| `runExecutionVerification` | `ReadRunContext`, `SelectTargets`, `BeginVerification`, `StartTarget`/`FinishTarget` per target, then `FailVerification`, or `CollectPatch` and `PublishPatch` |
| patch decisions, exhausted retries, approvals | one step (`ShortRequest`): what they read before their transaction decides nothing that can have changed |

`Crash` drops any set of handlers at any point: a throwing call ends one
request, the end of the process ends all. The code has no recovery pass.

**RetryLadder** (one execution): `ReadLatest` and `ReadInputs` are the halves of
`retryExecution` and `runEvaluation` before their await, the others the halves
after it. Rows with equal attempt numbers come back in any order, so `Latest`
is a set. `serial`, chosen at the start, says whether requests come one at a
time or may overlap.

**EventStream**: `row` (open, committed, rolled back), `writer` (its open rows,
the row inserted and not yet published), `conn` (program counter,
`seenEventIds`, queue, backlog, frames, and the history `blind`: rows nothing
told it of) and `bus`. `StartBus` picks SQLite or Postgres with the bus of the
process, or LISTEN/NOTIFY: publications are `sending`, then in the `inbox` of
the listening client, which dies, is rewired and may fail to be. On SQLite an
open transaction keeps everyone else off the database (`Exclusive`).

**ToolCalls**: `call` rows, `granted`, `acted`, `catalog` (each tool's row:
mutability, approval, schema, status), `job` per request and `loop`, the agent
loop with its steps. What the policy checks ask of plan, execution, task and
branch (`ground`) is any answer at the time of the check: other requests move
it (`ExecutionLifecycle`). `executeToolCall` is `ExecuteRead`, `ExecuteCheck`, `ExecuteStart`,
`ExecuteWrapper`, `ExecuteRecord`; the tool's row is read with the call, and an
outcome whose transaction throws is recorded as failed though the tool acted
(`Outcomes`). `Restart` drops all jobs and the loop between any two steps.

A tool's row has three writers. `UpsertStandard` is the start of an execution
and `POST /mcp/setup`, whose definitions disagree (`ServiceRow`, `SetupRow`);
`UpsertGiven` is an operator's POST or PATCH of `/mcp/servers`, which stores
what it is given and asks for no approval unless told to. The constant `Given`
is the set of rows operators give. `waived` and `exempt` are history: the tools
whose row an operator wrote last, without approval, and the calls started while
their tool was waived. A call on one tool never reads another tool's row, so a
request that upserts several is several steps here.

**CallLedger** is the abstract promise of tool calls: a call is asked for,
granted or exempted, and acts, only with its grant or exemption and, while
requests come one at a time, only once. `ToolCalls!Ledger` instantiates it
(`asked` is the set of calls that have a row; the other variables have the same
name), and `KeepsTheLedger` says that every step of the calls, of the catalog,
of the loop and of a restart is a step of the ledger or a stutter.

**TddLoop**: one execution's items with rows (`runs`, `results`), statuses,
files (`logs`, `meta`: which run's files an item's directory holds) and the
loop's program counter. Every row, status and file write is an action, and
`Restart` may come between any two; the host may then drive the loop again.

**Planning**: a planner run from its interview to its approval, its proposal's
one task and validation, the review artifacts, and the staged and published
spec files. File operations happen outside the transactions: the old spec is
removed, the new one renamed (`RemovePublished`, then `Publish` or
`RenameThrows`), and then the transaction runs or throws (`Commit`,
`CommitThrows`). `torn` and `undecided` are history: the validations whose spec
was removed for one that was not renamed, and those whose spec was moved by a
decision that was not recorded, because the operation failed or the server
stopped. Requests come one at a time or two at once (`serial`), and the server
may restart.

**Decomposition**, **DependencyMap**, **McpSetup**, **ModelResolution**,
**JiraImport**, **Benchmarks**, **Evaluation**, **LiveView** are operators: each
function of the code, and the services that are modelled one request after the
other, each request as a function from rows to rows. Of those only the Jira
import is one transaction; `setupModelRegistry` and `POST /mcp/setup` await
their upserts one by one, so what is said of setups is said of requests that do
not overlap. `POST /model-providers` and `POST /models` are left out of
`ModelResolution`: a resolution validates every row again. Each module states
its properties for one input; **Algorithms** joins them over one variable, the
input, with the inputs that are proper (**StreamViews** does for the live view), and `MCAlgorithms` enumerates families
of inputs.

`MCLifecycle`, `MCRetry`, `MCEvents`, `MCToolCalls`, `MCTddLoop`, `MCPlanning`
define the values of constants and symmetry sets. `LifecycleProofs`,
`RetryProofs`, `EventProofs`, `ToolProofs`, `PlanningProofs`,
`TddProofs` and `AlgorithmProofs` hold the theorems, `FoldFacts` the lemmas about
folds and the inductions over sets and lists that `AlgorithmProofs` and
`EventProofs` instantiate with the code's loops.

### Abstractions

- Branch names, SHAs, base-branch and repository checks are in order; a failing
  check ends the request, which `Crash` covers. Git refusing to switch a dirty
  tree is a nondeterministic outcome. Committing is the operator's act.
- A task has at most one plan, which persisting a proposal guarantees.
- A command's, a comparison's, a judge's and a wrapper's result is free among
  the outcomes the code tells apart.
- Heartbeats are left out of `EventStream` (they carry no event, and their
  wake-up would only hide a missed one); in `LiveView` they are comment frames.
- In `RetryLadder` the inputs of an evaluation other than the retry counter are
  one counter of test runs; agent steps and tool calls change in the same way.
- In `ExecutionLifecycle` exhausting the retries is possible at any time:
  `retryExecution` looks at decisions only, the subject of `RetryLadder`. In
  `TddLoop` evaluator and retry are what they return.
- In `Planning` a proposal has one task with one Playwright validation, and
  what a file says is the number of its code.
- Titles are sequences of words in `Decomposition`; lines are blank, a bullet
  or text in `JiraImport`; scores are integers in hundredths and weights in
  quarters in `Benchmarks`; text is a sequence of lines and line ends in
  `LiveView`.

## 3. Runs

| run | instance | states | shows |
|---|---|---|---|
| `lifecycle_concurrent` | 1 task, 2 executions, 2 handlers, crashes | 1.19 M | statuses and reviews tell one story and never rewind, under every interleaving |
| `lifecycle_serial` | 2 tasks, 2 executions, 1 handler, crashes | 1.61 M | edits, tests and launches stay on their own branch while requests do not overlap |
| `lifecycle_approvals` | 1 task, 2 items, 3 validations, 1 handler, crashes | 844 k | every execution passed the gate |
| `verification_ends` | 1 task, 2 items, 2 handlers, fair | 247 k | `TestingEnds` |
| `isolated_branch` | 2 tasks, 2 handlers | violation | a run is pulled onto another task's branch |
| `retry` | 2 handlers, 5 decisions, 2 test runs, serial or not | 314 k | strong slot before giving up under any race; serially, one attempt at a time, closed in order by its own verdict |
| `one_selected` | as `retry` | violation | two retries record the same attempt |
| `event_stream` | 2 writers, 1 connection; 4 events on SQLite, 3 on Postgres, 2 over NOTIFY | 74 k | no repeats, no unnoticed gaps, wake-ups, the listener comes back |
| `tool_calls` | 2 calls, 1 tool that acts, with its row of either definition or one that waives its approval, 1 handler and the agent, 2 turns | 841 k | grants, single acts, closed steps; `CallLedger` is implemented; under fair answers the agent loop ends |
| `tdd_loop` | 2 items of 6 shapes, 2 iterations, driven twice, stops | 494 k | red then green, each item once, files follow rows, an end |
| `planning` | 3 rounds, 2 handlers, 5 requests, 2 proposals, 2 specs, restarts, failing files and transactions | 451 k | interviews, approvals and files |
| `algorithms` | 14 families of inputs | 36 k | the algorithms return what they should on all of them |

### Bounds, and why they are enough

- *Executions, handlers, tasks.* Two executions let one overwrite what another
  wrote on the task; every race under hazards is between two requests; two
  tasks share the tree. `ExecutionLeft` and `DecisionLeft` start a request only
  while it cannot stop for want of a row.
- *Items and validations.* Two linked validations (on an item with and without
  a command) and an unlinked one give each case of target selection.
- *Decisions.* The ladder ends at attempt 4; five rows cover it and an attempt
  past its end, or two handlers that spend two rows on one attempt.
  `MaxTestRuns` makes evaluations repeatable and their inputs stale.
- *Events.* Four reach a connection before, during and after its replay, in and
  out of a transaction; three and two suffice for the races of the other buses,
  whose states multiply. `Limit` covers every row: a longer backlog is replayed
  only in part by design (the first 200 rows), and `CaughtUp` says so.
- *Calls and turns.* Two calls are the loop's two turns, or one of the loop's
  and one of the operator's, or two executions of one. `run_command` is the tool
  whose three rows differ in everything that matters: it writes under one set of
  definitions, executes (which no wrapper does) under the other, and asks for no
  approval under the operator's row.
- *TDD.* Two items of every shape, so that the first can settle what the loop
  does about the second; two iterations show what a retried one finds; two
  drives what a later one does.
- *Planning.* Two proposals (one replaced under a request), two specs for one
  validation, and five requests: propose, generate, propose or generate again,
  decide twice.
- *Algorithms.* Projects of up to 4 tasks and 4 dependencies in several orders;
  up to 3 epics, 2 tasks and 2 items of an answer with missing, empty and
  clashing keys; 3 requests on servers and on the registry; searches of up to 5
  issues on pages of 1 to 3, with and without growth; two Jira imports or
  decisions before each import; 20 baselines against 40 candidates in 3 scenarios; executions of up to 4
  runs and 4 calls under judges at the edges of the verdicts; tapes of
  up to 3 events and transcripts around the 20-line limit; streams of two
  frames broken off anywhere and cut in two at every position, or into single
  tokens.

Symmetry is used in safety runs only, over ids no operator chooses among. The
liveness properties are checked without it.

### Fairness

Weak fairness of a handler's own steps throughout (`Continue(h)`, `Serve(c)`,
`Settle(w)`, `LoopStep`, the agent's `Advance`, the loop of `TddLoop`): the Node
event loop resumes a handler whose await has settled, no await of a modelled
handler waits for another request, child processes and wrappers have timeouts,
and Prisma ends an interactive transaction that does not end itself. `Carry`
(timers and notifications) is weakly fair too. `WireListener` is strongly fair:
a database that can be connected to again and again is connected to, although
each attempt may fail. Nothing is assumed of arrivals, approvals, operators,
crashes, restarts or lost links. `verification_ends` assumes no crash.

### Serial properties

`TestedOnOwnBranch`, `EditsStayHome`, `LaunchedOnOwnBranch`,
`AdmittedThroughGate`, `SerialLadderInStep`, `SerialAttemptsCloseInOrder`,
`FinishedStaysFinished`, `InterviewAdvances`, `PublishedWasDecided` and the "at
most once" of `CallLedger` hold while one request is served at a time, with
requests lost or the server stopped at any point unless the property says
otherwise. They are not promises of the concurrent system: two handlers execute
one approved call twice, withdraw an approval between the gate and the launch,
lose an interview round, exhaust the retries under the strong attempt, break the
ladder (`one_selected`) or move a run's tree (`isolated_branch`). Those hazards
are listed in `PROJECT.json` with a note and no property. What two handlers
cannot break is in the other properties.

## 4. Findings

Checked by runs:

1. `isolated_branch`: the current branch is checked once, before the first
   command; preparing another task's branch moves the shared tree under the
   run, and a patch is published that was tested and diffed elsewhere
   (`docs/architecture/branch-policy.md:7`).
2. `one_selected`: two retries allocate the same attempt; the comment at
   `executionRepository.ts:286` claims an invariant that nothing maintains.

Statements TLC refutes (the definition is kept in the module; adding it to the
configuration named shows the trace):

3. `ExecutionHasApprovedPlan` (LifecycleApprovals.cfg): with every validation
   approved the gate does not look at the plan (`docs/product/prd.md:28`).
4. `StrongAttemptEvaluated` (Retry.cfg): the strong attempt is recorded as
   `escalated`, and only `selected` counts as in flight, so a repeated retry
   exhausts the budget (`app.ts:1333` promises idempotence).
5. `BlockedNeverActed` (ToolCalls.cfg): `docs/data/state-model.md` says that
   blocked means "Policy blocked the tool call."; a second execution of a call
   that has acted records it as blocked.
6. `ApprovalMovesThisSpec` (Planning.cfg): the comment in
   `playwrightGenerator.ts` says that approval moves "this spec"; a validation
   has one staging file, so approving an older artifact publishes the newer
   code.
7. An event is published before its transaction commits, so that a stream can
   show an event that is rolled back (`eventBus.ts:4` promises after).

Read off the models while writing them:

8. A second TDD iteration always ends in NO_APPROVED_VERIFICATION_ITEMS: the
   first leaves no item approved (`executionRepository.ts:163`). `VerifiedOnce`
   states it. `docs/verification/tdd-execution-loop.md` describes retries that
   verify again.
9. The test runner's comment that phase artefacts "never overwrite each other"
   (`test-runner/index.ts:556-564`) does not hold for the directory, which both
   phases share (`1674-1683`); `FilesFollowRows` is what is left of it.
10. Rows of the policy engine are inserted without publication
    (`policy-engine/index.ts:407`): live streams never show them, against
    `app.ts:1386-1389` and `docs/architecture/event-system.md`.
11. A setup of the model registry resets an approved provider to pending and
    drops a fallback the request leaves out; a provider test ignores the
    provider's and the secret's status.
12. Jira: an epic imported into two projects, or a task moved between two
    imported epics, gets a second validation for the same subtask (the ids are
    kept per project and epic), against `importService.test.ts:81` and
    `docs/execution/audit-gap-closure-plan.md:86`; `ImportIsSettled` states
    uniqueness for one imported epic. The loop over orphan validations
    (`importService.ts:90-105`) finds nothing, ever. The first field that holds
    anything decides the acceptance criteria, even if it holds none.
13. Benchmarks: the stored comparison (`app.ts:3172-3207`) takes a threshold of
    85 or more for a hard failure and forgets unsafe attempts, retries and
    cost, so `blockOnRetryIncrease` has no effect through the API, and a
    blocked candidate can pass when its evidence rounds up to the threshold or
    overrides the security dimension, against the blocking rules of
    `docs/benchmarks/regression-system.md`. `BlockedIsNotPromoted` states the
    comparison of stored runs only for default thresholds and inferred hard-fail
    scores. With no run after the edits, those before them decide.
14. Live view: the server's `planner.proposed` has no epics
    (`plannerRepository.ts:342-348`), so that pane stays empty; `task.completed`
    names a row id while panes are keyed by stable id; most failures carry
    `code` or `message` while the view reads `reason`. A chunk that ends in a
    return waits for what follows, so "\r\r\n", which the server never writes,
    would be read differently when it is cut: `CutsDoNotMatter` excludes a
    return that follows a return.

## 5. Proofs

The theorems about components are of the form `Spec => ...` for arbitrary
constants that satisfy the named assumptions (`GateAssumption`,
`LifecycleAssumption`, `LadderAssumption`, `StreamAssumption`, `ToolAssumption`,
`PlanningAssumption`, `TddAssumption`). Those say only that the value used for
"none", for the base branch or for the agent is not also a row's or a handler's,
that items and validations are disjoint, links are links, decision and call ids
are finite, the rows operators give have the type of rows, numbers are natural,
and there is a call, a turn, a round, an item and an iteration. Two theorems of
components have a further hypothesis, given below, and so has
`NothingWaivedNothingUngranted`. The
theorems about pure functions (`AlgorithmProofs`, and those of `EventProofs` on
the live view) state a property of the module
for every input of the kind the code takes.

**LifecycleProofs.** `TypeCorrect`, `StatusIsWitnessed`, `PatchMirrors`.
`TypeOK` alone is not inductive: a handler at `launch` writes the execution in
its job, so that must be a row. `TypeInv` adds `JobsPlaced` and `JobsLinked`
(what a handler's job names at each program point, and that the named execution
belongs to its task) and `RowsPlaced` (an existing execution belongs to a real
task, an absent one has no patch). With it, both properties follow action by
action. Every action either leaves tasks and executions aside (`Aside`) or
writes a task and one of its executions in the same step to a matching pair
(`Together`). That is the argument: the code never checks what others did, but
each transaction that moves a task past approval moves an execution with it;
and when another handler moves that execution, the same transaction moves the
task.

`NothingRewinds`, in the same module, needs one more fact: `startTaskExecution`
inserts its row several awaits before it sets `implementing`, so what forbids a
rewind is that nobody verifies or reviews a row before its launch.
`LaunchesAlone` states it: an execution a handler is about to launch has no
patch, is queued or failed, and no other handler is launching or verifying
it. It is inductive together with `TypeInv`.

`SerialEdits`, `SerialPatches`, `SerialLaunches` and `SerialAdmissions`, there
too, prove what `lifecycle_serial` and `lifecycle_approvals` check
with one handler, under `OneAtATime` (any two handlers are one) and for any
number of tasks, executions, items and validations. `SerialInv` says of the one
request under way that past the switch it is on its task's branch and a switch
carries no edits along (`OnOwnBranch`), that its run has tested its own tree
only (`RunsOnOwnTree`), and that what it read of its task still stands
(`ReadsStand`); patches and edits follow. A lost request keeps all of it: what
it leaves behind is on the branch it left. `OneAtATime` is what the code does
not ensure, and `isolated_branch` is its counterexample with two.

**RetryProofs.** `TypeCorrect` and `FailsAfterStrong`. `Climbed` strengthens
`EscalatesBeforeFailing`: once an attempt numbered 3 or more is recorded, or a
handler is about to record one beyond 3, there is a row of attempt 3 on the
strong slot.
Stopping a decision keeps its attempt and slot, and nothing deletes one, so
racing handlers may repeat an attempt but cannot skip it. `SerialLadder` and
`SerialAttempts` prove the serial properties, for any number of handlers of
which one is busy at a time: `InStep` relates the rows to the retry counter, to
`failed` and to what the busy handler has read, at each of its points.

**EventProofs.** `TypeCorrect` and `FramesAreUnique`. `OnceInv` says of a
connection that its written frames and its queue together repeat nothing and
are within `seenEventIds`. The proof does not use `Exclusive` and covers the
three buses: no frame repeats on SQLite, on Postgres or over notifications.
`FollowersCatchUp` proves `CaughtUp` while every row fits the replay
(`Limit >= MaxEvents`; beyond it a backlog is cut by design). `FollowInv` says
of a connection that has read its backlog that each event that is `Due`
(inserted, and no longer on its way through a bus) is written, queued, in the
backlog still to be written, or one that nothing told it of (`blind`: its row was
open when the backlog was read, or its notification was lost). Each step moves
an event along that way or adds it to `blind`.

At the other end of the stream, `ViewsHold` proves `ViewFollowsStream` for every
proper stream. `CutsDoNotMatter`: text read in any chunks leaves the view of the
text read at once. The parser, which splits its buffer anew with each chunk, is
shown equal to a machine that reads one token after the other (`Fed`), whose
finished parts only grow; what it keeps back has no end in it. `ViewsHold` then
goes along the tape, one frame after the other: each frame that came whole is
one event or none, and the panes (`PanesAt`) tell of each key the newest event
about it, each id counted once.

**ToolProofs.** `TypeCorrect`, `ActsOnlyGranted`, `LoopClosesSteps`,
`FinishedIsFinal` and the refinement `ImplementsLedger`, from one invariant,
`ToolInv`. A grant or an exemption is never taken back, so what an act needs is
decided between the reading of a call and the end of its checks.
`ApprovalsAsked` says of the catalog that a tool that acts asks for an approval
unless an operator waived it; hence a request that was started has either read a
row that asks, or its call is exempt. `ClearedGranted` says that a request past
its checks has a grant or an exemption, or a row no wrapper acts for (`MayAct`).
The check goes by the row as it was read, which is why the exemption is that of
the call's start: what is written afterwards changes neither. The last case
matters: a row written under one set of definitions may be started under the
other, and pass as a reading one without a grant; what stops it is that the
wrappers refuse a row of that mutability.
`NothingWaivedNothingUngranted` is the corollary for operators whose rows all
ask for an approval: nothing is ever exempt, so nothing acts without its grant.
`StepsClosed` gives `LoopClosesSteps`: turns number the steps, all before the
current one are closed. For the serial properties `Alone` says that a request
under way is the only one, `StillStands` that what it read of its call's status
is still so, and `ActedIsSpent` that a call that acted is running or finished; a
restart between any two steps keeps all three. `ImplementsLedger` then looks at
the kinds of steps (`StepKinds`): the creation of a call, the writing of an
approval, the start of a call, which may exempt it, the other steps of a
request, and those of the catalog, which the ledger does not see.

**PlanningProofs.** `TypeCorrect`, `ApprovedRunHasNoPlannedTask`,
`SpecsAreNotLost`, `PublishedIsDecided` and `InterviewGrowsInOrder`, from
`PlanInv`. `SpecNotLost` speaks of a validation after its transaction, while the
files moved before it; what carries it across is `FiledIsKept`: the spec of an
approval that is about to commit is where the tests are, torn by a stop or by a
rename that failed, or about to be renamed (`RenameFails` and `CommitFails` are
the failing steps). `OneRemoves` is what the synchronous pair of file operations
gives: without it two renames of one staged file would leave the second with
nothing to rename (`RemovedIsStaged`). The properties of requests that come one
at a time rest on `Alone`, on `StillThere` (no proposal is replaced under a
request whose files moved) and on `InOrder`: what is left of a submission is
what the interview, as it was read, is waiting for. That a set of rounds has a
first one (`FirstOf`) is the library's well-foundedness of the natural numbers.

**TddProofs.** `TypeCorrect`, `GreenOnlyAfterRed`, `AbortsBeforeGreen`,
`EachItemOnce` and `FilesAreOfNewestRow`, from `TddInv`. None of the four
properties is inductive: each speaks of rows, and what the next step does to
rows depends on where the loop is. `Once` is the core: an approved item was
never tried, for a run takes approved items and leaves none of them approved;
so whatever the loop is asked to run again, there is no second row. It needs
`Placed`: between two steps of an item the newest row is the loop's own, and
every approved item is one the loop took, so that after it none is left and a
second iteration has nothing to run. `BeforeTheEdits` and `AfterTheEdits` divide
the items into those whose turn is to come and those that had it, for each
phase: before the edits nothing ran after them, after the edits each command was
red; the flag the code keeps, `loop.failed`, is shown to mean that an item had
its turn and did not turn green. `Over` carries both past the end of the loop.
`Files` excepts one row from what it says of meta.json, the one recorded whose
file is not written yet, and says it of the first drive only: a restart leaves a
row whose meta.json never comes.

**AlgorithmProofs.** For every input, where TLC tries a family of them.
`PlansHold`, `SetupsHold` and `ScoresHold` prove three of the five invariants of
`algorithms` as they stand, from what the named parts say (`ViewsHold`, above,
proves a fourth):

- *Loops.* The code's loops are folds over lists and sets. `FoldFacts` has the
  equation of a fold and the induction over it, for constants `Op`, `Value`,
  `Pick` and `Inv`; each loop instantiates it with its own operator and
  invariant, since a theorem that takes an operator is out of the prover's reach.
  The induction is that of any subsets of a finite set one has none of the
  others within.
- *Evaluation*: `JudgesCannotOverrule`, `JudgesAreMonotone`, `ThresholdsSuffice`,
  for all executions and all answers of the judges between 0 and 100. The
  rounding is Math.round's, bounded by `RoundedTen` and `RoundedTotal`; the first
  theorem adds up what the best judges can give and finds it below the verdict.
- *MCP setup*: `SetupIsSettled`, for every stored server and definition, and
  `HistoriesSettle`, for what any list of requests leaves of a server.
- *Model registry*: `RegistrySound` is the invariant: every row has its shape
  (`RegistryShape`), an active provider was the last decision about it
  (`ProvidersDecided`), a model has its provider, a provider its secret, a slot
  its models. `RegistryBegins` and `RequestsKeepRegistry` are its beginning and
  its step, for every request the routes accept (`IsRequest`);
  `HistoriesAreSound` is the induction over any list of requests, and
  `HistoriesResolveSoundly` says what a resolution returns after it
  (`SoundResolution`). The proof found that the first statement of the registry
  was too weak: a patch may take a provider's secret away, which the enumerated
  requests did not; they do now. `ExecutorNeverWeakens` and `StoredKeysAreFound`
  have no history.
- *Decomposition*: `FirstDesignStands` (each task has an item before its design
  is looked at, so the gate has nothing to send back), `ReservedIsFree` (of one
  more number than there are identifiers one is free, by the pigeonhole
  principle), `HarderIsNotEasier`, `ItemsAreValidated`, and `ProposalsAreComplete`
  for whole proposals: names are given out one task after the other, each free
  among those before. `StoredIsKept` says that normalising a stored proposal
  again changes nothing: of its epics or tasks in their order, the first that
  changed would have lost its name to one that did not.
- *Benchmarks*: `PassesAreEarned`, `GatePassesFreeCalls`, `BlockedNeverPromoted`.
  The first needs that a newest run of an item exists (`OneIsLatest`: the greatest
  iteration, then time, then position) and that a list of a set's elements holds
  each of them (`ListOfSet`). The last compares stored rows, which keep
  neither weights nor hard failures: `HardFailScores` shows that an inferred
  hard-fail score is 0 or 100, so that rounding does not move it past a
  threshold, and `HardFailsStored` that the default thresholds of 85 or more are
  those of the hard-fail dimensions.
- *Dependency map*: `KahnBegins` and `KahnStaysSound`, the invariant of the loop
  (`KahnSound`: the order repeats nothing and puts nothing before what it
  requires; degrees count what is unmet; the ready tasks are those with nothing
  unmet); `KahnEnds`, one turn per task; `KahnOrders`, `KahnLeavesCycle` and
  `KahnDecides`, that it orders all tasks exactly when there is no cycle (from a
  task that is left one goes back through predecessors until two meet). `FirstOrder`:
  of all orders it is the first. `SearchIsRight`: the breadth-first search from a
  task finds a shortest cycle through it, or none is within the cutoff.
  `SmallestCycle` is the induction over the searches, `RotationIsCanonical` the
  form in which the cycle is written. `MapsAreRight` joins them for any project
  whose ids are distinct (the primary key of `schema.prisma`).

Their hypotheses say what kind of value an input is (`PlanIsProper`,
`SetupIsProper`, `ScoreIsProper`, above `StreamIsProper`), that the values used for
"nothing" differ from the others (`NoneApart`, `SetupNamesApart`), and that
numbers print differently and as words (`NumbersAreWords`). The scores' ask in
addition that weights are natural and thresholds integers, and that no stored
status is a synonym of "passed", no mutability one of "read".

Model-checked only: the liveness properties (`TestingEnds`, `QueuedIsWritten`,
`ListenerComesBack`, `LoopEnds`, `DriveEnds`), as fairness and ENABLED are out
of the prover's reach, and `ImportSettles`: `JiraImport` is written with
RECURSIVE operators, which no theorem may reach.

## 6. Not modelled, and the plan

Left out, with the reason: observability export (fire and forget), the CLI's
other commands, artefact rendering and image comparison (pure I/O, or data no
state of the loop depends on), migrations and generated clients; of the Postgres
bus the race of two wirings at once and `close()`; of the
HTTP API the CRUD routes, which hold no protocol.

Next, in order:

1. `EventDelivery`, the abstract promise of a stream (each event at most once,
   once committed and published eventually), with `EventStream` as its
   implementation; its safety is `FramesAreUnique` and `FollowersCatchUp`.
2. `LoopSystem`: lifecycle and ladder composed, so that `ExhaustRetries` and the
   ladder's decisions are one step and `failed` is the execution's status.
