# Cadet: models, checks and proofs

Cadet runs agents as workflows. A run of an agent passes through seven stages; its rows live in
a SpacetimeDB module whose reducers are transactions; control planes create runs, and worker
processes that subscribe to the tables carry them forward. No process coordinates the others:
everything that keeps a run consistent is in the reducers' guards, in the order in which one
connection's calls commit, and in what a worker makes of a row it is told of. Around
this core stand the memory that runs leave to later ones, the sandboxes agents work in, a daemon
that scores what agents did, and a desktop application that shows it all. That is what these
modules model, check with TLC and, as far as the prover reaches, prove.

Contents: [inventory](#inventory), [plan](#plan), [the modules](#the-modules),
[the runs](#the-runs), [what is proved](#what-is-proved), [findings](#findings),
[assumptions and limits](#assumptions-and-limits), [not modelled](#not-modelled).

## Inventory

| Component | Code | State it keeps | Operations | Status |
|---|---|---|---|---|
| Workflow tables | `spacetimedb/src/lib.rs` | runs, steps, approvals, browser tasks; agents, threads, message events they refer to | 16 reducers from `register_agent` to `fail_browser_task` | modelled |
| Schedules and jobs | `spacetimedb/src/lib.rs`, `packages/core/src/schedule.ts` | `schedule_record`, `job_record` | register, claim, enqueue, start, complete, fail | modelled |
| Workflow worker | `rust/starbridge-runner/src/main.rs` | a runner id, `active_steps`, `active_tasks`, a cached copy of the tables | start-up scan, row callbacks, execution of steps and browser tasks | partly (no heartbeats, tool-call and artifact rows, one-shot commands) |
| Run memory | `main.rs:331` to `:1600`, the memory reducers of `lib.rs` | documents, chunks, embeddings, notes, retrieval traces | learn, retrieve | modelled |
| Local control plane | `apps/local-control/src/index.ts` | none of its own | catalog sync, schedule pass, dispatch, heartbeat, staleness pass | partly (no heartbeat and staleness pass) |
| Cloud control plane | `apps/web/lib/server.ts` | none of its own | inbox and webhooks, dispatch, schedule pass, retry | partly (no inbox and webhooks) |
| Sandboxes | `apps/web/lib/sandbox.ts`, `cron/sandbox-watchdog` | `sandbox_instance`, `sandbox_snapshot`, machines and images of the provider | create, wake, run, snapshot, sleep, stop, delete, watchdog | modelled |
| Launch and lifecycle queues | `apps/web/app/api/queues`, `apps/web/lib/queue*.ts` | messages of an at-least-once queue | two consumers with a retry policy | partly (lifecycle queue) |
| Scoring daemon | `rust/starbridge-core/src/scoring_daemon.rs`, `delight.rs` | a bounded channel, a pause flag, a state, a window of scores | submit, pause, resume, score, shut down | modelled |
| Desktop application | `rust/starbridge-dioxus/src/live.rs`, `bin/starbridge_dioxus_ui.rs` | a subscription, an event queue, `LiveState` | subscribe, apply, render, reload, post, approve | partly (the live data) |
| Append-only tables | `spacetimedb/src/lib.rs` | bus messages, skills, hooks, checkpoints, challenges, memory, scores | single inserts and upserts | partly (memory and scores) |
| Agent sessions, workspace checkpoints, chat state adapter, presence, operator tokens, durable agent workflow, prompts, web pages, CLI, generated client | | | | [not modelled](#not-modelled) |

How they interact. Control planes and chat tools call reducers over HTTP and await the answer;
an answer may be lost after the reducer committed. A worker calls over one websocket and does
not wait: its calls commit or are refused in the order sent, and nobody tells it which. Every
committed write is announced to each subscriber in commit order and handled by one thread per
connection; the desktop application is one such subscriber. The queues deliver a message again
when the consumer fails or takes too long. The provider's machines stop by themselves and tell
nobody. The daemon shares no state with the rest but the two tables its callback writes.

What is hard here, and the property that answers it:

- *Races for one row.* All workers of an owner see a ready step; the dispatching control plane
  wants the route step too; schedule passes overlap. `RunningStepKeepsRunner`, `ExecutedByOne`,
  `BrowserTaskClaimedOnce`, `OneSeederPerJob`, `DispatchedOnce`.
- *Ordering without answers.* Nothing checks `depends_on_step_id`; a step follows its predecessor
  only because the enqueue commits behind the completion; a learning is four calls in a row.
  `DependencyCompleted`, `BrowserStepHasResult`, `EmbeddingsResolve`, `NotesNeedCompletions`.
- *Status written blindly.* Most reducers set the status of a step, run or sandbox without
  reading it, so later writers overwrite earlier ones. `StepWaitsAreAnswerable`,
  `RunWaitsAreAnswerable`, `CompletionStamp`, `CompletedStaysCompleted`, `DeletedStaysDeleted`.
- *Nobody looks twice.* A worker scans once and then lives on notifications; a claimed schedule
  keeps the status `claimed`; a stopped machine leaves its row as it is. `NoLostWakeup`,
  `RunEnds`, `DueIsClaimed`, `StaleRunningFades`.
- *Steps of which one fails.* Seeding a job takes seven transactions, some reducers insert before
  they look up, a sandbox has a pending row before it has a machine. `CompletedJobsArePlanned`,
  `ReferentialIntegrity`, `DueTimeMovesWithAJob`, `LossesNeedFaults`, `LearnedIsRemembered`.
- *Repeated calls.* Ids are derived, calls are sent again, schedules are registered again at
  every pass, answers come too late. `RowsAreNeverReaddressed`, `JobsAreSpaced`, `CalledOnce`.
- *Flags and copies read late.* The daemon reads its pause flag after it has an entry; workers
  retrieve from a copy; the application draws snapshots that have waited. `HeldEntriesWait`,
  `StateFollowsResume`, `RetrievedIsThere`, `ScreenNeverGoesBack`, `ScreenCatchesUp`.
- *Orderly and disorderly ends.* `DroppedHandlesStop`, `StopsEmptyHanded`, `DeathShows`.
- *Thresholds and scores.* A truncated index into a short window, a delight computed in two places.
  `CeilingHolds`, `RowsAgree`, and `StarvedGateRelaxes`, which fails.

`PROJECT.json` lists each hazard at its line, and says of those without a property why.

## Plan

Done: the store, the schedules with their abstract ledger, the worker protocol and the proof that
it implements the store; run memory; sandboxes with their watchdog and queue; the delight gate and
the daemon around it, with the proof that it implements the gate; the live data of the desktop
application; every safety property of every run as a theorem. Left, in this order:

1. `LaunchQueue`: a redelivered launch meets its own rows (`WorkflowStore`) and creates sandboxes
   (`Sandboxes`). Its retries repeat inserts that are refused, so what it promises is little: a
   launch is seeded, or given up after the last delivery.
2. The section budget of `context_engine.rs` as an operator: what is cut when everything is long.
3. Composition of `RunMemory` with `RunnerProtocol`, so that "a step executed twice" is not
   assumed in the one and derived in the other.

Instances stay at two or three of whatever competes; theorems are wanted where the hazard is one
of counting or of identity (limits, ids, owners), since there a small instance says least.

## The modules

**`WorkflowStore`**: the workflow tables. A table is a function from the ids present to rows; a row
keeps its status, what it refers to, and whether `completed_at_micros` is set. A reducer is one
action, enabled exactly when the call commits; a refused call changes nothing. `Next` lets anybody
call anything at any time, since the reducers are public. `update_workflow_run_status`,
`block_linked_step` and the three status mappings are operators of the same names, shared as in
the code. Two reducers insert before they look up: the action takes both together, because a
transaction that returns `Err` leaves nothing behind.

**`OccurrenceLedger`**: what schedules promise: a pair of schedule and due time becomes a job at
most once, and a job serves at most one pair.

**`ScheduleDispatch`**: the schedule and job reducers, and passes of the control planes. A pass
lists (`ListDue`, under a clock that may be ahead) the due schedules it will try to claim, claims
one after the other (`ClaimCommits`, `ClaimAnswerLost`, `SkipSchedule`), and after a claim makes the
seven seeding calls
(`SeedingCallCommits`, `SeedingCallFails`). Passes do not exclude one another and may die between
calls (`PassDies`); registration of manifests (`SyncCatalog`) and reports of SDK clients
(`ReportJob`) happen at any time. `served` is the set of schedules whose plane has the manifest and
may execute it. A pass skips the others without a call (`index.ts:355`, `server.ts:752` and `:762`),
and their rows stay as they are; a deployment changes the set (`Deploy`). The seven calls are counted, not replayed, here: what they do to
the workflow tables is `RunnerProtocol`'s matter. `Claims` maps jobs to ledger entries through an
auxiliary field of the job, the due time that was claimed.

**`RunnerProtocol`**: workers and dispatchers over an `INSTANCE` of `WorkflowStore`. A worker is a
record: its phase of start-up, its incarnation (the timestamp in its runner id), the rows its scan
has copied and not yet handled, an inbox of notifications that concern it, an outbox of calls not
yet committed, and what each of its two threads is executing. `maybe_handle_step` and
`maybe_handle_browser_task` say what a row means to a worker; `Announce` puts it into the inbox at
commit, `ScanSteps` and `ScanTasks` at start-up. `process_workflow_step` gives the calls an
execution sends, from what it finds in the cache: a notification is handled with the cache as that
commit left it, the scan with a copied row and a cache that moves on. `ServeWorker` lets the
server take the oldest call. `Dispatch` is the control plane's sequence of awaited calls;
`RetryReads` and `RetryEnqueues` are the two calls of a retry; `cancel_run` the chat tool.
Rows no handler of the protocol reads (tool calls, artifacts, deliveries; for memory and traces see
`RunMemory`) are left out.

**`DelightGate`**: the adaptive gate in front of the training buffer. The window, the threshold and
the two counters of a period; `should_buffer` and `force_accept` are the two operations. The
scores are levels and the rates counts per `RateUnit`, which keeps the comparisons and the
truncation of the index as in the code. `Ranked` picks from the sorted window by counting.
`MCDelightGate` adds a count of the scores since one was accepted (`dry`), for its run only.

**`ScoringDaemon`**: the handle's operations (`submit`, `pause`, `resume`, `DropHandles`) beside the
loop, one action between any two of its `await`s. It extends `DelightGate`, whose `should_buffer` the
loop calls once per answer of the judge; nothing in the daemon calls `force_accept`. `state` is
what `is_running` shows, `running` the flag, and `held` an auxiliary set of what was sent since the
flag was lowered. The daemon computes loss and delight (`compute_loss`, `compute_delight`,
`compute_surprise` with its cold start and clamps), and `record_trajectory_score` computes them
again, as the reducer does.

**`RunMemory`**: what `persist_learning` and `record_retrieval` do. A worker's calls wait in its
`pipe`; `Commit` carries out the oldest, `Notify` brings the worker's copy of the embeddings up to
date, `Restart` drops the pipe. Which worker may execute a step is left open (any, more than once),
since `RunnerProtocol` decides that; the properties here must hold all the same.

**`Sandboxes`**: the rows of one operator against the provider's machines and images. A handler, of
a request or of a delivery of the lifecycle queue, is a record of the call it makes next, and every
call is a step: the limit is counted in one (`Count`), the pending row inserted in another
(`Pend`), the machine started in a third (`Boot`). `Fails` and `Die` spend a bounded number of
faults. The watchdog lists idle rows, queues a sleep for each and writes `sleeping`; `Deliver` and
`Settle` are the queue. `Expire` is the provider's timeout, of which the tables learn nothing.

**`Desktop`**: a snapshot is the number of changes in it. `Build`, `Subscribed`, `Receive` and
`Disconnect` are the subscription thread, `Handle` one turn of the event loop, `Render` one run of
`app()`, which begins by applying the bootstrap snapshot. A press of a button that sends a call is
`Press`, `Connect`, `Execute`, `Answer` or `TimeOut`.

`MC...` modules give the constants of the instances. `...Proofs` modules hold the theorems.
Operators introduced by "Slip:" are wrong variants of the operator below them, used to see that
each property notices the mistake.

| Abstract | Detailed | Mapping |
|---|---|---|
| `OccurrenceLedger` | `ScheduleDispatch` | `Claims`: a job's schedule, the due time it claimed, its id (checked as `DispatchedOnce`, proved as `LedgerHolds`) |
| `WorkflowStore` | `RunnerProtocol` | identity on the seven tables (proved as `ImplementsStore`) |
| `DelightGate` | `ScoringDaemon` | the same four variables, which change by `should_buffer` only (proved as `ImplementsGate`: `Spec => GateSpec`) |

## The runs

| Run | Properties | What it shows |
|---|---|---|
| `store` | `TypeOK`, `StepWaitsAreAnswerable`, `CompletionStamp`, `RunWaitsAreAnswerable`, `ReferentialIntegrity`, `RunningStepKeepsRunner`, `BrowserTaskClaimedOnce`, `RowsAreNeverReaddressed` | two runs, a step, two approvals, a task, two runners, which may name each other in any way; every reducer at any time |
| `schedule_claims` | `TypeOK`, `OneSeederPerJob`, `JobsAreSpaced`, `DueTimeMovesWithAJob`, `DispatchedOnce` | two passes of one plane, clocks ahead, colliding job ids, lost answers, deaths, re-registration under another plane and interval |
| `schedule_liveness` | `CompletedJobsArePlanned`, `DueIsClaimed` | a schedule that is due and served is claimed, for its second occurrence too, while manifests come and go; scheduled and dispatched jobs complete only with a plan step |
| `protocol_serving` | `ExecutedByOne`, `DependencyCompleted`, `BrowserStepHasResult`, `CompletedStaysCompleted` | two browser workers race for the browser stage, with a retry and a cancel at any moment, all workers up beforehand |
| `protocol_starts` | `ExecutedByOne`, `NoLostWakeup` | workers start, scan and die in the middle of a run |
| `protocol_live` | `RunEnds` | a run of all seven stages ends |
| `daemon` | `HeldEntriesWait`, `RowsAgree`, `CeilingHolds`, `StopsEmptyHanded`, `DroppedHandlesStop`, `StateFollowsResume` | three trajectories, a channel of two, two pauses, the loss of the handles, a judge and a database that fail |
| `memory` | `EmbeddingsResolve`, `RetrievedIsThere`, `NotesNeedCompletions`, `LearnedIsRemembered` | two workers learn and retrieve, execute steps twice, and die |
| `sandboxes` | `LossesNeedFaults`, `DeletedStaysDeleted`, `StaleRunningFades` | requests of all kinds against the watchdog and its deliveries, with a fault at any call |
| `desktop` | `CalledOnce`, `ScreenNeverGoesBack`, `ScreenCatchesUp`, `DeathShows` | changes, a reload, a call, a stream that may die |
| `desktop_stale` | `ScreenKeepsUp` | violated: see [findings](#findings) |
| `gate_starved` | `StarvedGateRelaxes` | violated: see [findings](#findings) |

Bounds, and why they are enough.

- *Store.* One step suffices for the waits: a wait relates a step (or run) to the requests and
  tasks that name it, and no reducer touches two steps. Two requests give an answered one beside
  an open one, two runs let a request or task name another run than its step's. The theorems remove
  the bound for all eight. `ClientStages` limits the stages clients name to one whose completion
  closes a run.
- *Schedules.* Two passes and two job ids give every overtaking of one pass by another and a
  collision of ids. `MaxTime = 2` with interval 1 gives three due times. In `schedule_claims` every
  schedule is served, since one that is not only takes claims away; in `schedule_liveness` the set
  changes at any moment, and `MaxTime = 1` with interval 1 gives two occurrences. The theorems remove
  all bounds.
- *Protocol.* One run: no action reads two runs. Two browser workers compete in
  `protocol_serving`; one worker per owner in `protocol_starts`, where the competition is between
  the two threads and the lives of a worker. The pipeline is shortened to route, a browser stage
  and learn, which the code treats apart, where the state space asks for it; the other stages only
  repeat `plan`. `protocol_live` uses all seven. `MaxCrashes`, `MaxRetries` and `MaxCancels` count
  what the environment does.
- *Gate.* In `gate_starved`, `Period = 2` and `RelaxAfter = 4` keep the proportion that matters:
  a period is shorter than the limit it is compared with.
- *Daemon.* A channel of two with three trajectories is full, partly full and empty while one entry
  is in hand; two pauses show a resume between them; `ColdStart = 2` is passed within the run.
  `Period = 1` makes every score take a new threshold, from windows of one to three scores with all
  their ties and at two rates; a window that has lost its oldest score, and feedback, are covered by
  the theorem `CeilingKept`, which is for every size that `GateAssumption` admits, the code's own
  among them.
- *Memory.* Three executions over three runs of two agents give a step executed twice beside another
  run's, and a retrieval that has to choose (`MaxRetrieved = 1`) and one of a foreign agent.
- *Sandboxes.* Two requests and two sandboxes let a creation overtake a creation and a wake meet a
  deletion; a delivery and the watchdog add two more handlers. One fault, at any call; one image.
  `LossesNeedFaults` counts faults, and its theorem is for any number.
- *Desktop.* Three changes are enough for two snapshots to wait while a third is drawn.

Deadlock is not checked in any run: passes may be idle, runs over, machines gone, the daemon
stopped, and nothing is then enabled.

Fairness.

- `schedule_liveness`: timers and cron start passes for ever (`SF` on `ListDue`), a pass that is
  not killed goes on (`WF` on `PassStep`), and a claim of a schedule that is made again and again
  gets through once (`SF` on `ClaimCommits`, for each schedule). The timers are `setInterval` loops
  and a cron route with no other memory; a network that loses every claim answers no one. The
  fairness asks for nothing when no claim is made: a pass lists what is served only, so a schedule
  whose manifest is gone, or whose agent needs sandboxes that are switched off, is never claimed and
  stays due for ever. `DueIsClaimed` says nothing of it until it is served again. Neither deaths
  nor deployments are fair.
- `protocol_live`: threads that can run do, calls on an open connection arrive, a worker that is
  down is started by its supervisor. No crash, retry or cancel occurs in that run, because the
  code promises nothing after one: see the hazards at `main.rs:877` and `main.rs:942`.
- `daemon`: the runtime schedules the task and every call of the callback returns (`WF` on
  `daemon_loop`). Nothing is assumed of the operator: resumes and drops need never come.
- `memory`: an open connection carries its calls (`WF` on `Commit`). Notifications and steps need
  not happen.
- `sandboxes`: handlers go on unless killed, the queue delivers, the cron route is called every
  five minutes, the idle timeout passes (`WF` each). Faults and the provider's timeout are not fair.
- `desktop`: a standing connection delivers, the event loop and the renderer run (`WF`). Changes,
  reloads and disconnections are not fair.

## What is proved

`tlapm` checks all of the following for every value of the constants that satisfies the named
assumptions of the module.

`WorkflowStoreProofs` (assumptions: the stages the reducers write are among `Stages`; `NONE` is
no id). Every property of the run `store`:

- `TypeCorrect` (`TypeOK`), `NeverReaddressed` (`RowsAreNeverReaddressed`), `RunnersHold`
  (`RunningStepKeepsRunner`), `TasksClaimedOnce` (`BrowserTaskClaimedOnce`).
- `RefsHold` (`ReferentialIntegrity`). Frame lemmas say of each group of reducers which tables it
  leaves alone and that no domain shrinks; a lemma per kind of new row says that what the row
  names is there. The four conjuncts are inductive with `TypeOK`.
- `StampsHold` (`CompletionStamp`).
- `StepWaitsHold` and `RunWaitsHold`. `StepWaitsAreAnswerable` and `RunWaitsAreAnswerable` are
  inductive only together with `TypeOK` and `ReferentialIntegrity`: that answering a request
  releases the step waiting for it needs that the approval a step names is an approval *of that
  step* (`StepRefs`). `WaitsInv` is their conjunction.

`ScheduleDispatchProofs` (assumptions: intervals are at least `MinInterval > 0`; job ids of
schedules and of dispatches differ; `NONE` is no id; what is served are schedules):

- `TypeCorrect`, `SeederUnique` (`OneSeederPerJob`), `JobsArePlanned` (`CompletedJobsArePlanned`).
- `SpacedHold` (`JobsAreSpaced`), `DueTimesHold` (`DueTimeMovesWithAJob`) and `LedgerHolds`
  (`DispatchedOnce`, that is `ScheduleDispatch` implements `OccurrenceLedger`). They rest on
  `ClaimsInv`: every job of a schedule was created no later than now, claimed a due time that had
  come, and lies at least `MinInterval` before the schedule's present due time. `ClaimEffect` says what a claim
  changes; every other step is `NoClaim`.

`RunnerProtocolProofs` (assumptions: the pipeline has stages, each once, `route` first and `learn`
last if at all; workers have owners; `NONE` is neither runner nor step; the runner id of a control
plane is no worker's). The invariant `IInv` adds to `TypeOK` that a worker is at most in the
life the crashes so far allow (`Lives`), that a worker's outbox claims steps of its own owner only
(`Outboxes`), that a task has the id of its step (`TasksNamed`), that retries are of known steps
(`RetriesKnown`), and `Wakeups`, which is `NoLostWakeup` over all step ids.

- `TypeCorrect` and `WakeupsHold` (`NoLostWakeup`): a row becomes ready only in a commit, which
  announces it to every worker that has registered, and a worker that registers later scans.
- `ImplementsStore`: every step of the protocol is a reducer of `WorkflowStore` or leaves the
  tables alone. `TablesHold` draws the consequence: the invariants proved of the store hold of the
  running system, through an instance of `WorkflowStoreProofs`.
- `OneExecutes` (`ExecutedByOne`), for any workers that start, scan and die at any time, provided
  there is one browser worker (`LoneBrowser`; `docs/ARCHITECTURE_GUIDE.md:144` deploys one). Its
  invariant `OInv` ties work to rows: whatever a process has received, scanned or is doing is on a row
  with its owner and, unless it is a browser step, with the runner id of its present life
  (`Rightful`); its two threads never do the same (`Apart`); what can be claimed has no runner,
  but for a browser step whose task is completed (`Unclaimed`). That exception is why two browser
  workers need the next hypothesis.
- `OneExecutesSettled`, `DependencySettled` (`DependencyCompleted`), `ResultsSettled`
  (`BrowserStepHasResult`) and `CompletedSettled` (`CompletedStaysCompleted`), for any number of
  workers per owner, any retries and cancels, under `[]Settled`: no worker scans or comes up while
  there are steps. The hypothesis is needed for agents with a browser: on the instance of
  `protocol_starts` TLC finds the last three violated. Workers may die under it, if they stay down while there are steps.
  The invariant `QInv` consists of `OInv`; of what the tables say (`Orderly`: an open task
  blocks its step, dependencies are completed, stages are entered in order until a retry, a
  completed run has learned); of what a dispatch or a retry under way relies on (`PlaneDue`,
  `RetriesCounted`); and of `Steady` for every process: it does no step twice (`Once`), holds what it
  has received or is doing (`Held`), completes browser steps that have their result (`Results`), and sends
  an enqueued step behind the completion of the one before (`Chained`). A call that is served
  is what its runner had to make then (`Due`), which is what the tables need to stay orderly.
- `ServingWorkersAgree`: the four properties without that hypothesis, when workers are up before
  the dispatch and do not crash (`~LateStart /\ MaxCrashes = 0`): `SettledFromStart` discharges it.
  These are the instances of `protocol_serving`, with any sets and any bounds.
- `PlainRunsAgree` (`ExecutedByOne` and `DependencyCompleted`), for agents that need no browser
  (`~BrowserRequired`), with neither hypothesis: any number of workers, with or without the manifest,
  that start, scan and die in the middle of a run, any retries and cancels. Its invariant `PInv` adds to
  `OInv` that the tables are `Plain` (no row is the browser's, no task exists, dependencies are done, and
  who completed a step has the manifest) and that every call on its way `Fits`: it ends a step its worker
  runs, and an enqueued step has its dependency completed or that completion before it in the outbox.
  Without a browser step no one executes what it does not run: a step executed ahead of its
  dependency, which TLC finds on the instance of `protocol_starts`, takes a browser step.

`DelightGateProofs` (under `GateAssumption`, which the sizes in the code satisfy):

- `GateTypeCorrect`; `FloorHolds` (`FloorNeverBinds`): the condition under which
  `recompute_threshold` relaxes a starved gate is never met, for any rates and sizes of these
  proportions. That is no virtue of the code but the reason behind `gate_starved`: the counters start
  anew with each threshold, a period grows past `Period` only by feedback at its end, each of
  which is accepted, and one acceptance per `Period` is above the floor.
- `CeilingKept` (`CeilingHolds`): the index is truncated, so at most `MaxRate` of the window lies
  above a new threshold, with ties and short windows too.

`ScoringDaemonProofs` (under `GateAssumption`, `DaemonAssumption` and `SizesAssumption`: finitely many
trajectories, for which the gate's bounds leave room). It extends `DelightGateProofs`. `IInv` is
`TypeOK` with `OnePlace` (an entry is in the channel once, or in hand), `ScoreAgrees` (the score in hand satisfies the formula of the
reducer), `RowsAgree`, `NothingHeld` and `HeldEntriesWait`.

- `TypeCorrect`, `HeldWait`, `TablesAgree` (`RowsAgree`), `NothingDropped` (`StopsEmptyHanded`).
- `ImplementsGate`: the daemon implements `DelightGate`. The gate alone counts at most `MaxScores`
  scores, the daemon has no such counter; `JudgedOnce` says that the scores counted and the
  trajectories that wait or are in hand are together no more than those submitted. `GateHolds` draws the
  consequence: a starved gate is never relaxed and no threshold lets through more than its ceiling in
  the running daemon.

`RunMemoryProofs` (under `MemoryAssumption`, with finitely many workers). `PipesSound` says that
the calls of a pipe come in the order in which they were sent, so that each finds its predecessor's
row; `CachesKnown` and `TracesKnown` that copies and traces on their way hold embeddings there are.

- `TypeCorrect`, `LearningResolves` (`EmbeddingsResolve`), `TracesResolve` (`RetrievedIsThere`).
- `NotesCovered` (`NotesNeedCompletions`), from `NotesInv`: the notes of a run and the workers that
  still owe it one, counted, are no more than its completions.

`SandboxesProofs` (under `DistinctIds` and `BoundsAreNumbers`). `IInv` adds to `TypeOK` what a
handler at each call holds: `Recording` (an image that is recorded has an id), `Deliveries` (a delivery
makes the calls of a sleep, of a machine that was started), `MachinesKnown` (rows, messages, the
watchdog and handlers name machines that were started) and `PendingRows` (a row that says `creating`
belongs to a request that got past that call).

- `TypeCorrect`, `DeletedNeverReturns` (`DeletedStaysDeleted`).
- `LossesArePaid` (`LossesNeedFaults`). The two sets of losses are not inductive: a row is lost
  steps after the fault that caused it. `AtRisk` and `LostPlaces` are larger sets that grow
  only by steps that fail; that each has at most `faults` members is inductive.

`DesktopProofs` (under `DesktopAssumption`). `IInv` is `TypeOK`, `CallsCounted` (a call was
carried out exactly when its connection says so, before the user is told), `QueueInOrder` (waiting
snapshots are in order, none older than what is applied) and `ScreenBehind` (what is drawn is no
newer than what is applied, and that no newer than what was received).

- `TypeCorrect`, `CallsTakeEffectOnce` (`CalledOnce`), `OnlyForward` (`ScreenNeverGoesBack`).

The types of the five smaller modules and of `RunnerProtocol` are shown by proof only.

Only model-checked: liveness, which is beyond the prover: `DueIsClaimed`, `RunEnds`,
`LearnedIsRemembered`, `StaleRunningFades`, `DroppedHandlesStop`, `StateFollowsResume`,
`ScreenCatchesUp`, `DeathShows`. Every safety property of a passing run is a theorem, the four of the
protocol under the hypotheses above.

## Findings

- `desktop_stale`: `app()` puts a bootstrap snapshot that has runs or threads back into `LiveState`
  at every rendering, not once; since every event leads to a rendering, an application that starts
  on such a snapshot (or on the sample, when the database is out of reach) shows it for ever, while
  `docs/specs/001-live-data-layer.md:318` promises a view that is up to date within a second. The
  properties of the run `desktop` are therefore about an application that starts on an empty one.
- `gate_starved`: `docs/specs/016-trajectory-scoring.md:144` and the comment at `delight.rs:158` promise
  that the threshold relaxes when the buffer has been empty for too long. The code asks for
  `total_count > 100`, but the counters are reset with every threshold, that is every 50 scores, so a
  gate whose threshold equals the best score of its window goes on computing it at `target_rate`,
  however long nothing passes. The trace of the run is such a gate; `FloorHolds` proves that the
  relaxing branch is unreachable for the rates of the code.

Three more disagreements between documents and code were met and have no run, because each is plain
from the source:

- `docs/specs/001-live-data-layer.md:320` wants the connection status to show `Disconnected` after a
  disconnection and `Connected` after a reconnection. The code sets `Error`
  (`starbridge_dioxus_ui.rs:748`), sets `Disconnected` nowhere, and never subscribes
  again: `Disconnect` is the last step of its stream. `DeathShows` keeps to what this line,
  `docs/specs/015-style-polish.md:435` ("verify connection dot turns red") and the code agree on: once the
  stream is dead, the status stops saying `Connected` or `Connecting`, and no waiting snapshot
  brings that back while it is dead.
- `docs/specs/016-trajectory-scoring.md:157` and the header of `scoring_daemon.rs` speak of an idle-only
  mode that pauses above 60% of CPU; `IdleWait` and `cpu_threshold` are never used.
- `docs/specs/016-trajectory-scoring.md:144` and `:145` call the relaxed bound the floor and the tight
  one the ceiling; the code's `min_rate` and `max_rate`, and these modules, name them the other way round.

## Assumptions and limits

Of the models:

- `update_run_status` is called with `completed`, `failed` or `cancelled`, as its comment says and
  its callers do; a client that sent `blocked` would break `RunWaitsAreAnswerable`.
- The calls of one connection commit in the order sent, and notifications arrive in commit order
  (the database's contract). `iter()` on the cache yields copies made when it is called.
- The calls one execution sends enter the outbox together. Others of the same worker could be
  sent between them only by its second thread, during the start-up scan; the refused or accepted
  outcome of each is still decided one at a time.
- In `RunnerProtocol` every run has a thread of its own and one agent; a retry picks any failed or
  blocked step where the code picks the one updated last; a restarted worker never reuses the
  microsecond in its runner id.
- In `ScheduleDispatch` a pass's clock may be ahead of the database's by `Skew`; one that is
  behind only finds fewer schedules due. The seven calls are counted there, and what they do to the
  workflow tables is in `RunnerProtocol`.
- In `Sandboxes` one delivery of a sandbox's message is worked on at a time, and the provider has
  as many ids as `Sandbox`; in `RunMemory` one retrieval policy serves all agents.
- Nothing in the repository calls `spawn_daemon`; its callback is taken from the trait and the
  reducers of the same names.
- The text of messages, prompts and memory, the arithmetic of single scores, authentication, and
  the layout of the interfaces are left out: no property here distinguishes them.

Of the code, met while modelling. No document we know of promises the contrary, so these are not
findings; the properties are stated for what the code does keep:

- A worker that starts in the middle of a run may execute a step a second time: its start-up scan
  works on copied rows beside the callbacks. With a second worker of the same owner that breaks
  `ExecutedByOne` and what rests on it, and a late completion reopens a closed run. Hence all
  workers are up before the dispatch in `protocol_serving`, and there is one per owner in
  `protocol_starts`.
- A cancelled run goes on, because neither worker nor reducer reads the status of a run. When a
  worker wins the route step, no later input names the thread, and the run has no summary message.
- A worker that dies leaves its step running under a runner id nobody has (`main.rs:877`); one
  that loses its connection for good never notices (`main.rs:942`); what it learned and had not
  sent is lost, and nothing repairs it.
- `resolve_approval` (`lib.rs:1666`) looks at no status; a dispatch whose claim is answered too
  late leaves a queued job (`local-control/src/index.ts:366`).
- The web routes and chat tools call a reducer `delete_memory_document` that does not exist, so
  `RunMemory` has no deletion.
- A due schedule that is not served stays due, without a claim and without a job, and its row tells
  nobody; the pass only reports it as skipped to whoever called it.
- A `lightweight` daemon stays `Paused` after a resume, so `StateFollowsResume` is about the
  profiles that score; handles dropped during a pause take the entries in the channel with them, so
  `StopsEmptyHanded` is about a daemon that is not paused; single scores out of range are refused
  by one reducer and buffered by the other, so `RowsAgree` is about trajectories with both rows.
- The watchdog is the only producer of the lifecycle queue and sends only sleeps; it writes
  `sleeping` right after, so that the consumer mostly skips the sandbox: no image is taken and the
  machine is left to its timeout. The operator's limit is read before the row is written, a wake
  does not look at it, and a pending row that was not deleted counts against it for ever.
- `Reload` in the desktop application sets a signal nothing draws. A call that timed out may be carried out; pressing again makes another.

## Not modelled

- *Agent sessions*: `ensureSession` (`session.ts:137`) is a check followed by an insert, and the
  cancel flag is read only after the command has finished (`executor.ts:122`) and cleared by the
  turn it should cancel (`lib.rs:3205`). Neither keeps a promise that could be stated and would hold.
- *Workspace checkpoints*: `rollbackToCheckpoint` (`checkpoints.ts:84`, offered by the chat tool at
  `chat-tools.ts:622`) starts a machine from an image and never inserts a `sandbox_instance` row: no
  limit counts that machine and no watchdog or deletion finds it. It needs a checkpoint, and
  only tests call `createCheckpoint`. `Sandboxes` is about `sandbox.ts` and the routes over it;
  `LossesNeedFaults` says nothing of a machine started this way.
- *Chat state adapter*: `acquireLock`, `enqueue` and `dequeue` of `bot-state.ts` read a row and
  write it in a later call. Without an atomic operation behind them they exclude nobody.
- *Launch queue*: a redelivered launch repeats inserts under the ids of the first attempt, which
  are refused (`RowsAreNeverReaddressed`), so that an attempt that failed past them cannot be
  made up for; there is no recovery to check.
- *Presence*: the last status written stands until the next heartbeat; only pages read it.
- *Operator tokens*: a cache before a third party's refresh endpoint, whose rules about used
  refresh tokens the repository does not state.
- *Durable agent workflow*: steps of an external engine whose replay the repository does not define.
- *Append-only tables* other than memory and scores: single writes that nothing else reads.
- *Prompts and context, web pages, widgets, styles, CLI, scripts, generated client*: rendering,
  formatting and bindings with no protocol state of their own. They are the larger part of the
  repository's lines, which is why the modules cover a small share of it.
