--------------------------- MODULE RunnerProtocol ---------------------------
(***************************************************************************)
(* The workers of rust/starbridge-runner/src/main.rs and the dispatch of   *)
(* the control planes (apps/local-control/src/index.ts, apps/web/lib/      *)
(* server.ts), running a run's stages over the tables of WorkflowStore.    *)
(*                                                                         *)
(* A worker holds one connection.  Row notifications reach it in commit    *)
(* order and are handled one at a time by the connection's thread; at      *)
(* start the main thread scans the cache with the same handlers.  Reducer  *)
(* calls are fire-and-forget: they leave in order, and the server commits  *)
(* or refuses each on its own, later, with no answer to the caller.        *)
(* A dispatching control plane awaits every call and stops at the first    *)
(* refusal.                                                                *)
(*                                                                         *)
(* Every run has one thread, named like it, and one agent.  Retrieval,     *)
(* tool-call, artifact and memory rows are left out: no handler here reads *)
(* them.  So are approvals: neither a worker nor a dispatch requests one.  *)
(***************************************************************************)
EXTENDS Naturals, Sequences

CONSTANTS
  RunIds,
  Pipeline,        \* the stages in order
  Workers,         \* worker processes
  OwnerOf,         \* worker -> the --owner it was started with
  HasManifest,     \* worker -> whether its manifest directory holds the agent
  Target,          \* manifest.deployment.execution
  BrowserRequired, \* what inferBrowserNeed made of the goal
  LateStart,       \* whether a worker may start while a run is under way
  Agent, Plane,    \* the agent, and the runner id of a dispatching control plane
  MaxCrashes,      \* bound: processes that die
  MaxRetries,      \* bound: retries of a run
  MaxCancels,      \* bound: cancel requests
  NONE

ExecutionOwner == {"local-runner", "vercel-edge", "container-runner",
                   "maincloud-runner", "browser-worker", "learning-worker",
                   "external-agent"}

\* What a manifest may name as its deployment target.
ExecutionTarget == {"local-runner", "vercel-edge", "container-runner",
                    "maincloud-runner"}

AllStages == {"route", "plan", "gather", "act", "verify", "summarize", "learn"}

ASSUME PipelineAssumption ==
  /\ Pipeline \in Seq(AllStages) /\ Pipeline # <<>>
  /\ \A i, j \in DOMAIN Pipeline : Pipeline[i] = Pipeline[j] => i = j
  /\ Pipeline[1] = "route"
  /\ \A i \in DOMAIN Pipeline : Pipeline[i] = "learn" => i = Len(Pipeline)

ASSUME WorkerAssumption ==
  /\ OwnerOf \in [Workers -> ExecutionOwner]
  /\ HasManifest \in [Workers -> BOOLEAN]
  /\ Target \in ExecutionTarget
  /\ BrowserRequired \in BOOLEAN
  /\ LateStart \in BOOLEAN

ASSUME BoundsAssumption ==
  MaxCrashes \in Nat /\ MaxRetries \in Nat /\ MaxCancels \in Nat

VARIABLES
  agent_record, thread_record, message_event, workflow_run, workflow_step,
  approval_request, browser_task,
  with_thread,  \* steps whose input names the thread
  dispatch,     \* run -> what its dispatch calls next
  worker,       \* worker -> its process
  retry,        \* run -> the retry an operator is making
  crashes, cancels

storeVars == <<agent_record, thread_record, message_event, workflow_run,
               workflow_step, approval_request, browser_task>>
vars == <<storeVars, with_thread, dispatch, worker, retry, crashes, cancels>>

\* A step is its run, its stage and the number of the retry that made it, 0 for
\* `{run}_{stage}`.  A browser task is named after its step.
StepIds == RunIds \X AllStages \X (0 .. MaxRetries)
RunOf(s) == s[1]
StageOf(s) == s[2]

\* A restarted worker has a new runner id.
Runners == (Workers \X (1 .. MaxCrashes + 1)) \cup {Plane}
Runner(w) == <<w, worker[w].incarnation>>

ASSUME NoneAssumption == NONE \notin Runners \cup StepIds

\* A control plane's runner id, `{agent}-{role}@local:{port}` or `@cloud`, is no
\* worker's `{owner}@{timestamp}`.
ASSUME PlaneAssumption == Plane \notin Workers \X (1 .. MaxCrashes + 1)

Store == INSTANCE WorkflowStore WITH
  AgentIds <- {Agent}, ThreadIds <- RunIds,
  EventIds <- RunIds \X {"inbound", "summary"},
  StepIds <- StepIds, ApprovalIds <- {}, TaskIds <- StepIds,
  Owners <- ExecutionOwner, Runners <- Runners,
  Stages <- AllStages, ClientStages <- AllStages

-----------------------------------------------------------------------------
(* Stages and their owners.                                                *)

\* The stage after it, or NONE after the last.
next_stage(stage) ==
  LET later == {i \in DOMAIN Pipeline : i > 1 /\ Pipeline[i - 1] = stage}
  IN  IF later = {} THEN NONE ELSE Pipeline[CHOOSE i \in later : TRUE]

owner_for_stage(stage) ==
  CASE stage = "learn" -> "learning-worker"
    [] stage \in {"gather", "verify"} /\ BrowserRequired -> "browser-worker"
    [] stage = "route" -> Target
    [] OTHER -> IF Target = "vercel-edge" THEN "container-runner" ELSE Target

-----------------------------------------------------------------------------
(* Reducer calls: what is sent, whether the server accepts it, its effect. *)

Call(op, s) ==
  [op |-> op, step |-> s, owner |-> NONE, dep |-> NONE, thread |-> FALSE]
Claim(op, s, owner) == [Call(op, s) EXCEPT !.owner = owner]
Enqueue(s, owner, dep, thread) ==
  [op |-> "enqueue_step", step |-> s, owner |-> owner, dep |-> dep,
   thread |-> thread]

\* Whether the call commits.
Accepted(c) ==
  LET s == c.step IN
  CASE c.op = "register_agent" -> TRUE
    [] c.op = "ingest_inbound" -> <<RunOf(s), "inbound">> \notin DOMAIN message_event
    [] c.op = "ingest_summary" -> <<RunOf(s), "summary">> \notin DOMAIN message_event
    [] c.op = "start_run" -> /\ RunOf(s) \in thread_record
                             /\ Agent \in agent_record
                             /\ RunOf(s) \notin DOMAIN workflow_run
    [] c.op = "enqueue_step" -> /\ RunOf(s) \in DOMAIN workflow_run
                                /\ s \notin DOMAIN workflow_step
    [] c.op = "claim_step" -> /\ s \in DOMAIN workflow_step
                              /\ workflow_step[s].owner = c.owner
                              /\ workflow_step[s].status = "ready"
    [] c.op \in {"complete_step", "fail_step"} -> s \in DOMAIN workflow_step
    [] c.op = "enqueue_task" -> /\ s \notin DOMAIN browser_task
                                /\ s \in DOMAIN workflow_step
    [] c.op = "claim_task" -> /\ s \in DOMAIN browser_task
                              /\ browser_task[s].status = "queued"
    [] c.op \in {"complete_task", "fail_task"} -> s \in DOMAIN browser_task

\* The call commits, made by runner id.
Commit(c, id) ==
  LET s == c.step IN
  \/ c.op = "register_agent" /\ Store!register_agent(Agent)
  \/ c.op = "ingest_inbound" /\ Store!ingest_message(RunOf(s), <<RunOf(s), "inbound">>)
  \/ c.op = "ingest_summary" /\ Store!ingest_message(RunOf(s), <<RunOf(s), "summary">>)
  \/ c.op = "start_run" /\ Store!start_workflow_run(RunOf(s), RunOf(s), Agent)
  \/ c.op = "enqueue_step"
       /\ Store!enqueue_workflow_step(s, RunOf(s), StageOf(s), c.owner, c.dep)
  \/ c.op = "claim_step" /\ Store!claim_workflow_step(s, c.owner, id)
  \/ c.op = "complete_step" /\ Store!complete_workflow_step(s)
  \/ c.op = "fail_step" /\ Store!fail_workflow_step(s)
  \/ c.op = "enqueue_task" /\ Store!enqueue_browser_task(s, RunOf(s), s)
  \/ c.op = "claim_task" /\ Store!claim_browser_task(s, id)
  \/ c.op = "complete_task" /\ Store!complete_browser_task(s)
  \/ c.op = "fail_task" /\ Store!fail_browser_task(s)

\* The rows a committed call writes, and so announces to every subscriber.
StepWritten(c) ==
  IF c.op \in {"enqueue_step", "claim_step", "complete_step", "fail_step",
               "enqueue_task", "complete_task", "fail_task"} THEN {c.step} ELSE {}
TaskWritten(c) ==
  IF c.op \in {"enqueue_task", "claim_task", "complete_task", "fail_task"}
  THEN {c.step} ELSE {}

-----------------------------------------------------------------------------
(* What a worker makes of a row.                                           *)

\* What the handler of s will find in the cache: its browser task, and whether
\* the next step is there.
Cached(s, steps, tasks) ==
  [task |-> IF s \notin DOMAIN tasks THEN "none" ELSE tasks[s].status,
   next |-> <<RunOf(s), next_stage(StageOf(s)), 0>> \in DOMAIN steps]

Nothing == [task |-> "none", next |-> FALSE]

\* Slip: any runner's claim is taken for one's own.
run_any_step(w, id, S, steps, tasks) ==
  {[kind |-> IF steps[s].status = "ready" THEN "claim_step" ELSE "run_step",
    step |-> s, cached |-> Cached(s, steps, tasks)] :
     s \in {s \in S \cap DOMAIN steps : /\ steps[s].owner = OwnerOf[w]
                                        /\ steps[s].status \in {"ready", "running"}}}

\* Slip: a step is only claimed while it has never been claimed.
claim_fresh_step(w, id, S, steps, tasks) ==
  {[kind |-> IF steps[s].runner = NONE THEN "claim_step" ELSE "run_step",
    step |-> s, cached |-> Cached(s, steps, tasks)] :
     s \in {s \in S \cap DOMAIN steps :
              /\ steps[s].owner = OwnerOf[w]
              /\ \/ steps[s].status = "ready" /\ steps[s].runner = NONE
                 \/ steps[s].status = "running" /\ steps[s].runner = id}}

\* maybe_handle_step: claim what is ready, run what this runner has claimed.
maybe_handle_step(w, id, S, steps, tasks) ==
  {[kind |-> "claim_step", step |-> s, cached |-> Nothing] :
     s \in {s \in S \cap DOMAIN steps : /\ steps[s].owner = OwnerOf[w]
                                        /\ steps[s].status = "ready"}}
  \cup
  {[kind |-> "run_step", step |-> s, cached |-> Cached(s, steps, tasks)] :
     s \in {s \in S \cap DOMAIN steps : /\ steps[s].owner = OwnerOf[w]
                                        /\ steps[s].status = "running"
                                        /\ steps[s].runner = id}}

maybe_handle_browser_task(w, id, S, tasks) ==
  IF OwnerOf[w] # "browser-worker" THEN {} ELSE
  {[kind |-> "claim_task", step |-> s, cached |-> Nothing] :
     s \in {s \in S \cap DOMAIN tasks : tasks[s].status = "queued"}}
  \cup
  {[kind |-> "run_task", step |-> s, cached |-> Nothing] :
     s \in {s \in S \cap DOMAIN tasks : /\ tasks[s].status = "running"
                                        /\ tasks[s].runner = id}}

\* No call writes two rows that one worker acts on.
AsSeq(S) == IF S = {} THEN <<>> ELSE <<CHOOSE x \in S : TRUE>>

\* Slip: the callbacks are registered after the scan.
announce_after_scan(ws, c) ==
  [w \in Workers |->
     IF ws[w].phase # "serving" THEN ws[w]
     ELSE LET id == <<w, ws[w].incarnation>>
          IN  [ws[w] EXCEPT !.inbox = @ \o AsSeq(
                 maybe_handle_step(w, id, StepWritten(c), workflow_step', browser_task')
                   \cup maybe_handle_browser_task(w, id, TaskWritten(c), browser_task'))]]

\* Every live worker's connection is sent the rows that c has written.
Announce(ws, c) ==
  [w \in Workers |->
     IF ws[w].phase = "down" THEN ws[w]
     ELSE LET id == <<w, ws[w].incarnation>>
          IN  [ws[w] EXCEPT !.inbox = @ \o AsSeq(
                 maybe_handle_step(w, id, StepWritten(c), workflow_step', browser_task')
                   \cup maybe_handle_browser_task(w, id, TaskWritten(c), browser_task'))]]

\* The server takes one call; ws are the workers without it.
Serve(ws, c, id) ==
  \/ /\ Accepted(c)
     /\ Commit(c, id)
     /\ with_thread' = IF c.op = "enqueue_step" /\ c.thread
                       THEN with_thread \cup {c.step} ELSE with_thread
     /\ worker' = Announce(ws, c)
  \/ /\ ~Accepted(c)
     /\ worker' = ws
     /\ UNCHANGED <<storeVars, with_thread>>

-----------------------------------------------------------------------------
(* Worker processes.                                                       *)

Threads == {"callbacks", "main"}

Down(incarnation) ==
  [phase |-> "down", incarnation |-> incarnation, scan |-> {}, inbox |-> <<>>,
   outbox |-> <<>>, busy |-> [th \in Threads |-> NONE]]

others == <<dispatch, retry, cancels>>

\* connect: a new runner id, callbacks registered, the cache in step.
Start(w) ==
  /\ worker[w].phase = "down"
  /\ worker' = [worker EXCEPT ![w] =
       [Down(@.incarnation + 1) EXCEPT !.phase = "connected"]]
  /\ UNCHANGED <<storeVars, with_thread, crashes, others>>

\* The main thread scans the steps, then the tasks.  A cache that lags would
\* show rows as of an earlier moment of the scan.
Scan(w, before, after, rows) ==
  /\ worker[w].phase = before
  /\ worker[w].scan = {} /\ worker[w].busy["main"] = NONE
  /\ worker[w].inbox = <<>>
  /\ worker' = [worker EXCEPT ![w].phase = after, ![w].scan = rows]
  /\ UNCHANGED <<storeVars, with_thread, crashes, others>>

ScanSteps(w) ==
  Scan(w, "connected", "scanning",
       maybe_handle_step(w, Runner(w), StepIds, workflow_step, browser_task))

ScanTasks(w) ==
  Scan(w, "scanning", "serving",
       maybe_handle_browser_task(w, Runner(w), StepIds, browser_task))

IsRunning(item) == item.kind \in {"run_step", "run_task"}

\* Slip: the sets of active steps and tasks are not consulted.
never_active(w, item) == FALSE

\* active_steps and active_tasks: the other thread is at it.
Active(w, item) ==
  \E th \in Threads : /\ worker[w].busy[th] # NONE
                      /\ worker[w].busy[th].kind = item.kind
                      /\ worker[w].busy[th].step = item.step

\* A thread of w, with ws[w] less the item, sends a claim, starts to work, or
\* finds the other thread at work on the same and drops it.
Handle(w, th, item, me) ==
  /\ worker' = [worker EXCEPT ![w] =
       IF ~IsRunning(item)
       THEN [me EXCEPT !.outbox = Append(@, Claim(item.kind, item.step, OwnerOf[w]))]
       ELSE IF Active(w, item) THEN me
       ELSE [me EXCEPT !.busy[th] = item]]
  /\ UNCHANGED <<storeVars, with_thread, crashes, others>>

Callback(w) ==
  /\ worker[w].busy["callbacks"] = NONE
  /\ worker[w].inbox # <<>>
  /\ Handle(w, "callbacks", Head(worker[w].inbox),
            [worker[w] EXCEPT !.inbox = Tail(@)])

\* The rows were copied when the scan began; the cache is read from here on.
ScanItem(w) ==
  /\ worker[w].busy["main"] = NONE
  /\ \E item \in worker[w].scan :
       Handle(w, "main",
              [item EXCEPT !.cached = IF item.kind = "run_step"
                 THEN Cached(item.step, workflow_step, browser_task) ELSE @],
              [worker[w] EXCEPT !.scan = @ \ {item}])

-----------------------------------------------------------------------------
(* Executing a step or a browser task.                                     *)

\* The calls of enqueue_next_step: none after the last stage, nor when the
\* cache holds the next step.
enqueue_next_step(s, cached) ==
  LET stage == next_stage(StageOf(s)) IN
  IF stage = NONE \/ cached.next THEN <<>>
  ELSE <<Enqueue(<<RunOf(s), stage, 0>>, owner_for_stage(stage), s, s \in with_thread)>>

\* Only an input that names a thread gets the summary ingested.
record_summary_message(s) ==
  IF StageOf(s) = "summarize" /\ s \in with_thread
  THEN <<Call("ingest_summary", s)>> ELSE <<>>

\* Slip: the next step is enqueued before this one is completed.
enqueue_then_complete(w, s, cached) ==
  IF ~HasManifest[w] THEN <<Call("fail_step", s)>>
  ELSE IF OwnerOf[w] = "browser-worker" /\ cached.task # "completed"
  THEN <<Call("enqueue_task", s)>>
  ELSE record_summary_message(s) \o enqueue_next_step(s, cached)
         \o <<Call("complete_step", s)>>

\* Slip: a browser step is computed like any other.
complete_without_task(w, s, cached) ==
  IF ~HasManifest[w] THEN <<Call("fail_step", s)>>
  ELSE <<Call("complete_step", s)>> \o record_summary_message(s)
         \o enqueue_next_step(s, cached)

\* A browser step first has its task done; the others are computed at once.
process_workflow_step(w, s, cached) ==
  IF ~HasManifest[w] THEN <<Call("fail_step", s)>>
  ELSE IF OwnerOf[w] = "browser-worker"
  THEN CASE cached.task = "completed" ->
              <<Call("complete_step", s)>> \o enqueue_next_step(s, cached)
         [] cached.task \in {"none", "failed"} -> <<Call("enqueue_task", s)>>
         [] OTHER -> <<>>
  ELSE <<Call("complete_step", s)>> \o record_summary_message(s)
         \o (IF StageOf(s) = "learn" THEN <<>> ELSE enqueue_next_step(s, cached))

Finish(w, th, calls) ==
  /\ worker' = [worker EXCEPT ![w].outbox = @ \o calls, ![w].busy[th] = NONE]
  /\ UNCHANGED <<storeVars, with_thread, crashes, others>>

\* The callback thread finds the cache as its row left it; under the main thread
\* it moves on.
FinishStep(w, th) ==
  LET item == worker[w].busy[th] IN
  /\ item # NONE /\ item.kind = "run_step"
  /\ \E cached \in {item.cached}
        \cup (IF th = "main" THEN {Cached(item.step, workflow_step, browser_task)}
              ELSE {}) :
       Finish(w, th, process_workflow_step(w, item.step, cached))

\* The browser command and its HTTP fallback succeed or fail.
FinishTask(w, th) ==
  LET item == worker[w].busy[th] IN
  /\ item # NONE /\ item.kind = "run_task"
  /\ \E op \in {"complete_task", "fail_task"} : Finish(w, th, <<Call(op, item.step)>>)

\* The server takes the oldest call of w.
ServeWorker(w) ==
  /\ worker[w].outbox # <<>>
  /\ Serve([worker EXCEPT ![w].outbox = Tail(@)], Head(worker[w].outbox), Runner(w))
  /\ UNCHANGED <<crashes, others>>

\* The process dies, or its connection is lost for good: what it had received
\* and not yet sent is gone, and nobody is told.
Crash(w) ==
  /\ worker[w].phase # "down" /\ crashes < MaxCrashes
  /\ worker' = [worker EXCEPT ![w] = Down(@.incarnation)]
  /\ crashes' = crashes + 1
  /\ UNCHANGED <<storeVars, with_thread, others>>

-----------------------------------------------------------------------------
(* Control planes and operators.                                           *)

\* seedWorkflowFromJob, then completeRouteTriage: the route step's input does
\* not name the thread, the plan step's does.
DispatchCalls(r) ==
  LET route == <<r, "route", 0>>
      stage == next_stage("route")
  IN  <<Call("register_agent", route), Call("ingest_inbound", route),
        Call("start_run", route), Enqueue(route, owner_for_stage("route"), NONE, FALSE),
        Claim("claim_step", route, Target), Call("complete_step", route)>>
      \o (IF stage = NONE THEN <<>> ELSE
            <<Enqueue(<<r, stage, 0>>, owner_for_stage(stage), route, TRUE)>>)

Stopped == 0

\* The awaited calls, one at a time; one that is refused throws.
Dispatch(r) ==
  /\ dispatch[r] \in DOMAIN DispatchCalls(r)
  /\ LateStart \/ \A w \in Workers : worker[w].phase = "serving" /\ worker[w].scan = {}
  /\ LET c == DispatchCalls(r)[dispatch[r]] IN
       /\ Serve(worker, c, Plane)
       /\ dispatch' = [dispatch EXCEPT ![r] = IF Accepted(c) THEN @ + 1 ELSE Stopped]
  /\ UNCHANGED <<retry, crashes, cancels>>

\* The control plane dies, or times out on an answer.
DispatchDies(r) ==
  /\ dispatch[r] \in DOMAIN DispatchCalls(r) /\ crashes < MaxCrashes
  /\ dispatch' = [dispatch EXCEPT ![r] = Stopped]
  /\ crashes' = crashes + 1
  /\ UNCHANGED <<storeVars, with_thread, worker, retry, cancels>>

Retryable(r) ==
  {s \in DOMAIN workflow_step :
     RunOf(s) = r /\ workflow_step[s].status \in {"failed", "blocked"}}

\* retryWorkflowRun reads the steps and picks one that failed or is blocked, or
\* else any; replay_run gives up instead.  (The code takes the latest update.)
RetryReads(r) ==
  /\ retry[r].step = NONE /\ retry[r].count < MaxRetries
  /\ \E s \in IF Retryable(r) # {} THEN Retryable(r)
              ELSE {s \in DOMAIN workflow_step : RunOf(s) = r} :
       retry' = [retry EXCEPT ![r] = [count |-> @.count + 1, step |-> s]]
  /\ UNCHANGED <<storeVars, with_thread, dispatch, worker, crashes, cancels>>

\* The step is enqueued again under a new id, whatever has happened since.
RetryEnqueues(r) ==
  LET s == retry[r].step IN
  /\ s # NONE
  /\ Serve(worker, Enqueue(<<r, StageOf(s), retry[r].count>>,
       workflow_step[s].owner, workflow_step[s].depends_on, s \in with_thread), Plane)
  /\ retry' = [retry EXCEPT ![r].step = NONE]
  /\ UNCHANGED <<dispatch, crashes, cancels>>

\* The chat tool cancel_run, for any run.
cancel_run(r) ==
  /\ cancels < MaxCancels
  /\ Store!update_run_status(r, "cancelled")
  /\ cancels' = cancels + 1
  /\ UNCHANGED <<with_thread, dispatch, worker, retry, crashes>>

-----------------------------------------------------------------------------
Init ==
  /\ Store!Init
  /\ with_thread = {}
  /\ dispatch = [r \in RunIds |-> 1]
  /\ worker = [w \in Workers |-> Down(0)]
  /\ retry = [r \in RunIds |-> [count |-> 0, step |-> NONE]]
  /\ crashes = 0
  /\ cancels = 0

WorkerNext(w) ==
  \/ Start(w) \/ ScanSteps(w) \/ ScanTasks(w)
  \/ Callback(w) \/ ScanItem(w)
  \/ \E th \in Threads : FinishStep(w, th) \/ FinishTask(w, th)
  \/ ServeWorker(w)

Next ==
  \/ \E w \in Workers : WorkerNext(w) \/ Crash(w)
  \/ \E r \in RunIds : \/ Dispatch(r) \/ DispatchDies(r)
                       \/ RetryReads(r) \/ RetryEnqueues(r) \/ cancel_run(r)

Spec == Init /\ [][Next]_vars

\* Processes that are up keep running, their calls arrive, and a dead worker is
\* started again.
FairSpec ==
  /\ Spec
  /\ \A w \in Workers :
       /\ WF_vars(Start(w)) /\ WF_vars(ScanSteps(w)) /\ WF_vars(ScanTasks(w))
       /\ WF_vars(Callback(w)) /\ WF_vars(ScanItem(w)) /\ WF_vars(ServeWorker(w))
       /\ \A th \in Threads : WF_vars(FinishStep(w, th)) /\ WF_vars(FinishTask(w, th))
  /\ \A r \in RunIds : WF_vars(Dispatch(r)) /\ WF_vars(RetryEnqueues(r))

-----------------------------------------------------------------------------
(* Properties.                                                             *)

Item == [kind : {"claim_step", "run_step", "claim_task", "run_task"},
         step : StepIds,
         cached : [task : {"none"} \cup Store!BrowserTaskState, next : BOOLEAN]]

ReducerCall ==
  [op : {"register_agent", "ingest_inbound", "ingest_summary", "start_run",
         "enqueue_step", "claim_step", "complete_step", "fail_step",
         "enqueue_task", "claim_task", "complete_task", "fail_task"},
   step : StepIds, owner : ExecutionOwner \cup {NONE},
   dep : StepIds \cup {NONE}, thread : BOOLEAN]

Process ==
  [phase : {"down", "connected", "scanning", "serving"},
   incarnation : 0 .. MaxCrashes + 1,
   scan : SUBSET Item, inbox : Seq(Item), outbox : Seq(ReducerCall),
   busy : [Threads -> Item \cup {NONE}]]

\* The tables keep their rows' shape and the processes theirs.
TypeOK ==
  /\ Store!TypeOK
  /\ with_thread \subseteq DOMAIN workflow_step
  /\ dispatch \in [RunIds -> 0 .. 8]
  /\ worker \in [Workers -> Process]
  /\ retry \in [RunIds -> [count : 0 .. MaxRetries, step : StepIds \cup {NONE}]]
  /\ crashes \in 0 .. MaxCrashes
  /\ cancels \in 0 .. MaxCancels

\* A step that is being executed has the step it depends on completed.  The
\* server does not check depends_on_step_id: this rests on each worker enqueuing
\* the next step behind the completion of its own.
DependencyCompleted ==
  \A w \in Workers, th \in Threads :
    LET item == worker[w].busy[th] IN
    item # NONE =>
      LET dep == workflow_step[item.step].depends_on IN
      dep # NONE => workflow_step[dep].status = "completed"

\* No two threads, of one worker or of two, execute one step or task at a time.
ExecutedByOne ==
  \A w1, w2 \in Workers, t1, t2 \in Threads :
    LET i1 == worker[w1].busy[t1]
        i2 == worker[w2].busy[t2]
    IN  /\ i1 # NONE /\ i2 # NONE
        /\ i1.kind = i2.kind /\ i1.step = i2.step
        => w1 = w2 /\ t1 = t2

\* A step that can be claimed is in the hands of every worker that has scanned:
\* its notification waits, or the claim is on its way.
NoLostWakeup ==
  \A s \in DOMAIN workflow_step, w \in Workers :
    /\ workflow_step[s].status = "ready"
    /\ workflow_step[s].owner = OwnerOf[w]
    /\ worker[w].phase \in {"scanning", "serving"}
    => \/ \E i \in DOMAIN worker[w].inbox : /\ worker[w].inbox[i].kind = "claim_step"
                                            /\ worker[w].inbox[i].step = s
       \/ \E item \in worker[w].scan : item.kind = "claim_step" /\ item.step = s
       \/ \E i \in DOMAIN worker[w].outbox : /\ worker[w].outbox[i].op = "claim_step"
                                             /\ worker[w].outbox[i].step = s

\* A step completed by the browser worker has a completed task behind it.
BrowserStepHasResult ==
  \A s \in DOMAIN workflow_step :
    /\ workflow_step[s].owner = "browser-worker"
    /\ workflow_step[s].status = "completed"
    => s \in DOMAIN browser_task /\ browser_task[s].status = "completed"

\* A completed run that nobody retries is never worked on again.
CompletedStaysCompleted ==
  [][\A r \in DOMAIN workflow_run :
       /\ workflow_run[r].status = "completed" /\ retry[r].count = 0
       => workflow_run'[r].status \in {"completed", "cancelled"}]_vars

Has(r, Statuses) == r \in DOMAIN workflow_run /\ workflow_run[r].status \in Statuses

\* A run that was started is completed or failed in the end, for good.
RunEnds == \A r \in RunIds : Has(r, Store!RunState) ~> []Has(r, {"completed", "failed"})
=============================================================================
