--------------------------- MODULE WorkflowStore ---------------------------
(***************************************************************************)
(* The workflow tables of the SpacetimeDB module (spacetimedb/src/lib.rs)  *)
(* and the reducers that write them.                                       *)
(*                                                                         *)
(* A reducer is one transaction: it commits all its writes, or it returns  *)
(* Err (or panics on an insert under a taken primary key) and none of them *)
(* survives.  Each reducer is therefore one action, enabled exactly when   *)
(* the call commits; a refused call changes nothing and is a stutter.      *)
(* Reducers are public and are called by every control plane, worker,      *)
(* chat tool and operator UI, so Next lets any call arrive at any time.    *)
(*                                                                         *)
(* A table is a function whose domain is the set of primary keys present.  *)
(* Texts, JSON blobs and the values of timestamps are left out; whether    *)
(* completed_at_micros is Some is kept.                                    *)
(***************************************************************************)
CONSTANTS
  AgentIds, ThreadIds, EventIds, RunIds, StepIds, ApprovalIds, TaskIds,
  Owners,      \* execution owners a step can be addressed to
  Runners,     \* runner ids of worker processes and control planes
  Stages,      \* workflow stages
  ClientStages,\* the stages clients name in their calls; all of them in the code
  NONE         \* Option::None

ASSUME StagesAssumption ==
  ClientStages \cup {"route", "gather", "act", "verify", "learn"} \subseteq Stages

ASSUME NoneAssumption ==
  NONE \notin Runners \cup StepIds \cup ApprovalIds

VARIABLES
  agent_record,      \* registered agents
  thread_record,     \* known threads
  message_event,     \* event id -> its thread
  workflow_run,
  workflow_step,
  approval_request,
  browser_task

registry == <<agent_record, thread_record, message_event>>
vars == <<agent_record, thread_record, message_event, workflow_run,
          workflow_step, approval_request, browser_task>>

-----------------------------------------------------------------------------
(* Rows and status vocabularies.                                           *)

RunState == {"queued", "running", "blocked", "awaiting-approval",
             "completed", "failed", "cancelled"}

\* The states that reducers write: never "claimed", and no step is "cancelled".
StepState == {"ready", "running", "blocked", "awaiting-approval",
              "completed", "failed"}

ApprovalStatus == {"pending", "approved", "rejected", "expired"}

BrowserTaskState == {"queued", "running", "completed", "failed"}

WorkflowRun == [status : RunState, current_stage : Stages,
                thread : ThreadIds, agent : AgentIds, completed_at : BOOLEAN]

WorkflowStep == [status : StepState, run : RunIds, stage : Stages,
                 owner : Owners, depends_on : StepIds \cup {NONE},
                 approval : ApprovalIds \cup {NONE},
                 runner : Runners \cup {NONE}]

ApprovalRequest == [status : ApprovalStatus, run : RunIds, step : StepIds]

BrowserTask == [status : BrowserTaskState, run : RunIds, step : StepIds,
                runner : Runners \cup {NONE}]

\* Resolutions an operator can send (SDK, approval route, desktop UI).
Resolutions == {"approved", "rejected", "expired"}

\* "called when run completes, fails, or is cancelled"
ReportedRunStates == {"completed", "failed", "cancelled"}

IsTable(table, Keys, Row) ==
  /\ DOMAIN table \subseteq Keys
  /\ table \in [DOMAIN table -> Row]

\* A table with one more row.
Insert(table, key, row) ==
  [k \in DOMAIN table \cup {key} |-> IF k = key THEN row ELSE table[k]]

-----------------------------------------------------------------------------
(* Shared tails of the reducers.                                           *)

\* Slip: the stamp of an earlier completion survives.
update_run_keeping_stamp(r, status, stage, completed) ==
  /\ r \in DOMAIN workflow_run
  /\ workflow_run' = [workflow_run EXCEPT
                        ![r].status = status,
                        ![r].current_stage = stage,
                        ![r].completed_at = @ \/ completed]

update_workflow_run_status(r, status, stage, completed) ==
  /\ r \in DOMAIN workflow_run
  /\ workflow_run' = [workflow_run EXCEPT
                        ![r].status = status,
                        ![r].current_stage = stage,
                        ![r].completed_at = completed]

\* Sets only the status: runner and approval stay as they were.
block_linked_step(s, status) ==
  /\ s \in DOMAIN workflow_step
  /\ workflow_step' = [workflow_step EXCEPT ![s].status = status]

run_status_after_step_completion(stage) ==
  IF stage = "learn" THEN "completed" ELSE "running"

\* Slip: an approval status is written into the step as it is.
approval_status_as_step_status(status) ==
  IF status = "approved" THEN "ready" ELSE status

step_status_for_approval(status) ==
  IF status = "approved" THEN "ready" ELSE "failed"

run_status_for_step_status(status) ==
  IF status = "ready" THEN "running" ELSE "failed"

-----------------------------------------------------------------------------
(* Registry, messages and runs.                                            *)

register_agent(a) ==
  /\ agent_record' = agent_record \cup {a}
  /\ UNCHANGED <<thread_record, message_event, workflow_run, workflow_step,
                 approval_request, browser_task>>

\* Upserts the thread, then inserts the event: a repeated event id undoes both.
ingest_message(t, e) ==
  /\ e \notin DOMAIN message_event
  /\ thread_record' = thread_record \cup {t}
  /\ message_event' = Insert(message_event, e, t)
  /\ UNCHANGED <<agent_record, workflow_run, workflow_step,
                 approval_request, browser_task>>

start_workflow_run(r, t, a) ==
  /\ t \in thread_record
  /\ a \in agent_record
  /\ r \notin DOMAIN workflow_run
  /\ workflow_run' = Insert(workflow_run, r,
       [status |-> "queued", current_stage |-> "route",
        thread |-> t, agent |-> a, completed_at |-> FALSE])
  /\ UNCHANGED <<registry, workflow_step, approval_request, browser_task>>

update_run_stage(r, stage) ==
  /\ r \in DOMAIN workflow_run
  /\ workflow_run' = [workflow_run EXCEPT ![r].current_stage = stage]
  /\ UNCHANGED <<registry, workflow_step, approval_request, browser_task>>

update_run_status(r, status) ==
  /\ r \in DOMAIN workflow_run
  /\ workflow_run' = [workflow_run EXCEPT
       ![r].status = status,
       ![r].completed_at = IF status \in {"completed", "failed"} THEN TRUE ELSE @]
  /\ UNCHANGED <<registry, workflow_step, approval_request, browser_task>>

-----------------------------------------------------------------------------
(* Steps.                                                                  *)

\* Slip: a step id that is taken is overwritten.
upsert_workflow_step(s, r, stage, owner, dep) ==
  /\ r \in DOMAIN workflow_run
  /\ workflow_step' = Insert(workflow_step, s,
       [status |-> "ready", run |-> r, stage |-> stage, owner |-> owner,
        depends_on |-> dep, approval |-> NONE, runner |-> NONE])
  /\ update_workflow_run_status(r, "queued", stage, FALSE)
  /\ UNCHANGED <<registry, approval_request, browser_task>>

\* Whatever its status was, the run is queued again: also a completed one.
enqueue_workflow_step(s, r, stage, owner, dep) ==
  /\ r \in DOMAIN workflow_run
  /\ s \notin DOMAIN workflow_step
  /\ workflow_step' = Insert(workflow_step, s,
       [status |-> "ready", run |-> r, stage |-> stage, owner |-> owner,
        depends_on |-> dep, approval |-> NONE, runner |-> NONE])
  /\ update_workflow_run_status(r, "queued", stage, FALSE)
  /\ UNCHANGED <<registry, approval_request, browser_task>>

\* Slip: any step that is not finished can be claimed.
claim_unfinished_step(s, owner, w) ==
  /\ s \in DOMAIN workflow_step
  /\ workflow_step[s].owner = owner
  /\ workflow_step[s].status \notin {"completed", "failed"}
  /\ workflow_step' = [workflow_step EXCEPT ![s].status = "running",
                                            ![s].runner = w]
  /\ UNCHANGED <<registry, workflow_run, approval_request, browser_task>>

\* depends_on is not consulted, and the run keeps its status.
claim_workflow_step(s, owner, w) ==
  /\ s \in DOMAIN workflow_step
  /\ workflow_step[s].owner = owner
  /\ workflow_step[s].status = "ready"
  /\ workflow_step' = [workflow_step EXCEPT ![s].status = "running",
                                            ![s].runner = w]
  /\ UNCHANGED <<registry, workflow_run, approval_request, browser_task>>

\* Neither the step's status nor its runner is examined.
complete_workflow_step(s) ==
  /\ s \in DOMAIN workflow_step
  /\ workflow_step' = [workflow_step EXCEPT ![s].status = "completed"]
  /\ LET stage == workflow_step[s].stage
         status == run_status_after_step_completion(stage)
     IN  update_workflow_run_status(workflow_step[s].run, status, stage,
                                    status = "completed")
  /\ UNCHANGED <<registry, approval_request, browser_task>>

fail_workflow_step(s) ==
  /\ s \in DOMAIN workflow_step
  /\ workflow_step' = [workflow_step EXCEPT ![s].status = "failed"]
  /\ update_workflow_run_status(workflow_step[s].run, "failed",
                                workflow_step[s].stage, TRUE)
  /\ UNCHANGED <<registry, approval_request, browser_task>>

-----------------------------------------------------------------------------
(* Approvals.                                                              *)

\* Slip: the early insert survives the lookup that fails.
request_approval_without_rollback(p, r, s) ==
  /\ p \notin DOMAIN approval_request
  /\ approval_request' = Insert(approval_request, p,
       [status |-> "pending", run |-> r, step |-> s])
  /\ s \notin DOMAIN workflow_step
  /\ UNCHANGED <<registry, workflow_run, workflow_step, browser_task>>

\* The request is inserted before its step and run are looked up; a missing
\* one returns Err and the insert is rolled back.
request_approval(p, r, s) ==
  /\ p \notin DOMAIN approval_request
  /\ approval_request' = Insert(approval_request, p,
       [status |-> "pending", run |-> r, step |-> s])
  /\ s \in DOMAIN workflow_step
  /\ workflow_step' = [workflow_step EXCEPT ![s].status = "awaiting-approval",
                                            ![s].approval = p]
  /\ update_workflow_run_status(r, "awaiting-approval", "act", FALSE)
  /\ UNCHANGED <<registry, browser_task>>

\* Slip: the answer reaches the step and not its run.
resolve_step_approval(p, status) ==
  /\ p \in DOMAIN approval_request
  /\ approval_request' = [approval_request EXCEPT ![p].status = status]
  /\ block_linked_step(approval_request[p].step, step_status_for_approval(status))
  /\ UNCHANGED <<registry, workflow_run, browser_task>>

\* Neither the request nor its step need still be waiting.
resolve_approval(p, status) ==
  /\ p \in DOMAIN approval_request
  /\ approval_request' = [approval_request EXCEPT ![p].status = status]
  /\ LET s == approval_request[p].step
         step_status == step_status_for_approval(status)
     IN  /\ s \in DOMAIN workflow_step
         /\ workflow_step' = [workflow_step EXCEPT ![s].status = step_status]
         /\ update_workflow_run_status(approval_request[p].run,
              run_status_for_step_status(step_status), "act", FALSE)
  /\ UNCHANGED <<registry, browser_task>>

-----------------------------------------------------------------------------
(* Browser tasks.                                                          *)

enqueue_browser_task(k, r, s) ==
  /\ k \notin DOMAIN browser_task
  /\ browser_task' = Insert(browser_task, k,
       [status |-> "queued", run |-> r, step |-> s, runner |-> NONE])
  /\ block_linked_step(s, "blocked")
  /\ update_workflow_run_status(r, "blocked", "gather", FALSE)
  /\ UNCHANGED <<registry, approval_request>>

\* Slip: a running task can be claimed again.
claim_open_browser_task(k, w) ==
  /\ k \in DOMAIN browser_task
  /\ browser_task[k].status \in {"queued", "running"}
  /\ browser_task' = [browser_task EXCEPT ![k].status = "running",
                                          ![k].runner = w]
  /\ UNCHANGED <<registry, workflow_run, workflow_step, approval_request>>

claim_browser_task(k, w) ==
  /\ k \in DOMAIN browser_task
  /\ browser_task[k].status = "queued"
  /\ browser_task' = [browser_task EXCEPT ![k].status = "running",
                                          ![k].runner = w]
  /\ UNCHANGED <<registry, workflow_run, workflow_step, approval_request>>

\* The step becomes ready and keeps the runner that last claimed it.
complete_browser_task(k) ==
  /\ k \in DOMAIN browser_task
  /\ browser_task' = [browser_task EXCEPT ![k].status = "completed"]
  /\ block_linked_step(browser_task[k].step, "ready")
  /\ update_workflow_run_status(browser_task[k].run, "running", "verify", FALSE)
  /\ UNCHANGED <<registry, approval_request>>

\* Slip: the step that waits for the failed task stays blocked.
fail_browser_task_alone(k) ==
  /\ k \in DOMAIN browser_task
  /\ browser_task' = [browser_task EXCEPT ![k].status = "failed"]
  /\ update_workflow_run_status(browser_task[k].run, "failed", "verify", TRUE)
  /\ UNCHANGED <<registry, workflow_step, approval_request>>

fail_browser_task(k) ==
  /\ k \in DOMAIN browser_task
  /\ browser_task' = [browser_task EXCEPT ![k].status = "failed"]
  /\ block_linked_step(browser_task[k].step, "failed")
  /\ update_workflow_run_status(browser_task[k].run, "failed", "verify", TRUE)
  /\ UNCHANGED <<registry, approval_request>>

-----------------------------------------------------------------------------
EmptyTable == [k \in {} |-> NONE]

Init ==
  /\ agent_record = {}
  /\ thread_record = {}
  /\ message_event = EmptyTable
  /\ workflow_run = EmptyTable
  /\ workflow_step = EmptyTable
  /\ approval_request = EmptyTable
  /\ browser_task = EmptyTable

RegistryNext ==
  \/ \E a \in AgentIds : register_agent(a)
  \/ \E t \in ThreadIds, e \in EventIds : ingest_message(t, e)

RunNext ==
  \E r \in RunIds :
    \/ \E t \in ThreadIds, a \in AgentIds : start_workflow_run(r, t, a)
    \/ \E stage \in ClientStages : update_run_stage(r, stage)
    \/ \E status \in ReportedRunStates : update_run_status(r, status)

StepNext ==
  \E s \in StepIds :
    \/ \E r \in RunIds, stage \in ClientStages, owner \in Owners,
          dep \in StepIds \cup {NONE} :
            enqueue_workflow_step(s, r, stage, owner, dep)
    \/ \E owner \in Owners, w \in Runners : claim_workflow_step(s, owner, w)
    \/ complete_workflow_step(s)
    \/ fail_workflow_step(s)

ApprovalNext ==
  \E p \in ApprovalIds :
    \/ \E r \in RunIds, s \in StepIds : request_approval(p, r, s)
    \/ \E status \in Resolutions : resolve_approval(p, status)

BrowserNext ==
  \E k \in TaskIds :
    \/ \E r \in RunIds, s \in StepIds : enqueue_browser_task(k, r, s)
    \/ \E w \in Runners : claim_browser_task(k, w)
    \/ complete_browser_task(k)
    \/ fail_browser_task(k)

Next == RegistryNext \/ RunNext \/ StepNext \/ ApprovalNext \/ BrowserNext

Spec == Init /\ [][Next]_vars
-----------------------------------------------------------------------------
(* Properties.                                                             *)

\* Every table is a function from ids to rows of its shape.
TypeOK ==
  /\ agent_record \subseteq AgentIds
  /\ thread_record \subseteq ThreadIds
  /\ IsTable(message_event, EventIds, ThreadIds)
  /\ IsTable(workflow_run, RunIds, WorkflowRun)
  /\ IsTable(workflow_step, StepIds, WorkflowStep)
  /\ IsTable(approval_request, ApprovalIds, ApprovalRequest)
  /\ IsTable(browser_task, TaskIds, BrowserTask)

EventAndRunRefs ==
  /\ \A e \in DOMAIN message_event : message_event[e] \in thread_record
  /\ \A r \in DOMAIN workflow_run :
       /\ workflow_run[r].thread \in thread_record
       /\ workflow_run[r].agent \in agent_record

StepRefs ==
  \A s \in DOMAIN workflow_step :
    /\ workflow_step[s].run \in DOMAIN workflow_run
    /\ workflow_step[s].approval # NONE =>
         /\ workflow_step[s].approval \in DOMAIN approval_request
         /\ approval_request[workflow_step[s].approval].step = s

ApprovalRefs ==
  \A p \in DOMAIN approval_request :
    /\ approval_request[p].run \in DOMAIN workflow_run
    /\ approval_request[p].step \in DOMAIN workflow_step

TaskRefs ==
  \A k \in DOMAIN browser_task :
    /\ browser_task[k].run \in DOMAIN workflow_run
    /\ browser_task[k].step \in DOMAIN workflow_step

\* No row names a row that is not there, and the approval a step names is an
\* approval of that step.  The module declares no foreign keys: this rests on
\* every reducer's lookups and on the rollback of the inserts that
\* request_approval and enqueue_browser_task make before theirs.
ReferentialIntegrity == EventAndRunRefs /\ StepRefs /\ ApprovalRefs /\ TaskRefs

RegistryKept ==
  /\ thread_record \subseteq thread_record'
  /\ agent_record \subseteq agent_record'
  /\ \A e \in DOMAIN message_event :
       e \in DOMAIN message_event' /\ message_event'[e] = message_event[e]

RunsKept ==
  \A r \in DOMAIN workflow_run :
    /\ r \in DOMAIN workflow_run'
    /\ workflow_run'[r].thread = workflow_run[r].thread
    /\ workflow_run'[r].agent = workflow_run[r].agent

StepsKept ==
  \A s \in DOMAIN workflow_step :
    /\ s \in DOMAIN workflow_step'
    /\ workflow_step'[s].run = workflow_step[s].run
    /\ workflow_step'[s].stage = workflow_step[s].stage
    /\ workflow_step'[s].owner = workflow_step[s].owner

ApprovalsKept ==
  \A p \in DOMAIN approval_request :
    /\ p \in DOMAIN approval_request'
    /\ approval_request'[p].run = approval_request[p].run
    /\ approval_request'[p].step = approval_request[p].step

TasksKept ==
  \A k \in DOMAIN browser_task :
    /\ k \in DOMAIN browser_task'
    /\ browser_task'[k].run = browser_task[k].run
    /\ browser_task'[k].step = browser_task[k].step

RowsKept == RegistryKept /\ RunsKept /\ StepsKept /\ ApprovalsKept /\ TasksKept

\* No reducer deletes a row or re-addresses one: what a step, request or task
\* belongs to is fixed when it is inserted, through every update that copies
\* the other columns with `..row`.
RowsAreNeverReaddressed == [][RowsKept]_vars

OpenTask(k) == browser_task[k].status \in {"queued", "running"}

StepAwaitsPending ==
  \A s \in DOMAIN workflow_step :
    workflow_step[s].status = "awaiting-approval" =>
      /\ workflow_step[s].approval \in DOMAIN approval_request
      /\ approval_request[workflow_step[s].approval].status = "pending"

StepBlockedOnTask ==
  \A s \in DOMAIN workflow_step :
    workflow_step[s].status = "blocked" =>
      \E k \in DOMAIN browser_task : browser_task[k].step = s /\ OpenTask(k)

\* A step that waits for an operator names a request the operator can still
\* answer, and a blocked step has a browser task a worker can still finish.
StepWaitsAreAnswerable == StepAwaitsPending /\ StepBlockedOnTask

RunAwaitsPending ==
  \A r \in DOMAIN workflow_run :
    workflow_run[r].status = "awaiting-approval" =>
      \E p \in DOMAIN approval_request :
        approval_request[p].run = r /\ approval_request[p].status = "pending"

RunBlockedOnTask ==
  \A r \in DOMAIN workflow_run :
    workflow_run[r].status = "blocked" =>
      \E k \in DOMAIN browser_task : browser_task[k].run = r /\ OpenTask(k)

\* The same of runs: however many requests and tasks a run has had, and in
\* whatever order they were answered, a waiting run has an open one.
RunWaitsAreAnswerable == RunAwaitsPending /\ RunBlockedOnTask

\* completed_at is set on a completed run and only on a run that is over:
\* every reducer that puts a run back to work also clears it.
CompletionStamp ==
  \A r \in DOMAIN workflow_run :
    /\ workflow_run[r].status = "completed" => workflow_run[r].completed_at
    /\ workflow_run[r].completed_at =>
         workflow_run[r].status \in {"completed", "failed", "cancelled"}

\* A runner that is executing a step is never replaced under its feet: the
\* step first has to be ready again.
RunningStepKeepsRunner ==
  [][\A s \in DOMAIN workflow_step :
       /\ workflow_step'[s].runner # workflow_step[s].runner =>
            workflow_step[s].status = "ready"
       /\ workflow_step'[s].status = "running" =>
            workflow_step'[s].runner # NONE]_vars

\* A browser task is claimed at most once in its life: nothing queues it again,
\* so no two workers drive the same browser session.
BrowserTaskClaimedOnce ==
  [][\A k \in DOMAIN browser_task :
       browser_task[k].runner # NONE =>
         browser_task'[k].runner = browser_task[k].runner]_vars
=============================================================================
