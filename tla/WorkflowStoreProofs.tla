------------------------ MODULE WorkflowStoreProofs ------------------------
(***************************************************************************)
(* What the workflow tables guarantee for any number of rows, owners and   *)
(* runners and any sequence of calls.                                      *)
(***************************************************************************)
EXTENDS WorkflowStore, TLAPS

(* Tables. *)

LEMMA InsertType ==
  ASSUME NEW table, NEW Keys, NEW Row, IsTable(table, Keys, Row),
         NEW key \in Keys, NEW row \in Row
  PROVE  IsTable(Insert(table, key, row), Keys, Row)
BY DEF Insert, IsTable

LEMMA UpdateType ==
  ASSUME NEW table, NEW Keys, NEW Row, IsTable(table, Keys, Row),
         NEW key, NEW row \in Row
  PROVE  IsTable([table EXCEPT ![key] = row], Keys, Row)
BY DEF IsTable

\* What the shared tails do to a table of rows.
LEMMA RunUpdate ==
  ASSUME IsTable(workflow_run, RunIds, WorkflowRun),
         NEW r, NEW status \in RunState, NEW stage \in Stages,
         NEW completed \in BOOLEAN,
         update_workflow_run_status(r, status, stage, completed)
  PROVE  IsTable(workflow_run', RunIds, WorkflowRun)
BY DEF update_workflow_run_status, IsTable, WorkflowRun

LEMMA StepUpdate ==
  ASSUME IsTable(workflow_step, StepIds, WorkflowStep),
         NEW s, NEW status \in StepState, block_linked_step(s, status)
  PROVE  IsTable(workflow_step', StepIds, WorkflowStep)
BY DEF block_linked_step, IsTable, WorkflowStep

-----------------------------------------------------------------------------
(* Type correctness, one step per group of reducers. *)

LEMMA TypeInit == Init => TypeOK
BY DEF Init, TypeOK, EmptyTable, IsTable

LEMMA TypeRegistry == TypeOK /\ RegistryNext => TypeOK'
<1> SUFFICES ASSUME TypeOK, RegistryNext PROVE TypeOK'
  OBVIOUS
<1>1. ASSUME NEW a \in AgentIds, register_agent(a) PROVE TypeOK'
  BY <1>1 DEF register_agent, TypeOK
<1>2. ASSUME NEW t \in ThreadIds, NEW e \in EventIds, ingest_message(t, e)
      PROVE TypeOK'
  BY <1>2, InsertType DEF ingest_message, TypeOK
<1> QED BY <1>1, <1>2 DEF RegistryNext

LEMMA TypeRun == TypeOK /\ RunNext => TypeOK'
<1> SUFFICES ASSUME TypeOK, NEW r \in RunIds,
                    \/ \E t \in ThreadIds, a \in AgentIds : start_workflow_run(r, t, a)
                    \/ \E stage \in ClientStages : update_run_stage(r, stage)
                    \/ \E status \in ReportedRunStates : update_run_status(r, status)
             PROVE  TypeOK'
  BY DEF RunNext
<1>1. ASSUME NEW t \in ThreadIds, NEW a \in AgentIds, start_workflow_run(r, t, a)
      PROVE  TypeOK'
  <2>1. [status |-> "queued", current_stage |-> "route", thread |-> t,
         agent |-> a, completed_at |-> FALSE] \in WorkflowRun
    BY StagesAssumption DEF WorkflowRun, RunState
  <2> QED BY <1>1, <2>1, InsertType DEF start_workflow_run, TypeOK, registry
<1>2. ASSUME NEW stage \in ClientStages, update_run_stage(r, stage)
      PROVE  TypeOK'
  <2>1. IsTable(workflow_run', RunIds, WorkflowRun)
    BY <1>2, StagesAssumption DEF update_run_stage, TypeOK, IsTable, WorkflowRun
  <2> QED BY <1>2, <2>1 DEF update_run_stage, TypeOK, registry
<1>3. ASSUME NEW status \in ReportedRunStates, update_run_status(r, status)
      PROVE  TypeOK'
  <2> DEFINE stamp == IF status \in {"completed", "failed"} THEN TRUE
                       ELSE workflow_run[r].completed_at
             row == [workflow_run[r] EXCEPT !.status = status, !.completed_at = stamp]
  <2>1. workflow_run' = [workflow_run EXCEPT ![r] = row]
    BY <1>3 DEF update_run_status
  <2>2. workflow_run[r] \in WorkflowRun
    BY <1>3 DEF update_run_status, TypeOK, IsTable
  <2>3. status \in RunState /\ stamp \in BOOLEAN
    BY <2>2 DEF ReportedRunStates, RunState, WorkflowRun
  <2>4. row \in WorkflowRun
    <3> HIDE DEF stamp
    <3> QED BY <2>2, <2>3 DEF WorkflowRun
  <2>5. IsTable(workflow_run', RunIds, WorkflowRun)
    <3> HIDE DEF row
    <3>1. IsTable(workflow_run, RunIds, WorkflowRun)
      BY DEF TypeOK
    <3>2. IsTable([workflow_run EXCEPT ![r] = row], RunIds, WorkflowRun)
      BY <3>1, <2>4, UpdateType
    <3> QED BY <2>1, <3>2
  <2> QED BY <1>3, <2>5 DEF update_run_status, TypeOK, registry
<1> QED BY <1>1, <1>2, <1>3

LEMMA TypeStep == TypeOK /\ StepNext => TypeOK'
<1> SUFFICES ASSUME TypeOK, NEW s \in StepIds,
                    \/ \E r \in RunIds, stage \in ClientStages, owner \in Owners,
                          dep \in StepIds \cup {NONE} :
                            enqueue_workflow_step(s, r, stage, owner, dep)
                    \/ \E owner \in Owners, w \in Runners :
                            claim_workflow_step(s, owner, w)
                    \/ complete_workflow_step(s)
                    \/ fail_workflow_step(s)
             PROVE  TypeOK'
  BY DEF StepNext
<1>1. ASSUME NEW r \in RunIds, NEW stage \in ClientStages, NEW owner \in Owners,
             NEW dep \in StepIds \cup {NONE},
             enqueue_workflow_step(s, r, stage, owner, dep)
      PROVE  TypeOK'
  <2>1. [status |-> "ready", run |-> r, stage |-> stage, owner |-> owner,
         depends_on |-> dep, approval |-> NONE, runner |-> NONE] \in WorkflowStep
    BY StagesAssumption DEF WorkflowStep, StepState
  <2>2. IsTable(workflow_run', RunIds, WorkflowRun)
    BY <1>1, RunUpdate, StagesAssumption DEF enqueue_workflow_step, TypeOK, RunState
  <2> QED BY <1>1, <2>1, <2>2, InsertType DEF enqueue_workflow_step, TypeOK, registry
<1>2. ASSUME NEW owner \in Owners, NEW w \in Runners, claim_workflow_step(s, owner, w)
      PROVE  TypeOK'
  <2> DEFINE row == [workflow_step[s] EXCEPT !.status = "running", !.runner = w]
  <2>1. workflow_step' = [workflow_step EXCEPT ![s] = row]
    BY <1>2 DEF claim_workflow_step
  <2>2. workflow_step[s] \in WorkflowStep
    BY <1>2 DEF claim_workflow_step, TypeOK, IsTable
  <2>3. row \in WorkflowStep
    BY <2>2 DEF WorkflowStep, StepState
  <2>4. IsTable(workflow_step', StepIds, WorkflowStep)
    <3> HIDE DEF row
    <3>1. IsTable(workflow_step, StepIds, WorkflowStep)
      BY DEF TypeOK
    <3>2. IsTable([workflow_step EXCEPT ![s] = row], StepIds, WorkflowStep)
      BY <3>1, <2>3, UpdateType
    <3> QED BY <2>1, <3>2
  <2> QED BY <1>2, <2>4 DEF claim_workflow_step, TypeOK, registry
<1>3. CASE complete_workflow_step(s)
  <2>1. IsTable(workflow_step', StepIds, WorkflowStep)
    BY <1>3 DEF complete_workflow_step, TypeOK, IsTable, WorkflowStep, StepState
  <2>2. workflow_step[s].stage \in Stages
    BY <1>3 DEF complete_workflow_step, TypeOK, IsTable, WorkflowStep
  <2>3. run_status_after_step_completion(workflow_step[s].stage) \in RunState
    BY DEF run_status_after_step_completion, RunState
  <2>4. IsTable(workflow_run', RunIds, WorkflowRun)
    BY <1>3, <2>2, <2>3, RunUpdate DEF complete_workflow_step, TypeOK
  <2> QED BY <1>3, <2>1, <2>4 DEF complete_workflow_step, TypeOK, registry
<1>4. CASE fail_workflow_step(s)
  <2>1. IsTable(workflow_step', StepIds, WorkflowStep)
    BY <1>4 DEF fail_workflow_step, TypeOK, IsTable, WorkflowStep, StepState
  <2>2. workflow_step[s].stage \in Stages
    BY <1>4 DEF fail_workflow_step, TypeOK, IsTable, WorkflowStep
  <2>3. IsTable(workflow_run', RunIds, WorkflowRun)
    BY <1>4, <2>2, RunUpdate DEF fail_workflow_step, TypeOK, RunState
  <2> QED BY <1>4, <2>1, <2>3 DEF fail_workflow_step, TypeOK, registry
<1> QED BY <1>1, <1>2, <1>3, <1>4

LEMMA TypeApproval == TypeOK /\ ApprovalNext => TypeOK'
<1> SUFFICES ASSUME TypeOK, NEW p \in ApprovalIds,
                    \/ \E r \in RunIds, s \in StepIds : request_approval(p, r, s)
                    \/ \E status \in Resolutions : resolve_approval(p, status)
             PROVE  TypeOK'
  BY DEF ApprovalNext
<1>1. ASSUME NEW r \in RunIds, NEW s \in StepIds, request_approval(p, r, s)
      PROVE  TypeOK'
  <2>1. [status |-> "pending", run |-> r, step |-> s] \in ApprovalRequest
    BY DEF ApprovalRequest, ApprovalStatus
  <2>2. IsTable(approval_request', ApprovalIds, ApprovalRequest)
    BY <1>1, <2>1, InsertType DEF request_approval, TypeOK
  <2>3. IsTable(workflow_step', StepIds, WorkflowStep)
    BY <1>1 DEF request_approval, TypeOK, IsTable, WorkflowStep, StepState
  <2>4. IsTable(workflow_run', RunIds, WorkflowRun)
    BY <1>1, RunUpdate, StagesAssumption DEF request_approval, TypeOK, RunState
  <2> QED BY <1>1, <2>2, <2>3, <2>4 DEF request_approval, TypeOK, registry
<1>2. ASSUME NEW status \in Resolutions, resolve_approval(p, status)
      PROVE  TypeOK'
  <2>1. IsTable(approval_request', ApprovalIds, ApprovalRequest)
    BY <1>2 DEF resolve_approval, TypeOK, IsTable, ApprovalRequest, ApprovalStatus,
                Resolutions
  <2>2. /\ step_status_for_approval(status) \in StepState
        /\ run_status_for_step_status(step_status_for_approval(status)) \in RunState
    BY DEF step_status_for_approval, run_status_for_step_status, StepState, RunState
  <2>3. IsTable(workflow_step', StepIds, WorkflowStep)
    BY <1>2, <2>2 DEF resolve_approval, TypeOK, IsTable, WorkflowStep
  <2>4. IsTable(workflow_run', RunIds, WorkflowRun)
    BY <1>2, <2>2, RunUpdate, StagesAssumption DEF resolve_approval, TypeOK
  <2> QED BY <1>2, <2>1, <2>3, <2>4 DEF resolve_approval, TypeOK, registry
<1> QED BY <1>1, <1>2

LEMMA TypeBrowser == TypeOK /\ BrowserNext => TypeOK'
<1> SUFFICES ASSUME TypeOK, NEW k \in TaskIds,
                    \/ \E r \in RunIds, s \in StepIds : enqueue_browser_task(k, r, s)
                    \/ \E w \in Runners : claim_browser_task(k, w)
                    \/ complete_browser_task(k)
                    \/ fail_browser_task(k)
             PROVE  TypeOK'
  BY DEF BrowserNext
<1>1. ASSUME NEW r \in RunIds, NEW s \in StepIds, enqueue_browser_task(k, r, s)
      PROVE  TypeOK'
  <2>1. [status |-> "queued", run |-> r, step |-> s, runner |-> NONE] \in BrowserTask
    BY DEF BrowserTask, BrowserTaskState
  <2>2. IsTable(browser_task', TaskIds, BrowserTask)
    BY <1>1, <2>1, InsertType DEF enqueue_browser_task, TypeOK
  <2>3. IsTable(workflow_step', StepIds, WorkflowStep)
    BY <1>1, StepUpdate DEF enqueue_browser_task, TypeOK, StepState
  <2>4. IsTable(workflow_run', RunIds, WorkflowRun)
    BY <1>1, RunUpdate, StagesAssumption DEF enqueue_browser_task, TypeOK, RunState
  <2> QED BY <1>1, <2>2, <2>3, <2>4 DEF enqueue_browser_task, TypeOK, registry
<1>2. ASSUME NEW w \in Runners, claim_browser_task(k, w) PROVE TypeOK'
  <2>1. IsTable(browser_task', TaskIds, BrowserTask)
    BY <1>2 DEF claim_browser_task, TypeOK, IsTable, BrowserTask, BrowserTaskState
  <2> QED BY <1>2, <2>1 DEF claim_browser_task, TypeOK, registry
<1>3. CASE complete_browser_task(k)
  <2>1. IsTable(browser_task', TaskIds, BrowserTask)
    BY <1>3 DEF complete_browser_task, TypeOK, IsTable, BrowserTask, BrowserTaskState
  <2>2. IsTable(workflow_step', StepIds, WorkflowStep)
    BY <1>3, StepUpdate DEF complete_browser_task, TypeOK, StepState
  <2>3. IsTable(workflow_run', RunIds, WorkflowRun)
    BY <1>3, RunUpdate, StagesAssumption DEF complete_browser_task, TypeOK, RunState
  <2> QED BY <1>3, <2>1, <2>2, <2>3 DEF complete_browser_task, TypeOK, registry
<1>4. CASE fail_browser_task(k)
  <2>1. IsTable(browser_task', TaskIds, BrowserTask)
    BY <1>4 DEF fail_browser_task, TypeOK, IsTable, BrowserTask, BrowserTaskState
  <2>2. IsTable(workflow_step', StepIds, WorkflowStep)
    BY <1>4, StepUpdate DEF fail_browser_task, TypeOK, StepState
  <2>3. IsTable(workflow_run', RunIds, WorkflowRun)
    BY <1>4, RunUpdate, StagesAssumption DEF fail_browser_task, TypeOK, RunState
  <2> QED BY <1>4, <2>1, <2>2, <2>3 DEF fail_browser_task, TypeOK, registry
<1> QED BY <1>1, <1>2, <1>3, <1>4

LEMMA TypeNext == TypeOK /\ [Next]_vars => TypeOK'
<1>1. TypeOK /\ UNCHANGED vars => TypeOK'
  BY DEF TypeOK, vars
<1> QED BY <1>1, TypeRegistry, TypeRun, TypeStep, TypeApproval, TypeBrowser DEF Next

\* Every table stays a table of well-formed rows, whatever clients call.
THEOREM TypeCorrect == Spec => []TypeOK
BY TypeInit, TypeNext, PTL DEF Spec

-----------------------------------------------------------------------------
(* Rows are never deleted or re-addressed. *)

LEMMA UnchangedKept ==
  /\ UNCHANGED registry => RegistryKept
  /\ UNCHANGED workflow_run => RunsKept
  /\ UNCHANGED workflow_step => StepsKept
  /\ UNCHANGED approval_request => ApprovalsKept
  /\ UNCHANGED browser_task => TasksKept
BY DEF registry, RegistryKept, RunsKept, StepsKept, ApprovalsKept, TasksKept

\* The shared tails write statuses only.
LEMMA RunTailKeeps ==
  ASSUME TypeOK, NEW r, NEW status, NEW stage, NEW completed,
         update_workflow_run_status(r, status, stage, completed)
  PROVE  RunsKept
BY DEF TypeOK, IsTable, WorkflowRun, update_workflow_run_status, RunsKept

LEMMA StepTailKeeps ==
  ASSUME TypeOK, NEW s, NEW status, block_linked_step(s, status)
  PROVE  StepsKept
BY DEF TypeOK, IsTable, WorkflowStep, block_linked_step, StepsKept

LEMMA KeptByRegistry == TypeOK /\ RegistryNext => RowsKept
<1>1. ASSUME NEW a \in AgentIds, register_agent(a) PROVE RowsKept
  BY <1>1, UnchangedKept DEF register_agent, RegistryKept, RowsKept
<1>2. ASSUME NEW t \in ThreadIds, NEW e \in EventIds, ingest_message(t, e)
      PROVE  RowsKept
  <2>1. RegistryKept
    BY <1>2 DEF ingest_message, Insert, RegistryKept
  <2> QED BY <1>2, <2>1, UnchangedKept DEF ingest_message, RowsKept
<1> QED BY <1>1, <1>2 DEF RegistryNext

LEMMA KeptByRun == TypeOK /\ RunNext => RowsKept
<1> SUFFICES ASSUME TypeOK, NEW r \in RunIds,
                    \/ \E t \in ThreadIds, a \in AgentIds : start_workflow_run(r, t, a)
                    \/ \E stage \in ClientStages : update_run_stage(r, stage)
                    \/ \E status \in ReportedRunStates : update_run_status(r, status)
             PROVE  RowsKept
  BY DEF RunNext
<1>1. ASSUME NEW t \in ThreadIds, NEW a \in AgentIds, start_workflow_run(r, t, a)
      PROVE  RowsKept
  <2>1. RunsKept
    BY <1>1 DEF start_workflow_run, Insert, RunsKept
  <2> QED BY <1>1, <2>1, UnchangedKept DEF start_workflow_run, RowsKept
<1>2. ASSUME NEW stage \in ClientStages, update_run_stage(r, stage)
      PROVE  RowsKept
  <2>1. RunsKept
    BY <1>2 DEF update_run_stage, RunsKept, TypeOK, IsTable, WorkflowRun
  <2> QED BY <1>2, <2>1, UnchangedKept DEF update_run_stage, RowsKept
<1>3. ASSUME NEW status \in ReportedRunStates, update_run_status(r, status)
      PROVE  RowsKept
  <2>1. RunsKept
    <3> DEFINE stamp == IF status \in {"completed", "failed"} THEN TRUE
                         ELSE workflow_run[r].completed_at
    <3>1. workflow_run' = [workflow_run EXCEPT ![r].status = status,
                                               ![r].completed_at = stamp]
      BY <1>3 DEF update_run_status
    <3> HIDE DEF stamp
    <3> QED BY <3>1 DEF RunsKept, TypeOK, IsTable, WorkflowRun
  <2> QED BY <1>3, <2>1, UnchangedKept DEF update_run_status, RowsKept
<1> QED BY <1>1, <1>2, <1>3

LEMMA KeptByStep == TypeOK /\ StepNext => RowsKept
<1> SUFFICES ASSUME TypeOK, NEW s \in StepIds,
                    \/ \E r \in RunIds, stage \in ClientStages, owner \in Owners,
                          dep \in StepIds \cup {NONE} :
                            enqueue_workflow_step(s, r, stage, owner, dep)
                    \/ \E owner \in Owners, w \in Runners :
                            claim_workflow_step(s, owner, w)
                    \/ complete_workflow_step(s)
                    \/ fail_workflow_step(s)
             PROVE  RowsKept
  BY DEF StepNext
<1>1. ASSUME NEW r \in RunIds, NEW stage \in ClientStages, NEW owner \in Owners,
             NEW dep \in StepIds \cup {NONE},
             enqueue_workflow_step(s, r, stage, owner, dep)
      PROVE  RowsKept
  <2>1. StepsKept
    BY <1>1 DEF enqueue_workflow_step, Insert, StepsKept
  <2> QED BY <1>1, <2>1, UnchangedKept, RunTailKeeps, StepTailKeeps DEF enqueue_workflow_step, RowsKept
<1>2. ASSUME NEW owner \in Owners, NEW w \in Runners, claim_workflow_step(s, owner, w)
      PROVE  RowsKept
  <2>1. StepsKept
    BY <1>2 DEF claim_workflow_step, StepsKept, TypeOK, IsTable, WorkflowStep
  <2> QED BY <1>2, <2>1, UnchangedKept DEF claim_workflow_step, RowsKept
<1>3. CASE complete_workflow_step(s)
  <2>1. StepsKept
    BY <1>3 DEF complete_workflow_step, StepsKept, TypeOK, IsTable, WorkflowStep
  <2>2. RunsKept
    BY <1>3, RunTailKeeps DEF complete_workflow_step
  <2> QED BY <1>3, <2>1, <2>2, UnchangedKept DEF complete_workflow_step, RowsKept
<1>4. CASE fail_workflow_step(s)
  <2>1. StepsKept
    BY <1>4 DEF fail_workflow_step, StepsKept, TypeOK, IsTable, WorkflowStep
  <2> QED BY <1>4, <2>1, UnchangedKept, RunTailKeeps, StepTailKeeps DEF fail_workflow_step, RowsKept
<1> QED BY <1>1, <1>2, <1>3, <1>4

LEMMA KeptByApproval == TypeOK /\ ApprovalNext => RowsKept
<1> SUFFICES ASSUME TypeOK, NEW p \in ApprovalIds,
                    \/ \E r \in RunIds, s \in StepIds : request_approval(p, r, s)
                    \/ \E status \in Resolutions : resolve_approval(p, status)
             PROVE  RowsKept
  BY DEF ApprovalNext
<1>1. ASSUME NEW r \in RunIds, NEW s \in StepIds, request_approval(p, r, s)
      PROVE  RowsKept
  <2>1. ApprovalsKept
    BY <1>1 DEF request_approval, Insert, ApprovalsKept
  <2>2. StepsKept
    BY <1>1 DEF request_approval, StepsKept, TypeOK, IsTable, WorkflowStep
  <2> QED BY <1>1, <2>1, <2>2, UnchangedKept, RunTailKeeps, StepTailKeeps DEF request_approval, RowsKept
<1>2. ASSUME NEW status \in Resolutions, resolve_approval(p, status)
      PROVE  RowsKept
  <2>1. ApprovalsKept
    BY <1>2 DEF resolve_approval, ApprovalsKept, TypeOK, IsTable, ApprovalRequest
  <2>2. StepsKept
    BY <1>2 DEF resolve_approval, StepsKept, TypeOK, IsTable, WorkflowStep
  <2> QED BY <1>2, <2>1, <2>2, UnchangedKept, RunTailKeeps, StepTailKeeps DEF resolve_approval, RowsKept
<1> QED BY <1>1, <1>2

LEMMA KeptByBrowser == TypeOK /\ BrowserNext => RowsKept
<1> SUFFICES ASSUME TypeOK, NEW k \in TaskIds,
                    \/ \E r \in RunIds, s \in StepIds : enqueue_browser_task(k, r, s)
                    \/ \E w \in Runners : claim_browser_task(k, w)
                    \/ complete_browser_task(k)
                    \/ fail_browser_task(k)
             PROVE  RowsKept
  BY DEF BrowserNext
<1>1. ASSUME NEW r \in RunIds, NEW s \in StepIds, enqueue_browser_task(k, r, s)
      PROVE  RowsKept
  <2>1. TasksKept
    BY <1>1 DEF enqueue_browser_task, Insert, TasksKept
  <2> QED BY <1>1, <2>1, UnchangedKept, RunTailKeeps, StepTailKeeps DEF enqueue_browser_task, RowsKept
<1>2. ASSUME NEW w \in Runners, claim_browser_task(k, w) PROVE RowsKept
  <2>1. TasksKept
    BY <1>2 DEF claim_browser_task, TasksKept, TypeOK, IsTable, BrowserTask
  <2> QED BY <1>2, <2>1, UnchangedKept DEF claim_browser_task, RowsKept
<1>3. CASE complete_browser_task(k)
  <2>1. TasksKept
    BY <1>3 DEF complete_browser_task, TasksKept, TypeOK, IsTable, BrowserTask
  <2> QED BY <1>3, <2>1, UnchangedKept, RunTailKeeps, StepTailKeeps DEF complete_browser_task, RowsKept
<1>4. CASE fail_browser_task(k)
  <2>1. TasksKept
    BY <1>4 DEF fail_browser_task, TasksKept, TypeOK, IsTable, BrowserTask
  <2> QED BY <1>4, <2>1, UnchangedKept, RunTailKeeps, StepTailKeeps DEF fail_browser_task, RowsKept
<1> QED BY <1>1, <1>2, <1>3, <1>4

LEMMA KeptByNext == TypeOK /\ [Next]_vars => RowsKept
<1>1. UNCHANGED vars => RowsKept
  BY UnchangedKept DEF vars, registry, RowsKept
<1> QED BY <1>1, KeptByRegistry, KeptByRun, KeptByStep, KeptByApproval,
           KeptByBrowser DEF Next

\* No call deletes a row or moves it to another run, step, owner or thread.
THEOREM NeverReaddressed == Spec => RowsAreNeverReaddressed
<1>1. TypeOK /\ [Next]_vars => [RowsKept]_vars
  BY KeptByNext
<1> QED BY <1>1, TypeCorrect, PTL DEF Spec, RowsAreNeverReaddressed

-----------------------------------------------------------------------------
(* Referential integrity.  RowsKept carries every old reference over, so   *)
(* each reducer only has to justify the rows and references it adds.       *)

\* The tables each group of reducers leaves alone, and the one reducer of the
\* group that adds a row.
LEMMA RegistryFrame ==
  ASSUME RegistryNext
  PROVE  /\ UNCHANGED <<workflow_run, workflow_step, approval_request, browser_task>>
         /\ \/ UNCHANGED message_event
            \/ \E t \in ThreadIds, e \in EventIds : ingest_message(t, e)
BY DEF RegistryNext, register_agent, ingest_message

LEMMA RunFrame ==
  ASSUME RunNext
  PROVE  /\ UNCHANGED <<registry, workflow_step, approval_request, browser_task>>
         /\ \/ DOMAIN workflow_run' = DOMAIN workflow_run
            \/ \E r \in RunIds, t \in ThreadIds, a \in AgentIds :
                 start_workflow_run(r, t, a)
<1>1. ASSUME NEW r \in RunIds, NEW stage \in ClientStages, update_run_stage(r, stage)
      PROVE  /\ UNCHANGED <<registry, workflow_step, approval_request, browser_task>>
             /\ DOMAIN workflow_run' = DOMAIN workflow_run
  BY <1>1 DEF update_run_stage
<1>2. ASSUME NEW r \in RunIds, NEW status \in ReportedRunStates,
             update_run_status(r, status)
      PROVE  /\ UNCHANGED <<registry, workflow_step, approval_request, browser_task>>
             /\ DOMAIN workflow_run' = DOMAIN workflow_run
  BY <1>2 DEF update_run_status
<1>3. ASSUME NEW r \in RunIds, NEW t \in ThreadIds, NEW a \in AgentIds,
             start_workflow_run(r, t, a)
      PROVE  UNCHANGED <<registry, workflow_step, approval_request, browser_task>>
  BY <1>3 DEF start_workflow_run
<1> QED BY <1>1, <1>2, <1>3 DEF RunNext

LEMMA TailsKeepDomains ==
  /\ \A r, status, stage, completed :
       update_workflow_run_status(r, status, stage, completed) =>
         DOMAIN workflow_run' = DOMAIN workflow_run
  /\ \A s, status :
       block_linked_step(s, status) => DOMAIN workflow_step' = DOMAIN workflow_step
BY DEF update_workflow_run_status, block_linked_step

LEMMA StepFrame ==
  ASSUME StepNext
  PROVE  /\ UNCHANGED <<registry, approval_request, browser_task>>
         /\ DOMAIN workflow_run' = DOMAIN workflow_run
         /\ \/ DOMAIN workflow_step' = DOMAIN workflow_step
            \/ \E s \in StepIds, r \in RunIds, stage \in ClientStages,
                  owner \in Owners, dep \in StepIds \cup {NONE} :
                    enqueue_workflow_step(s, r, stage, owner, dep)
<1> USE TailsKeepDomains
<1>1. ASSUME NEW s \in StepIds, NEW r \in RunIds, NEW stage \in ClientStages,
             NEW owner \in Owners, NEW dep \in StepIds \cup {NONE},
             enqueue_workflow_step(s, r, stage, owner, dep)
      PROVE  /\ UNCHANGED <<registry, approval_request, browser_task>>
             /\ DOMAIN workflow_run' = DOMAIN workflow_run
  BY <1>1 DEF enqueue_workflow_step
<1>2. ASSUME NEW s \in StepIds, NEW owner \in Owners, NEW w \in Runners,
             claim_workflow_step(s, owner, w)
      PROVE  /\ UNCHANGED <<registry, workflow_run, approval_request, browser_task>>
             /\ DOMAIN workflow_step' = DOMAIN workflow_step
  BY <1>2 DEF claim_workflow_step
<1>3. ASSUME NEW s \in StepIds, complete_workflow_step(s) \/ fail_workflow_step(s)
      PROVE  /\ UNCHANGED <<registry, approval_request, browser_task>>
             /\ DOMAIN workflow_run' = DOMAIN workflow_run
             /\ DOMAIN workflow_step' = DOMAIN workflow_step
  BY <1>3 DEF complete_workflow_step, fail_workflow_step
<1> QED BY <1>1, <1>2, <1>3 DEF StepNext

LEMMA ApprovalFrame ==
  ASSUME ApprovalNext
  PROVE  /\ UNCHANGED <<registry, browser_task>>
         /\ DOMAIN workflow_run' = DOMAIN workflow_run
         /\ DOMAIN workflow_step' = DOMAIN workflow_step
         /\ \/ DOMAIN approval_request' = DOMAIN approval_request
            \/ \E p \in ApprovalIds, r \in RunIds, s \in StepIds :
                 request_approval(p, r, s)
<1> USE TailsKeepDomains
<1>1. ASSUME NEW p \in ApprovalIds, NEW r \in RunIds, NEW s \in StepIds,
             request_approval(p, r, s)
      PROVE  /\ UNCHANGED <<registry, browser_task>>
             /\ DOMAIN workflow_run' = DOMAIN workflow_run
             /\ DOMAIN workflow_step' = DOMAIN workflow_step
  BY <1>1 DEF request_approval
<1>2. ASSUME NEW p \in ApprovalIds, NEW status \in Resolutions,
             resolve_approval(p, status)
      PROVE  /\ UNCHANGED <<registry, browser_task>>
             /\ DOMAIN workflow_run' = DOMAIN workflow_run
             /\ DOMAIN workflow_step' = DOMAIN workflow_step
             /\ DOMAIN approval_request' = DOMAIN approval_request
  BY <1>2 DEF resolve_approval
<1> QED BY <1>1, <1>2 DEF ApprovalNext

LEMMA BrowserFrame ==
  ASSUME BrowserNext
  PROVE  /\ UNCHANGED <<registry, approval_request>>
         /\ DOMAIN workflow_run' = DOMAIN workflow_run
         /\ DOMAIN workflow_step' = DOMAIN workflow_step
         /\ \/ DOMAIN browser_task' = DOMAIN browser_task
            \/ \E k \in TaskIds, r \in RunIds, s \in StepIds :
                 enqueue_browser_task(k, r, s)
<1> USE TailsKeepDomains
<1>1. ASSUME NEW k \in TaskIds, NEW r \in RunIds, NEW s \in StepIds,
             enqueue_browser_task(k, r, s)
      PROVE  /\ UNCHANGED <<registry, approval_request>>
             /\ DOMAIN workflow_run' = DOMAIN workflow_run
             /\ DOMAIN workflow_step' = DOMAIN workflow_step
  BY <1>1 DEF enqueue_browser_task
<1>2. ASSUME NEW k \in TaskIds, NEW w \in Runners, claim_browser_task(k, w)
      PROVE  /\ UNCHANGED <<registry, workflow_run, workflow_step, approval_request>>
             /\ DOMAIN browser_task' = DOMAIN browser_task
  BY <1>2 DEF claim_browser_task
<1>3. ASSUME NEW k \in TaskIds, complete_browser_task(k) \/ fail_browser_task(k)
      PROVE  /\ UNCHANGED <<registry, approval_request>>
             /\ DOMAIN workflow_run' = DOMAIN workflow_run
             /\ DOMAIN workflow_step' = DOMAIN workflow_step
             /\ DOMAIN browser_task' = DOMAIN browser_task
  BY <1>3 DEF complete_browser_task, fail_browser_task
<1> QED BY <1>1, <1>2, <1>3 DEF BrowserNext

\* Which reducer a new row comes from.
LEMMA NewEvent ==
  ASSUME Next, NEW e \in DOMAIN message_event' \ DOMAIN message_event
  PROVE  \E t \in ThreadIds : ingest_message(t, e)
<1>1. \E t \in ThreadIds, f \in EventIds : ingest_message(t, f)
  BY RegistryFrame, RunFrame, StepFrame, ApprovalFrame, BrowserFrame DEF Next, registry
<1> QED BY <1>1 DEF ingest_message, Insert

LEMMA NewRun ==
  ASSUME Next, NEW r \in DOMAIN workflow_run' \ DOMAIN workflow_run
  PROVE  \E t \in ThreadIds, a \in AgentIds : start_workflow_run(r, t, a)
<1>1. PICK q \in RunIds, t \in ThreadIds, a \in AgentIds : start_workflow_run(q, t, a)
  BY RegistryFrame, RunFrame, StepFrame, ApprovalFrame, BrowserFrame DEF Next
<1>2. DOMAIN workflow_run' = DOMAIN workflow_run \cup {q}
  BY <1>1 DEF start_workflow_run, Insert
<1> QED BY <1>1, <1>2

LEMMA NewStep ==
  ASSUME Next, NEW s \in DOMAIN workflow_step' \ DOMAIN workflow_step
  PROVE  \E r \in RunIds, stage \in ClientStages, owner \in Owners,
            dep \in StepIds \cup {NONE} :
              enqueue_workflow_step(s, r, stage, owner, dep)
<1>1. PICK z \in StepIds, r \in RunIds, stage \in ClientStages, owner \in Owners,
           dep \in StepIds \cup {NONE} :
             enqueue_workflow_step(z, r, stage, owner, dep)
  BY RegistryFrame, RunFrame, StepFrame, ApprovalFrame, BrowserFrame DEF Next
<1>2. DOMAIN workflow_step' = DOMAIN workflow_step \cup {z}
  BY <1>1 DEF enqueue_workflow_step, Insert
<1> QED BY <1>1, <1>2

LEMMA NewApproval ==
  ASSUME Next, NEW p \in DOMAIN approval_request' \ DOMAIN approval_request
  PROVE  \E r \in RunIds, s \in StepIds : request_approval(p, r, s)
<1>1. PICK q \in ApprovalIds, r \in RunIds, s \in StepIds : request_approval(q, r, s)
  BY RegistryFrame, RunFrame, StepFrame, ApprovalFrame, BrowserFrame DEF Next
<1>2. DOMAIN approval_request' = DOMAIN approval_request \cup {q}
  BY <1>1 DEF request_approval, Insert
<1> QED BY <1>1, <1>2

LEMMA NewTask ==
  ASSUME Next, NEW k \in DOMAIN browser_task' \ DOMAIN browser_task
  PROVE  \E r \in RunIds, s \in StepIds : enqueue_browser_task(k, r, s)
<1>1. \E q \in TaskIds, r \in RunIds, s \in StepIds : enqueue_browser_task(q, r, s)
  BY RegistryFrame, RunFrame, StepFrame, ApprovalFrame, BrowserFrame DEF Next
<1> QED BY <1>1 DEF enqueue_browser_task, Insert

\* A step names another approval only when one is requested for it.
LEMMA NewApprovalLink ==
  ASSUME TypeOK, Next, NEW s \in DOMAIN workflow_step,
         workflow_step'[s].approval # workflow_step[s].approval
  PROVE  \E p \in ApprovalIds, r \in RunIds : request_approval(p, r, s)
<1> USE DEF TypeOK, IsTable, WorkflowStep
<1>1. ~RegistryNext /\ ~RunNext
  BY RegistryFrame, RunFrame
<1>2. ~StepNext
  <2>1. ASSUME NEW z \in StepIds, NEW r \in RunIds, NEW stage \in ClientStages,
               NEW owner \in Owners, NEW dep \in StepIds \cup {NONE},
               enqueue_workflow_step(z, r, stage, owner, dep)
        PROVE  FALSE
    BY <2>1 DEF enqueue_workflow_step, Insert
  <2>2. ASSUME NEW z \in StepIds, NEW owner \in Owners, NEW w \in Runners,
               claim_workflow_step(z, owner, w)
        PROVE  FALSE
    BY <2>2 DEF claim_workflow_step
  <2>3. ASSUME NEW z \in StepIds, complete_workflow_step(z) \/ fail_workflow_step(z)
        PROVE  FALSE
    BY <2>3 DEF complete_workflow_step, fail_workflow_step
  <2> QED BY <2>1, <2>2, <2>3 DEF StepNext
<1>3. ~BrowserNext
  <2>1. ASSUME NEW z, NEW status, block_linked_step(z, status) PROVE FALSE
    BY <2>1 DEF block_linked_step
  <2> QED BY <2>1 DEF BrowserNext, enqueue_browser_task, claim_browser_task,
                      complete_browser_task, fail_browser_task
<1>4. ASSUME NEW p \in ApprovalIds, NEW status \in Resolutions,
             resolve_approval(p, status)
      PROVE  FALSE
  BY <1>4 DEF resolve_approval
<1>5. ASSUME NEW p \in ApprovalIds, NEW r \in RunIds, NEW z \in StepIds,
             request_approval(p, r, z)
      PROVE  z = s
  BY <1>5 DEF request_approval
<1> QED BY <1>1, <1>2, <1>3, <1>4, <1>5 DEF Next, ApprovalNext

LEMMA EventAndRunRefsNext ==
  ASSUME EventAndRunRefs, RowsKept, Next
  PROVE  EventAndRunRefs'
<1>1. ASSUME NEW e \in DOMAIN message_event'
      PROVE  message_event'[e] \in thread_record'
  <2>1. CASE e \in DOMAIN message_event
    BY <2>1 DEF EventAndRunRefs, RowsKept, RegistryKept
  <2>2. CASE e \notin DOMAIN message_event
    BY <2>2, NewEvent DEF ingest_message, Insert
  <2> QED BY <2>1, <2>2
<1>2. ASSUME NEW r \in DOMAIN workflow_run'
      PROVE  /\ workflow_run'[r].thread \in thread_record'
             /\ workflow_run'[r].agent \in agent_record'
  <2>1. CASE r \in DOMAIN workflow_run
    BY <2>1 DEF EventAndRunRefs, RowsKept, RegistryKept, RunsKept
  <2>2. CASE r \notin DOMAIN workflow_run
    <3>1. PICK t \in ThreadIds, a \in AgentIds : start_workflow_run(r, t, a)
      BY <2>2, NewRun
    <3>2. workflow_run'[r].thread = t /\ workflow_run'[r].agent = a
      BY <3>1 DEF start_workflow_run, Insert
    <3> QED BY <3>1, <3>2 DEF start_workflow_run, registry
  <2> QED BY <2>1, <2>2
<1> QED BY <1>1, <1>2 DEF EventAndRunRefs

LEMMA StepRefsNext ==
  ASSUME TypeOK, StepRefs, RowsKept, Next
  PROVE  StepRefs'
<1> SUFFICES ASSUME NEW s \in DOMAIN workflow_step'
             PROVE  /\ workflow_step'[s].run \in DOMAIN workflow_run'
                    /\ workflow_step'[s].approval # NONE =>
                         /\ workflow_step'[s].approval \in DOMAIN approval_request'
                         /\ approval_request'[workflow_step'[s].approval].step = s
  BY DEF StepRefs
<1>1. CASE s \notin DOMAIN workflow_step
  <2>1. PICK r \in RunIds, stage \in ClientStages, owner \in Owners,
             dep \in StepIds \cup {NONE} :
               enqueue_workflow_step(s, r, stage, owner, dep)
    BY <1>1, NewStep
  <2> QED BY <2>1 DEF enqueue_workflow_step, Insert, RowsKept, RunsKept
<1>2. CASE s \in DOMAIN workflow_step
  <2>1. workflow_step'[s].run \in DOMAIN workflow_run'
    BY <1>2 DEF StepRefs, RowsKept, StepsKept, RunsKept
  <2>2. CASE workflow_step'[s].approval = workflow_step[s].approval
    BY <1>2, <2>1, <2>2 DEF StepRefs, RowsKept, ApprovalsKept
  <2>3. CASE workflow_step'[s].approval # workflow_step[s].approval
    <3>1. PICK p \in ApprovalIds, r \in RunIds : request_approval(p, r, s)
      BY <1>2, <2>3, NewApprovalLink
    <3>2. workflow_step'[s].approval = p
      BY <3>1, <1>2 DEF request_approval, TypeOK, IsTable, WorkflowStep
    <3> QED BY <3>1, <3>2, <2>1 DEF request_approval, Insert
  <2> QED BY <2>2, <2>3
<1> QED BY <1>1, <1>2

LEMMA ApprovalRefsNext ==
  ASSUME ApprovalRefs, RowsKept, Next
  PROVE  ApprovalRefs'
<1> SUFFICES ASSUME NEW p \in DOMAIN approval_request'
             PROVE  /\ approval_request'[p].run \in DOMAIN workflow_run'
                    /\ approval_request'[p].step \in DOMAIN workflow_step'
  BY DEF ApprovalRefs
<1>1. CASE p \in DOMAIN approval_request
  BY <1>1 DEF ApprovalRefs, RowsKept, RunsKept, StepsKept, ApprovalsKept
<1>2. CASE p \notin DOMAIN approval_request
  <2>1. PICK r \in RunIds, s \in StepIds : request_approval(p, r, s)
    BY <1>2, NewApproval
  <2>2. approval_request'[p].run = r /\ approval_request'[p].step = s
    BY <2>1 DEF request_approval, Insert
  <2> QED BY <2>1, <2>2 DEF request_approval, update_workflow_run_status
<1> QED BY <1>1, <1>2

LEMMA TaskRefsNext ==
  ASSUME TaskRefs, RowsKept, Next
  PROVE  TaskRefs'
<1> SUFFICES ASSUME NEW k \in DOMAIN browser_task'
             PROVE  /\ browser_task'[k].run \in DOMAIN workflow_run'
                    /\ browser_task'[k].step \in DOMAIN workflow_step'
  BY DEF TaskRefs
<1>1. CASE k \in DOMAIN browser_task
  BY <1>1 DEF TaskRefs, RowsKept, RunsKept, StepsKept, TasksKept
<1>2. CASE k \notin DOMAIN browser_task
  <2>1. PICK r \in RunIds, s \in StepIds : enqueue_browser_task(k, r, s)
    BY <1>2, NewTask
  <2>2. browser_task'[k].run = r /\ browser_task'[k].step = s
    BY <2>1 DEF enqueue_browser_task, Insert
  <2> QED BY <2>1, <2>2 DEF enqueue_browser_task, update_workflow_run_status,
                            block_linked_step
<1> QED BY <1>1, <1>2

\* No reference dangles, however the rows were written and in whatever order.
THEOREM RefsHold == Spec => []ReferentialIntegrity
<1>1. Init => ReferentialIntegrity
  BY DEF Init, EmptyTable, ReferentialIntegrity, EventAndRunRefs, StepRefs,
         ApprovalRefs, TaskRefs
<1>2. TypeOK /\ ReferentialIntegrity /\ [Next]_vars => ReferentialIntegrity'
  <2>1. CASE Next
    BY <2>1, KeptByNext, EventAndRunRefsNext, StepRefsNext, ApprovalRefsNext,
       TaskRefsNext DEF ReferentialIntegrity
  <2>2. CASE UNCHANGED vars
    BY <2>2 DEF vars, ReferentialIntegrity, EventAndRunRefs, StepRefs,
                ApprovalRefs, TaskRefs
  <2> QED BY <2>1, <2>2
<1> QED BY <1>1, <1>2, TypeCorrect, PTL DEF Spec

-----------------------------------------------------------------------------
(* The completion stamp. *)

LEMMA RunTailStamp ==
  ASSUME TypeOK, CompletionStamp, NEW r, NEW status, NEW stage,
         NEW completed \in BOOLEAN,
         update_workflow_run_status(r, status, stage, completed),
         status = "completed" => completed,
         completed => status \in {"completed", "failed", "cancelled"}
  PROVE  CompletionStamp'
BY DEF TypeOK, IsTable, WorkflowRun, update_workflow_run_status, CompletionStamp

LEMMA CompletionStampNext ==
  ASSUME TypeOK, CompletionStamp, Next
  PROVE  CompletionStamp'
<1>1. CASE RegistryNext
  BY <1>1, RegistryFrame DEF CompletionStamp
<1>2. CASE RunNext
  <2>1. ASSUME NEW r \in RunIds, NEW t \in ThreadIds, NEW a \in AgentIds,
               start_workflow_run(r, t, a)
        PROVE  CompletionStamp'
    BY <2>1 DEF start_workflow_run, Insert, CompletionStamp
  <2>2. ASSUME NEW r \in RunIds, NEW stage \in ClientStages, update_run_stage(r, stage)
        PROVE  CompletionStamp'
    BY <2>2 DEF update_run_stage, TypeOK, IsTable, WorkflowRun, CompletionStamp
  <2>3. ASSUME NEW r \in RunIds, NEW status \in ReportedRunStates,
               update_run_status(r, status)
        PROVE  CompletionStamp'
    <3> DEFINE stamp == IF status \in {"completed", "failed"} THEN TRUE
                         ELSE workflow_run[r].completed_at
    <3>1. workflow_run' = [workflow_run EXCEPT ![r].status = status,
                                               ![r].completed_at = stamp]
      BY <2>3 DEF update_run_status
    <3>2. status \in {"completed", "failed", "cancelled"}
      BY DEF ReportedRunStates
    <3>3. status = "completed" => stamp
      OBVIOUS
    <3> HIDE DEF stamp
    <3> QED BY <3>1, <3>2, <3>3 DEF CompletionStamp, TypeOK, IsTable, WorkflowRun
  <2> QED BY <1>2, <2>1, <2>2, <2>3 DEF RunNext
<1>3. CASE StepNext
  <2>1. ASSUME NEW s \in StepIds, NEW r \in RunIds, NEW stage \in ClientStages,
               NEW owner \in Owners, NEW dep \in StepIds \cup {NONE},
               enqueue_workflow_step(s, r, stage, owner, dep)
        PROVE  CompletionStamp'
    BY <2>1, RunTailStamp DEF enqueue_workflow_step
  <2>2. ASSUME NEW s \in StepIds, NEW owner \in Owners, NEW w \in Runners,
               claim_workflow_step(s, owner, w)
        PROVE  CompletionStamp'
    BY <2>2 DEF claim_workflow_step, CompletionStamp
  <2>3. ASSUME NEW s \in StepIds, complete_workflow_step(s)
        PROVE  CompletionStamp'
    <3> DEFINE stage == workflow_step[s].stage
               status == run_status_after_step_completion(stage)
               final == status = "completed"
    <3>1. update_workflow_run_status(workflow_step[s].run, status, stage, final)
      BY <2>3 DEF complete_workflow_step
    <3>2. /\ final \in BOOLEAN
          /\ status = "completed" => final
          /\ final => status \in {"completed", "failed", "cancelled"}
      OBVIOUS
    <3> HIDE DEF stage, status, final
    <3> QED BY <3>1, <3>2, RunTailStamp
  <2>4. ASSUME NEW s \in StepIds, fail_workflow_step(s)
        PROVE  CompletionStamp'
    BY <2>4, RunTailStamp DEF fail_workflow_step
  <2> QED BY <1>3, <2>1, <2>2, <2>3, <2>4 DEF StepNext
<1>4. CASE ApprovalNext
  <2>1. ASSUME NEW p \in ApprovalIds, NEW r \in RunIds, NEW s \in StepIds,
               request_approval(p, r, s)
        PROVE  CompletionStamp'
    BY <2>1, RunTailStamp DEF request_approval
  <2>2. ASSUME NEW p \in ApprovalIds, NEW status \in Resolutions,
               resolve_approval(p, status)
        PROVE  CompletionStamp'
    <3> DEFINE run_status ==
                 run_status_for_step_status(step_status_for_approval(status))
    <3>1. update_workflow_run_status(approval_request[p].run, run_status, "act", FALSE)
      BY <2>2 DEF resolve_approval
    <3>2. run_status # "completed"
      BY DEF run_status_for_step_status
    <3> HIDE DEF run_status
    <3> QED BY <3>1, <3>2, RunTailStamp
  <2> QED BY <1>4, <2>1, <2>2 DEF ApprovalNext
<1>5. CASE BrowserNext
  <2>1. ASSUME NEW k \in TaskIds, NEW r \in RunIds, NEW s \in StepIds,
               enqueue_browser_task(k, r, s)
        PROVE  CompletionStamp'
    BY <2>1, RunTailStamp DEF enqueue_browser_task
  <2>2. ASSUME NEW k \in TaskIds, NEW w \in Runners, claim_browser_task(k, w)
        PROVE  CompletionStamp'
    BY <2>2 DEF claim_browser_task, CompletionStamp
  <2>3. ASSUME NEW k \in TaskIds, complete_browser_task(k) PROVE CompletionStamp'
    BY <2>3 DEF complete_browser_task, update_workflow_run_status, CompletionStamp,
                TypeOK, IsTable, WorkflowRun
  <2>4. ASSUME NEW k \in TaskIds, fail_browser_task(k) PROVE CompletionStamp'
    BY <2>4, RunTailStamp DEF fail_browser_task
  <2> QED BY <1>5, <2>1, <2>2, <2>3, <2>4 DEF BrowserNext
<1> QED BY <1>1, <1>2, <1>3, <1>4, <1>5 DEF Next

\* A completed run is stamped and no stamp outlives the run's return to work.
THEOREM StampsHold == Spec => []CompletionStamp
<1>1. Init => CompletionStamp
  BY DEF Init, EmptyTable, CompletionStamp
<1>2. TypeOK /\ CompletionStamp /\ [Next]_vars => CompletionStamp'
  BY CompletionStampNext DEF vars, CompletionStamp
<1> QED BY <1>1, <1>2, TypeCorrect, PTL DEF Spec

-----------------------------------------------------------------------------
(* Waiting steps and runs.                                                 *)

\* Every waiting row points at its open request or task; a reducer that closes
\* one also moves the row it belongs to out of its wait.
WaitsInv == StepWaitsAreAnswerable /\ RunWaitsAreAnswerable

LEMMA WaitsRegistry ==
  ASSUME TypeOK, WaitsInv, RegistryNext
  PROVE  WaitsInv'
BY RegistryFrame DEF WaitsInv, StepWaitsAreAnswerable, StepAwaitsPending,
   StepBlockedOnTask, RunWaitsAreAnswerable, RunAwaitsPending, RunBlockedOnTask,
   OpenTask

\* A run that a reducer does not put into a wait keeps or leaves the one it had.
LEMMA RunTailWaits ==
  ASSUME TypeOK, RunWaitsAreAnswerable, UNCHANGED <<approval_request, browser_task>>,
         NEW r, NEW status, NEW stage, NEW completed,
         update_workflow_run_status(r, status, stage, completed),
         status \notin {"awaiting-approval", "blocked"}
  PROVE  RunWaitsAreAnswerable'
BY DEF TypeOK, IsTable, WorkflowRun, update_workflow_run_status,
       RunWaitsAreAnswerable, RunAwaitsPending, RunBlockedOnTask, OpenTask

\* So does a step.
LEMMA StepUpdateWaits ==
  ASSUME TypeOK, StepWaitsAreAnswerable, UNCHANGED <<approval_request, browser_task>>,
         NEW s, DOMAIN workflow_step' = DOMAIN workflow_step,
         \A z \in DOMAIN workflow_step : z # s => workflow_step'[z] = workflow_step[z],
         s \in DOMAIN workflow_step =>
           workflow_step'[s].status \notin {"awaiting-approval", "blocked"}
  PROVE  StepWaitsAreAnswerable'
BY DEF TypeOK, IsTable, WorkflowStep, StepWaitsAreAnswerable, StepAwaitsPending,
       StepBlockedOnTask, OpenTask

LEMMA WaitsRun ==
  ASSUME TypeOK, WaitsInv, RunNext
  PROVE  WaitsInv'
<1> USE DEF WaitsInv
<1>1. StepWaitsAreAnswerable'
  BY RunFrame DEF StepWaitsAreAnswerable, StepAwaitsPending, StepBlockedOnTask, OpenTask
<1>2. RunWaitsAreAnswerable'
  <2> USE DEF RunWaitsAreAnswerable, RunAwaitsPending, RunBlockedOnTask, OpenTask
  <2>1. ASSUME NEW r \in RunIds, NEW t \in ThreadIds, NEW a \in AgentIds,
               start_workflow_run(r, t, a)
        PROVE  RunWaitsAreAnswerable'
    BY <2>1 DEF start_workflow_run, Insert
  <2>2. ASSUME NEW r \in RunIds, NEW stage \in ClientStages, update_run_stage(r, stage)
        PROVE  RunWaitsAreAnswerable'
    BY <2>2 DEF update_run_stage, TypeOK, IsTable, WorkflowRun
  <2>3. ASSUME NEW r \in RunIds, NEW status \in ReportedRunStates,
               update_run_status(r, status)
        PROVE  RunWaitsAreAnswerable'
    <3> DEFINE stamp == IF status \in {"completed", "failed"} THEN TRUE
                         ELSE workflow_run[r].completed_at
    <3>1. /\ workflow_run' = [workflow_run EXCEPT ![r].status = status,
                                                  ![r].completed_at = stamp]
          /\ UNCHANGED <<approval_request, browser_task>>
          /\ status \notin {"awaiting-approval", "blocked"}
      BY <2>3 DEF update_run_status, ReportedRunStates
    <3> HIDE DEF stamp
    <3> QED BY <3>1 DEF TypeOK, IsTable, WorkflowRun
  <2> QED BY <2>1, <2>2, <2>3 DEF RunNext
<1> QED BY <1>1, <1>2

LEMMA WaitsStep ==
  ASSUME TypeOK, WaitsInv, StepNext
  PROVE  WaitsInv'
<1> USE DEF WaitsInv
<1>1. ASSUME NEW s \in StepIds, NEW r \in RunIds, NEW stage \in ClientStages,
             NEW owner \in Owners, NEW dep \in StepIds \cup {NONE},
             enqueue_workflow_step(s, r, stage, owner, dep)
      PROVE  WaitsInv'
  <2>1. StepWaitsAreAnswerable'
    BY <1>1 DEF enqueue_workflow_step, Insert, StepWaitsAreAnswerable,
                StepAwaitsPending, StepBlockedOnTask, OpenTask
  <2>2. RunWaitsAreAnswerable'
    BY <1>1, RunTailWaits DEF enqueue_workflow_step
  <2> QED BY <2>1, <2>2
<1>2. ASSUME NEW s \in StepIds, NEW owner \in Owners, NEW w \in Runners,
             claim_workflow_step(s, owner, w)
      PROVE  WaitsInv'
  <2>1. StepWaitsAreAnswerable'
    <3>1. /\ DOMAIN workflow_step' = DOMAIN workflow_step
          /\ \A z \in DOMAIN workflow_step : z # s => workflow_step'[z] = workflow_step[z]
          /\ s \in DOMAIN workflow_step => workflow_step'[s].status = "running"
      BY <1>2 DEF claim_workflow_step, TypeOK, IsTable, WorkflowStep
    <3> QED BY <1>2, <3>1, StepUpdateWaits DEF claim_workflow_step
  <2>2. RunWaitsAreAnswerable'
    BY <1>2 DEF claim_workflow_step, RunWaitsAreAnswerable, RunAwaitsPending,
                RunBlockedOnTask, OpenTask
  <2> QED BY <2>1, <2>2
<1>3. ASSUME NEW s \in StepIds, complete_workflow_step(s) PROVE WaitsInv'
  <2>1. StepWaitsAreAnswerable'
    <3>1. /\ DOMAIN workflow_step' = DOMAIN workflow_step
          /\ \A z \in DOMAIN workflow_step : z # s => workflow_step'[z] = workflow_step[z]
          /\ s \in DOMAIN workflow_step => workflow_step'[s].status = "completed"
      BY <1>3 DEF complete_workflow_step, TypeOK, IsTable, WorkflowStep
    <3> QED BY <1>3, <3>1, StepUpdateWaits DEF complete_workflow_step
  <2>2. RunWaitsAreAnswerable'
    <3> DEFINE stage == workflow_step[s].stage
               status == run_status_after_step_completion(stage)
               final == status = "completed"
    <3>1. /\ update_workflow_run_status(workflow_step[s].run, status, stage, final)
          /\ UNCHANGED <<approval_request, browser_task>>
      BY <1>3 DEF complete_workflow_step
    <3>2. status \notin {"awaiting-approval", "blocked"}
      BY DEF run_status_after_step_completion
    <3> HIDE DEF stage, status, final
    <3> QED BY <3>1, <3>2, RunTailWaits
  <2> QED BY <2>1, <2>2
<1>4. ASSUME NEW s \in StepIds, fail_workflow_step(s) PROVE WaitsInv'
  <2>1. StepWaitsAreAnswerable'
    <3>1. /\ DOMAIN workflow_step' = DOMAIN workflow_step
          /\ \A z \in DOMAIN workflow_step : z # s => workflow_step'[z] = workflow_step[z]
          /\ s \in DOMAIN workflow_step => workflow_step'[s].status = "failed"
      BY <1>4 DEF fail_workflow_step, TypeOK, IsTable, WorkflowStep
    <3> QED BY <1>4, <3>1, StepUpdateWaits DEF fail_workflow_step
  <2>2. RunWaitsAreAnswerable'
    BY <1>4 DEF fail_workflow_step, update_workflow_run_status, TypeOK, IsTable,
                WorkflowRun, RunWaitsAreAnswerable, RunAwaitsPending,
                RunBlockedOnTask, OpenTask
  <2> QED BY <2>1, <2>2
<1> QED BY <1>1, <1>2, <1>3, <1>4 DEF StepNext

LEMMA WaitsApproval ==
  ASSUME TypeOK, ReferentialIntegrity, WaitsInv, ApprovalNext
  PROVE  WaitsInv'
<1> USE DEF WaitsInv, StepWaitsAreAnswerable, RunWaitsAreAnswerable
<1>1. ASSUME NEW p \in ApprovalIds, NEW r \in RunIds, NEW s \in StepIds,
             request_approval(p, r, s)
      PROVE  WaitsInv'
  <2>1. /\ p \notin DOMAIN approval_request
        /\ DOMAIN approval_request' = DOMAIN approval_request \cup {p}
        /\ \A q \in DOMAIN approval_request : approval_request'[q] = approval_request[q]
        /\ approval_request'[p] = [status |-> "pending", run |-> r, step |-> s]
        /\ browser_task' = browser_task
    BY <1>1 DEF request_approval, Insert
  <2>2. /\ DOMAIN workflow_step' = DOMAIN workflow_step
        /\ \A z \in DOMAIN workflow_step : z # s => workflow_step'[z] = workflow_step[z]
        /\ workflow_step'[s].status = "awaiting-approval"
        /\ workflow_step'[s].approval = p
    BY <1>1 DEF request_approval, TypeOK, IsTable, WorkflowStep
  <2>3. /\ DOMAIN workflow_run' = DOMAIN workflow_run
        /\ \A q \in DOMAIN workflow_run : q # r => workflow_run'[q] = workflow_run[q]
        /\ workflow_run'[r].status = "awaiting-approval"
    BY <1>1 DEF request_approval, update_workflow_run_status, TypeOK, IsTable,
                WorkflowRun
  <2>4. StepAwaitsPending'
    BY <2>1, <2>2 DEF StepAwaitsPending
  <2>5. StepBlockedOnTask'
    BY <2>1, <2>2 DEF StepBlockedOnTask, OpenTask
  <2>6. RunAwaitsPending'
    BY <2>1, <2>3 DEF RunAwaitsPending
  <2>7. RunBlockedOnTask'
    BY <2>1, <2>3 DEF RunBlockedOnTask, OpenTask
  <2> QED BY <2>4, <2>5, <2>6, <2>7
<1>2. ASSUME NEW p \in ApprovalIds, NEW status \in Resolutions,
             resolve_approval(p, status)
      PROVE  WaitsInv'
  <2> DEFINE s == approval_request[p].step
             r == approval_request[p].run
             step_status == step_status_for_approval(status)
             run_status == run_status_for_step_status(step_status)
  <2>1. /\ DOMAIN approval_request' = DOMAIN approval_request
        /\ \A q \in DOMAIN approval_request :
             q # p => approval_request'[q] = approval_request[q]
        /\ browser_task' = browser_task
    BY <1>2 DEF resolve_approval, TypeOK, IsTable, ApprovalRequest
  <2>2. /\ p \in DOMAIN approval_request
        /\ s \in DOMAIN workflow_step
        /\ workflow_step' = [workflow_step EXCEPT ![s].status = step_status]
        /\ update_workflow_run_status(r, run_status, "act", FALSE)
    BY <1>2 DEF resolve_approval
  <2>3. step_status \in {"ready", "failed"} /\ run_status \in {"running", "failed"}
    BY DEF step_status_for_approval, run_status_for_step_status
  <2> HIDE DEF step_status, run_status
  <2>4. /\ DOMAIN workflow_step' = DOMAIN workflow_step
        /\ \A z \in DOMAIN workflow_step : z # s => workflow_step'[z] = workflow_step[z]
        /\ workflow_step'[s].status \in {"ready", "failed"}
    BY <2>2, <2>3 DEF TypeOK, IsTable, WorkflowStep
  <2>5. /\ DOMAIN workflow_run' = DOMAIN workflow_run
        /\ \A q \in DOMAIN workflow_run : q # r => workflow_run'[q] = workflow_run[q]
        /\ workflow_run'[r].status \in {"running", "failed"}
    BY <2>2, <2>3 DEF update_workflow_run_status, TypeOK, IsTable, WorkflowRun
  <2> HIDE DEF s, r
  <2>6. StepAwaitsPending'
    <3> SUFFICES ASSUME NEW z \in DOMAIN workflow_step, z # s,
                        workflow_step[z].status = "awaiting-approval"
                 PROVE  /\ workflow_step[z].approval \in DOMAIN approval_request'
                        /\ approval_request'[workflow_step[z].approval].status = "pending"
      BY <2>4 DEF StepAwaitsPending
    <3>1. /\ workflow_step[z].approval \in DOMAIN approval_request
          /\ approval_request[workflow_step[z].approval].status = "pending"
      BY DEF StepAwaitsPending
    <3>2. approval_request[workflow_step[z].approval].step = z
      BY <3>1, NoneAssumption DEF ReferentialIntegrity, StepRefs, TypeOK, IsTable
    <3> QED BY <2>1, <3>1, <3>2 DEF s
  <2>7. StepBlockedOnTask'
    BY <2>1, <2>4 DEF StepBlockedOnTask, OpenTask
  <2>8. RunAwaitsPending'
    <3> SUFFICES ASSUME NEW q \in DOMAIN workflow_run, q # r,
                        workflow_run[q].status = "awaiting-approval"
                 PROVE  \E o \in DOMAIN approval_request' :
                          /\ approval_request'[o].run = q
                          /\ approval_request'[o].status = "pending"
      BY <2>5 DEF RunAwaitsPending
    <3>1. PICK o \in DOMAIN approval_request :
            approval_request[o].run = q /\ approval_request[o].status = "pending"
      BY DEF RunAwaitsPending
    <3> QED BY <2>1, <3>1 DEF r
  <2>9. RunBlockedOnTask'
    BY <2>1, <2>5 DEF RunBlockedOnTask, OpenTask
  <2> QED BY <2>6, <2>7, <2>8, <2>9
<1> QED BY <1>1, <1>2 DEF ApprovalNext

\* Closing a browser task moves its own step and run, and no other row waits
\* for it.
LEMMA TaskClosed ==
  ASSUME TypeOK, WaitsInv, NEW k \in DOMAIN browser_task,
         NEW closed \in {"completed", "failed"},
         NEW step_status \in {"ready", "failed"},
         NEW run_status \in {"running", "failed"}, NEW stage, NEW completed,
         browser_task' = [browser_task EXCEPT ![k].status = closed],
         block_linked_step(browser_task[k].step, step_status),
         update_workflow_run_status(browser_task[k].run, run_status, stage, completed),
         approval_request' = approval_request
  PROVE  WaitsInv'
<1> DEFINE s == browser_task[k].step
           r == browser_task[k].run
<1>1. /\ DOMAIN browser_task' = DOMAIN browser_task
      /\ \A j \in DOMAIN browser_task : j # k => browser_task'[j] = browser_task[j]
  BY DEF TypeOK, IsTable, BrowserTask
<1>2. /\ DOMAIN workflow_step' = DOMAIN workflow_step
      /\ \A z \in DOMAIN workflow_step : z # s => workflow_step'[z] = workflow_step[z]
      /\ workflow_step'[s].status \in {"ready", "failed"}
  BY DEF block_linked_step, TypeOK, IsTable, WorkflowStep
<1>3. /\ DOMAIN workflow_run' = DOMAIN workflow_run
      /\ \A q \in DOMAIN workflow_run : q # r => workflow_run'[q] = workflow_run[q]
      /\ workflow_run'[r].status \in {"running", "failed"}
  BY DEF update_workflow_run_status, TypeOK, IsTable, WorkflowRun
<1> HIDE DEF s, r
<1> USE DEF WaitsInv, StepWaitsAreAnswerable, RunWaitsAreAnswerable
<1>4. StepAwaitsPending'
  BY <1>2 DEF StepAwaitsPending
<1>5. StepBlockedOnTask'
  <2> SUFFICES ASSUME NEW z \in DOMAIN workflow_step, z # s,
                      workflow_step[z].status = "blocked"
               PROVE  \E j \in DOMAIN browser_task' :
                        /\ browser_task'[j].step = z
                        /\ browser_task'[j].status \in {"queued", "running"}
    BY <1>2 DEF StepBlockedOnTask, OpenTask
  <2>1. PICK j \in DOMAIN browser_task :
          /\ browser_task[j].step = z
          /\ browser_task[j].status \in {"queued", "running"}
    BY DEF StepBlockedOnTask, OpenTask
  <2> QED BY <1>1, <2>1 DEF s
<1>6. RunAwaitsPending'
  BY <1>3 DEF RunAwaitsPending
<1>7. RunBlockedOnTask'
  <2> SUFFICES ASSUME NEW q \in DOMAIN workflow_run, q # r,
                      workflow_run[q].status = "blocked"
               PROVE  \E j \in DOMAIN browser_task' :
                        /\ browser_task'[j].run = q
                        /\ browser_task'[j].status \in {"queued", "running"}
    BY <1>3 DEF RunBlockedOnTask, OpenTask
  <2>1. PICK j \in DOMAIN browser_task :
          /\ browser_task[j].run = q
          /\ browser_task[j].status \in {"queued", "running"}
    BY DEF RunBlockedOnTask, OpenTask
  <2> QED BY <1>1, <2>1 DEF r
<1> QED BY <1>4, <1>5, <1>6, <1>7

LEMMA WaitsBrowser ==
  ASSUME TypeOK, WaitsInv, BrowserNext
  PROVE  WaitsInv'
<1> USE DEF StepWaitsAreAnswerable, RunWaitsAreAnswerable
<1>1. ASSUME NEW k \in TaskIds, NEW r \in RunIds, NEW s \in StepIds,
             enqueue_browser_task(k, r, s)
      PROVE  WaitsInv'
  <2>1. /\ DOMAIN browser_task' = DOMAIN browser_task \cup {k}
        /\ \A j \in DOMAIN browser_task : browser_task'[j] = browser_task[j]
        /\ browser_task'[k] = [status |-> "queued", run |-> r, step |-> s,
                               runner |-> NONE]
        /\ approval_request' = approval_request
    BY <1>1 DEF enqueue_browser_task, Insert
  <2>2. /\ DOMAIN workflow_step' = DOMAIN workflow_step
        /\ \A z \in DOMAIN workflow_step : z # s => workflow_step'[z] = workflow_step[z]
        /\ workflow_step'[s].status = "blocked"
    BY <1>1 DEF enqueue_browser_task, block_linked_step, TypeOK, IsTable, WorkflowStep
  <2>3. /\ DOMAIN workflow_run' = DOMAIN workflow_run
        /\ \A q \in DOMAIN workflow_run : q # r => workflow_run'[q] = workflow_run[q]
        /\ workflow_run'[r].status = "blocked"
    BY <1>1 DEF enqueue_browser_task, update_workflow_run_status, TypeOK, IsTable,
                WorkflowRun
  <2> USE DEF WaitsInv
  <2>4. StepAwaitsPending'
    BY <2>1, <2>2 DEF StepAwaitsPending
  <2>5. StepBlockedOnTask'
    BY <2>1, <2>2 DEF StepBlockedOnTask, OpenTask
  <2>6. RunAwaitsPending'
    BY <2>1, <2>3 DEF RunAwaitsPending
  <2>7. RunBlockedOnTask'
    BY <2>1, <2>3 DEF RunBlockedOnTask, OpenTask
  <2> QED BY <2>4, <2>5, <2>6, <2>7
<1>2. ASSUME NEW k \in TaskIds, NEW w \in Runners, claim_browser_task(k, w)
      PROVE  WaitsInv'
  <2>1. /\ DOMAIN browser_task' = DOMAIN browser_task
        /\ \A j \in DOMAIN browser_task :
             /\ browser_task'[j].step = browser_task[j].step
             /\ browser_task'[j].run = browser_task[j].run
             /\ browser_task[j].status \in {"queued", "running"} =>
                  browser_task'[j].status \in {"queued", "running"}
    BY <1>2 DEF claim_browser_task, TypeOK, IsTable, BrowserTask
  <2>2. UNCHANGED <<workflow_run, workflow_step, approval_request>>
    BY <1>2 DEF claim_browser_task
  <2> QED BY <2>1, <2>2 DEF WaitsInv, StepAwaitsPending, StepBlockedOnTask,
                            RunAwaitsPending, RunBlockedOnTask, OpenTask
<1>3. ASSUME NEW k \in TaskIds, complete_browser_task(k) PROVE WaitsInv'
  BY <1>3, TaskClosed DEF complete_browser_task
<1>4. ASSUME NEW k \in TaskIds, fail_browser_task(k) PROVE WaitsInv'
  BY <1>4, TaskClosed DEF fail_browser_task
<1> QED BY <1>1, <1>2, <1>3, <1>4 DEF BrowserNext

LEMMA WaitsAlways == Spec => []WaitsInv
<1>1. Init => WaitsInv
  BY DEF Init, EmptyTable, WaitsInv, StepWaitsAreAnswerable, StepAwaitsPending,
         StepBlockedOnTask, RunWaitsAreAnswerable, RunAwaitsPending, RunBlockedOnTask
<1>2. TypeOK /\ ReferentialIntegrity /\ WaitsInv /\ [Next]_vars => WaitsInv'
  <2>1. CASE Next
    BY <2>1, WaitsRegistry, WaitsRun, WaitsStep, WaitsApproval, WaitsBrowser DEF Next
  <2>2. CASE UNCHANGED vars
    BY <2>2 DEF vars, WaitsInv, StepWaitsAreAnswerable, StepAwaitsPending,
                StepBlockedOnTask, RunWaitsAreAnswerable, RunAwaitsPending,
                RunBlockedOnTask, OpenTask
  <2> QED BY <2>1, <2>2
<1> QED BY <1>1, <1>2, TypeCorrect, RefsHold, PTL DEF Spec

\* No step waits for an answer nobody can give: the request or the browser task
\* it waits for is still open.
THEOREM StepWaitsHold == Spec => []StepWaitsAreAnswerable
<1>1. WaitsInv => StepWaitsAreAnswerable
  BY DEF WaitsInv
<1> QED BY <1>1, WaitsAlways, PTL

\* Nor does a run.
THEOREM RunWaitsHold == Spec => []RunWaitsAreAnswerable
<1>1. WaitsInv => RunWaitsAreAnswerable
  BY DEF WaitsInv
<1> QED BY <1>1, WaitsAlways, PTL

-----------------------------------------------------------------------------
(* Who executes a step or a task. *)

\* Whoever is named in a row that runs, and nobody in a task that waits.
ClaimsInv ==
  /\ TypeOK
  /\ \A s \in DOMAIN workflow_step :
       workflow_step[s].status = "running" => workflow_step[s].runner # NONE
  /\ \A k \in DOMAIN browser_task :
       browser_task[k].status = "queued" => browser_task[k].runner = NONE

StepClaims ==
  \A s \in DOMAIN workflow_step :
    /\ workflow_step'[s].runner # workflow_step[s].runner => workflow_step[s].status = "ready"
    /\ workflow_step'[s].status = "running" => workflow_step'[s].runner # NONE

TaskClaims ==
  \A k \in DOMAIN browser_task :
    browser_task[k].runner # NONE => browser_task'[k].runner = browser_task[k].runner

\* What every step does to the steps and tasks, said once.
Claiming ==
  /\ StepClaims /\ TaskClaims
  /\ \A s \in DOMAIN workflow_step' :
       workflow_step'[s].status = "running" => workflow_step'[s].runner # NONE
  /\ \A k \in DOMAIN browser_task' :
       browser_task'[k].status = "queued" => browser_task'[k].runner = NONE

LEMMA UntouchedClaims ==
  ASSUME ClaimsInv, UNCHANGED <<workflow_step, browser_task>>
  PROVE  Claiming
BY DEF ClaimsInv, Claiming, StepClaims, TaskClaims

\* A step that is given a status other than running.
LEMMA StatusClaims ==
  ASSUME ClaimsInv, NEW s, NEW status, status # "running", block_linked_step(s, status)
  PROVE  /\ StepClaims
         /\ \A x \in DOMAIN workflow_step' :
              workflow_step'[x].status = "running" => workflow_step'[x].runner # NONE
<1>1. /\ s \in DOMAIN workflow_step /\ DOMAIN workflow_step' = DOMAIN workflow_step
      /\ workflow_step[s] \in WorkflowStep
      /\ \A x \in DOMAIN workflow_step : x # s => workflow_step'[x] = workflow_step[x]
      /\ workflow_step'[s] = [workflow_step[s] EXCEPT !.status = status]
  BY DEF block_linked_step, ClaimsInv, TypeOK, IsTable
<1>2. workflow_step'[s].status = status /\ workflow_step'[s].runner = workflow_step[s].runner
  BY <1>1 DEF WorkflowStep
<1> QED BY <1>1, <1>2 DEF ClaimsInv, StepClaims

LEMMA TaskUntouched ==
  ASSUME ClaimsInv, UNCHANGED browser_task
  PROVE  TaskClaims /\ \A k \in DOMAIN browser_task' :
                          browser_task'[k].status = "queued" => browser_task'[k].runner = NONE
BY DEF ClaimsInv, TaskClaims

LEMMA StepUntouched ==
  ASSUME ClaimsInv, UNCHANGED workflow_step
  PROVE  StepClaims /\ \A s \in DOMAIN workflow_step' :
                          workflow_step'[s].status = "running" => workflow_step'[s].runner # NONE
BY DEF ClaimsInv, StepClaims

LEMMA ClaimingStep == ClaimsInv /\ StepNext => Claiming
<1> SUFFICES ASSUME ClaimsInv, NEW s \in StepIds,
                    \/ \E r \in RunIds, stage \in ClientStages, owner \in Owners,
                          dep \in StepIds \cup {NONE} :
                            enqueue_workflow_step(s, r, stage, owner, dep)
                    \/ \E owner \in Owners, w \in Runners : claim_workflow_step(s, owner, w)
                    \/ complete_workflow_step(s) \/ fail_workflow_step(s)
             PROVE  Claiming
  BY DEF StepNext
<1>0. UNCHANGED browser_task
  BY DEF enqueue_workflow_step, claim_workflow_step, complete_workflow_step, fail_workflow_step
<1>1. ASSUME NEW r, NEW stage, NEW owner, NEW dep, enqueue_workflow_step(s, r, stage, owner, dep)
      PROVE  Claiming
  <2>1. /\ DOMAIN workflow_step' = DOMAIN workflow_step \cup {s} /\ s \notin DOMAIN workflow_step
        /\ workflow_step'[s].status = "ready"
        /\ \A x \in DOMAIN workflow_step : workflow_step'[x] = workflow_step[x]
    BY <1>1 DEF enqueue_workflow_step, Insert
  <2> QED BY <1>0, <2>1, TaskUntouched DEF Claiming, ClaimsInv, StepClaims
<1>2. ASSUME NEW owner, NEW w \in Runners, claim_workflow_step(s, owner, w) PROVE Claiming
  <2>1. /\ s \in DOMAIN workflow_step /\ DOMAIN workflow_step' = DOMAIN workflow_step
        /\ workflow_step[s] \in WorkflowStep /\ workflow_step[s].status = "ready"
        /\ \A x \in DOMAIN workflow_step : x # s => workflow_step'[x] = workflow_step[x]
        /\ workflow_step'[s].runner = w
    BY <1>2 DEF claim_workflow_step, ClaimsInv, TypeOK, IsTable, WorkflowStep
  <2>2. w # NONE
    BY NoneAssumption
  <2> QED BY <1>0, <2>1, <2>2, TaskUntouched DEF Claiming, ClaimsInv, StepClaims
<1>3. CASE complete_workflow_step(s) \/ fail_workflow_step(s)
  <2>1. block_linked_step(s, "completed") \/ block_linked_step(s, "failed")
    BY <1>3 DEF complete_workflow_step, fail_workflow_step, block_linked_step
  <2> QED BY <1>0, <2>1, StatusClaims, TaskUntouched DEF Claiming
<1> QED BY <1>1, <1>2, <1>3

LEMMA ClaimingApproval == ClaimsInv /\ ApprovalNext => Claiming
<1> SUFFICES ASSUME ClaimsInv, NEW p \in ApprovalIds,
                    \/ \E r \in RunIds, s \in StepIds : request_approval(p, r, s)
                    \/ \E status \in Resolutions : resolve_approval(p, status)
             PROVE  Claiming
  BY DEF ApprovalNext
<1>0. UNCHANGED browser_task
  BY DEF request_approval, resolve_approval
<1>1. ASSUME NEW r, NEW s, request_approval(p, r, s) PROVE Claiming
  <2>1. /\ s \in DOMAIN workflow_step /\ DOMAIN workflow_step' = DOMAIN workflow_step
        /\ workflow_step[s] \in WorkflowStep
        /\ \A x \in DOMAIN workflow_step : x # s => workflow_step'[x] = workflow_step[x]
        /\ workflow_step'[s] = [[workflow_step[s] EXCEPT !.status = "awaiting-approval"]
                                  EXCEPT !.approval = p]
    BY <1>1 DEF request_approval, ClaimsInv, TypeOK, IsTable
  <2>2. /\ workflow_step'[s].status = "awaiting-approval"
        /\ workflow_step'[s].runner = workflow_step[s].runner
    BY <2>1 DEF WorkflowStep
  <2> QED BY <1>0, <2>1, <2>2, TaskUntouched DEF Claiming, ClaimsInv, StepClaims
<1>2. ASSUME NEW status, resolve_approval(p, status) PROVE Claiming
  <2>1. block_linked_step(approval_request[p].step, step_status_for_approval(status))
    BY <1>2 DEF resolve_approval, block_linked_step
  <2>2. step_status_for_approval(status) # "running"
    BY DEF step_status_for_approval
  <2> QED BY <1>0, <2>1, <2>2, StatusClaims, TaskUntouched DEF Claiming
<1> QED BY <1>1, <1>2

LEMMA ClaimingBrowser == ClaimsInv /\ BrowserNext => Claiming
<1> SUFFICES ASSUME ClaimsInv, NEW k \in TaskIds,
                    \/ \E r \in RunIds, s \in StepIds : enqueue_browser_task(k, r, s)
                    \/ \E w \in Runners : claim_browser_task(k, w)
                    \/ complete_browser_task(k) \/ fail_browser_task(k)
             PROVE  Claiming
  BY DEF BrowserNext
<1>1. ASSUME NEW r, NEW s, enqueue_browser_task(k, r, s) PROVE Claiming
  <2>1. /\ DOMAIN browser_task' = DOMAIN browser_task \cup {k} /\ k \notin DOMAIN browser_task
        /\ browser_task'[k].runner = NONE
        /\ \A x \in DOMAIN browser_task : browser_task'[x] = browser_task[x]
    BY <1>1 DEF enqueue_browser_task, Insert
  <2>2. block_linked_step(s, "blocked")
    BY <1>1 DEF enqueue_browser_task
  <2> QED BY <2>1, <2>2, StatusClaims DEF Claiming, ClaimsInv, TaskClaims
<1>2. ASSUME NEW w, claim_browser_task(k, w) PROVE Claiming
  <2>1. /\ k \in DOMAIN browser_task /\ DOMAIN browser_task' = DOMAIN browser_task
        /\ browser_task[k] \in BrowserTask /\ browser_task[k].status = "queued"
        /\ \A x \in DOMAIN browser_task : x # k => browser_task'[x] = browser_task[x]
        /\ browser_task'[k].status = "running" /\ UNCHANGED workflow_step
    BY <1>2 DEF claim_browser_task, ClaimsInv, TypeOK, IsTable, BrowserTask
  <2> QED BY <2>1, StepUntouched DEF Claiming, ClaimsInv, TaskClaims
<1>3. CASE complete_browser_task(k) \/ fail_browser_task(k)
  <2>1. /\ k \in DOMAIN browser_task
        /\ \E st \in {"completed", "failed"} :
             browser_task' = [browser_task EXCEPT ![k].status = st]
        /\ \E st \in {"ready", "failed"} : block_linked_step(browser_task[k].step, st)
    BY <1>3 DEF complete_browser_task, fail_browser_task
  <2>2. PICK st \in {"completed", "failed"} : browser_task' = [browser_task EXCEPT ![k].status = st]
    BY <2>1
  <2>3. /\ DOMAIN browser_task' = DOMAIN browser_task /\ browser_task[k] \in BrowserTask
        /\ \A x \in DOMAIN browser_task : x # k => browser_task'[x] = browser_task[x]
        /\ browser_task'[k] = [browser_task[k] EXCEPT !.status = st]
    BY <2>1, <2>2 DEF ClaimsInv, TypeOK, IsTable
  <2>4. browser_task'[k].runner = browser_task[k].runner /\ browser_task'[k].status = st
    BY <2>3 DEF BrowserTask
  <2> QED BY <2>1, <2>2, <2>3, <2>4, StatusClaims DEF Claiming, ClaimsInv, TaskClaims
<1> QED BY <1>1, <1>2, <1>3

LEMMA ClaimsAlways == Spec => [](ClaimsInv) /\ [][Claiming]_vars
<1>1. Init => ClaimsInv
  BY TypeInit DEF Init, ClaimsInv, EmptyTable
<1>2. ClaimsInv /\ [Next]_vars => Claiming
  <2>1. RegistryNext \/ RunNext \/ UNCHANGED vars => UNCHANGED <<workflow_step, browser_task>>
    BY DEF RegistryNext, register_agent, ingest_message, RunNext, start_workflow_run,
       update_run_stage, update_run_status, vars
  <2> QED BY <2>1, UntouchedClaims, ClaimingStep, ClaimingApproval, ClaimingBrowser DEF Next
<1>3. ClaimsInv /\ [Next]_vars => ClaimsInv'
  BY <1>2, TypeNext DEF ClaimsInv, Claiming
<1> QED BY <1>1, <1>2, <1>3, PTL DEF Spec

\* A runner that executes a step is not replaced before the step is ready again
\* (claim_workflow_step), whoever calls what.
THEOREM RunnersHold == Spec => RunningStepKeepsRunner
<1>1. [Claiming]_vars => [StepClaims]_vars
  BY DEF Claiming
<1>2. [StepClaims]_vars =>
        [\A s \in DOMAIN workflow_step :
           /\ workflow_step'[s].runner # workflow_step[s].runner =>
                workflow_step[s].status = "ready"
           /\ workflow_step'[s].status = "running" =>
                workflow_step'[s].runner # NONE]_vars
  BY DEF StepClaims
<1> QED BY <1>1, <1>2, ClaimsAlways, PTL DEF RunningStepKeepsRunner

\* A browser task has one runner in its life (claim_browser_task).
THEOREM TasksClaimedOnce == Spec => BrowserTaskClaimedOnce
<1>1. [Claiming]_vars =>
        [\A k \in DOMAIN browser_task :
           browser_task[k].runner # NONE =>
             browser_task'[k].runner = browser_task[k].runner]_vars
  BY DEF Claiming, TaskClaims
<1> QED BY <1>1, ClaimsAlways, PTL DEF BrowserTaskClaimedOnce
=============================================================================
