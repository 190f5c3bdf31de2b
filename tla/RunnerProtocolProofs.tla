------------------------ MODULE RunnerProtocolProofs ------------------------
(***************************************************************************)
(* For any workers, owners, runs, pipeline, crashes and retries: what      *)
(* workers and control planes do to the tables is what WorkflowStore       *)
(* allows, so that its theorems hold of the running system; no worker that *)
(* has scanned misses a step it could claim; and, with one browser worker, *)
(* or with workers that do not come up in the middle of a run, no two      *)
(* threads do the same work.  The latter also execute steps in order, have *)
(* a result for every browser step and leave completed runs alone.  Where  *)
(* no browser is needed, nothing asks when workers come up: steps are      *)
(* executed by one thread, in order.                                       *)
(***************************************************************************)
EXTENDS RunnerProtocol, TLAPS

\* The theorems of the workflow tables, about these tables.
Tables == INSTANCE WorkflowStoreProofs WITH
  AgentIds <- {Agent}, ThreadIds <- RunIds,
  EventIds <- RunIds \X {"inbound", "summary"},
  StepIds <- StepIds, ApprovalIds <- {}, TaskIds <- StepIds,
  Owners <- ExecutionOwner, Runners <- Runners,
  Stages <- AllStages, ClientStages <- AllStages

\* Calls that name the execution owner they need.
Addressed == {c \in ReducerCall :
                c.op \in {"enqueue_step", "claim_step"} => c.owner \in ExecutionOwner}

\* A worker claims steps for its own owner.
CallsOf(w) == {c \in Addressed : c.op = "claim_step" => c.owner = OwnerOf[w]}

\* A step is in the hands of a process: to be claimed, or its claim is on its way.
InHand(me, s) ==
  \/ \E i \in DOMAIN me.inbox : me.inbox[i].kind = "claim_step" /\ me.inbox[i].step = s
  \/ \E item \in me.scan : item.kind = "claim_step" /\ item.step = s
  \/ \E i \in DOMAIN me.outbox : me.outbox[i].op = "claim_step" /\ me.outbox[i].step = s

Scanned(me) == me.phase \in {"scanning", "serving"}

\* A step that a worker with the owner of w can claim.
Claimable(s, w) ==
  s \in DOMAIN workflow_step /\ workflow_step[s].status = "ready"
    /\ workflow_step[s].owner = OwnerOf[w]

Wakeups == \A s \in StepIds, w \in Workers :
             Claimable(s, w) /\ Scanned(worker[w]) => InHand(worker[w], s)

\* A life of a worker ends with a crash; before the first there is nothing.
LivesOf(me, ended) ==
  /\ me.incarnation <= ended + (IF me.phase = "down" THEN 0 ELSE 1)
  /\ me.incarnation > 0 \/ me = Down(0)
Lives == \A w \in Workers : LivesOf(worker[w], crashes)

Outboxes == \A w \in Workers : worker[w].outbox \in Seq(CallsOf(w))

TasksNamed == \A k \in DOMAIN browser_task : browser_task[k].step = k

RetriesKnown == \A r \in RunIds :
                  retry[r].step # NONE => retry[r].step \in DOMAIN workflow_step

IInv == TypeOK /\ Lives /\ Outboxes /\ TasksNamed /\ RetriesKnown /\ Wakeups

-----------------------------------------------------------------------------
(* Ids, stages, owners and calls.                                          *)

LEMMA StepIdParts ==
  ASSUME NEW s \in StepIds
  PROVE  RunOf(s) \in RunIds /\ StageOf(s) \in AllStages
BY DEF StepIds, RunOf, StageOf

LEMMA StepIdMade ==
  ASSUME NEW r \in RunIds, NEW stage \in AllStages, NEW n \in 0 .. MaxRetries
  PROVE  <<r, stage, n>> \in StepIds
BY DEF StepIds

LEMMA NextStage ==
  ASSUME NEW stage
  PROVE  next_stage(stage) = NONE \/ next_stage(stage) \in AllStages
<1> DEFINE later == {i \in DOMAIN Pipeline : i > 1 /\ Pipeline[i - 1] = stage}
<1>1. CASE later = {}
  BY <1>1 DEF next_stage
<1>2. CASE later # {}
  <2>1. (CHOOSE i \in later : TRUE) \in later
    BY <1>2
  <2>2. (CHOOSE i \in later : TRUE) \in DOMAIN Pipeline
    BY <2>1
  <2>3. Pipeline[CHOOSE i \in later : TRUE] \in AllStages
    BY <2>2, PipelineAssumption
  <2> QED BY <1>2, <2>3 DEF next_stage
<1> QED BY <1>1, <1>2

LEMMA OwnerForStage ==
  ASSUME NEW stage
  PROVE  owner_for_stage(stage) \in ExecutionOwner
BY WorkerAssumption DEF owner_for_stage, ExecutionOwner, ExecutionTarget

LEMMA CallType ==
  ASSUME NEW s \in StepIds, NEW w \in Workers,
         NEW op \in {"register_agent", "ingest_inbound", "ingest_summary", "start_run",
                     "complete_step", "fail_step", "enqueue_task", "complete_task", "fail_task"}
  PROVE  Call(op, s) \in CallsOf(w) /\ Call(op, s) \in Addressed
BY DEF Call, CallsOf, Addressed, ReducerCall

LEMMA ClaimType ==
  ASSUME NEW s \in StepIds, NEW op \in {"claim_step", "claim_task"}, NEW owner \in ExecutionOwner
  PROVE  /\ Claim(op, s, owner) \in Addressed
         /\ Claim(op, s, owner).op = op /\ Claim(op, s, owner).step = s
         /\ Claim(op, s, owner).owner = owner
BY DEF Claim, Call, Addressed, ReducerCall

LEMMA EnqueueType ==
  ASSUME NEW s \in StepIds, NEW w \in Workers, NEW owner \in ExecutionOwner,
         NEW dep \in StepIds \cup {NONE}, NEW thread \in BOOLEAN
  PROVE  Enqueue(s, owner, dep, thread) \in CallsOf(w) /\ Enqueue(s, owner, dep, thread) \in Addressed
BY DEF Enqueue, CallsOf, Addressed, ReducerCall

LEMMA CallsAddressed == ASSUME NEW w \in Workers PROVE CallsOf(w) \subseteq Addressed
BY DEF CallsOf

\* What an execution sends.
LEMMA ExecutionCalls ==
  ASSUME NEW w \in Workers, NEW s \in StepIds, NEW cached
  PROVE  process_workflow_step(w, s, cached) \in Seq(CallsOf(w))
<1>1. next_stage(StageOf(s)) # NONE => <<RunOf(s), next_stage(StageOf(s)), 0>> \in StepIds
  BY StepIdParts, StepIdMade, NextStage, BoundsAssumption
<1>2. enqueue_next_step(s, cached) \in Seq(CallsOf(w))
  <2>1. CASE next_stage(StageOf(s)) = NONE \/ cached.next
    BY <2>1 DEF enqueue_next_step
  <2>2. CASE ~(next_stage(StageOf(s)) = NONE \/ cached.next)
    <3>1. Enqueue(<<RunOf(s), next_stage(StageOf(s)), 0>>, owner_for_stage(next_stage(StageOf(s))),
                  s, s \in with_thread) \in CallsOf(w)
      <4> DEFINE next == <<RunOf(s), next_stage(StageOf(s)), 0>>
                 owner == owner_for_stage(next_stage(StageOf(s)))
                 thread == s \in with_thread
      <4>1. next \in StepIds /\ owner \in ExecutionOwner /\ s \in StepIds \cup {NONE}
        BY <1>1, <2>2, OwnerForStage
      <4>2. thread \in BOOLEAN
        OBVIOUS
      <4> HIDE DEF next, owner, thread
      <4>3. Enqueue(next, owner, s, thread) \in CallsOf(w)
        BY <4>1, <4>2, EnqueueType
      <4> QED BY <4>3 DEF next, owner, thread
    <3> QED BY <2>2, <3>1 DEF enqueue_next_step
  <2> QED BY <2>1, <2>2
<1>3. record_summary_message(s) \in Seq(CallsOf(w))
  BY CallType DEF record_summary_message
<1>4. /\ <<Call("fail_step", s)>> \in Seq(CallsOf(w))
      /\ <<Call("complete_step", s)>> \in Seq(CallsOf(w))
      /\ <<Call("enqueue_task", s)>> \in Seq(CallsOf(w))
      /\ <<>> \in Seq(CallsOf(w))
  BY CallType
<1> QED BY <1>2, <1>3, <1>4 DEF process_workflow_step

-----------------------------------------------------------------------------
(* Calls and the tables.                                                   *)

\* Store and Tables are instances of the same definitions.
LEMMA SameTypes == Store!TypeOK <=> Tables!TypeOK
BY DEF Store!TypeOK, Tables!TypeOK, Store!IsTable, Tables!IsTable,
   Store!WorkflowStep, Tables!WorkflowStep, Store!WorkflowRun, Tables!WorkflowRun,
   Store!ApprovalRequest, Tables!ApprovalRequest, Store!BrowserTask, Tables!BrowserTask,
   Store!RunState, Tables!RunState, Store!StepState, Tables!StepState,
   Store!ApprovalStatus, Tables!ApprovalStatus, Store!BrowserTaskState, Tables!BrowserTaskState

LEMMA SameSteps == Store!Next => Tables!Next
<1>1. Store!RegistryNext => Tables!RegistryNext
  BY DEF Store!RegistryNext, Tables!RegistryNext, Store!register_agent, Tables!register_agent,
     Store!ingest_message, Tables!ingest_message, Store!Insert, Tables!Insert
<1>2. Store!RunNext => Tables!RunNext
  BY DEF Store!RunNext, Tables!RunNext, Store!start_workflow_run, Tables!start_workflow_run,
     Store!update_run_stage, Tables!update_run_stage, Store!update_run_status,
     Tables!update_run_status, Store!ReportedRunStates, Tables!ReportedRunStates,
     Store!Insert, Tables!Insert, Store!registry, Tables!registry
<1>3. Store!StepNext => Tables!StepNext
  BY DEF Store!StepNext, Tables!StepNext, Store!enqueue_workflow_step,
     Tables!enqueue_workflow_step, Store!claim_workflow_step, Tables!claim_workflow_step,
     Store!complete_workflow_step, Tables!complete_workflow_step, Store!fail_workflow_step,
     Tables!fail_workflow_step, Store!update_workflow_run_status,
     Tables!update_workflow_run_status, Store!run_status_after_step_completion,
     Tables!run_status_after_step_completion, Store!Insert, Tables!Insert,
     Store!registry, Tables!registry
<1>4. Store!ApprovalNext => FALSE
  BY DEF Store!ApprovalNext
<1>5. Store!BrowserNext => Tables!BrowserNext
  BY DEF Store!BrowserNext, Tables!BrowserNext, Store!enqueue_browser_task,
     Tables!enqueue_browser_task, Store!claim_browser_task, Tables!claim_browser_task,
     Store!complete_browser_task, Tables!complete_browser_task, Store!fail_browser_task,
     Tables!fail_browser_task, Store!block_linked_step, Tables!block_linked_step,
     Store!update_workflow_run_status, Tables!update_workflow_run_status,
     Store!Insert, Tables!Insert, Store!registry, Tables!registry
<1> QED BY <1>1, <1>2, <1>3, <1>4, <1>5 DEF Store!Next, Tables!Next

LEMMA TablesTyped ==
  ASSUME Store!TypeOK, Store!Next \/ UNCHANGED storeVars
  PROVE  Store!TypeOK'
<1>1. Tables!TypeOK /\ [Tables!Next]_(Tables!vars)
  BY SameTypes, SameSteps DEF storeVars, Tables!vars
<1>2. Tables!TypeOK'
  BY <1>1, Tables!TypeNext, NoneAssumption DEF AllStages
<1> QED BY <1>2, SameTypes, PTL

\* A call that commits is a step of the store.
LEMMA CommitIsStep ==
  ASSUME NEW c \in Addressed, NEW id \in Runners, Commit(c, id)
  PROVE  Store!Next
<1> DEFINE s == c.step
<1>1. s \in StepIds /\ RunOf(s) \in RunIds /\ StageOf(s) \in AllStages
      /\ c.dep \in StepIds \cup {NONE} /\ c.owner \in ExecutionOwner \cup {NONE}
      /\ (c.op \in {"enqueue_step", "claim_step"} => c.owner \in ExecutionOwner)
  BY StepIdParts DEF Addressed, ReducerCall
<1> HIDE DEF s
<1>2. <<RunOf(s), "inbound">> \in RunIds \X {"inbound", "summary"}
      /\ <<RunOf(s), "summary">> \in RunIds \X {"inbound", "summary"}
  BY <1>1
<1>3. CASE Store!register_agent(Agent) \/ Store!ingest_message(RunOf(s), <<RunOf(s), "inbound">>)
             \/ Store!ingest_message(RunOf(s), <<RunOf(s), "summary">>)
  BY <1>1, <1>2, <1>3 DEF Store!Next, Store!RegistryNext
<1>4. CASE Store!start_workflow_run(RunOf(s), RunOf(s), Agent)
  BY <1>1, <1>4 DEF Store!Next, Store!RunNext
<1>5. CASE c.op = "enqueue_step"
             /\ Store!enqueue_workflow_step(s, RunOf(s), StageOf(s), c.owner, c.dep)
  BY <1>1, <1>5 DEF Store!Next, Store!StepNext
<1>6. CASE \/ c.op = "claim_step" /\ Store!claim_workflow_step(s, c.owner, id)
           \/ Store!complete_workflow_step(s) \/ Store!fail_workflow_step(s)
  BY <1>1, <1>6 DEF Store!Next, Store!StepNext
<1>7. CASE \/ Store!enqueue_browser_task(s, RunOf(s), s) \/ Store!claim_browser_task(s, id)
           \/ Store!complete_browser_task(s) \/ Store!fail_browser_task(s)
  BY <1>1, <1>7 DEF Store!Next, Store!BrowserNext
<1> QED BY <1>3, <1>4, <1>5, <1>6, <1>7 DEF Commit, s

\* What a call that commits changes: no step goes away, and only an enqueued step
\* and one whose browser task is completed can be claimed that could not before.
CallEffect(c) ==
  /\ DOMAIN workflow_step \subseteq DOMAIN workflow_step'
  /\ c.op = "enqueue_step" => c.step \in DOMAIN workflow_step'
  /\ c.op = "complete_task" => c.step \in DOMAIN browser_task' /\ browser_task'[c.step].status = "completed"
  /\ TasksNamed'
  /\ \A s \in StepIds, w \in Workers : Claimable(s, w)' =>
       \/ Claimable(s, w) /\ ~(c.op = "claim_step" /\ c.step = s)
       \/ s = c.step /\ c.op \in {"enqueue_step", "complete_task"}

LEMMA CommitEffect ==
  ASSUME Store!TypeOK, TasksNamed, NEW c \in Addressed, NEW id \in Runners, Commit(c, id)
  PROVE  CallEffect(c)
<1> DEFINE k == c.step
<1> HIDE DEF k
<1> USE DEF CallEffect, Claimable, TasksNamed
<1>t. /\ workflow_step = [s \in DOMAIN workflow_step |-> workflow_step[s]]
      /\ browser_task = [s \in DOMAIN browser_task |-> browser_task[s]]
      /\ \A s \in DOMAIN workflow_step : workflow_step[s] \in Store!WorkflowStep
      /\ \A s \in DOMAIN browser_task : browser_task[s] \in Store!BrowserTask
  BY DEF Store!TypeOK, Store!IsTable
<1>1. CASE c.op \in {"register_agent", "ingest_inbound", "ingest_summary", "start_run"}
  <2>1. UNCHANGED <<workflow_step, browser_task>>
    BY <1>1 DEF Commit, Store!register_agent, Store!ingest_message, Store!start_workflow_run
  <2> QED BY <1>1, <2>1
<1>2. CASE c.op = "enqueue_step"
  <2>1. Store!enqueue_workflow_step(k, RunOf(k), StageOf(k), c.owner, c.dep)
    BY <1>2 DEF Commit, k
  <2>2. /\ browser_task' = browser_task
        /\ DOMAIN workflow_step' = DOMAIN workflow_step \cup {k}
        /\ \A s \in DOMAIN workflow_step : s # k => workflow_step'[s] = workflow_step[s]
    BY <2>1 DEF Store!enqueue_workflow_step, Store!Insert
  <2> QED BY <1>2, <2>2 DEF k
<1>3. CASE c.op \in {"claim_step", "complete_step", "fail_step"}
  <2>1. \/ Store!claim_workflow_step(k, c.owner, id)
        \/ Store!complete_workflow_step(k) \/ Store!fail_workflow_step(k)
    BY <1>3 DEF Commit, k
  <2>2. /\ browser_task' = browser_task /\ k \in DOMAIN workflow_step
        /\ DOMAIN workflow_step' = DOMAIN workflow_step
        /\ \A s \in DOMAIN workflow_step : s # k => workflow_step'[s] = workflow_step[s]
        /\ workflow_step'[k].status # "ready"
    <3>1. CASE Store!claim_workflow_step(k, c.owner, id)
      BY <1>t, <3>1 DEF Store!claim_workflow_step, Store!WorkflowStep
    <3>2. CASE Store!complete_workflow_step(k)
      BY <1>t, <3>2 DEF Store!complete_workflow_step, Store!WorkflowStep
    <3>3. CASE Store!fail_workflow_step(k)
      BY <1>t, <3>3 DEF Store!fail_workflow_step, Store!WorkflowStep
    <3> QED BY <2>1, <3>1, <3>2, <3>3
  <2> QED BY <1>3, <2>2 DEF k
<1>4. CASE c.op = "enqueue_task"
  <2>1. Store!enqueue_browser_task(k, RunOf(k), k)
    BY <1>4 DEF Commit, k
  <2>2. /\ DOMAIN browser_task' = DOMAIN browser_task \cup {k}
        /\ browser_task'[k].step = k
        /\ \A s \in DOMAIN browser_task : s # k => browser_task'[s] = browser_task[s]
    BY <2>1 DEF Store!enqueue_browser_task, Store!Insert
  <2>3. /\ k \in DOMAIN workflow_step /\ DOMAIN workflow_step' = DOMAIN workflow_step
        /\ \A s \in DOMAIN workflow_step : s # k => workflow_step'[s] = workflow_step[s]
        /\ workflow_step'[k].status # "ready"
    BY <1>t, <2>1 DEF Store!enqueue_browser_task, Store!block_linked_step, Store!WorkflowStep
  <2> QED BY <1>4, <2>2, <2>3 DEF k
<1>5. CASE c.op = "claim_task"
  <2>1. Store!claim_browser_task(k, id)
    BY <1>5 DEF Commit, k
  <2>2. /\ DOMAIN browser_task' = DOMAIN browser_task /\ workflow_step' = workflow_step
        /\ \A s \in DOMAIN browser_task : browser_task'[s].step = browser_task[s].step
    BY <1>t, <2>1 DEF Store!claim_browser_task, Store!BrowserTask
  <2> QED BY <1>5, <2>2
<1>6. CASE c.op \in {"complete_task", "fail_task"}
  <2> DEFINE now == IF c.op = "complete_task" THEN "completed" ELSE "failed"
             then == IF c.op = "complete_task" THEN "ready" ELSE "failed"
  <2>1. /\ k \in DOMAIN browser_task
        /\ browser_task' = [browser_task EXCEPT ![k].status = now]
        /\ browser_task[k].step \in DOMAIN workflow_step
        /\ workflow_step' = [workflow_step EXCEPT ![browser_task[k].step].status = then]
    BY <1>6 DEF Commit, k, Store!complete_browser_task, Store!fail_browser_task,
       Store!block_linked_step
  <2>2. browser_task[k].step = k
    BY <2>1
  <2> HIDE DEF now, then
  <2>3. /\ DOMAIN browser_task' = DOMAIN browser_task /\ browser_task'[k].status = now
        /\ \A s \in DOMAIN browser_task : browser_task'[s].step = browser_task[s].step
    BY <1>t, <2>1 DEF Store!BrowserTask
  <2>4. /\ k \in DOMAIN workflow_step /\ DOMAIN workflow_step' = DOMAIN workflow_step
        /\ \A s \in DOMAIN workflow_step : s # k => workflow_step'[s] = workflow_step[s]
        /\ workflow_step'[k].status = then
    BY <1>t, <2>1, <2>2 DEF Store!WorkflowStep
  <2> QED BY <1>6, <2>1, <2>3, <2>4 DEF k, now, then
<1> QED BY <1>1, <1>2, <1>3, <1>4, <1>5, <1>6 DEF Commit

-----------------------------------------------------------------------------
(* Notifications.                                                          *)

LEMMA CachedType ==
  ASSUME NEW s, NEW steps, NEW tasks, Store!IsTable(tasks, StepIds, Store!BrowserTask)
  PROVE  Cached(s, steps, tasks) \in [task : {"none"} \cup Store!BrowserTaskState, next : BOOLEAN]
<1>1. s \in DOMAIN tasks => tasks[s].status \in Store!BrowserTaskState
  BY DEF Store!IsTable, Store!BrowserTask
<1> DEFINE found == <<RunOf(s), next_stage(StageOf(s)), 0>> \in DOMAIN steps
           task == IF s \notin DOMAIN tasks THEN "none" ELSE tasks[s].status
<1>2. found \in BOOLEAN /\ task \in {"none"} \cup Store!BrowserTaskState
  BY <1>1
<1>3. Cached(s, steps, tasks) = [task |-> task, next |-> found]
  BY DEF Cached
<1> QED BY <1>2, <1>3

LEMMA StepItems ==
  ASSUME NEW w, NEW id, NEW S \in SUBSET StepIds, NEW steps, NEW tasks,
         Store!IsTable(tasks, StepIds, Store!BrowserTask)
  PROVE  maybe_handle_step(w, id, S, steps, tasks) \in SUBSET Item
<1>1. \A s \in S : [kind |-> "claim_step", step |-> s, cached |-> Nothing] \in Item
  BY DEF Item, Nothing
<1>2. ASSUME NEW s \in S
      PROVE  [kind |-> "run_step", step |-> s, cached |-> Cached(s, steps, tasks)] \in Item
  BY CachedType DEF Item
<1> QED BY <1>1, <1>2 DEF maybe_handle_step

LEMMA TaskItems ==
  ASSUME NEW w, NEW id, NEW S \in SUBSET StepIds, NEW tasks
  PROVE  maybe_handle_browser_task(w, id, S, tasks) \in SUBSET Item
<1>1. \A s \in S : /\ [kind |-> "claim_task", step |-> s, cached |-> Nothing] \in Item
                   /\ [kind |-> "run_task", step |-> s, cached |-> Nothing] \in Item
  BY DEF Item, Nothing
<1> QED BY <1>1 DEF maybe_handle_browser_task

LEMMA AsSeqType == ASSUME NEW S \in SUBSET Item PROVE AsSeq(S) \in Seq(Item)
<1>1. CASE S = {}
  BY <1>1 DEF AsSeq
<1>2. CASE S # {}
  <2>1. (CHOOSE x \in S : TRUE) \in Item
    BY <1>2
  <2> QED BY <1>2, <2>1 DEF AsSeq
<1> QED BY <1>1, <1>2

\* What w is sent of the rows that c has written.
News(w, id, c) ==
  AsSeq(maybe_handle_step(w, id, StepWritten(c), workflow_step', browser_task')
          \cup maybe_handle_browser_task(w, id, TaskWritten(c), browser_task'))

LEMMA NewsType ==
  ASSUME NEW w, NEW id, NEW c \in Addressed, Store!TypeOK'
  PROVE  News(w, id, c) \in Seq(Item)
<1>1. StepWritten(c) \in SUBSET StepIds /\ TaskWritten(c) \in SUBSET StepIds
  BY DEF StepWritten, TaskWritten, Addressed, ReducerCall
<1>2. Store!IsTable(browser_task', StepIds, Store!BrowserTask)
  BY DEF Store!TypeOK, Store!IsTable, Store!BrowserTask, Store!BrowserTaskState
<1> QED BY <1>1, <1>2, StepItems, TaskItems, AsSeqType DEF News

\* A step that can be claimed now is announced as such.
LEMMA NewsOfReady ==
  ASSUME NEW w \in Workers, NEW id, NEW c \in Addressed, CallEffect(c),
         Claimable(c.step, w)', c.op \in {"enqueue_step", "complete_task"}
  PROVE  News(w, id, c) = <<[kind |-> "claim_step", step |-> c.step, cached |-> Nothing]>>
<1> DEFINE k == c.step
           claim == [kind |-> "claim_step", step |-> k, cached |-> Nothing]
<1>1. /\ StepWritten(c) = {k}
      /\ c.op = "enqueue_step" => TaskWritten(c) = {}
      /\ c.op = "complete_task" => TaskWritten(c) = {k}
  BY DEF StepWritten, TaskWritten
<1>2. k \in DOMAIN workflow_step' /\ workflow_step'[k].owner = OwnerOf[w]
        /\ workflow_step'[k].status = "ready"
  BY DEF Claimable
<1>3. c.op = "complete_task" => k \in DOMAIN browser_task' /\ browser_task'[k].status = "completed"
  BY DEF CallEffect
<1> HIDE DEF k
<1>4. maybe_handle_step(w, id, {k}, workflow_step', browser_task') = {claim}
  BY <1>2 DEF maybe_handle_step
<1>5. maybe_handle_browser_task(w, id, TaskWritten(c), browser_task') = {}
  BY <1>1, <1>3 DEF maybe_handle_browser_task
<1>6. News(w, id, c) = AsSeq({claim})
  BY <1>1, <1>4, <1>5 DEF News
<1>7. AsSeq({claim}) = <<claim>>
  BY DEF AsSeq
<1> QED BY <1>6, <1>7 DEF k

-----------------------------------------------------------------------------
(* The server takes a call.                                                *)

\* A process as it was, but for news at the end of its inbox if it is up.
Informed(old, new) ==
  \/ new = old
  \/ old.phase # "down" /\ \E q \in Seq(Item) : new = [old EXCEPT !.inbox = @ \o q]

LEMMA InformedType ==
  ASSUME NEW old \in Process, NEW new, Informed(old, new)
  PROVE  /\ new \in Process
         /\ new.phase = old.phase /\ new.incarnation = old.incarnation
         /\ new.scan = old.scan /\ new.outbox = old.outbox /\ new.busy = old.busy
         /\ \A s \in StepIds : InHand(old, s) => InHand(new, s)
<1>1. CASE new = old
  BY <1>1
<1>2. CASE new # old
  <2>1. PICK q \in Seq(Item) : new = [old EXCEPT !.inbox = @ \o q]
    BY <1>2 DEF Informed
  <2>2. old.inbox \in Seq(Item) /\ old.inbox \o q \in Seq(Item)
    BY DEF Process
  <2>3. /\ new \in Process /\ new.inbox = old.inbox \o q
        /\ new.phase = old.phase /\ new.incarnation = old.incarnation
        /\ new.scan = old.scan /\ new.outbox = old.outbox /\ new.busy = old.busy
    BY <2>1, <2>2 DEF Process
  <2>4. \A i \in DOMAIN old.inbox : i \in DOMAIN new.inbox /\ new.inbox[i] = old.inbox[i]
    BY <2>2, <2>3
  <2>5. \A s \in StepIds : InHand(old, s) => InHand(new, s)
    BY <2>3, <2>4 DEF InHand
  <2> QED BY <2>3, <2>5
<1> QED BY <1>1, <1>2

\* Every process is told, or left as it is.
LEMMA Announced ==
  ASSUME NEW ws \in [Workers -> Process], NEW c \in Addressed, Store!TypeOK',
         NEW w \in Workers
  PROVE  /\ Informed(ws[w], Announce(ws, c)[w])
         /\ ws[w].phase # "down" =>
              Announce(ws, c)[w] =
                [ws[w] EXCEPT !.inbox = @ \o News(w, <<w, ws[w].incarnation>>, c)]
<1> DEFINE q == News(w, <<w, ws[w].incarnation>>, c)
<1>1. q \in Seq(Item)
  BY NewsType
<1>2. CASE ws[w].phase = "down"
  BY <1>2 DEF Announce, Informed
<1>3. CASE ws[w].phase # "down"
  <2>1. Announce(ws, c)[w] = [ws[w] EXCEPT !.inbox = @ \o q]
    BY <1>3 DEF Announce, News
  <2> QED BY <1>1, <1>3, <2>1 DEF Informed
<1> QED BY <1>2, <1>3

\* The last element of what is appended is in the inbox.
LEMMA ClaimAnnounced ==
  ASSUME NEW me \in Process, NEW s \in StepIds
  PROVE  InHand([me EXCEPT !.inbox =
                   @ \o <<[kind |-> "claim_step", step |-> s, cached |-> Nothing]>>], s)
<1> DEFINE claim == [kind |-> "claim_step", step |-> s, cached |-> Nothing]
           inbox == me.inbox \o <<claim>>
           new == [me EXCEPT !.inbox = inbox]
<1>1. claim \in Item /\ claim.kind = "claim_step" /\ claim.step = s
  BY DEF Item, Nothing
<1>2. me.inbox \in Seq(Item) /\ new.inbox = inbox
  BY DEF Process
<1> HIDE DEF claim
<1>3. Len(me.inbox) + 1 \in DOMAIN inbox /\ inbox[Len(me.inbox) + 1] = claim
  BY <1>1, <1>2
<1> HIDE DEF inbox
<1>4. InHand(new, s)
  BY <1>1, <1>2, <1>3 DEF InHand
<1> QED BY <1>4 DEF new, inbox, claim

\* What Serve does, whether the call commits or is refused.
Effect(ws, c) ==
  /\ Store!Next \/ UNCHANGED storeVars
  /\ Store!TypeOK'
  /\ DOMAIN workflow_step \subseteq DOMAIN workflow_step'
  /\ with_thread' \subseteq DOMAIN workflow_step'
  /\ TasksNamed'
  /\ worker' \in [Workers -> Process]
  /\ \A w \in Workers : Informed(ws[w], worker'[w])
  /\ \A s \in StepIds, w \in Workers : Claimable(s, w)' /\ Scanned(ws[w]) =>
       \/ /\ Claimable(s, w)
          /\ ~(c.op = "claim_step" /\ c.step = s /\ c.owner = OwnerOf[w])
       \/ InHand(worker'[w], s)

LEMMA ServeEffect ==
  ASSUME TypeOK, TasksNamed, NEW ws \in [Workers -> Process], NEW c \in Addressed,
         NEW id \in Runners, Serve(ws, c, id)
  PROVE  Effect(ws, c)
<1> USE DEF Effect
<1>0. Store!TypeOK /\ with_thread \subseteq DOMAIN workflow_step
  BY DEF TypeOK
<1>1. CASE /\ Accepted(c) /\ Commit(c, id)
           /\ with_thread' = IF c.op = "enqueue_step" /\ c.thread
                             THEN with_thread \cup {c.step} ELSE with_thread
           /\ worker' = Announce(ws, c)
  <2>1. Store!Next /\ Store!TypeOK'
    BY <1>0, <1>1, CommitIsStep, TablesTyped
  <2>2. CallEffect(c)
    BY <1>0, <1>1, CommitEffect
  <2>3. with_thread' \subseteq DOMAIN workflow_step'
    BY <1>0, <1>1, <2>2 DEF CallEffect
  <2>4. \A w \in Workers : Informed(ws[w], worker'[w])
    BY <1>1, <2>1, Announced
  <2>5. worker' \in [Workers -> Process]
    <3>1. \A w \in Workers : worker'[w] \in Process
      BY <2>4, InformedType
    <3>2. worker' = [w \in Workers |-> worker'[w]]
      BY <1>1 DEF Announce
    <3> QED BY <3>1, <3>2
  <2>6. ASSUME NEW s \in StepIds, NEW w \in Workers, Claimable(s, w)', Scanned(ws[w])
        PROVE  \/ Claimable(s, w) /\ ~(c.op = "claim_step" /\ c.step = s)
               \/ InHand(worker'[w], s)
    <3>1. CASE s = c.step /\ c.op \in {"enqueue_step", "complete_task"}
      <4>1. ws[w].phase # "down" /\ ws[w] \in Process
        BY <2>6 DEF Scanned
      <4>2. worker'[w] = [ws[w] EXCEPT !.inbox = @ \o News(w, <<w, ws[w].incarnation>>, c)]
        BY <1>1, <2>1, <4>1, Announced
      <4>3. News(w, <<w, ws[w].incarnation>>, c)
              = <<[kind |-> "claim_step", step |-> s, cached |-> Nothing]>>
        BY <2>2, <2>6, <3>1, NewsOfReady
      <4> QED BY <4>1, <4>2, <4>3, ClaimAnnounced
    <3>2. CASE ~(s = c.step /\ c.op \in {"enqueue_step", "complete_task"})
      BY <2>2, <2>6, <3>2 DEF CallEffect
    <3> QED BY <3>1, <3>2
  <2> QED BY <2>1, <2>2, <2>3, <2>4, <2>5, <2>6 DEF CallEffect
<1>2. CASE ~Accepted(c) /\ worker' = ws /\ UNCHANGED <<storeVars, with_thread>>
  <2>1. UNCHANGED storeVars /\ UNCHANGED <<workflow_step, browser_task, with_thread>>
    BY <1>2 DEF storeVars
  <2>2. Store!TypeOK'
    BY <1>0, <2>1, TablesTyped
  <2>3. TasksNamed'
    BY <2>1 DEF TasksNamed
  <2>4. \A w \in Workers : Informed(ws[w], ws[w])
    BY DEF Informed
  <2>5. ASSUME NEW s \in StepIds, NEW w \in Workers, Claimable(s, w)'
        PROVE  /\ Claimable(s, w)
               /\ ~(c.op = "claim_step" /\ c.step = s /\ c.owner = OwnerOf[w])
    <3>1. Claimable(s, w)
      BY <2>1, <2>5 DEF Claimable
    <3> QED BY <1>2, <3>1 DEF Accepted, Claimable
  <2> QED BY <1>0, <1>2, <2>1, <2>2, <2>3, <2>4, <2>5
<1> QED BY <1>1, <1>2 DEF Serve

-----------------------------------------------------------------------------
(* The steps of a process.                                                 *)

\* A step that changes one process and no table.
LEMMA ProcessStep ==
  ASSUME IInv, NEW w \in Workers, NEW me \in Process,
         worker' = [worker EXCEPT ![w] = me],
         me.outbox \in Seq(CallsOf(w)),
         crashes' \in crashes .. MaxCrashes, LivesOf(me, crashes'),
         \A s \in StepIds : Claimable(s, w) /\ Scanned(me) => InHand(me, s),
         UNCHANGED <<storeVars, with_thread, others>>
  PROVE  IInv' /\ UNCHANGED storeVars
<1> USE DEF IInv
<1>1. /\ UNCHANGED storeVars /\ UNCHANGED <<workflow_step, browser_task>>
      /\ UNCHANGED <<with_thread, dispatch, retry, cancels>>
  BY DEF storeVars, others
<1>2. Store!TypeOK'
  BY <1>1, TablesTyped DEF TypeOK
<1>3. /\ worker \in [Workers -> Process] /\ worker' \in [Workers -> Process]
      /\ worker'[w] = me /\ \A x \in Workers : x # w => worker'[x] = worker[x]
  BY DEF TypeOK
<1>4. crashes' \in 0 .. MaxCrashes /\ crashes \in Nat /\ crashes' \in Nat /\ crashes <= crashes'
  BY BoundsAssumption DEF TypeOK
<1>5. TypeOK'
  BY <1>1, <1>2, <1>3, <1>4 DEF TypeOK
<1>6. Lives'
  <2>1. ASSUME NEW x \in Workers, x # w PROVE LivesOf(worker'[x], crashes')
    <3>1. worker[x] \in Process /\ LivesOf(worker[x], crashes) /\ worker'[x] = worker[x]
      BY <1>3, <2>1 DEF Lives
    <3>2. worker[x].incarnation \in Nat
      BY <3>1, BoundsAssumption DEF Process
    <3> QED BY <1>4, <3>1, <3>2 DEF LivesOf
  <2> QED BY <1>3, <2>1 DEF Lives
<1>7. Outboxes'
  BY <1>3 DEF Outboxes
<1>8. (TasksNamed /\ RetriesKnown)'
  BY <1>1 DEF TasksNamed, RetriesKnown
<1>9. Wakeups'
  BY <1>1, <1>3 DEF Wakeups, Claimable
<1> QED BY <1>1, <1>5, <1>6, <1>7, <1>8, <1>9

LEMMA ProcessFields ==
  ASSUME IInv, NEW w \in Workers
  PROVE  /\ worker[w] \in Process
         /\ worker[w].phase \in {"down", "connected", "scanning", "serving"}
         /\ worker[w].incarnation \in 0 .. MaxCrashes + 1
         /\ worker[w].scan \in SUBSET Item /\ worker[w].inbox \in Seq(Item)
         /\ worker[w].outbox \in Seq(CallsOf(w))
         /\ worker[w].outbox \in Seq(ReducerCall)
         /\ worker[w].busy \in [Threads -> Item \cup {NONE}]
         /\ LivesOf(worker[w], crashes)
         /\ \A s \in StepIds : Claimable(s, w) /\ Scanned(worker[w]) => InHand(worker[w], s)
         /\ crashes \in crashes .. MaxCrashes
BY BoundsAssumption DEF IInv, TypeOK, Process, Lives, Outboxes, Wakeups

\* A worker that does anything has been started.
LEMMA Alive ==
  ASSUME IInv, NEW w \in Workers,
         \/ worker[w].phase # "down" \/ worker[w].inbox # <<>> \/ worker[w].scan # {}
         \/ worker[w].outbox # <<>> \/ \E th \in Threads : worker[w].busy[th] # NONE
  PROVE  worker[w].incarnation > 0
BY ProcessFields DEF LivesOf, Down

LEMMA DownType ==
  ASSUME NEW w \in Workers, NEW n \in 0 .. MaxCrashes + 1
  PROVE  /\ Down(n) \in Process /\ Down(n).phase = "down" /\ Down(n).incarnation = n
         /\ Down(n).outbox \in Seq(CallsOf(w)) /\ ~Scanned(Down(n))
BY DEF Down, Process, Scanned

LEMMA StartStep ==
  ASSUME IInv, NEW w \in Workers, Start(w) PROVE IInv' /\ UNCHANGED storeVars
<1> DEFINE n == worker[w].incarnation + 1
           me == [Down(n) EXCEPT !.phase = "connected"]
<1>1. /\ worker[w].phase = "down" /\ worker' = [worker EXCEPT ![w] = me]
      /\ UNCHANGED <<storeVars, with_thread, crashes, others>>
  BY DEF Start
<1>2. n \in 0 .. MaxCrashes + 1 /\ n <= crashes + 1 /\ n > 0
  BY <1>1, ProcessFields, BoundsAssumption DEF LivesOf, IInv, TypeOK
<1>3. Down(n) \in Process /\ Down(n).incarnation = n /\ Down(n).outbox \in Seq(CallsOf(w))
  BY <1>2, DownType
<1> HIDE DEF n
<1>4. /\ me \in Process /\ me.phase = "connected" /\ me.incarnation = n
      /\ me.outbox \in Seq(CallsOf(w))
  BY <1>3 DEF Process
<1> HIDE DEF me
<1>5. LivesOf(me, crashes') /\ ~Scanned(me) /\ crashes' \in crashes .. MaxCrashes
  BY <1>1, <1>2, <1>4, ProcessFields DEF LivesOf, Scanned
<1> QED BY <1>1, <1>4, <1>5, ProcessStep

LEMMA CrashStep ==
  ASSUME IInv, NEW w \in Workers, Crash(w) PROVE IInv' /\ UNCHANGED storeVars
<1> DEFINE n == worker[w].incarnation
<1>1. /\ worker[w].phase # "down" /\ worker' = [worker EXCEPT ![w] = Down(n)]
      /\ crashes < MaxCrashes /\ crashes' = crashes + 1
      /\ UNCHANGED <<storeVars, with_thread, others>>
  BY DEF Crash
<1>2. /\ n \in 0 .. MaxCrashes + 1 /\ n <= crashes + 1
      /\ crashes' \in crashes .. MaxCrashes
  BY <1>1, ProcessFields, BoundsAssumption DEF LivesOf, IInv, TypeOK
<1> HIDE DEF n
<1>3. n > 0
  BY <1>1, Alive DEF n
<1>4. LivesOf(Down(n), crashes') /\ Down(n) \in Process /\ ~Scanned(Down(n))
      /\ Down(n).outbox \in Seq(CallsOf(w))
  BY <1>1, <1>2, <1>3, DownType DEF LivesOf
<1> QED BY <1>1, <1>2, <1>4, ProcessStep

LEMMA ScanStep ==
  ASSUME IInv, NEW w \in Workers, ScanSteps(w) \/ ScanTasks(w)
  PROVE  IInv' /\ UNCHANGED storeVars
<1>1. Store!IsTable(browser_task, StepIds, Store!BrowserTask)
  BY DEF IInv, TypeOK, Store!TypeOK
<1>2. ASSUME NEW before \in {"connected", "scanning"}, NEW after \in {"scanning", "serving"},
             NEW rows \in SUBSET Item, Scan(w, before, after, rows),
             \A s \in StepIds : Claimable(s, w) =>
               \/ \E item \in rows : item.kind = "claim_step" /\ item.step = s
               \/ before = "scanning"
      PROVE  IInv' /\ UNCHANGED storeVars
  <2> DEFINE me == [worker[w] EXCEPT !.phase = after, !.scan = rows]
  <2>1. /\ worker[w].phase = before /\ worker[w].scan = {} /\ worker[w].inbox = <<>>
        /\ UNCHANGED <<storeVars, with_thread, crashes, others>>
    BY <1>2 DEF Scan
  <2>2. worker' = [worker EXCEPT ![w] = me]
    BY <1>2, ProcessFields DEF Scan, Process
  <2>3. /\ me \in Process /\ me.phase = after /\ me.scan = rows
        /\ me.incarnation = worker[w].incarnation /\ me.outbox = worker[w].outbox
        /\ me.inbox = worker[w].inbox
    BY <1>2, ProcessFields DEF Process
  <2> HIDE DEF me
  <2>4. LivesOf(me, crashes') /\ crashes' \in crashes .. MaxCrashes
    BY <1>2, <2>1, <2>3, ProcessFields, Alive DEF LivesOf
  <2>5. ASSUME NEW s \in StepIds, Claimable(s, w) PROVE InHand(me, s)
    <3>1. CASE before = "connected"
      BY <1>2, <2>3, <2>5, <3>1 DEF InHand
    <3>2. CASE before = "scanning"
      <4>1. InHand(worker[w], s)
        BY <2>1, <2>5, <3>2, ProcessFields DEF Scanned
      <4> QED BY <2>1, <2>3, <4>1 DEF InHand
    <3> QED BY <3>1, <3>2
  <2> QED BY <2>1, <2>2, <2>3, <2>4, <2>5, ProcessFields, ProcessStep
<1>3. CASE ScanSteps(w)
  <2> DEFINE rows == maybe_handle_step(w, Runner(w), StepIds, workflow_step, browser_task)
  <2>1. rows \in SUBSET Item
    BY <1>1, StepItems
  <2>2. \A s \in StepIds : Claimable(s, w) =>
          \E item \in rows : item.kind = "claim_step" /\ item.step = s
    <3> SUFFICES ASSUME NEW s \in StepIds, Claimable(s, w)
                 PROVE  \E item \in rows : item.kind = "claim_step" /\ item.step = s
      OBVIOUS
    <3>1. [kind |-> "claim_step", step |-> s, cached |-> Nothing] \in rows
      BY DEF Claimable, maybe_handle_step
    <3> HIDE DEF rows
    <3> QED BY <3>1
  <2>3. Scan(w, "connected", "scanning", rows)
    BY <1>3 DEF ScanSteps
  <2> HIDE DEF rows
  <2> QED BY <1>2, <2>1, <2>2, <2>3
<1>4. CASE ScanTasks(w)
  <2> DEFINE rows == maybe_handle_browser_task(w, Runner(w), StepIds, browser_task)
  <2>1. rows \in SUBSET Item
    BY TaskItems
  <2>2. Scan(w, "scanning", "serving", rows)
    BY <1>4 DEF ScanTasks
  <2> HIDE DEF rows
  <2> QED BY <1>2, <2>1, <2>2
<1> QED BY <1>3, <1>4

\* What remains of a sequence after its first element.
LEMMA TailKeeps ==
  ASSUME NEW S, NEW q \in Seq(S), q # <<>>, NEW i \in DOMAIN q, q[i] # Head(q)
  PROVE  \E j \in DOMAIN Tail(q) : Tail(q)[j] = q[i]
<1>1. Head(q) = q[1] /\ i # 1 /\ i \in 1 .. Len(q)
  OBVIOUS
<1>2. i - 1 \in DOMAIN Tail(q) /\ Tail(q)[i - 1] = q[i]
  BY <1>1
<1> QED BY <1>2

\* A thread takes an item: me is the process without it.
LEMMA HandleStep ==
  ASSUME IInv, NEW w \in Workers, NEW th \in Threads, NEW item \in Item, NEW me \in Process,
         me.phase = worker[w].phase, me.incarnation = worker[w].incarnation,
         me.outbox = worker[w].outbox, worker[w].incarnation > 0,
         \A s \in StepIds : InHand(worker[w], s) =>
           InHand(me, s) \/ (item.kind = "claim_step" /\ item.step = s),
         Handle(w, th, item, me)
  PROVE  IInv' /\ UNCHANGED storeVars
<1> DEFINE claim == Claim(item.kind, item.step, OwnerOf[w])
           new == IF ~IsRunning(item) THEN [me EXCEPT !.outbox = Append(@, claim)]
                  ELSE IF Active(w, item) THEN me ELSE [me EXCEPT !.busy[th] = item]
<1>1. worker' = [worker EXCEPT ![w] = new] /\ UNCHANGED <<storeVars, with_thread, crashes, others>>
  BY DEF Handle
<1>2. item.step \in StepIds /\ OwnerOf[w] \in ExecutionOwner
      /\ (IsRunning(item) \/ item.kind \in {"claim_step", "claim_task"})
  BY WorkerAssumption DEF Item, IsRunning
<1>3. me.outbox \in Seq(CallsOf(w)) /\ me.outbox \in Seq(ReducerCall)
      /\ me.busy \in [Threads -> Item \cup {NONE}]
  BY ProcessFields DEF Process
<1>4. /\ new \in Process /\ new.outbox \in Seq(CallsOf(w))
      /\ new.phase = me.phase /\ new.incarnation = me.incarnation
      /\ \A s \in StepIds : InHand(me, s) => InHand(new, s)
      /\ item.kind = "claim_step" => InHand(new, item.step)
  <2>1. CASE ~IsRunning(item)
    <3>1. /\ claim \in Addressed /\ claim.owner = OwnerOf[w]
          /\ claim.op = item.kind /\ claim.step = item.step
      BY <1>2, <2>1, ClaimType
    <3>2. claim \in CallsOf(w) /\ claim \in ReducerCall
      BY <3>1 DEF CallsOf, Addressed
    <3> HIDE DEF claim
    <3>3. new = [me EXCEPT !.outbox = Append(me.outbox, claim)]
      BY <2>1
    <3>4. /\ Append(me.outbox, claim) \in Seq(CallsOf(w)) /\ Append(me.outbox, claim) \in Seq(ReducerCall)
          /\ \A i \in DOMAIN me.outbox : /\ i \in DOMAIN Append(me.outbox, claim)
                                          /\ Append(me.outbox, claim)[i] = me.outbox[i]
          /\ Len(me.outbox) + 1 \in DOMAIN Append(me.outbox, claim)
          /\ Append(me.outbox, claim)[Len(me.outbox) + 1] = claim
      BY <1>3, <3>2
    <3> HIDE DEF new
    <3>5. /\ new \in Process /\ new.outbox = Append(me.outbox, claim)
          /\ new.phase = me.phase /\ new.incarnation = me.incarnation
          /\ new.inbox = me.inbox /\ new.scan = me.scan
      BY <3>3, <3>4 DEF Process
    <3>6. \A s \in StepIds : InHand(me, s) => InHand(new, s)
      BY <3>4, <3>5 DEF InHand
    <3>7. item.kind = "claim_step" => InHand(new, item.step)
      BY <3>1, <3>4, <3>5 DEF InHand
    <3> QED BY <3>4, <3>5, <3>6, <3>7
  <2>2. CASE IsRunning(item)
    <3>1. /\ new \in Process /\ new.outbox = me.outbox /\ new.phase = me.phase
          /\ new.incarnation = me.incarnation /\ new.inbox = me.inbox /\ new.scan = me.scan
      BY <1>3, <2>2 DEF Process
    <3> HIDE DEF new
    <3> QED BY <1>3, <2>2, <3>1 DEF InHand, IsRunning
  <2> QED BY <2>1, <2>2
<1> HIDE DEF new
<1>5. LivesOf(new, crashes') /\ crashes' \in crashes .. MaxCrashes
  BY <1>1, <1>4, ProcessFields DEF LivesOf
<1>6. \A s \in StepIds : Claimable(s, w) /\ Scanned(new) => InHand(new, s)
  BY <1>4, ProcessFields DEF Scanned
<1> QED BY <1>1, <1>4, <1>5, <1>6, ProcessStep

LEMMA CallbackStep ==
  ASSUME IInv, NEW w \in Workers, Callback(w) PROVE IInv' /\ UNCHANGED storeVars
<1> DEFINE inbox == worker[w].inbox
           me == [worker[w] EXCEPT !.inbox = Tail(@)]
<1>1. inbox # <<>> /\ inbox \in Seq(Item) /\ Head(inbox) \in Item /\ Tail(inbox) \in Seq(Item)
  BY ProcessFields DEF Callback
<1>2. Handle(w, "callbacks", Head(inbox), me)
  BY DEF Callback
<1>3. /\ me \in Process /\ me.inbox = Tail(inbox) /\ me.outbox = worker[w].outbox
      /\ me.phase = worker[w].phase /\ me.incarnation = worker[w].incarnation
      /\ me.scan = worker[w].scan
  BY <1>1, ProcessFields DEF Process
<1> HIDE DEF me
<1>4. ASSUME NEW s \in StepIds, InHand(worker[w], s)
      PROVE  InHand(me, s) \/ (Head(inbox).kind = "claim_step" /\ Head(inbox).step = s)
  <2>1. CASE \E i \in DOMAIN inbox : inbox[i].kind = "claim_step" /\ inbox[i].step = s
    <3>1. PICK i \in DOMAIN inbox : inbox[i].kind = "claim_step" /\ inbox[i].step = s
      BY <2>1
    <3>2. inbox[i] = Head(inbox) \/ \E j \in DOMAIN Tail(inbox) : Tail(inbox)[j] = inbox[i]
      BY <1>1, TailKeeps
    <3> QED BY <1>3, <3>1, <3>2 DEF InHand
  <2>2. CASE ~\E i \in DOMAIN inbox : inbox[i].kind = "claim_step" /\ inbox[i].step = s
    BY <1>3, <1>4, <2>2 DEF InHand
  <2> QED BY <2>1, <2>2
<1>5. "callbacks" \in Threads
  BY DEF Threads
<1>6. worker[w].incarnation > 0
  BY <1>1, Alive
<1> HIDE DEF inbox
<1> QED BY <1>1, <1>2, <1>3, <1>4, <1>5, <1>6, HandleStep

LEMMA ScanItemStep ==
  ASSUME IInv, NEW w \in Workers, ScanItem(w) PROVE IInv' /\ UNCHANGED storeVars
<1>1. PICK row \in worker[w].scan :
        Handle(w, "main",
               [row EXCEPT !.cached = IF row.kind = "run_step"
                  THEN Cached(row.step, workflow_step, browser_task) ELSE @],
               [worker[w] EXCEPT !.scan = @ \ {row}])
  BY DEF ScanItem
<1> DEFINE item == [row EXCEPT !.cached = IF row.kind = "run_step"
                      THEN Cached(row.step, workflow_step, browser_task) ELSE @]
           me == [worker[w] EXCEPT !.scan = @ \ {row}]
<1>2. row \in Item
  BY ProcessFields
<1>3. Cached(row.step, workflow_step, browser_task)
        \in [task : {"none"} \cup Store!BrowserTaskState, next : BOOLEAN]
  BY CachedType DEF IInv, TypeOK, Store!TypeOK
<1>4. item \in Item /\ item.kind = row.kind /\ item.step = row.step
  BY <1>2, <1>3 DEF Item
<1>5. /\ me \in Process /\ me.inbox = worker[w].inbox /\ me.outbox = worker[w].outbox
      /\ me.phase = worker[w].phase /\ me.incarnation = worker[w].incarnation
      /\ me.scan = worker[w].scan \ {row}
  BY ProcessFields DEF Process
<1>6. Handle(w, "main", item, me)
  BY <1>1
<1> HIDE DEF item, me
<1>7. \A s \in StepIds : InHand(worker[w], s) =>
        InHand(me, s) \/ (item.kind = "claim_step" /\ item.step = s)
  BY <1>4, <1>5 DEF InHand
<1>8. "main" \in Threads
  BY DEF Threads
<1>9. worker[w].incarnation > 0
  BY Alive
<1> QED BY <1>4, <1>5, <1>6, <1>7, <1>8, <1>9, HandleStep

LEMMA FinishedStep ==
  ASSUME IInv, NEW w \in Workers, NEW th \in Threads, NEW sent \in Seq(CallsOf(w)),
         worker[w].busy[th] # NONE,
         Finish(w, th, sent)
  PROVE  IInv' /\ UNCHANGED storeVars
<1>a. worker[w].incarnation > 0
  BY Alive
<1> DEFINE outbox == worker[w].outbox \o sent
           me == [worker[w] EXCEPT !.outbox = outbox, !.busy[th] = NONE]
<1>1. /\ worker' = [worker EXCEPT ![w] = me]
      /\ UNCHANGED <<storeVars, with_thread, crashes, others>>
  <2> DEFINE half == [worker EXCEPT ![w] = [worker[w] EXCEPT !.outbox = outbox]]
  <2>1. /\ worker' = [half EXCEPT ![w] = [half[w] EXCEPT !.busy = [half[w].busy EXCEPT ![th] = NONE]]]
        /\ UNCHANGED <<storeVars, with_thread, crashes, others>>
    BY ProcessFields DEF Finish, IInv, TypeOK
  <2>2. worker \in [Workers -> Process] /\ half[w] = [worker[w] EXCEPT !.outbox = outbox]
        /\ half[w].busy = worker[w].busy
    BY ProcessFields DEF IInv, TypeOK, Process
  <2>3. me = [half[w] EXCEPT !.busy = [half[w].busy EXCEPT ![th] = NONE]]
    BY <2>2, ProcessFields DEF Process
  <2>4. ASSUME NEW x PROVE [half EXCEPT ![w] = x] = [worker EXCEPT ![w] = x]
    BY <2>2
  <2> HIDE DEF me, half
  <2> QED BY <2>1, <2>3, <2>4
<1>2. worker[w].outbox \in Seq(CallsOf(w)) /\ outbox \in Seq(CallsOf(w))
  BY ProcessFields
<1>3. \A i \in DOMAIN worker[w].outbox : i \in DOMAIN outbox /\ outbox[i] = worker[w].outbox[i]
  BY <1>2
<1>4. outbox \in Seq(ReducerCall)
  <2>1. sent \in Seq(ReducerCall)
    BY DEF CallsOf, Addressed
  <2> QED BY <2>1, ProcessFields
<1> HIDE DEF outbox
<1>5. /\ me \in Process /\ me.inbox = worker[w].inbox /\ me.outbox = outbox
      /\ me.phase = worker[w].phase /\ me.incarnation = worker[w].incarnation
      /\ me.scan = worker[w].scan
  BY <1>4, ProcessFields DEF Process
<1> HIDE DEF me
<1>6. LivesOf(me, crashes') /\ crashes' \in crashes .. MaxCrashes
  BY <1>a, <1>1, <1>5, ProcessFields DEF LivesOf
<1>7. \A s \in StepIds : InHand(worker[w], s) => InHand(me, s)
  BY <1>3, <1>5 DEF InHand
<1>8. \A s \in StepIds : Claimable(s, w) /\ Scanned(me) => InHand(me, s)
  BY <1>5, <1>7, ProcessFields DEF Scanned
<1> QED BY <1>1, <1>2, <1>5, <1>6, <1>8, ProcessStep

LEMMA FinishStepStep ==
  ASSUME IInv, NEW w \in Workers, NEW th \in Threads, FinishStep(w, th) \/ FinishTask(w, th)
  PROVE  IInv' /\ UNCHANGED storeVars
<1> DEFINE item == worker[w].busy[th]
<1>1. item # NONE => item.step \in StepIds
  BY ProcessFields DEF Item
<1>2. CASE FinishStep(w, th)
  <2>1. PICK cached : item # NONE /\ Finish(w, th, process_workflow_step(w, item.step, cached))
    BY <1>2 DEF FinishStep
  <2>2. process_workflow_step(w, item.step, cached) \in Seq(CallsOf(w))
    BY <1>1, <2>1, ExecutionCalls
  <2> QED BY <2>1, <2>2, FinishedStep
<1>3. CASE FinishTask(w, th)
  <2>1. PICK op \in {"complete_task", "fail_task"} :
          item # NONE /\ Finish(w, th, <<Call(op, item.step)>>)
    BY <1>3 DEF FinishTask
  <2>2. <<Call(op, item.step)>> \in Seq(CallsOf(w))
    BY <1>1, <2>1, CallType
  <2> QED BY <2>1, <2>2, FinishedStep
<1> QED BY <1>2, <1>3

-----------------------------------------------------------------------------
(* The steps of the server, of control planes and of operators.            *)

\* A call is taken; ws are the processes without it.
LEMMA ServedStep ==
  ASSUME IInv, NEW ws \in [Workers -> Process], NEW c \in Addressed, NEW id \in Runners,
         Serve(ws, c, id),
         \A w \in Workers : /\ ws[w].phase = worker[w].phase
                            /\ ws[w].incarnation = worker[w].incarnation
                            /\ ws[w].outbox \in Seq(CallsOf(w))
                            /\ ws[w] = worker[w] \/ worker[w].incarnation > 0,
         \A s \in StepIds, w \in Workers : InHand(worker[w], s) =>
           \/ InHand(ws[w], s)
           \/ c.op = "claim_step" /\ c.step = s /\ c.owner = OwnerOf[w],
         dispatch' \in [RunIds -> 0 .. 8],
         retry' \in [RunIds -> [count : 0 .. MaxRetries, step : StepIds \cup {NONE}]],
         \A r \in RunIds : retry'[r].step # NONE => retry'[r].step = retry[r].step,
         UNCHANGED <<crashes, cancels>>
  PROVE  IInv' /\ (Store!Next \/ UNCHANGED storeVars)
<1>1. TypeOK /\ Lives /\ TasksNamed /\ RetriesKnown /\ Wakeups
  BY DEF IInv
<1>2. Effect(ws, c)
  BY <1>1, ServeEffect
<1> DEFINE Same(w) == /\ worker'[w] \in Process
                      /\ worker'[w].phase = worker[w].phase
                      /\ worker'[w].incarnation = worker[w].incarnation
                      /\ worker'[w].outbox = ws[w].outbox
                      /\ worker'[w].incarnation > 0 \/ worker'[w] = Down(0)
                      /\ \A s \in StepIds : InHand(ws[w], s) => InHand(worker'[w], s)
<1>3. ASSUME NEW w \in Workers PROVE Same(w)
  <2>1. ws[w] \in Process /\ Informed(ws[w], worker'[w])
    BY <1>2 DEF Effect
  <2>2. worker'[w].incarnation > 0 \/ worker'[w] = Down(0)
    <3>1. CASE worker[w].incarnation > 0
      BY <2>1, <3>1, InformedType
    <3>2. CASE ws[w] = worker[w] /\ worker[w] = Down(0)
      BY <2>1, <3>2 DEF Informed, Down
    <3> QED BY <1>1, <3>1, <3>2 DEF Lives, LivesOf
  <2> QED BY <2>1, <2>2, InformedType
<1>4. TypeOK'
  BY <1>1, <1>2 DEF TypeOK, Effect
<1>5. Lives'
  BY <1>1, <1>3 DEF Lives, LivesOf
<1>6. Outboxes'
  BY <1>3 DEF Outboxes
<1>7. RetriesKnown'
  BY <1>1, <1>2 DEF RetriesKnown, Effect
<1>8. Wakeups'
  <2> SUFFICES ASSUME NEW s \in StepIds, NEW w \in Workers, Claimable(s, w)', Scanned(worker'[w])
               PROVE  InHand(worker'[w], s)
    BY DEF Wakeups
  <2>1. Scanned(ws[w]) /\ Scanned(worker[w])
    BY <1>3 DEF Scanned
  <2>2. CASE Claimable(s, w) /\ ~(c.op = "claim_step" /\ c.step = s /\ c.owner = OwnerOf[w])
    <3>1. InHand(worker[w], s)
      BY <1>1, <2>1, <2>2 DEF Wakeups
    <3> QED BY <1>3, <2>2, <3>1
  <2> QED BY <1>2, <2>1, <2>2 DEF Effect
<1>9. TasksNamed' /\ (Store!Next \/ UNCHANGED storeVars)
  BY <1>2 DEF Effect
<1> QED BY <1>4, <1>5, <1>6, <1>7, <1>8, <1>9 DEF IInv

LEMMA ServeWorkerStep ==
  ASSUME IInv, NEW w \in Workers, ServeWorker(w)
  PROVE  IInv' /\ (Store!Next \/ UNCHANGED storeVars)
<1> DEFINE outbox == worker[w].outbox
           c == Head(outbox)
           me == [worker[w] EXCEPT !.outbox = Tail(outbox)]
           ws == [worker EXCEPT ![w] = me]
<1>1. /\ outbox # <<>> /\ outbox \in Seq(CallsOf(w)) /\ outbox \in Seq(ReducerCall)
      /\ c \in CallsOf(w) /\ Tail(outbox) \in Seq(CallsOf(w)) /\ Tail(outbox) \in Seq(ReducerCall)
  BY ProcessFields DEF ServeWorker
<1>2. Serve([worker EXCEPT ![w].outbox = Tail(@)], c, Runner(w)) /\ UNCHANGED <<crashes, others>>
  BY DEF ServeWorker
<1>3. worker \in [Workers -> Process]
  BY DEF IInv, TypeOK
<1>4. ws = [worker EXCEPT ![w].outbox = Tail(@)]
  OBVIOUS
<1>5. Serve(ws, c, Runner(w))
  BY <1>2, <1>4
<1>6. worker[w].incarnation > 0
  BY <1>1, Alive
<1>7. Runner(w) \in Runners
  BY <1>6, ProcessFields, BoundsAssumption DEF Runner, Runners
<1>8. /\ me \in Process /\ me.phase = worker[w].phase /\ me.incarnation = worker[w].incarnation
      /\ me.scan = worker[w].scan /\ me.inbox = worker[w].inbox /\ me.outbox = Tail(outbox)
  BY <1>1, ProcessFields DEF Process
<1>9. c \in Addressed /\ (c.op = "claim_step" => c.owner = OwnerOf[w])
  BY <1>1 DEF CallsOf
<1>10. ASSUME NEW s \in StepIds, InHand(worker[w], s)
       PROVE  InHand(me, s) \/ (c.op = "claim_step" /\ c.step = s)
  <2>1. CASE \E i \in DOMAIN outbox : outbox[i].op = "claim_step" /\ outbox[i].step = s
    <3>1. PICK i \in DOMAIN outbox : outbox[i].op = "claim_step" /\ outbox[i].step = s
      BY <2>1
    <3>2. outbox[i] = c \/ \E j \in DOMAIN Tail(outbox) : Tail(outbox)[j] = outbox[i]
      BY <1>1, TailKeeps
    <3> QED BY <1>8, <3>1, <3>2 DEF InHand
  <2>2. CASE ~\E i \in DOMAIN outbox : outbox[i].op = "claim_step" /\ outbox[i].step = s
    BY <1>8, <1>10, <2>2 DEF InHand
  <2> QED BY <2>1, <2>2
<1> HIDE DEF me, c
<1>11. ws \in [Workers -> Process] /\ ws[w] = me /\ \A x \in Workers : x # w => ws[x] = worker[x]
  BY <1>3, <1>8
<1> HIDE DEF ws
<1>12. \A x \in Workers : /\ ws[x].phase = worker[x].phase
                          /\ ws[x].incarnation = worker[x].incarnation
                          /\ ws[x].outbox \in Seq(CallsOf(x))
                          /\ ws[x] = worker[x] \/ worker[x].incarnation > 0
  BY <1>1, <1>6, <1>8, <1>11, ProcessFields
<1>13. \A s \in StepIds, x \in Workers : InHand(worker[x], s) =>
         \/ InHand(ws[x], s)
         \/ c.op = "claim_step" /\ c.step = s /\ c.owner = OwnerOf[x]
  BY <1>9, <1>10, <1>11
<1>14. /\ dispatch' \in [RunIds -> 0 .. 8]
       /\ retry' \in [RunIds -> [count : 0 .. MaxRetries, step : StepIds \cup {NONE}]]
       /\ retry' = retry /\ UNCHANGED <<crashes, cancels>>
  BY <1>2 DEF others, IInv, TypeOK
<1> QED BY <1>5, <1>7, <1>9, <1>11, <1>12, <1>13, <1>14, ServedStep

\* A call that no worker has in its outbox.
LEMMA PlaneStep ==
  ASSUME IInv, NEW c \in Addressed, Serve(worker, c, Plane),
         dispatch' \in [RunIds -> 0 .. 8],
         retry' \in [RunIds -> [count : 0 .. MaxRetries, step : StepIds \cup {NONE}]],
         \A r \in RunIds : retry'[r].step # NONE => retry'[r].step = retry[r].step,
         UNCHANGED <<crashes, cancels>>
  PROVE  IInv' /\ (Store!Next \/ UNCHANGED storeVars)
<1>1. Plane \in Runners
  BY DEF Runners
<1>2. worker \in [Workers -> Process]
  BY DEF IInv, TypeOK
<1>3. \A w \in Workers : worker[w].outbox \in Seq(CallsOf(w))
  BY ProcessFields
<1> QED BY <1>1, <1>2, <1>3, ServedStep

LEMMA SixAndOne ==
  ASSUME NEW S, NEW a \in S, NEW b \in S, NEW c \in S, NEW d \in S, NEW e \in S, NEW f \in S,
         NEW rest, rest = <<>> \/ \E g \in S : rest = <<g>>
  PROVE  <<a, b, c, d, e, f>> \o rest \in Seq(S) /\ Len(<<a, b, c, d, e, f>> \o rest) <= 7
<1>1. <<a, b, c, d, e, f>> \in Seq(S) /\ Len(<<a, b, c, d, e, f>>) = 6
  OBVIOUS
<1>2. rest \in Seq(S) /\ Len(rest) <= 1
  <2>1. CASE rest = <<>>
    BY <2>1
  <2>2. ASSUME NEW g \in S, rest = <<g>> PROVE rest \in Seq(S) /\ Len(rest) <= 1
    <3>1. <<g>> \in Seq(S) /\ Len(<<g>>) = 1
      OBVIOUS
    <3> QED BY <2>2, <3>1
  <2> QED BY <2>1, <2>2
<1> QED BY <1>1, <1>2

LEMMA DispatchCallsType ==
  ASSUME NEW r \in RunIds
  PROVE  DispatchCalls(r) \in Seq(Addressed) /\ Len(DispatchCalls(r)) <= 7
<1> DEFINE route == <<r, "route", 0>>
           stage == next_stage("route")
           first == <<Call("register_agent", route), Call("ingest_inbound", route),
                      Call("start_run", route),
                      Enqueue(route, owner_for_stage("route"), NONE, FALSE),
                      Claim("claim_step", route, Target), Call("complete_step", route)>>
           rest == IF stage = NONE THEN <<>> ELSE
                     <<Enqueue(<<r, stage, 0>>, owner_for_stage(stage), route, TRUE)>>
<1>1. route \in StepIds
  BY StepIdMade, BoundsAssumption DEF AllStages
<1> HIDE DEF route
<1>2. \A op \in {"register_agent", "ingest_inbound", "start_run", "complete_step"} :
        Call(op, route) \in Addressed
  BY <1>1 DEF Call, Addressed, ReducerCall
<1>3. Claim("claim_step", route, Target) \in Addressed
  BY <1>1, ClaimType, WorkerAssumption DEF ExecutionOwner, ExecutionTarget
<1>4. ASSUME NEW s \in StepIds, NEW owner \in ExecutionOwner, NEW dep \in StepIds \cup {NONE},
             NEW thread \in BOOLEAN
      PROVE  Enqueue(s, owner, dep, thread) \in Addressed
  BY DEF Enqueue, Addressed, ReducerCall
<1>5. Enqueue(route, owner_for_stage("route"), NONE, FALSE) \in Addressed
  BY <1>1, <1>4, OwnerForStage
<1>6. rest = <<>> \/ \E g \in Addressed : rest = <<g>>
  <2>1. CASE stage = NONE
    BY <2>1
  <2>2. CASE stage # NONE
    <3>1. <<r, stage, 0>> \in StepIds
      BY <2>2, NextStage, StepIdMade, BoundsAssumption
    <3>2. owner_for_stage(stage) \in ExecutionOwner
      BY OwnerForStage
    <3>3. Enqueue(<<r, stage, 0>>, owner_for_stage(stage), route, TRUE) \in Addressed
      BY <1>1, <1>4, <3>1, <3>2
    <3> QED BY <2>2, <3>3
  <2> QED BY <2>1, <2>2
<1>7. DispatchCalls(r) = first \o rest
  BY DEF DispatchCalls, route
<1> HIDE DEF rest
<1>8. first \o rest \in Seq(Addressed) /\ Len(first \o rest) <= 7
  BY <1>2, <1>3, <1>5, <1>6, SixAndOne
<1> QED BY <1>7, <1>8

LEMMA DispatchStep ==
  ASSUME IInv, NEW r \in RunIds, Dispatch(r)
  PROVE  IInv' /\ (Store!Next \/ UNCHANGED storeVars)
<1> DEFINE n == dispatch[r]
           c == DispatchCalls(r)[n]
           after == IF Accepted(c) THEN n + 1 ELSE Stopped
<1>1. n \in DOMAIN DispatchCalls(r) /\ Serve(worker, c, Plane) /\ UNCHANGED <<retry, crashes, cancels>>
  BY DEF Dispatch
<1>2. dispatch' = [dispatch EXCEPT ![r] = after] /\ dispatch \in [RunIds -> 0 .. 8]
  BY DEF Dispatch, IInv, TypeOK
<1>3. n \in 1 .. 7 /\ c \in Addressed
  BY <1>1, DispatchCallsType
<1> HIDE DEF c, n
<1>4. after \in 0 .. 8
  BY <1>3 DEF Stopped
<1> HIDE DEF after
<1>5. dispatch' \in [RunIds -> 0 .. 8]
  BY <1>2, <1>4
<1>6. retry' \in [RunIds -> [count : 0 .. MaxRetries, step : StepIds \cup {NONE}]]
  BY <1>1 DEF IInv, TypeOK
<1> QED BY <1>1, <1>3, <1>5, <1>6, PlaneStep

LEMMA RetryEnqueuesStep ==
  ASSUME IInv, NEW r \in RunIds, RetryEnqueues(r)
  PROVE  IInv' /\ (Store!Next \/ UNCHANGED storeVars)
<1> DEFINE s == retry[r].step
           n == retry[r].count
           owner == workflow_step[s].owner
           dep == workflow_step[s].depends_on
           thread == s \in with_thread
           c == Enqueue(<<r, StageOf(s), n>>, owner, dep, thread)
<1>1. s # NONE /\ Serve(worker, c, Plane) /\ retry' = [retry EXCEPT ![r].step = NONE]
      /\ UNCHANGED <<dispatch, crashes, cancels>>
  BY DEF RetryEnqueues
<1>2. retry \in [RunIds -> [count : 0 .. MaxRetries, step : StepIds \cup {NONE}]]
  BY DEF IInv, TypeOK
<1>3. s \in StepIds /\ s \in DOMAIN workflow_step /\ n \in 0 .. MaxRetries
  BY <1>1, <1>2 DEF IInv, RetriesKnown
<1>4. workflow_step[s] \in Store!WorkflowStep
  BY <1>3 DEF IInv, TypeOK, Store!TypeOK, Store!IsTable
<1>5. owner \in ExecutionOwner /\ dep \in StepIds \cup {NONE} /\ thread \in BOOLEAN
  BY <1>4 DEF Store!WorkflowStep
<1>6. <<r, StageOf(s), n>> \in StepIds
  BY <1>3, StepIdParts, StepIdMade
<1> HIDE DEF owner, dep, thread
<1>7. c \in Addressed
  BY <1>5, <1>6 DEF Enqueue, Addressed, ReducerCall
<1> HIDE DEF c
<1>8. /\ retry' \in [RunIds -> [count : 0 .. MaxRetries, step : StepIds \cup {NONE}]]
      /\ \A q \in RunIds : retry'[q].step # NONE => retry'[q].step = retry[q].step
  BY <1>1, <1>2
<1>9. dispatch' \in [RunIds -> 0 .. 8]
  BY <1>1 DEF IInv, TypeOK
<1> QED BY <1>1, <1>7, <1>8, <1>9, PlaneStep

\* Steps that touch no table and no process.
LEMMA ObserverStep ==
  ASSUME IInv, UNCHANGED <<storeVars, with_thread, worker, cancels>>,
         crashes' \in crashes .. MaxCrashes,
         dispatch' \in [RunIds -> 0 .. 8],
         retry' \in [RunIds -> [count : 0 .. MaxRetries, step : StepIds \cup {NONE}]],
         RetriesKnown'
  PROVE  IInv' /\ UNCHANGED storeVars
<1>1. UNCHANGED storeVars /\ UNCHANGED <<workflow_step, browser_task, with_thread, worker, cancels>>
  BY DEF storeVars
<1>2. TypeOK /\ Lives /\ Outboxes /\ TasksNamed /\ Wakeups
  BY DEF IInv
<1>3. Store!TypeOK'
  BY <1>1, <1>2, TablesTyped DEF TypeOK
<1>4. crashes' \in 0 .. MaxCrashes /\ crashes \in Nat /\ crashes' \in Nat /\ crashes <= crashes'
  BY <1>2, BoundsAssumption DEF TypeOK
<1>5. TypeOK'
  BY <1>1, <1>2, <1>3, <1>4 DEF TypeOK
<1>6. Lives'
  <2>1. \A w \in Workers : worker[w].incarnation \in Nat
    BY <1>2, BoundsAssumption DEF TypeOK, Process
  <2> QED BY <1>1, <1>2, <1>4, <2>1 DEF Lives, LivesOf
<1>7. (Outboxes /\ TasksNamed /\ Wakeups)'
  BY <1>1, <1>2 DEF Outboxes, TasksNamed, Wakeups, Claimable
<1> QED BY <1>1, <1>5, <1>6, <1>7 DEF IInv

LEMMA DispatchDiesStep ==
  ASSUME IInv, NEW r \in RunIds, DispatchDies(r) PROVE IInv' /\ UNCHANGED storeVars
<1>1. /\ dispatch' = [dispatch EXCEPT ![r] = 0] /\ crashes < MaxCrashes /\ crashes' = crashes + 1
      /\ UNCHANGED <<storeVars, with_thread, worker, retry, cancels>>
  BY DEF DispatchDies, Stopped
<1>2. crashes' \in crashes .. MaxCrashes /\ dispatch' \in [RunIds -> 0 .. 8]
  BY <1>1, BoundsAssumption DEF IInv, TypeOK
<1>3. RetriesKnown'
  BY <1>1 DEF IInv, RetriesKnown, storeVars
<1>4. retry' \in [RunIds -> [count : 0 .. MaxRetries, step : StepIds \cup {NONE}]]
  BY <1>1 DEF IInv, TypeOK
<1> QED BY <1>1, <1>2, <1>3, <1>4, ObserverStep

LEMMA RetryReadsStep ==
  ASSUME IInv, NEW r \in RunIds, RetryReads(r) PROVE IInv' /\ UNCHANGED storeVars
<1>1. PICK s \in DOMAIN workflow_step :
        /\ retry' = [retry EXCEPT ![r] = [count |-> @.count + 1, step |-> s]]
        /\ retry[r].count < MaxRetries
        /\ UNCHANGED <<storeVars, with_thread, dispatch, worker, crashes, cancels>>
  BY DEF RetryReads, Retryable
<1>2. retry \in [RunIds -> [count : 0 .. MaxRetries, step : StepIds \cup {NONE}]]
      /\ DOMAIN workflow_step \subseteq StepIds
  BY DEF IInv, TypeOK, Store!TypeOK, Store!IsTable
<1>3. retry' \in [RunIds -> [count : 0 .. MaxRetries, step : StepIds \cup {NONE}]]
  BY <1>1, <1>2, BoundsAssumption
<1>4. RetriesKnown'
  BY <1>1, <1>2 DEF IInv, RetriesKnown, storeVars
<1>5. crashes' \in crashes .. MaxCrashes /\ dispatch' \in [RunIds -> 0 .. 8]
  BY <1>1, BoundsAssumption DEF IInv, TypeOK
<1> QED BY <1>1, <1>3, <1>4, <1>5, ObserverStep

LEMMA CancelStep ==
  ASSUME IInv, NEW r \in RunIds, cancel_run(r) PROVE IInv' /\ Store!Next
<1>1. /\ cancels < MaxCancels /\ cancels' = cancels + 1 /\ Store!update_run_status(r, "cancelled")
      /\ UNCHANGED <<with_thread, dispatch, worker, retry, crashes>>
  BY DEF cancel_run
<1>2. Store!Next
  BY <1>1 DEF Store!Next, Store!RunNext, Store!ReportedRunStates
<1>3. UNCHANGED <<workflow_step, browser_task>>
  BY <1>1 DEF Store!update_run_status
<1>4. TypeOK /\ Lives /\ Outboxes /\ TasksNamed /\ RetriesKnown /\ Wakeups
  BY DEF IInv
<1>5. Store!TypeOK'
  BY <1>2, <1>4, TablesTyped DEF TypeOK
<1>6. cancels' \in 0 .. MaxCancels
  BY <1>1, <1>4, BoundsAssumption DEF TypeOK
<1>7. TypeOK'
  BY <1>1, <1>3, <1>4, <1>5, <1>6 DEF TypeOK
<1>8. (Lives /\ Outboxes /\ TasksNamed /\ RetriesKnown /\ Wakeups)'
  BY <1>1, <1>3, <1>4 DEF Lives, Outboxes, TasksNamed, RetriesKnown, Wakeups, Claimable
<1> QED BY <1>2, <1>7, <1>8 DEF IInv

-----------------------------------------------------------------------------
(* The system.                                                             *)

LEMMA InitIInv == Init => IInv /\ Store!Init
<1> SUFFICES ASSUME Init PROVE IInv /\ Store!Init
  OBVIOUS
<1>1. Store!Init /\ Store!TypeOK
  <2>1. Tables!Init
    BY DEF Init, Store!Init, Tables!Init, Store!EmptyTable, Tables!EmptyTable
  <2>2. Tables!TypeOK
    BY <2>1, Tables!TypeInit, NoneAssumption DEF AllStages
  <2> QED BY <2>2, SameTypes DEF Init
<1>2. workflow_step = Store!EmptyTable /\ browser_task = Store!EmptyTable
  BY <1>1 DEF Store!Init
<1>3. DOMAIN workflow_step = {} /\ DOMAIN browser_task = {}
  BY <1>2 DEF Store!EmptyTable
<1>4. 0 \in 0 .. MaxCrashes + 1 /\ 0 \in 0 .. MaxCrashes /\ 0 \in 0 .. MaxCancels /\ 0 \in 0 .. MaxRetries
  BY BoundsAssumption
<1>5. /\ worker = [w \in Workers |-> Down(0)] /\ crashes = 0 /\ cancels = 0 /\ with_thread = {}
      /\ dispatch \in [RunIds -> 0 .. 8]
      /\ retry = [r \in RunIds |-> [count |-> 0, step |-> NONE]]
  BY DEF Init
<1>6. TypeOK
  BY <1>1, <1>4, <1>5, DownType DEF TypeOK
<1>7. Lives /\ Outboxes /\ TasksNamed /\ RetriesKnown /\ Wakeups
  BY <1>3, <1>4, <1>5, DownType
     DEF Lives, LivesOf, Outboxes, TasksNamed, RetriesKnown, Wakeups, Claimable
<1> QED BY <1>1, <1>6, <1>7 DEF IInv

LEMMA NextIInv == IInv /\ [Next]_vars => IInv' /\ [Store!Next]_storeVars
<1> SUFFICES ASSUME IInv, [Next]_vars PROVE IInv' /\ (Store!Next \/ UNCHANGED storeVars)
  OBVIOUS
<1>1. CASE UNCHANGED vars
  <2>1. /\ UNCHANGED <<storeVars, with_thread, worker, cancels>>
        /\ UNCHANGED <<crashes, dispatch, retry, workflow_step>>
    BY <1>1 DEF vars, storeVars
  <2>2. crashes' \in crashes .. MaxCrashes
    BY <2>1, BoundsAssumption DEF IInv, TypeOK
  <2>3. RetriesKnown'
    BY <2>1 DEF IInv, RetriesKnown
  <2>4. dispatch' \in [RunIds -> 0 .. 8]
        /\ retry' \in [RunIds -> [count : 0 .. MaxRetries, step : StepIds \cup {NONE}]]
    BY <2>1 DEF IInv, TypeOK
  <2> QED BY <2>1, <2>2, <2>3, <2>4, ObserverStep
<1>2. ASSUME NEW w \in Workers, WorkerNext(w) \/ Crash(w)
      PROVE  IInv' /\ (Store!Next \/ UNCHANGED storeVars)
  BY <1>2, StartStep, ScanStep, CallbackStep, ScanItemStep, FinishStepStep, ServeWorkerStep,
     CrashStep DEF WorkerNext
<1>3. ASSUME NEW r \in RunIds,
             Dispatch(r) \/ DispatchDies(r) \/ RetryReads(r) \/ RetryEnqueues(r) \/ cancel_run(r)
      PROVE  IInv' /\ (Store!Next \/ UNCHANGED storeVars)
  BY <1>3, DispatchStep, DispatchDiesStep, RetryReadsStep, RetryEnqueuesStep, CancelStep
<1> QED BY <1>1, <1>2, <1>3 DEF Next

LEMMA Inductive == Spec => []IInv
BY InitIInv, NextIInv, PTL DEF Spec

\* The tables keep their rows' shape and the processes theirs.
THEOREM TypeCorrect == Spec => []TypeOK
<1>1. IInv => TypeOK
  BY DEF IInv
<1> QED BY <1>1, Inductive, PTL

\* A step that can be claimed is in the hands of every worker that has scanned
\* (run_worker registers its callbacks before it scans), for any number of
\* workers that start and die at any time.
THEOREM WakeupsHold == Spec => []NoLostWakeup
<1>1. IInv => NoLostWakeup
  <2> SUFFICES ASSUME IInv, NEW s \in DOMAIN workflow_step, NEW w \in Workers,
                      workflow_step[s].status = "ready", workflow_step[s].owner = OwnerOf[w],
                      worker[w].phase \in {"scanning", "serving"}
               PROVE  InHand(worker[w], s)
    BY DEF NoLostWakeup, InHand
  <2>1. s \in StepIds
    BY DEF IInv, TypeOK, Store!TypeOK, Store!IsTable
  <2> QED BY <2>1 DEF IInv, Wakeups, Claimable, Scanned
<1> QED BY <1>1, Inductive, PTL

\* Workers, dispatches, retries and cancels only do to the tables what their
\* reducers allow: the running system implements WorkflowStore.
THEOREM ImplementsStore == Spec => Store!Spec
<1>1. Store!vars = storeVars
  BY DEF Store!vars, storeVars
<1>2. IInv /\ [Next]_vars => [Store!Next]_(Store!vars)
  BY <1>1, NextIInv DEF storeVars, Store!vars
<1> QED BY <1>2, InitIInv, Inductive, PTL DEF Spec, Store!Spec

\* In a running system no row names a missing row, completed runs are stamped, and
\* a step or run that waits has a task that is still open.
THEOREM TablesHold ==
  Spec => [](/\ Store!ReferentialIntegrity /\ Store!CompletionStamp
             /\ Store!StepWaitsAreAnswerable /\ Store!RunWaitsAreAnswerable)
<1>1. Tables!Spec => [](/\ Tables!ReferentialIntegrity /\ Tables!CompletionStamp
                        /\ Tables!StepWaitsAreAnswerable /\ Tables!RunWaitsAreAnswerable)
  <2>1. Tables!Spec => []Tables!ReferentialIntegrity
    BY Tables!RefsHold, NoneAssumption DEF AllStages
  <2>2. Tables!Spec => []Tables!CompletionStamp
    BY Tables!StampsHold, NoneAssumption DEF AllStages
  <2>3. Tables!Spec => []Tables!StepWaitsAreAnswerable
    BY Tables!StepWaitsHold, NoneAssumption DEF AllStages
  <2>4. Tables!Spec => []Tables!RunWaitsAreAnswerable
    BY Tables!RunWaitsHold, NoneAssumption DEF AllStages
  <2> QED BY <2>1, <2>2, <2>3, <2>4, PTL
<1>2. Tables!ReferentialIntegrity => Store!ReferentialIntegrity
  BY DEF Store!ReferentialIntegrity, Tables!ReferentialIntegrity, Store!EventAndRunRefs,
     Tables!EventAndRunRefs, Store!StepRefs, Tables!StepRefs, Store!ApprovalRefs,
     Tables!ApprovalRefs, Store!TaskRefs, Tables!TaskRefs
<1>3. Tables!CompletionStamp => Store!CompletionStamp
  BY DEF Store!CompletionStamp, Tables!CompletionStamp
<1>4. Tables!StepWaitsAreAnswerable => Store!StepWaitsAreAnswerable
  BY DEF Store!StepWaitsAreAnswerable, Tables!StepWaitsAreAnswerable, Store!StepAwaitsPending,
     Tables!StepAwaitsPending, Store!StepBlockedOnTask, Tables!StepBlockedOnTask,
     Store!OpenTask, Tables!OpenTask
<1>5. Tables!RunWaitsAreAnswerable => Store!RunWaitsAreAnswerable
  BY DEF Store!RunWaitsAreAnswerable, Tables!RunWaitsAreAnswerable, Store!RunAwaitsPending,
     Tables!RunAwaitsPending, Store!RunBlockedOnTask, Tables!RunBlockedOnTask,
     Store!OpenTask, Tables!OpenTask
<1>6. Store!Spec => Tables!Spec
  <2>1. Store!Init => Tables!Init
    BY DEF Store!Init, Tables!Init, Store!EmptyTable, Tables!EmptyTable
  <2>2. [Store!Next]_(Store!vars) => [Tables!Next]_(Tables!vars)
    BY SameSteps DEF Store!vars, Tables!vars
  <2> QED BY <2>1, <2>2, PTL DEF Store!Spec, Tables!Spec
<1> QED BY <1>1, <1>2, <1>3, <1>4, <1>5, <1>6, ImplementsStore, PTL

-----------------------------------------------------------------------------
(* What a committed call does to the rows.                                 *)

\* Rows carry their ids: a step its run and stage, a browser task its run.
Named ==
  /\ \A s \in DOMAIN workflow_step :
       workflow_step[s].run = RunOf(s) /\ workflow_step[s].stage = StageOf(s)
  /\ \A k \in DOMAIN browser_task : browser_task[k].run = RunOf(k)

\* The status a call leaves its step in.
StepAfter ==
  [enqueue_step |-> "ready", claim_step |-> "running", complete_step |-> "completed",
   fail_step |-> "failed", enqueue_task |-> "blocked", complete_task |-> "ready",
   fail_task |-> "failed"]

TaskAfter ==
  [enqueue_task |-> "queued", claim_task |-> "running", complete_task |-> "completed",
   fail_task |-> "failed"]

NewStep(c) ==
  [status |-> "ready", run |-> RunOf(c.step), stage |-> StageOf(c.step), owner |-> c.owner,
   depends_on |-> c.dep, approval |-> NONE, runner |-> NONE]

StepRows(c, id) ==
  LET s == c.step
      now == workflow_step'[s]
      was == workflow_step[s]
  IN  /\ DOMAIN workflow_step' =
           IF c.op = "enqueue_step" THEN DOMAIN workflow_step \cup {s} ELSE DOMAIN workflow_step
      /\ \A t \in DOMAIN workflow_step : t # s => workflow_step'[t] = workflow_step[t]
      /\ c.op \notin DOMAIN StepAfter => workflow_step' = workflow_step
      /\ c.op = "enqueue_step" => s \notin DOMAIN workflow_step /\ now = NewStep(c)
      /\ c.op \in DOMAIN StepAfter \ {"enqueue_step"} =>
           /\ s \in DOMAIN workflow_step
           /\ now.status = StepAfter[c.op]
           /\ now.owner = was.owner /\ now.depends_on = was.depends_on
           /\ now.run = was.run /\ now.stage = was.stage
           /\ now.runner = IF c.op = "claim_step" THEN id ELSE was.runner
      /\ c.op = "claim_step" => was.status = "ready" /\ was.owner = c.owner

TaskRows(c, id) ==
  LET k == c.step
      now == browser_task'[k]
      was == browser_task[k]
  IN  /\ DOMAIN browser_task' =
           IF c.op = "enqueue_task" THEN DOMAIN browser_task \cup {k} ELSE DOMAIN browser_task
      /\ \A t \in DOMAIN browser_task : t # k => browser_task'[t] = browser_task[t]
      /\ c.op \notin DOMAIN TaskAfter => browser_task' = browser_task
      /\ c.op = "enqueue_task" => k \notin DOMAIN browser_task /\ now.runner = NONE
      /\ c.op \in DOMAIN TaskAfter => now.status = TaskAfter[c.op] /\ now.run = RunOf(k)
      /\ c.op \in DOMAIN TaskAfter \ {"enqueue_task"} =>
           /\ k \in DOMAIN browser_task
           /\ now.runner = IF c.op = "claim_task" THEN id ELSE was.runner
      /\ c.op = "claim_task" => was.status = "queued"

\* Calls that may write the row of their step's run.
RunCalls == {"start_run", "enqueue_step", "complete_step", "fail_step", "enqueue_task",
             "complete_task", "fail_task"}

RunRows(c) ==
  /\ DOMAIN workflow_run \subseteq DOMAIN workflow_run'
  /\ \A r \in DOMAIN workflow_run' :
       \/ r \in DOMAIN workflow_run /\ workflow_run'[r] = workflow_run[r]
       \/ /\ r = RunOf(c.step) /\ c.op \in RunCalls
          /\ c.op = "start_run" => r \notin DOMAIN workflow_run
          /\ workflow_run'[r].status = "completed" =>
               c.op = "complete_step" /\ StageOf(c.step) = "learn"

\* A committed call writes the step rows so,
LEMMA StepRowsOf ==
  ASSUME Store!TypeOK, TasksNamed, Named, NEW c \in Addressed, NEW id \in Runners, Commit(c, id)
  PROVE  StepRows(c, id)
<1> DEFINE s == c.step
<1> HIDE DEF s
<1>t. /\ workflow_step = [t \in DOMAIN workflow_step |-> workflow_step[t]]
      /\ \A t \in DOMAIN workflow_step : workflow_step[t] \in Store!WorkflowStep
      /\ \A k \in DOMAIN browser_task : browser_task[k].step = k
  BY DEF Store!TypeOK, Store!IsTable, TasksNamed
<1>a. DOMAIN StepAfter = {"enqueue_step", "claim_step", "complete_step", "fail_step",
                          "enqueue_task", "complete_task", "fail_task"}
  BY DEF StepAfter
<1>1. CASE c.op \in {"register_agent", "ingest_inbound", "ingest_summary", "start_run", "claim_task"}
  <2>1. UNCHANGED workflow_step
    BY <1>1 DEF Commit, Store!register_agent, Store!ingest_message, Store!start_workflow_run,
       Store!claim_browser_task
  <2> QED BY <1>1, <1>a, <2>1 DEF StepRows
<1>2. CASE c.op = "enqueue_step"
  <2>1. Store!enqueue_workflow_step(s, RunOf(s), StageOf(s), c.owner, c.dep)
    BY <1>2 DEF Commit, s
  <2>2. /\ s \notin DOMAIN workflow_step
        /\ DOMAIN workflow_step' = DOMAIN workflow_step \cup {s}
        /\ \A t \in DOMAIN workflow_step : t # s => workflow_step'[t] = workflow_step[t]
        /\ workflow_step'[s] = [status |-> "ready", run |-> RunOf(s), stage |-> StageOf(s),
             owner |-> c.owner, depends_on |-> c.dep, approval |-> NONE, runner |-> NONE]
    BY <2>1 DEF Store!enqueue_workflow_step, Store!Insert
  <2> QED BY <1>2, <1>a, <2>2 DEF StepRows, NewStep, s
<1>3. ASSUME NEW then, s \in DOMAIN workflow_step,
             workflow_step' = [workflow_step EXCEPT ![s].status = then]
      PROVE  /\ DOMAIN workflow_step' = DOMAIN workflow_step
             /\ \A t \in DOMAIN workflow_step : t # s => workflow_step'[t] = workflow_step[t]
             /\ workflow_step'[s].status = then /\ workflow_step'[s].runner = workflow_step[s].runner
             /\ workflow_step'[s].owner = workflow_step[s].owner
             /\ workflow_step'[s].depends_on = workflow_step[s].depends_on
             /\ workflow_step'[s].run = workflow_step[s].run
             /\ workflow_step'[s].stage = workflow_step[s].stage
  BY <1>t, <1>3 DEF Store!WorkflowStep
<1>4. CASE c.op = "claim_step"
  <2>1. Store!claim_workflow_step(s, c.owner, id)
    BY <1>4 DEF Commit, s
  <2>2. /\ s \in DOMAIN workflow_step
        /\ workflow_step[s].owner = c.owner /\ workflow_step[s].status = "ready"
        /\ workflow_step' = [workflow_step EXCEPT ![s].status = "running", ![s].runner = id]
    BY <2>1 DEF Store!claim_workflow_step
  <2>3. /\ DOMAIN workflow_step' = DOMAIN workflow_step
        /\ \A t \in DOMAIN workflow_step : t # s => workflow_step'[t] = workflow_step[t]
        /\ workflow_step'[s].status = "running" /\ workflow_step'[s].runner = id
        /\ workflow_step'[s].owner = workflow_step[s].owner
        /\ workflow_step'[s].depends_on = workflow_step[s].depends_on
        /\ workflow_step'[s].run = workflow_step[s].run
        /\ workflow_step'[s].stage = workflow_step[s].stage
    BY <1>t, <2>2 DEF Store!WorkflowStep
  <2>4. StepAfter[c.op] = "running"
    BY <1>4 DEF StepAfter
  <2> QED BY <1>4, <1>a, <2>2, <2>3, <2>4 DEF StepRows, s
<1>5. CASE c.op \in {"complete_step", "fail_step", "enqueue_task", "complete_task", "fail_task"}
  <2>1. /\ s \in DOMAIN workflow_step
        /\ workflow_step' = [workflow_step EXCEPT ![s].status = StepAfter[c.op]]
    <3>1. CASE c.op = "complete_step"
      BY <3>1 DEF Commit, Store!complete_workflow_step, StepAfter, s
    <3>2. CASE c.op = "fail_step"
      BY <3>2 DEF Commit, Store!fail_workflow_step, StepAfter, s
    <3>3. CASE c.op = "enqueue_task"
      BY <3>3 DEF Commit, Store!enqueue_browser_task, Store!block_linked_step, StepAfter, s
    <3>4. CASE c.op = "complete_task"
      BY <1>t, <3>4 DEF Commit, Store!complete_browser_task, Store!block_linked_step, StepAfter, s
    <3>5. CASE c.op = "fail_task"
      BY <1>t, <3>5 DEF Commit, Store!fail_browser_task, Store!block_linked_step, StepAfter, s
    <3> QED BY <1>5, <3>1, <3>2, <3>3, <3>4, <3>5
  <2> DEFINE then == StepAfter[c.op]
  <2> HIDE DEF then
  <2>2. workflow_step' = [workflow_step EXCEPT ![s].status = then]
    BY <2>1 DEF then
  <2>3. /\ DOMAIN workflow_step' = DOMAIN workflow_step
        /\ \A t \in DOMAIN workflow_step : t # s => workflow_step'[t] = workflow_step[t]
        /\ workflow_step'[s].status = then /\ workflow_step'[s].runner = workflow_step[s].runner
        /\ workflow_step'[s].owner = workflow_step[s].owner
        /\ workflow_step'[s].depends_on = workflow_step[s].depends_on
        /\ workflow_step'[s].run = workflow_step[s].run
        /\ workflow_step'[s].stage = workflow_step[s].stage
    BY <1>3, <2>1, <2>2
  <2> QED BY <1>5, <1>a, <2>1, <2>3 DEF StepRows, s, then
<1> QED BY <1>1, <1>2, <1>4, <1>5 DEF Commit

\* the browser task rows so,
LEMMA TaskRowsOf ==
  ASSUME Store!TypeOK, Named, NEW c \in Addressed, NEW id \in Runners, Commit(c, id)
  PROVE  TaskRows(c, id)
<1> DEFINE k == c.step
<1> HIDE DEF k
<1>t. /\ browser_task = [t \in DOMAIN browser_task |-> browser_task[t]]
      /\ \A t \in DOMAIN browser_task : /\ browser_task[t] \in Store!BrowserTask
                                        /\ browser_task[t].run = RunOf(t)
  BY DEF Store!TypeOK, Store!IsTable, Named
<1>a. DOMAIN TaskAfter = {"enqueue_task", "claim_task", "complete_task", "fail_task"}
  BY DEF TaskAfter
<1>1. CASE c.op \notin DOMAIN TaskAfter
  <2>1. UNCHANGED browser_task
    BY <1>1, <1>a DEF Commit, Store!register_agent, Store!ingest_message, Store!start_workflow_run,
       Store!enqueue_workflow_step, Store!claim_workflow_step, Store!complete_workflow_step,
       Store!fail_workflow_step
  <2> QED BY <1>1, <1>a, <2>1 DEF TaskRows
<1>2. CASE c.op = "enqueue_task"
  <2>1. Store!enqueue_browser_task(k, RunOf(k), k)
    BY <1>2 DEF Commit, k
  <2>2. /\ k \notin DOMAIN browser_task
        /\ DOMAIN browser_task' = DOMAIN browser_task \cup {k}
        /\ \A t \in DOMAIN browser_task : t # k => browser_task'[t] = browser_task[t]
        /\ browser_task'[k] = [status |-> "queued", run |-> RunOf(k), step |-> k, runner |-> NONE]
    BY <2>1 DEF Store!enqueue_browser_task, Store!Insert
  <2>3. TaskAfter[c.op] = "queued"
    BY <1>2 DEF TaskAfter
  <2> QED BY <1>2, <1>a, <2>2, <2>3 DEF TaskRows, k
<1>3. CASE c.op = "claim_task"
  <2>1. Store!claim_browser_task(k, id)
    BY <1>3 DEF Commit, k
  <2>2. /\ k \in DOMAIN browser_task /\ browser_task[k].status = "queued"
        /\ browser_task' = [browser_task EXCEPT ![k].status = "running", ![k].runner = id]
    BY <2>1 DEF Store!claim_browser_task
  <2>3. /\ DOMAIN browser_task' = DOMAIN browser_task
        /\ \A t \in DOMAIN browser_task : t # k => browser_task'[t] = browser_task[t]
        /\ browser_task'[k].status = "running" /\ browser_task'[k].runner = id
        /\ browser_task'[k].run = RunOf(k)
    BY <1>t, <2>2 DEF Store!BrowserTask
  <2>4. TaskAfter[c.op] = "running"
    BY <1>3 DEF TaskAfter
  <2> QED BY <1>3, <1>a, <2>2, <2>3, <2>4 DEF TaskRows, k
<1>4. CASE c.op \in {"complete_task", "fail_task"}
  <2> DEFINE then == TaskAfter[c.op]
  <2>1. k \in DOMAIN browser_task /\ browser_task' = [browser_task EXCEPT ![k].status = then]
    <3>1. CASE c.op = "complete_task"
      BY <3>1 DEF Commit, Store!complete_browser_task, TaskAfter, k
    <3>2. CASE c.op = "fail_task"
      BY <3>2 DEF Commit, Store!fail_browser_task, TaskAfter, k
    <3> QED BY <1>4, <3>1, <3>2
  <2> HIDE DEF then
  <2>2. /\ DOMAIN browser_task' = DOMAIN browser_task
        /\ \A t \in DOMAIN browser_task : t # k => browser_task'[t] = browser_task[t]
        /\ browser_task'[k].status = then /\ browser_task'[k].runner = browser_task[k].runner
        /\ browser_task'[k].run = RunOf(k)
    BY <1>t, <2>1 DEF Store!BrowserTask
  <2> QED BY <1>4, <1>a, <2>1, <2>2 DEF TaskRows, k, then
<1> QED BY <1>1, <1>2, <1>3, <1>4, <1>a

\* and the run rows so.
LEMMA RunRowsOf ==
  ASSUME Store!TypeOK, Named, NEW c \in Addressed, NEW id \in Runners, Commit(c, id)
  PROVE  RunRows(c)
<1> DEFINE s == c.step
           q == RunOf(s)
<1> HIDE DEF s, q
<1>t. /\ workflow_run = [r \in DOMAIN workflow_run |-> workflow_run[r]]
      /\ \A r \in DOMAIN workflow_run : workflow_run[r] \in Store!WorkflowRun
  BY DEF Store!TypeOK, Store!IsTable
<1>1. CASE c.op \notin RunCalls
  <2>1. UNCHANGED workflow_run
    BY <1>1 DEF Commit, RunCalls, Store!register_agent, Store!ingest_message,
       Store!claim_workflow_step, Store!claim_browser_task
  <2> QED BY <2>1 DEF RunRows
<1>2. CASE c.op = "start_run"
  <2>1. Store!start_workflow_run(q, q, Agent)
    BY <1>2 DEF Commit, q, s
  <2>2. /\ q \notin DOMAIN workflow_run
        /\ DOMAIN workflow_run' = DOMAIN workflow_run \cup {q}
        /\ \A r \in DOMAIN workflow_run : workflow_run'[r] = workflow_run[r]
        /\ workflow_run'[q].status = "queued"
    BY <2>1 DEF Store!start_workflow_run, Store!Insert
  <2> QED BY <1>2, <2>2 DEF RunRows, RunCalls, q, s
<1>3. ASSUME NEW status, NEW stage, NEW completed,
             Store!update_workflow_run_status(q, status, stage, completed)
      PROVE  /\ DOMAIN workflow_run' = DOMAIN workflow_run
             /\ \A r \in DOMAIN workflow_run : r # q => workflow_run'[r] = workflow_run[r]
             /\ q \in DOMAIN workflow_run /\ workflow_run'[q].status = status
  BY <1>t, <1>3 DEF Store!update_workflow_run_status, Store!WorkflowRun
<1>4. ASSUME NEW status, NEW stage, NEW completed, c.op \in RunCalls \ {"start_run"},
             Store!update_workflow_run_status(q, status, stage, completed),
             status = "completed" => c.op = "complete_step" /\ StageOf(s) = "learn"
      PROVE  RunRows(c)
  BY <1>3, <1>4 DEF RunRows, q, s
<1>5. CASE c.op \in RunCalls \ {"start_run"}
  <2>1. CASE c.op = "enqueue_step"
    <3>1. Store!update_workflow_run_status(q, "queued", StageOf(s), FALSE)
      BY <2>1 DEF Commit, Store!enqueue_workflow_step, q, s
    <3> QED BY <1>4, <1>5, <3>1
  <2>2. CASE c.op = "complete_step"
    <3> DEFINE status == Store!run_status_after_step_completion(StageOf(s))
    <3>1. Store!complete_workflow_step(s)
      BY <2>2 DEF Commit, s
    <3>2. workflow_step[s].run = q /\ workflow_step[s].stage = StageOf(s)
      BY <3>1 DEF Store!complete_workflow_step, Named, q
    <3>3. Store!update_workflow_run_status(q, status, StageOf(s), status = "completed")
      BY <3>1, <3>2 DEF Store!complete_workflow_step
    <3>4. status = "completed" => StageOf(s) = "learn"
      BY DEF Store!run_status_after_step_completion
    <3> HIDE DEF status
    <3> QED BY <1>4, <1>5, <2>2, <3>3, <3>4
  <2>3. CASE c.op = "fail_step"
    <3>1. Store!fail_workflow_step(s)
      BY <2>3 DEF Commit, s
    <3>2. Store!update_workflow_run_status(q, "failed", StageOf(s), TRUE)
      BY <3>1 DEF Store!fail_workflow_step, Named, q
    <3> QED BY <1>4, <1>5, <3>2
  <2>4. CASE c.op = "enqueue_task"
    <3>1. Store!update_workflow_run_status(q, "blocked", "gather", FALSE)
      BY <2>4 DEF Commit, Store!enqueue_browser_task, q, s
    <3> QED BY <1>4, <1>5, <3>1
  <2>5. CASE c.op = "complete_task"
    <3>1. Store!complete_browser_task(s)
      BY <2>5 DEF Commit, s
    <3>2. Store!update_workflow_run_status(q, "running", "verify", FALSE)
      BY <3>1 DEF Store!complete_browser_task, Named, q
    <3> QED BY <1>4, <1>5, <3>2
  <2>6. CASE c.op = "fail_task"
    <3>1. Store!fail_browser_task(s)
      BY <2>6 DEF Commit, s
    <3>2. Store!update_workflow_run_status(q, "failed", "verify", TRUE)
      BY <3>1 DEF Store!fail_browser_task, Named, q
    <3> QED BY <1>4, <1>5, <3>2
  <2> QED BY <1>5, <2>1, <2>2, <2>3, <2>4, <2>5, <2>6 DEF RunCalls
<1> QED BY <1>1, <1>2, <1>5

-----------------------------------------------------------------------------
(* What a process is told, and what it does, field by field.               *)

\* The row x that w, as runner who, is sent of call c, committed by id.
Told(w, who, id, c, x) ==
  /\ x.step = c.step
  /\ x.kind = "run_step" => /\ c.op = "claim_step" /\ id = who
                            /\ workflow_step'[c.step].owner = OwnerOf[w]
                            /\ x.cached = Cached(c.step, workflow_step', browser_task')
  /\ x.kind = "run_task" => c.op = "claim_task" /\ id = who

\* What is announced to a process is a row it is told.
LEMMA NewsTold ==
  ASSUME NEW w \in Workers, NEW who, NEW id \in Runners, NEW c \in Addressed, Store!TypeOK',
         StepRows(c, id), TaskRows(c, id)
  PROVE  \/ News(w, who, c) = <<>>
         \/ \E x \in Item : News(w, who, c) = <<x>> /\ Told(w, who, id, c, x)
<1> DEFINE steps == maybe_handle_step(w, who, StepWritten(c), workflow_step', browser_task')
           tasks == maybe_handle_browser_task(w, who, TaskWritten(c), browser_task')
<1>1. StepWritten(c) \in SUBSET StepIds /\ TaskWritten(c) \in SUBSET StepIds
  BY DEF StepWritten, TaskWritten, Addressed, ReducerCall
<1>2. Store!IsTable(browser_task', StepIds, Store!BrowserTask)
  BY DEF Store!TypeOK, Store!IsTable, Store!BrowserTask, Store!BrowserTaskState
<1>3. steps \in SUBSET Item /\ tasks \in SUBSET Item
  BY <1>1, <1>2, StepItems, TaskItems
<1>4. ASSUME NEW x \in steps PROVE Told(w, who, id, c, x)
  <2>1. c.op \in DOMAIN StepAfter /\ c.op # "claim_step" => workflow_step'[c.step].status # "running"
    <3>1. c.op = "enqueue_step" => workflow_step'[c.step].status = "ready"
      BY DEF StepRows, NewStep
    <3>2. c.op \in DOMAIN StepAfter \ {"enqueue_step"} => workflow_step'[c.step].status = StepAfter[c.op]
      BY DEF StepRows
    <3>3. c.op \in DOMAIN StepAfter /\ c.op # "claim_step" => StepAfter[c.op] # "running"
      BY DEF StepAfter
    <3> QED BY <3>1, <3>2, <3>3
  <2>2. c.op = "claim_step" => workflow_step'[c.step].runner = id
    BY DEF StepRows, StepAfter
  <2>3. StepWritten(c) \subseteq {c.step} /\ (StepWritten(c) # {} => c.op \in DOMAIN StepAfter)
    BY DEF StepWritten, StepAfter
  <2>4. CASE x \in {[kind |-> "claim_step", step |-> s, cached |-> Nothing] :
                      s \in {s \in StepWritten(c) \cap DOMAIN workflow_step' :
                               /\ workflow_step'[s].owner = OwnerOf[w]
                               /\ workflow_step'[s].status = "ready"}}
    BY <2>3, <2>4 DEF Told
  <2>5. CASE x \in {[kind |-> "run_step", step |-> s, cached |-> Cached(s, workflow_step', browser_task')] :
                      s \in {s \in StepWritten(c) \cap DOMAIN workflow_step' :
                               /\ workflow_step'[s].owner = OwnerOf[w]
                               /\ workflow_step'[s].status = "running"
                               /\ workflow_step'[s].runner = who}}
    BY <2>1, <2>2, <2>3, <2>5 DEF Told
  <2> QED BY <2>4, <2>5 DEF maybe_handle_step
<1>5. ASSUME NEW x \in tasks PROVE Told(w, who, id, c, x)
  <2>1. TaskWritten(c) \subseteq {c.step} /\ (TaskWritten(c) # {} => c.op \in DOMAIN TaskAfter)
    BY DEF TaskWritten, TaskAfter
  <2>2. c.op \in DOMAIN TaskAfter /\ c.op # "claim_task" => browser_task'[c.step].status # "running"
    <3>1. c.op \in DOMAIN TaskAfter => browser_task'[c.step].status = TaskAfter[c.op]
      BY DEF TaskRows
    <3>2. c.op \in DOMAIN TaskAfter /\ c.op # "claim_task" => TaskAfter[c.op] # "running"
      BY DEF TaskAfter
    <3> QED BY <3>1, <3>2
  <2>3. c.op = "claim_task" => browser_task'[c.step].runner = id
    BY DEF TaskRows, TaskAfter
  <2>4. CASE OwnerOf[w] # "browser-worker"
    BY <2>4 DEF maybe_handle_browser_task
  <2>5. CASE x \in {[kind |-> "claim_task", step |-> s, cached |-> Nothing] :
                      s \in {s \in TaskWritten(c) \cap DOMAIN browser_task' :
                               browser_task'[s].status = "queued"}}
    BY <2>1, <2>5 DEF Told
  <2>6. CASE x \in {[kind |-> "run_task", step |-> s, cached |-> Nothing] :
                      s \in {s \in TaskWritten(c) \cap DOMAIN browser_task' :
                               /\ browser_task'[s].status = "running"
                               /\ browser_task'[s].runner = who}}
    BY <2>1, <2>2, <2>3, <2>6 DEF Told
  <2> QED BY <2>4, <2>5, <2>6 DEF maybe_handle_browser_task
<1>6. News(w, who, c) = AsSeq(steps \cup tasks)
  BY DEF News
<1> HIDE DEF steps, tasks
<1>7. CASE steps \cup tasks = {}
  BY <1>6, <1>7 DEF AsSeq
<1>8. CASE steps \cup tasks # {}
  <2> DEFINE x == CHOOSE x \in steps \cup tasks : TRUE
  <2>1. x \in steps \cup tasks
    BY <1>8
  <2>2. News(w, who, c) = <<x>>
    BY <1>6, <1>8 DEF AsSeq
  <2> HIDE DEF x
  <2> QED BY <1>3, <1>4, <1>5, <2>1, <2>2
<1> QED BY <1>7, <1>8

\* What Serve does: rows are written and processes told, or the call is refused.
Served(ws, c, id) ==
  \/ /\ Accepted(c) /\ StepRows(c, id) /\ TaskRows(c, id) /\ RunRows(c)
     /\ \A w \in Workers :
          \/ worker'[w] = ws[w]
          \/ \E x \in Item : /\ Told(w, <<w, ws[w].incarnation>>, id, c, x)
                             /\ worker'[w] = [ws[w] EXCEPT !.inbox = Append(@, x)]
  \/ /\ ~Accepted(c) /\ UNCHANGED <<workflow_run, workflow_step, browser_task>>
     /\ \A w \in Workers : worker'[w] = ws[w]

\* The server takes a call: tables and processes afterwards.
LEMMA ServeServed ==
  ASSUME TypeOK, TasksNamed, Named, NEW ws \in [Workers -> Process], NEW c \in Addressed,
         NEW id \in Runners, Serve(ws, c, id)
  PROVE  Served(ws, c, id)
<1>0. Store!TypeOK
  BY DEF TypeOK
<1>1. CASE Accepted(c) /\ Commit(c, id) /\ worker' = Announce(ws, c)
  <2>1. Store!TypeOK'
    BY <1>0, <1>1, CommitIsStep, TablesTyped
  <2>2. StepRows(c, id) /\ TaskRows(c, id) /\ RunRows(c)
    BY <1>0, <1>1, StepRowsOf, TaskRowsOf, RunRowsOf
  <2>3. ASSUME NEW w \in Workers
        PROVE  \/ worker'[w] = ws[w]
               \/ \E x \in Item : /\ Told(w, <<w, ws[w].incarnation>>, id, c, x)
                                  /\ worker'[w] = [ws[w] EXCEPT !.inbox = Append(@, x)]
    <3> DEFINE who == <<w, ws[w].incarnation>>
    <3>1. CASE ws[w].phase = "down"
      BY <1>1, <3>1 DEF Announce
    <3>2. CASE ws[w].phase # "down"
      <4>1. worker'[w] = [ws[w] EXCEPT !.inbox = @ \o News(w, who, c)] /\ ws[w] \in Process
        BY <1>1, <2>1, <3>2, Announced
      <4>2. ws[w].inbox \in Seq(Item)
        BY <4>1 DEF Process
      <4> HIDE DEF who
      <4>3. CASE News(w, who, c) = <<>>
        <5>1. ws[w].inbox \o <<>> = ws[w].inbox
          BY <4>2
        <5> QED BY <4>1, <4>3, <5>1 DEF Process
      <4>4. ASSUME NEW x \in Item, News(w, who, c) = <<x>>, Told(w, who, id, c, x)
            PROVE  worker'[w] = [ws[w] EXCEPT !.inbox = Append(@, x)]
        <5>1. ws[w].inbox \o <<x>> = Append(ws[w].inbox, x)
          BY <4>2
        <5> QED BY <4>1, <4>4, <5>1
      <4> QED BY <2>1, <2>2, <4>3, <4>4, NewsTold DEF who
    <3> QED BY <3>1, <3>2
  <2> QED BY <1>1, <2>2, <2>3 DEF Served
<1>2. CASE ~Accepted(c) /\ worker' = ws /\ UNCHANGED storeVars
  BY <1>2 DEF Served, storeVars
<1> QED BY <1>1, <1>2 DEF Serve

\* A thread of w takes an item off its inbox or off its scan and is then me.
Took(w, th, item, inbox, scan, me) ==
  /\ worker' = [worker EXCEPT ![w] = me] /\ me \in Process
  /\ me.incarnation = worker[w].incarnation /\ me.inbox = inbox /\ me.scan = scan
  /\ th \in Threads /\ item \in Item
  /\ \/ /\ ~IsRunning(item) /\ me.busy = worker[w].busy
        /\ me.outbox = Append(worker[w].outbox, Claim(item.kind, item.step, OwnerOf[w]))
     \/ IsRunning(item) /\ me.outbox = worker[w].outbox /\ me.busy = worker[w].busy
     \/ /\ IsRunning(item) /\ ~Active(w, item) /\ me.outbox = worker[w].outbox
        /\ me.busy = [worker[w].busy EXCEPT ![th] = item]
  /\ UNCHANGED <<storeVars, others>>

\* Handling a row, field by field.
LEMMA HandleTook ==
  ASSUME IInv, IInv', NEW w \in Workers, NEW th \in Threads, NEW item \in Item, NEW me \in Process,
         me.incarnation = worker[w].incarnation, me.outbox = worker[w].outbox,
         me.busy = worker[w].busy, Handle(w, th, item, me)
  PROVE  Took(w, th, item, me.inbox, me.scan, worker'[w])
<1> DEFINE new == IF ~IsRunning(item)
                  THEN [me EXCEPT !.outbox = Append(@, Claim(item.kind, item.step, OwnerOf[w]))]
                  ELSE IF Active(w, item) THEN me ELSE [me EXCEPT !.busy[th] = item]
<1>1. worker' = [worker EXCEPT ![w] = new] /\ UNCHANGED <<storeVars, others>>
  BY DEF Handle
<1>2. worker' \in [Workers -> Process] /\ worker \in [Workers -> Process]
  BY DEF IInv, TypeOK
<1>3. worker'[w] = new
  BY <1>1, <1>2
<1>4. CASE ~IsRunning(item)
  <2>1. new = [me EXCEPT !.outbox = Append(@, Claim(item.kind, item.step, OwnerOf[w]))]
    BY <1>4
  <2> HIDE DEF new
  <2>2. /\ new.outbox = Append(me.outbox, Claim(item.kind, item.step, OwnerOf[w]))
        /\ new.busy = me.busy /\ new.incarnation = me.incarnation
        /\ new.inbox = me.inbox /\ new.scan = me.scan
    BY <2>1 DEF Process
  <2> QED BY <1>1, <1>2, <1>3, <1>4, <2>2 DEF Took
<1>5. CASE IsRunning(item) /\ Active(w, item)
  <2>1. new = me
    BY <1>5
  <2> HIDE DEF new
  <2> QED BY <1>1, <1>2, <1>3, <1>5, <2>1 DEF Took
<1>6. CASE IsRunning(item) /\ ~Active(w, item)
  <2>1. new = [me EXCEPT !.busy[th] = item]
    BY <1>6
  <2> HIDE DEF new
  <2>2. /\ new.busy = [me.busy EXCEPT ![th] = item]
        /\ new.outbox = me.outbox /\ new.incarnation = me.incarnation
        /\ new.inbox = me.inbox /\ new.scan = me.scan
    BY <2>1 DEF Process
  <2> QED BY <1>1, <1>2, <1>3, <1>6, <2>2 DEF Took
<1> QED BY <1>4, <1>5, <1>6

\* The callback thread takes the oldest row,
LEMMA CallbackTook ==
  ASSUME IInv, IInv', NEW w \in Workers, Callback(w)
  PROVE  /\ worker[w].inbox # <<>> /\ worker[w].inbox \in Seq(Item)
         /\ worker[w].busy["callbacks"] = NONE
         /\ Took(w, "callbacks", Head(worker[w].inbox), Tail(worker[w].inbox), worker[w].scan, worker'[w])
<1> DEFINE inbox == worker[w].inbox
           me == [worker[w] EXCEPT !.inbox = Tail(@)]
<1>1. inbox # <<>> /\ inbox \in Seq(Item) /\ Head(inbox) \in Item /\ Tail(inbox) \in Seq(Item)
      /\ worker[w].busy["callbacks"] = NONE
  BY ProcessFields DEF Callback
<1>2. Handle(w, "callbacks", Head(inbox), me)
  BY DEF Callback
<1>3. /\ me \in Process /\ me.inbox = Tail(inbox) /\ me.outbox = worker[w].outbox
      /\ me.incarnation = worker[w].incarnation /\ me.scan = worker[w].scan
      /\ me.busy = worker[w].busy
  BY <1>1, ProcessFields DEF Process
<1>4. "callbacks" \in Threads
  BY DEF Threads
<1> HIDE DEF me
<1>5. Took(w, "callbacks", Head(inbox), me.inbox, me.scan, worker'[w])
  BY <1>1, <1>2, <1>3, <1>4, HandleTook
<1> QED BY <1>1, <1>3, <1>5

\* the main thread one of its scan.
LEMMA ScanItemTook ==
  ASSUME IInv, IInv', NEW w \in Workers, ScanItem(w)
  PROVE  \E row \in worker[w].scan, item \in Item :
           /\ item.kind = row.kind /\ item.step = row.step
           /\ Took(w, "main", item, worker[w].inbox, worker[w].scan \ {row}, worker'[w])
<1>1. PICK row \in worker[w].scan :
        Handle(w, "main",
               [row EXCEPT !.cached = IF row.kind = "run_step"
                  THEN Cached(row.step, workflow_step, browser_task) ELSE @],
               [worker[w] EXCEPT !.scan = @ \ {row}])
  BY DEF ScanItem
<1> DEFINE item == [row EXCEPT !.cached = IF row.kind = "run_step"
                      THEN Cached(row.step, workflow_step, browser_task) ELSE @]
           me == [worker[w] EXCEPT !.scan = @ \ {row}]
<1>2. row \in Item
  BY ProcessFields
<1>3. Cached(row.step, workflow_step, browser_task)
        \in [task : {"none"} \cup Store!BrowserTaskState, next : BOOLEAN]
  BY CachedType DEF IInv, TypeOK, Store!TypeOK
<1>4. item \in Item /\ item.kind = row.kind /\ item.step = row.step
  BY <1>2, <1>3 DEF Item
<1>5. /\ me \in Process /\ me.inbox = worker[w].inbox /\ me.outbox = worker[w].outbox
      /\ me.incarnation = worker[w].incarnation /\ me.busy = worker[w].busy
      /\ me.scan = worker[w].scan \ {row}
  BY ProcessFields DEF Process
<1>6. Handle(w, "main", item, me) /\ "main" \in Threads
  BY <1>1 DEF Threads
<1> HIDE DEF item, me
<1>7. Took(w, "main", item, me.inbox, me.scan, worker'[w])
  BY <1>4, <1>5, <1>6, HandleTook
<1> QED BY <1>4, <1>5, <1>7

\* A thread of w sends what its work comes to and is free again: w is then me.
Finished(w, th, sent, me) ==
  /\ worker' = [worker EXCEPT ![w] = me] /\ me \in Process
  /\ me.incarnation = worker[w].incarnation
  /\ me.inbox = worker[w].inbox /\ me.scan = worker[w].scan
  /\ me.outbox = worker[w].outbox \o sent /\ sent \in Seq(CallsOf(w))
  /\ me.busy = [worker[w].busy EXCEPT ![th] = NONE]
  /\ worker[w].busy[th] \in Item /\ worker[w].busy[th] # NONE
  /\ UNCHANGED <<storeVars, others>>

\* The end of an execution, field by field.
LEMMA FinishFinished ==
  ASSUME IInv, IInv', NEW w \in Workers, NEW th \in Threads, NEW sent \in Seq(CallsOf(w)),
         worker[w].busy[th] # NONE, Finish(w, th, sent)
  PROVE  Finished(w, th, sent, worker'[w])
<1>1. /\ worker' = [worker EXCEPT ![w].outbox = @ \o sent, ![w].busy[th] = NONE]
      /\ UNCHANGED <<storeVars, others>>
  BY DEF Finish
<1>2. worker' \in [Workers -> Process] /\ worker \in [Workers -> Process]
  BY DEF IInv, TypeOK
<1> DEFINE half == [worker EXCEPT ![w] = [worker[w] EXCEPT !.outbox = @ \o sent]]
<1>3. worker' = [half EXCEPT ![w] = [half[w] EXCEPT !.busy = [half[w].busy EXCEPT ![th] = NONE]]]
  BY <1>1, <1>2, ProcessFields
<1>4. half[w] = [worker[w] EXCEPT !.outbox = @ \o sent] /\ half \in [Workers -> {half[x] : x \in Workers}]
      /\ \A x \in Workers : x # w => half[x] = worker[x]
  BY <1>2
<1>5. /\ half[w].busy = worker[w].busy /\ half[w].outbox = worker[w].outbox \o sent
      /\ half[w].inbox = worker[w].inbox /\ half[w].scan = worker[w].scan
      /\ half[w].incarnation = worker[w].incarnation
      /\ half[w] \in [phase : {half[w].phase}, incarnation : {half[w].incarnation},
                      scan : {half[w].scan}, inbox : {half[w].inbox}, outbox : {half[w].outbox},
                      busy : {half[w].busy}]
  BY <1>4, ProcessFields DEF Process
<1> HIDE DEF half
<1>6. worker'[w] = [half[w] EXCEPT !.busy = [half[w].busy EXCEPT ![th] = NONE]]
      /\ \A x \in Workers : x # w => worker'[x] = worker[x]
  BY <1>3, <1>4
<1>7. /\ worker'[w].busy = [worker[w].busy EXCEPT ![th] = NONE]
      /\ worker'[w].outbox = worker[w].outbox \o sent
      /\ worker'[w].inbox = worker[w].inbox /\ worker'[w].scan = worker[w].scan
      /\ worker'[w].incarnation = worker[w].incarnation
  BY <1>5, <1>6
<1>8. worker' = [worker EXCEPT ![w] = worker'[w]]
  BY <1>2, <1>6
<1>9. worker[w].busy[th] \in Item
  BY ProcessFields
<1> QED BY <1>1, <1>2, <1>7, <1>8, <1>9 DEF Finished

-----------------------------------------------------------------------------
(* Whose work it is: for any workers, starting and dying at any time.      *)

\* A process has work of a kind on a step: received, scanned or being done.
Holds(me, kind, s) ==
  \/ \E i \in DOMAIN me.inbox : me.inbox[i].kind = kind /\ me.inbox[i].step = s
  \/ \E item \in me.scan : item.kind = kind /\ item.step = s
  \/ \E th \in Threads : /\ me.busy[th] # NONE
                         /\ me.busy[th].kind = kind /\ me.busy[th].step = s

BrowserStep(s) ==
  s \in DOMAIN workflow_step /\ workflow_step[s].owner = "browser-worker"

\* A step is for w to execute, as runner id.  A browser step is claimed a second
\* time, perhaps by another, when its task is completed.
OwnsStep(s, w, id) ==
  /\ s \in DOMAIN workflow_step /\ workflow_step[s].owner = OwnerOf[w]
  /\ OwnerOf[w] = "browser-worker" \/ workflow_step[s].runner = id

OwnsTask(k, id) == k \in DOMAIN browser_task /\ browser_task[k].runner = id

Rightful(w, me) ==
  /\ \A s \in StepIds :
       /\ Holds(me, "run_step", s) => OwnsStep(s, w, <<w, me.incarnation>>)
       /\ Holds(me, "run_task", s) => OwnsTask(s, <<w, me.incarnation>>)
  /\ \A i \in DOMAIN me.outbox : me.outbox[i].op = "enqueue_task" => BrowserStep(me.outbox[i].step)

\* The threads of a process only do what they may run, and not the same.
Apart(me) ==
  /\ \A th \in Threads : me.busy[th] # NONE => IsRunning(me.busy[th])
  /\ \A t1, t2 \in Threads :
       /\ me.busy[t1] # NONE /\ me.busy[t2] # NONE
       /\ me.busy[t1].kind = me.busy[t2].kind /\ me.busy[t1].step = me.busy[t2].step
       => t1 = t2

\* Only browser steps have tasks, and what can be claimed has no runner, but for a
\* browser step whose task is completed.
Unclaimed ==
  /\ \A k \in DOMAIN browser_task :
       /\ BrowserStep(k)
       /\ browser_task[k].status = "queued" => browser_task[k].runner = NONE
  /\ \A s \in DOMAIN workflow_step :
       workflow_step[s].status = "ready" /\ workflow_step[s].owner # "browser-worker"
       => workflow_step[s].runner = NONE

OInv == /\ IInv /\ Named /\ Unclaimed
        /\ \A w \in Workers : Rightful(w, worker[w]) /\ Apart(worker[w])

LEMMA ThreadsAre == Threads = {"callbacks", "main"} /\ "callbacks" # "main"
BY DEF Threads

LEMMA RunnerNotNone ==
  ASSUME NEW w \in Workers, NEW n \in 1 .. MaxCrashes + 1
  PROVE  <<w, n>> # NONE /\ <<w, n>> # Plane /\ <<w, n>> \in Runners
BY NoneAssumption, PlaneAssumption DEF Runners

\* A process that holds work has been started, and its runner id is one.
LEMMA HoldsAlive ==
  ASSUME IInv, NEW w \in Workers, NEW kind, NEW s, Holds(worker[w], kind, s)
  PROVE  Runner(w) # NONE /\ Runner(w) # Plane /\ Runner(w) \in Runners
<1>1. worker[w].incarnation > 0
  <2>1. \/ worker[w].inbox # <<>> \/ worker[w].scan # {}
        \/ \E th \in Threads : worker[w].busy[th] # NONE
    BY ProcessFields DEF Holds
  <2> QED BY <2>1, Alive
<1>2. worker[w].incarnation \in 1 .. MaxCrashes + 1
  BY <1>1, ProcessFields, BoundsAssumption
<1> QED BY <1>2, RunnerNotNone DEF Runner

\* What is held after a thread has taken an item was held before.
LEMMA TookHolds ==
  ASSUME IInv, NEW w \in Workers, NEW th, NEW item, NEW inbox, NEW scan, NEW me,
         Took(w, th, item, inbox, scan, me), Holds(worker[w], item.kind, item.step),
         \A i \in DOMAIN inbox : \E j \in DOMAIN worker[w].inbox : worker[w].inbox[j] = inbox[i],
         scan \subseteq worker[w].scan,
         NEW kind, NEW s, Holds(me, kind, s)
  PROVE  Holds(worker[w], kind, s)
<1>1. CASE \E i \in DOMAIN inbox : inbox[i].kind = kind /\ inbox[i].step = s
  BY <1>1 DEF Holds
<1>2. CASE \E x \in scan : x.kind = kind /\ x.step = s
  BY <1>2 DEF Holds
<1>3. CASE \E t \in Threads : me.busy[t] # NONE /\ me.busy[t].kind = kind /\ me.busy[t].step = s
  <2>1. PICK t \in Threads : me.busy[t] # NONE /\ me.busy[t].kind = kind /\ me.busy[t].step = s
    BY <1>3
  <2>2. worker[w].busy \in [Threads -> Item \cup {NONE}]
    BY ProcessFields
  <2>3. me.busy[t] = worker[w].busy[t] \/ me.busy[t] = item
    BY <2>2 DEF Took
  <2> QED BY <2>1, <2>3 DEF Holds
<1> QED BY <1>1, <1>2, <1>3 DEF Took, Holds

\* The two threads of a process never work on one thing.
LEMMA TookApart ==
  ASSUME IInv, NEW w \in Workers, NEW th, NEW item, NEW inbox, NEW scan, NEW me,
         Took(w, th, item, inbox, scan, me), Apart(worker[w])
  PROVE  Apart(me)
<1>1. worker[w].busy \in [Threads -> Item \cup {NONE}] /\ th \in Threads
  BY ProcessFields DEF Took
<1>2. CASE me.busy = worker[w].busy
  BY <1>2 DEF Apart
<1>3. CASE /\ IsRunning(item) /\ ~Active(w, item)
           /\ me.busy = [worker[w].busy EXCEPT ![th] = item]
  BY <1>1, <1>3 DEF Apart, Active
<1> QED BY <1>2, <1>3 DEF Took

\* A process step that touches no table.
LEMMA ProcessOInv ==
  ASSUME OInv, IInv', NEW w \in Workers, worker' = [worker EXCEPT ![w] = worker'[w]],
         UNCHANGED storeVars, Apart(worker'[w]), Rightful(w, worker'[w])
  PROVE  OInv'
<1>1. UNCHANGED <<workflow_step, browser_task>>
  BY DEF storeVars
<1>2. (Named /\ Unclaimed)'
  BY <1>1 DEF OInv, Named, Unclaimed, BrowserStep
<1>3. ASSUME NEW x \in Workers PROVE (Rightful(x, worker[x]) /\ Apart(worker[x]))'
  <2>1. CASE x = w
    BY <1>1, <2>1 DEF Rightful, Apart, OwnsStep, OwnsTask, BrowserStep, Holds
  <2>2. CASE x # w
    <3>1. worker'[x] = worker[x]
      BY <2>2 DEF OInv, IInv, TypeOK
    <3> QED BY <1>1, <3>1 DEF OInv, Rightful, Apart, OwnsStep, OwnsTask, BrowserStep, Holds
  <2> QED BY <2>1, <2>2
<1> QED BY <1>2, <1>3 DEF OInv

LEMMA TookOInv ==
  ASSUME OInv, IInv', NEW w \in Workers, NEW th, NEW item, NEW inbox, NEW scan,
         Took(w, th, item, inbox, scan, worker'[w]), Holds(worker[w], item.kind, item.step),
         \A i \in DOMAIN inbox : \E j \in DOMAIN worker[w].inbox : worker[w].inbox[j] = inbox[i],
         scan \subseteq worker[w].scan
  PROVE  OInv'
<1> DEFINE me == worker'[w]
<1>1. /\ IInv /\ Rightful(w, worker[w]) /\ Apart(worker[w])
      /\ worker' = [worker EXCEPT ![w] = me] /\ UNCHANGED storeVars
      /\ me.incarnation = worker[w].incarnation
  BY DEF OInv, Took
<1>2. \A kind, s : Holds(me, kind, s) => Holds(worker[w], kind, s)
  BY <1>1, TookHolds
<1>3. Apart(me)
  BY <1>1, TookApart
<1>4. \A i \in DOMAIN me.outbox : me.outbox[i].op = "enqueue_task" => BrowserStep(me.outbox[i].step)
  <2>1. worker[w].outbox \in Seq(ReducerCall)
    BY <1>1, ProcessFields
  <2>2. CASE me.outbox = worker[w].outbox
    BY <1>1, <2>2 DEF Rightful
  <2>3. CASE /\ ~IsRunning(item)
             /\ me.outbox = Append(worker[w].outbox, Claim(item.kind, item.step, OwnerOf[w]))
    <3>1. Claim(item.kind, item.step, OwnerOf[w]).op # "enqueue_task"
      BY DEF Took, Item, Claim, Call
    <3> QED BY <1>1, <2>1, <2>3, <3>1 DEF Rightful
  <2> QED BY <2>2, <2>3 DEF Took
<1>5. Rightful(w, me)
  BY <1>1, <1>2, <1>4 DEF Rightful
<1> QED BY <1>1, <1>3, <1>5, ProcessOInv

LEMMA CallbackOInv ==
  ASSUME OInv, IInv', NEW w \in Workers, Callback(w) PROVE OInv'
<1> DEFINE inbox == worker[w].inbox
<1>1. /\ inbox # <<>> /\ inbox \in Seq(Item)
      /\ Took(w, "callbacks", Head(inbox), Tail(inbox), worker[w].scan, worker'[w])
  BY CallbackTook DEF OInv
<1>2. 1 \in DOMAIN inbox /\ inbox[1] = Head(inbox)
      /\ \A i \in DOMAIN Tail(inbox) : i + 1 \in DOMAIN inbox /\ inbox[i + 1] = Tail(inbox)[i]
  BY <1>1
<1>3. Holds(worker[w], Head(inbox).kind, Head(inbox).step)
  BY <1>2 DEF Holds
<1> HIDE DEF inbox
<1>4. \A i \in DOMAIN Tail(inbox) : \E j \in DOMAIN inbox : inbox[j] = Tail(inbox)[i]
  BY <1>2
<1> QED BY <1>1, <1>3, <1>4, TookOInv DEF inbox

LEMMA ScanItemOInv ==
  ASSUME OInv, IInv', NEW w \in Workers, ScanItem(w) PROVE OInv'
<1>1. PICK row \in worker[w].scan, item \in Item :
        /\ item.kind = row.kind /\ item.step = row.step
        /\ Took(w, "main", item, worker[w].inbox, worker[w].scan \ {row}, worker'[w])
  BY ScanItemTook DEF OInv
<1>2. Holds(worker[w], item.kind, item.step)
  BY <1>1 DEF Holds
<1>3. \A i \in DOMAIN worker[w].inbox : \E j \in DOMAIN worker[w].inbox : worker[w].inbox[j] = worker[w].inbox[i]
  OBVIOUS
<1>4. worker[w].scan \ {row} \subseteq worker[w].scan
  OBVIOUS
<1> QED BY <1>1, <1>2, <1>3, <1>4, TookOInv

\* What is sent when work is done enqueues a task for a browser step only.
LEMMA FinishedOInv ==
  ASSUME OInv, IInv', NEW w \in Workers, NEW th \in Threads, NEW sent,
         Finished(w, th, sent, worker'[w]),
         \A i \in DOMAIN sent : sent[i].op = "enqueue_task" => BrowserStep(sent[i].step)
  PROVE  OInv'
<1> DEFINE me == worker'[w]
<1>1. /\ IInv /\ Rightful(w, worker[w]) /\ Apart(worker[w])
      /\ worker' = [worker EXCEPT ![w] = me] /\ UNCHANGED storeVars
      /\ me.incarnation = worker[w].incarnation
  BY DEF OInv, Finished
<1>2. /\ worker[w].busy \in [Threads -> Item \cup {NONE}]
      /\ worker[w].outbox \in Seq(CallsOf(w)) /\ sent \in Seq(CallsOf(w))
      /\ me.busy = [worker[w].busy EXCEPT ![th] = NONE]
      /\ me.inbox = worker[w].inbox /\ me.scan = worker[w].scan
      /\ me.outbox = worker[w].outbox \o sent
  BY <1>1, ProcessFields DEF Finished
<1> HIDE DEF me
<1>3. \A t \in Threads : me.busy[t] # NONE => me.busy[t] = worker[w].busy[t]
  BY <1>2
<1>4. Apart(me)
  BY <1>1, <1>3 DEF Apart
<1>5. \A kind, s : Holds(me, kind, s) => Holds(worker[w], kind, s)
  BY <1>2, <1>3 DEF Holds
<1>6. \A i \in DOMAIN me.outbox : \/ i \in DOMAIN worker[w].outbox /\ me.outbox[i] = worker[w].outbox[i]
                                  \/ \E j \in DOMAIN sent : me.outbox[i] = sent[j]
  BY <1>2
<1>7. Rightful(w, me)
  BY <1>1, <1>5, <1>6 DEF Rightful
<1> QED BY <1>1, <1>4, <1>7, ProcessOInv DEF me

\* The calls of an execution of s: at most one ends it, and the next step is
\* enqueued behind its completion.
EndsStep == {"fail_step", "complete_step", "enqueue_task"}

Follows(c, s) ==
  /\ next_stage(StageOf(s)) # NONE /\ c.dep = s
  /\ c.step = <<RunOf(s), next_stage(StageOf(s)), 0>>
  /\ c.owner = owner_for_stage(next_stage(StageOf(s)))

Behind(rest, s) ==
  \A j \in DOMAIN rest : \/ rest[j].op = "ingest_summary"
                         \/ rest[j].op = "enqueue_step" /\ Follows(rest[j], s)

\* Behind the call that ends a step come those that follow it.
LEMMA ExecutionRest ==
  ASSUME NEW w \in Workers, NEW s \in StepIds, NEW cached
  PROVE  LET calls == process_workflow_step(w, s, cached) IN
         \/ calls = <<Call("fail_step", s)>> /\ ~HasManifest[w]
         \/ /\ calls = <<>> \/ calls = <<Call("enqueue_task", s)>>
            /\ OwnerOf[w] = "browser-worker"
         \/ /\ HasManifest[w] /\ (OwnerOf[w] = "browser-worker" => cached.task = "completed")
            /\ \E rest \in Seq(CallsOf(w)) :
                 calls = <<Call("complete_step", s)>> \o rest /\ Behind(rest, s)
<1> DEFINE calls == process_workflow_step(w, s, cached)
           next == enqueue_next_step(s, cached)
           summary == record_summary_message(s)
           first == Call("complete_step", s)
<1>1. next \in Seq(CallsOf(w)) /\ Behind(next, s)
  <2>1. CASE next = <<>>
    BY <2>1 DEF Behind
  <2> DEFINE stage == next_stage(StageOf(s))
             call == Enqueue(<<RunOf(s), stage, 0>>, owner_for_stage(stage), s, s \in with_thread)
  <2>2. CASE stage # NONE /\ next = <<call>>
    <3>1. <<RunOf(s), stage, 0>> \in StepIds
      BY <2>2, StepIdParts, StepIdMade, NextStage, BoundsAssumption
    <3>2. /\ call.op = "enqueue_step" /\ call.dep = s /\ call.step = <<RunOf(s), stage, 0>>
          /\ call.owner = owner_for_stage(stage)
      BY DEF Enqueue
    <3>3. call \in CallsOf(w)
      <4> DEFINE id == <<RunOf(s), stage, 0>>
                 owner == owner_for_stage(stage)
                 thread == s \in with_thread
      <4>1. id \in StepIds /\ owner \in ExecutionOwner /\ s \in StepIds \cup {NONE}
        BY <3>1, OwnerForStage
      <4>2. thread \in BOOLEAN
        OBVIOUS
      <4> HIDE DEF id, owner, thread
      <4>3. Enqueue(id, owner, s, thread) \in CallsOf(w)
        BY <4>1, <4>2, EnqueueType
      <4> QED BY <4>3 DEF id, owner, thread
    <3> HIDE DEF call
    <3> QED BY <2>2, <3>2, <3>3 DEF Behind, Follows
  <2>3. next = <<>> \/ (stage # NONE /\ next = <<call>>)
    BY DEF enqueue_next_step
  <2> QED BY <2>1, <2>2, <2>3
<1>2. summary \in Seq(CallsOf(w)) /\ Behind(summary, s)
  <2> DEFINE ingest == Call("ingest_summary", s)
  <2>1. summary = <<>> \/ summary = <<ingest>>
    BY DEF record_summary_message
  <2>2. ingest \in CallsOf(w) /\ ingest.op = "ingest_summary"
    BY CallType DEF Call
  <2> HIDE DEF summary, ingest
  <2>3. CASE summary = <<>>
    BY <2>3 DEF Behind
  <2>4. CASE summary = <<ingest>>
    BY <2>2, <2>4 DEF Behind
  <2> QED BY <2>1, <2>3, <2>4
<1>3. first \in CallsOf(w)
  BY CallType
<1> HIDE DEF next, summary, first
<1>4. CASE ~HasManifest[w]
  BY <1>4 DEF process_workflow_step
<1>5. CASE HasManifest[w] /\ OwnerOf[w] = "browser-worker"
  <2>1. calls = CASE cached.task = "completed" -> <<first>> \o next
                  [] cached.task \in {"none", "failed"} -> <<Call("enqueue_task", s)>>
                  [] OTHER -> <<>>
    BY <1>5 DEF process_workflow_step, next, first
  <2> HIDE DEF calls
  <2>2. CASE cached.task = "completed"
    <3>1. calls = <<first>> \o next
      BY <2>1, <2>2
    <3> QED BY <1>1, <1>5, <2>2, <3>1 DEF calls, first
  <2>3. CASE cached.task # "completed"
    <3>1. calls = <<>> \/ calls = <<Call("enqueue_task", s)>>
      BY <2>1, <2>3
    <3> QED BY <1>5, <3>1 DEF calls
  <2> QED BY <2>2, <2>3
<1>6. CASE HasManifest[w] /\ OwnerOf[w] # "browser-worker"
  <2> DEFINE end == IF StageOf(s) = "learn" THEN <<>> ELSE next
             rest == summary \o end
  <2>1. calls = (<<first>> \o summary) \o end
    BY <1>6 DEF process_workflow_step, next, summary, first
  <2>2. end \in Seq(CallsOf(w)) /\ Behind(end, s)
    BY <1>1 DEF Behind
  <2> HIDE DEF end, calls
  <2>3. rest \in Seq(CallsOf(w))
        /\ \A j \in DOMAIN rest : \/ \E k \in DOMAIN summary : rest[j] = summary[k]
                                 \/ \E k \in DOMAIN end : rest[j] = end[k]
    BY <1>2, <2>2
  <2>4. Behind(rest, s)
    BY <1>2, <2>2, <2>3 DEF Behind
  <2>5. (<<first>> \o summary) \o end = <<first>> \o rest
    BY <1>2, <1>3, <2>2
  <2> HIDE DEF rest
  <2> QED BY <1>6, <2>1, <2>3, <2>4, <2>5 DEF calls, first
<1> QED BY <1>4, <1>5, <1>6

SentFor(w, s, cached, calls, i) ==
  LET c == calls[i]
  IN  /\ c.op \in EndsStep \cup {"ingest_summary", "enqueue_step"}
      /\ c.op \in EndsStep => c.step = s /\ i = 1
      /\ c.op = "enqueue_task" => OwnerOf[w] = "browser-worker"
      /\ c.op = "complete_step" /\ OwnerOf[w] = "browser-worker" => cached.task = "completed"
      /\ c.op = "enqueue_step" =>
           /\ Follows(c, s) /\ i > 1
           /\ calls[1].op = "complete_step" /\ calls[1].step = s

\* The calls an execution sends, and which of them end its step.
LEMMA ExecutionOf ==
  ASSUME NEW w \in Workers, NEW s \in StepIds, NEW cached,
         NEW i \in DOMAIN process_workflow_step(w, s, cached)
  PROVE  SentFor(w, s, cached, process_workflow_step(w, s, cached), i)
<1> DEFINE calls == process_workflow_step(w, s, cached)
<1> SUFFICES SentFor(w, s, cached, calls, i)
  OBVIOUS
<1>1. i \in DOMAIN calls
  OBVIOUS
<1>2. /\ Call("fail_step", s).op = "fail_step" /\ Call("enqueue_task", s).op = "enqueue_task"
      /\ Call("complete_step", s).op = "complete_step"
      /\ \A op \in EndsStep : Call(op, s).step = s
  BY DEF Call
<1>3. \/ calls = <<>> \/ calls = <<Call("fail_step", s)>>
      \/ calls = <<Call("enqueue_task", s)>> /\ OwnerOf[w] = "browser-worker"
      \/ /\ OwnerOf[w] = "browser-worker" => cached.task = "completed"
         /\ \E rest \in Seq(CallsOf(w)) :
              calls = <<Call("complete_step", s)>> \o rest /\ Behind(rest, s)
  BY ExecutionRest
<1> HIDE DEF calls
<1>4. ASSUME NEW rest \in Seq(CallsOf(w)), calls = <<Call("complete_step", s)>> \o rest, Behind(rest, s)
      PROVE  /\ calls[1] = Call("complete_step", s)
             /\ i = 1 \/ (i > 1 /\ (calls[i].op = "ingest_summary"
                                   \/ (calls[i].op = "enqueue_step" /\ Follows(calls[i], s))))
  <2>1. Call("complete_step", s) \in CallsOf(w)
    BY CallType
  <2>2. calls[1] = Call("complete_step", s) /\ (i = 1 \/ (i > 1 /\ i - 1 \in DOMAIN rest /\ calls[i] = rest[i - 1]))
    BY <1>1, <1>4, <2>1
  <2> QED BY <1>4, <2>2 DEF Behind
<1>5. CASE calls = <<>> \/ calls = <<Call("fail_step", s)>>
           \/ (calls = <<Call("enqueue_task", s)>> /\ OwnerOf[w] = "browser-worker")
  BY <1>1, <1>2, <1>5 DEF EndsStep, SentFor
<1>6. CASE /\ OwnerOf[w] = "browser-worker" => cached.task = "completed"
           /\ \E rest \in Seq(CallsOf(w)) :
                calls = <<Call("complete_step", s)>> \o rest /\ Behind(rest, s)
  BY <1>2, <1>4, <1>6 DEF EndsStep, SentFor
<1> QED BY <1>3, <1>5, <1>6 DEF calls

LEMMA FinishOInv ==
  ASSUME OInv, IInv', NEW w \in Workers, NEW th \in Threads, FinishStep(w, th) \/ FinishTask(w, th)
  PROVE  OInv'
<1> DEFINE item == worker[w].busy[th]
<1>0. IInv /\ (item # NONE => item.step \in StepIds)
  BY ProcessFields DEF OInv, Item
<1>1. CASE FinishStep(w, th)
  <2>1. PICK cached : /\ item # NONE /\ item.kind = "run_step"
                      /\ Finish(w, th, process_workflow_step(w, item.step, cached))
    BY <1>1 DEF FinishStep
  <2> DEFINE sent == process_workflow_step(w, item.step, cached)
  <2>2. sent \in Seq(CallsOf(w))
    BY <1>0, <2>1, ExecutionCalls
  <2>3. \A i \in DOMAIN sent : sent[i].op = "enqueue_task" =>
          sent[i].step = item.step /\ OwnerOf[w] = "browser-worker"
    BY <1>0, <2>1, ExecutionOf DEF SentFor, EndsStep
  <2> HIDE DEF sent
  <2>4. Holds(worker[w], "run_step", item.step)
    BY <2>1 DEF Holds
  <2>5. OwnsStep(item.step, w, <<w, worker[w].incarnation>>)
    BY <1>0, <2>1, <2>4 DEF OInv, Rightful
  <2>6. \A i \in DOMAIN sent : sent[i].op = "enqueue_task" => BrowserStep(sent[i].step)
    BY <2>3, <2>5 DEF OwnsStep, BrowserStep
  <2>7. Finished(w, th, sent, worker'[w])
    BY <1>0, <2>1, <2>2, FinishFinished DEF sent
  <2> QED BY <2>6, <2>7, FinishedOInv
<1>2. CASE FinishTask(w, th)
  <2>1. PICK op \in {"complete_task", "fail_task"} :
          item # NONE /\ Finish(w, th, <<Call(op, item.step)>>)
    BY <1>2 DEF FinishTask
  <2> DEFINE sent == <<Call(op, item.step)>>
  <2>2. sent \in Seq(CallsOf(w))
    BY <1>0, <2>1, CallType
  <2>3. \A i \in DOMAIN sent : sent[i].op # "enqueue_task"
    BY DEF Call
  <2> HIDE DEF sent
  <2>4. Finished(w, th, sent, worker'[w])
    BY <1>0, <2>1, <2>2, FinishFinished DEF sent
  <2> QED BY <2>3, <2>4, FinishedOInv
<1> QED BY <1>1, <1>2

\* A committed call takes nothing away from whom it is not about, and what it
\* announces is for the one that claimed.
LEMMA BrowserStepKept ==
  ASSUME NEW c, NEW id, StepRows(c, id), NEW s
  PROVE  BrowserStep(s) => BrowserStep(s)'
<1> SUFFICES ASSUME s \in DOMAIN workflow_step, workflow_step[s].owner = "browser-worker"
             PROVE  s \in DOMAIN workflow_step' /\ workflow_step'[s].owner = "browser-worker"
  BY DEF BrowserStep
<1>1. DOMAIN StepAfter = {"enqueue_step", "claim_step", "complete_step", "fail_step",
                          "enqueue_task", "complete_task", "fail_task"}
  BY DEF StepAfter
<1>2. CASE s # c.step \/ c.op \notin DOMAIN StepAfter
  BY <1>2 DEF StepRows
<1>3. CASE s = c.step /\ c.op \in DOMAIN StepAfter
  BY <1>1, <1>3 DEF StepRows
<1> QED BY <1>2, <1>3

\* Whose a step or a task is, another call does not change;
LEMMA OwnsKept ==
  ASSUME OInv, NEW c \in Addressed, NEW id \in Runners, StepRows(c, id), TaskRows(c, id),
         NEW w \in Workers, NEW who, who # NONE, NEW s \in StepIds
  PROVE  /\ OwnsStep(s, w, who) => OwnsStep(s, w, who)'
         /\ OwnsTask(s, who) => OwnsTask(s, who)'
<1>1. /\ \A t \in DOMAIN workflow_step :
           workflow_step[t].status = "ready" /\ workflow_step[t].owner # "browser-worker"
           => workflow_step[t].runner = NONE
      /\ \A k \in DOMAIN browser_task :
           browser_task[k].status = "queued" => browser_task[k].runner = NONE
  BY DEF OInv, Unclaimed
<1>2. DOMAIN StepAfter = {"enqueue_step", "claim_step", "complete_step", "fail_step",
                          "enqueue_task", "complete_task", "fail_task"}
      /\ DOMAIN TaskAfter = {"enqueue_task", "claim_task", "complete_task", "fail_task"}
  BY DEF StepAfter, TaskAfter
<1>3. ASSUME s \in DOMAIN workflow_step
      PROVE  /\ s \in DOMAIN workflow_step' /\ workflow_step'[s].owner = workflow_step[s].owner
             /\ \/ workflow_step'[s].runner = workflow_step[s].runner
                \/ workflow_step[s].status = "ready"
  <2>1. CASE s # c.step \/ c.op \notin DOMAIN StepAfter
    BY <1>3, <2>1 DEF StepRows
  <2>2. CASE s = c.step /\ c.op \in DOMAIN StepAfter
    BY <1>2, <1>3, <2>2 DEF StepRows
  <2> QED BY <2>1, <2>2
<1>4. ASSUME s \in DOMAIN browser_task
      PROVE  /\ s \in DOMAIN browser_task'
             /\ \/ browser_task'[s].runner = browser_task[s].runner
                \/ browser_task[s].status = "queued"
  <2>1. CASE s # c.step \/ c.op \notin DOMAIN TaskAfter
    BY <1>4, <2>1 DEF TaskRows
  <2>2. CASE s = c.step /\ c.op \in DOMAIN TaskAfter
    BY <1>2, <1>4, <2>2 DEF TaskRows
  <2> QED BY <2>1, <2>2
<1> QED BY <1>1, <1>3, <1>4 DEF OwnsStep, OwnsTask, BrowserStep

\* and what nobody has claimed has no runner.
LEMMA UnclaimedKept ==
  ASSUME OInv, NEW c \in Addressed, NEW id \in Runners, StepRows(c, id), TaskRows(c, id),
         c.op = "enqueue_task" => BrowserStep(c.step)
  PROVE  Unclaimed' /\ Named'
<1>2. DOMAIN StepAfter = {"enqueue_step", "claim_step", "complete_step", "fail_step",
                          "enqueue_task", "complete_task", "fail_task"}
      /\ DOMAIN TaskAfter = {"enqueue_task", "claim_task", "complete_task", "fail_task"}
  BY DEF StepAfter, TaskAfter
<1>3. Unclaimed /\ Named
  BY DEF OInv
<1>4. \A s : BrowserStep(s) => BrowserStep(s)'
  BY BrowserStepKept
<1>5. ASSUME NEW k \in DOMAIN browser_task'
      PROVE  /\ BrowserStep(k)' /\ (browser_task'[k].status = "queued" => browser_task'[k].runner = NONE)
             /\ browser_task'[k].run = RunOf(k)
  <2>1. CASE k \in DOMAIN browser_task /\ (k # c.step \/ c.op \notin DOMAIN TaskAfter)
    BY <1>3, <1>4, <2>1 DEF TaskRows, Unclaimed, Named
  <2>2. CASE k = c.step /\ c.op = "enqueue_task"
    BY <1>2, <1>4, <2>2 DEF TaskRows
  <2>3. CASE k \in DOMAIN browser_task /\ k = c.step /\ c.op \in DOMAIN TaskAfter \ {"enqueue_task"}
    <3>1. browser_task'[k].status = TaskAfter[c.op] /\ browser_task'[k].run = RunOf(k)
      BY <2>3 DEF TaskRows
    <3>2. TaskAfter[c.op] # "queued"
      BY <1>2, <2>3 DEF TaskAfter
    <3> QED BY <1>3, <1>4, <2>3, <3>1, <3>2 DEF Unclaimed
  <2>4. k \in DOMAIN browser_task \/ (k = c.step /\ c.op = "enqueue_task")
    BY DEF TaskRows
  <2> QED BY <1>2, <2>1, <2>2, <2>3, <2>4
<1>6. ASSUME NEW s \in DOMAIN workflow_step'
      PROVE  /\ workflow_step'[s].status = "ready" /\ workflow_step'[s].owner # "browser-worker"
                => workflow_step'[s].runner = NONE
             /\ workflow_step'[s].run = RunOf(s) /\ workflow_step'[s].stage = StageOf(s)
  <2>1. CASE s \in DOMAIN workflow_step /\ (s # c.step \/ c.op \notin DOMAIN StepAfter)
    BY <1>3, <2>1 DEF StepRows, Unclaimed, Named
  <2>2. CASE s = c.step /\ c.op = "enqueue_step"
    BY <2>2 DEF StepRows, NewStep
  <2>3. CASE s \in DOMAIN workflow_step /\ s = c.step /\ c.op \in DOMAIN StepAfter \ {"enqueue_step"}
    <3>1. /\ workflow_step'[s].status = StepAfter[c.op] /\ workflow_step'[s].owner = workflow_step[s].owner
          /\ workflow_step'[s].run = RunOf(s) /\ workflow_step'[s].stage = StageOf(s)
      BY <1>3, <2>3 DEF StepRows, Named
    <3>2. StepAfter[c.op] = "ready" => c.op = "complete_task"
      BY <1>2, <2>3 DEF StepAfter
    <3>3. c.op = "complete_task" => s \in DOMAIN browser_task
      BY <1>2, <2>3 DEF TaskRows
    <3> QED BY <1>3, <3>1, <3>2, <3>3 DEF Unclaimed, BrowserStep
  <2>4. s \in DOMAIN workflow_step \/ (s = c.step /\ c.op = "enqueue_step")
    BY DEF StepRows
  <2> QED BY <1>2, <2>1, <2>2, <2>3, <2>4
<1> QED BY <1>5, <1>6 DEF Unclaimed, Named

\* A process that is told something holds one thing more at most.
LEMMA ToldHolds ==
  ASSUME NEW old \in Process, NEW x \in Item, NEW new, new = [old EXCEPT !.inbox = Append(@, x)]
  PROVE  /\ new.incarnation = old.incarnation /\ new.outbox = old.outbox /\ new.busy = old.busy
         /\ new.scan = old.scan /\ new.inbox = Append(old.inbox, x) /\ old.inbox \in Seq(Item)
         /\ \A kind, s : Holds(new, kind, s) => Holds(old, kind, s) \/ (kind = x.kind /\ s = x.step)
<1>1. /\ new.incarnation = old.incarnation /\ new.outbox = old.outbox /\ new.busy = old.busy
      /\ new.scan = old.scan /\ new.inbox = Append(old.inbox, x) /\ old.inbox \in Seq(Item)
  BY DEF Process
<1>2. \A i \in DOMAIN new.inbox : new.inbox[i] = x \/ (i \in DOMAIN old.inbox /\ new.inbox[i] = old.inbox[i])
  BY <1>1
<1>3. \A kind, s : Holds(new, kind, s) => Holds(old, kind, s) \/ (kind = x.kind /\ s = x.step)
  BY <1>1, <1>2 DEF Holds
<1> QED BY <1>1, <1>3

\* ws are the processes, less a call that one of them has sent.
Less(ws) ==
  /\ ws \in [Workers -> Process]
  /\ \A w \in Workers :
       /\ ws[w].incarnation = worker[w].incarnation /\ ws[w].inbox = worker[w].inbox
       /\ ws[w].scan = worker[w].scan /\ ws[w].busy = worker[w].busy
       /\ \A i \in DOMAIN ws[w].outbox :
            \E j \in DOMAIN worker[w].outbox : worker[w].outbox[j] = ws[w].outbox[i]

\* A call that is served leaves the work with its owners.
LEMMA ServeOInv ==
  ASSUME OInv, IInv', NEW ws, Less(ws), NEW c \in Addressed, NEW id \in Runners,
         Serve(ws, c, id), c.op = "enqueue_task" => BrowserStep(c.step)
  PROVE  OInv'
<1>0. IInv /\ TypeOK /\ TasksNamed /\ Named /\ Unclaimed /\ ws \in [Workers -> Process] /\ c.step \in StepIds
  BY DEF OInv, IInv, Less, Addressed, ReducerCall
<1>1. Served(ws, c, id)
  BY <1>0, ServeServed
<1>2. ASSUME NEW w \in Workers
      PROVE  /\ \A kind, s : Holds(ws[w], kind, s) <=> Holds(worker[w], kind, s)
             /\ Apart(ws[w])
             /\ \A i \in DOMAIN ws[w].outbox : ws[w].outbox[i].op = "enqueue_task" =>
                  BrowserStep(ws[w].outbox[i].step) /\ ws[w].outbox[i].step \in StepIds
  <2>1. /\ ws[w].inbox = worker[w].inbox /\ ws[w].scan = worker[w].scan /\ ws[w].busy = worker[w].busy
        /\ \A i \in DOMAIN ws[w].outbox :
             \E j \in DOMAIN worker[w].outbox : worker[w].outbox[j] = ws[w].outbox[i]
    BY DEF Less
  <2>2. \A kind, s : Holds(ws[w], kind, s) <=> Holds(worker[w], kind, s)
    BY <2>1 DEF Holds
  <2>3. Rightful(w, worker[w]) /\ Apart(worker[w]) /\ worker[w].outbox \in Seq(ReducerCall)
    BY <1>0, ProcessFields DEF OInv
  <2>4. Apart(ws[w])
    BY <2>1, <2>3 DEF Apart
  <2>5. \A j \in DOMAIN worker[w].outbox :
          /\ worker[w].outbox[j].step \in StepIds
          /\ worker[w].outbox[j].op = "enqueue_task" => BrowserStep(worker[w].outbox[j].step)
    <3>1. \A j \in DOMAIN worker[w].outbox : worker[w].outbox[j] \in ReducerCall
      BY <2>3
    <3> QED BY <2>3, <3>1 DEF Rightful, ReducerCall
  <2>6. \A i \in DOMAIN ws[w].outbox : ws[w].outbox[i].op = "enqueue_task" =>
          BrowserStep(ws[w].outbox[i].step) /\ ws[w].outbox[i].step \in StepIds
    BY <2>1, <2>5
  <2> QED BY <2>2, <2>4, <2>6
<1>3. CASE ~Accepted(c) /\ UNCHANGED <<workflow_step, browser_task>> /\ \A w \in Workers : worker'[w] = ws[w]
  <2>1. (Named /\ Unclaimed)'
    BY <1>0, <1>3 DEF Named, Unclaimed, BrowserStep
  <2>2. ASSUME NEW w \in Workers PROVE (Rightful(w, worker[w]) /\ Apart(worker[w]))'
    <3>1. Rightful(w, worker[w]) /\ worker'[w] = ws[w] /\ ws[w].incarnation = worker[w].incarnation
      BY <1>3 DEF OInv, Less
    <3>2. Rightful(w, ws[w])
      BY <1>2, <3>1 DEF Rightful
    <3> QED BY <1>2, <1>3, <3>1, <3>2 DEF Rightful, OwnsStep, OwnsTask, BrowserStep
  <2> QED BY <2>1, <2>2 DEF OInv
<1>4. CASE /\ StepRows(c, id) /\ TaskRows(c, id)
           /\ \A w \in Workers :
                \/ worker'[w] = ws[w]
                \/ \E x \in Item : /\ Told(w, <<w, ws[w].incarnation>>, id, c, x)
                                   /\ worker'[w] = [ws[w] EXCEPT !.inbox = Append(@, x)]
  <2>1. (Named /\ Unclaimed)'
    BY <1>4, UnclaimedKept
  <2>2. ASSUME NEW w \in Workers PROVE (Rightful(w, worker[w]) /\ Apart(worker[w]))'
    <3>0. PICK who, new : who = <<w, worker[w].incarnation>> /\ new = worker'[w]
      OBVIOUS
    <3>1. ws[w].incarnation = worker[w].incarnation /\ ws[w] \in Process /\ who = Runner(w)
      BY <1>0, <3>0 DEF Less, Runner
    <3>2. PICK x : \/ new = ws[w]
                   \/ x \in Item /\ Told(w, who, id, c, x) /\ new = [ws[w] EXCEPT !.inbox = Append(@, x)]
      <4>0. who = <<w, ws[w].incarnation>>
        BY <3>0, <3>1
      <4> DEFINE whom == <<w, ws[w].incarnation>>
      <4>1. \/ worker'[w] = ws[w]
            \/ \E x \in Item : /\ Told(w, whom, id, c, x)
                               /\ worker'[w] = [ws[w] EXCEPT !.inbox = Append(@, x)]
        BY <1>4
      <4> HIDE DEF whom
      <4>2. \/ new = ws[w]
            \/ \E x \in Item : /\ Told(w, whom, id, c, x)
                               /\ new = [ws[w] EXCEPT !.inbox = Append(@, x)]
        BY <3>0, <4>1
      <4>3. who = whom
        BY <4>0 DEF whom
      <4> QED BY <4>2, <4>3
    <3>3. /\ new.incarnation = worker[w].incarnation /\ new.outbox = ws[w].outbox /\ new.busy = ws[w].busy
          /\ \A kind, s : Holds(new, kind, s) =>
               Holds(ws[w], kind, s) \/ (kind = x.kind /\ s = x.step /\ Told(w, who, id, c, x))
      <4>1. CASE new = ws[w]
        BY <3>1, <4>1
      <4>2. CASE x \in Item /\ Told(w, who, id, c, x) /\ new = [ws[w] EXCEPT !.inbox = Append(@, x)]
        BY <3>1, <4>2, ToldHolds
      <4> QED BY <3>2, <4>1, <4>2
    <3>4. ASSUME NEW s \in StepIds, Holds(new, "run_step", s) PROVE OwnsStep(s, w, who)'
      <4>1. CASE Holds(worker[w], "run_step", s)
        <5>1. OwnsStep(s, w, who) /\ who # NONE
          BY <1>0, <3>0, <3>1, <4>1, HoldsAlive DEF OInv, Rightful
        <5> QED BY <1>4, <5>1, OwnsKept
      <4>2. CASE s = x.step /\ x.kind = "run_step" /\ Told(w, who, id, c, x)
        <5>1. c.op = "claim_step" /\ id = who /\ s = c.step /\ workflow_step'[s].owner = OwnerOf[w]
          BY <4>2 DEF Told
        <5>2. s \in DOMAIN workflow_step' /\ workflow_step'[s].runner = who
          BY <1>4, <5>1 DEF StepRows, StepAfter
        <5> QED BY <5>1, <5>2 DEF OwnsStep
      <4> QED BY <1>2, <3>3, <3>4, <4>1, <4>2
    <3>5. ASSUME NEW s \in StepIds, Holds(new, "run_task", s) PROVE OwnsTask(s, who)'
      <4>1. CASE Holds(worker[w], "run_task", s)
        <5>1. OwnsTask(s, who) /\ who # NONE
          BY <1>0, <3>0, <3>1, <4>1, HoldsAlive DEF OInv, Rightful
        <5> QED BY <1>4, <5>1, OwnsKept
      <4>2. CASE s = x.step /\ x.kind = "run_task" /\ Told(w, who, id, c, x)
        <5>1. c.op = "claim_task" /\ id = who /\ s = c.step
          BY <4>2 DEF Told
        <5>2. s \in DOMAIN browser_task' /\ browser_task'[s].runner = who
          BY <1>4, <5>1 DEF TaskRows, TaskAfter
        <5> QED BY <5>2 DEF OwnsTask
      <4> QED BY <1>2, <3>3, <3>5, <4>1, <4>2
    <3>6. \A i \in DOMAIN new.outbox : new.outbox[i].op = "enqueue_task" => BrowserStep(new.outbox[i].step)'
      <4>1. \A s \in StepIds : BrowserStep(s) => BrowserStep(s)'
        <5> SUFFICES ASSUME NEW s \in StepIds PROVE BrowserStep(s) => BrowserStep(s)'
          OBVIOUS
        <5> QED BY <1>4, BrowserStepKept
      <4> QED BY <1>2, <3>3, <4>1
    <3>7. Rightful(w, new)'
      BY <3>0, <3>3, <3>4, <3>5, <3>6 DEF Rightful
    <3>8. Apart(new)
      BY <1>2, <3>3 DEF Apart
    <3> QED BY <3>0, <3>7, <3>8 DEF Rightful, Apart, Holds, OwnsStep, OwnsTask, BrowserStep
  <2> QED BY <2>1, <2>2 DEF OInv
<1> QED BY <1>1, <1>3, <1>4 DEF Served

\* A worker's oldest call, and the worker without it.
LEMMA ServeWorkerLess ==
  ASSUME IInv, NEW w \in Workers, ServeWorker(w)
  PROVE  LET c == Head(worker[w].outbox)
             ws == [worker EXCEPT ![w].outbox = Tail(@)]
         IN  /\ worker[w].outbox # <<>> /\ c \in CallsOf(w) /\ c \in Addressed
             /\ Runner(w) \in Runners /\ Runner(w) # Plane /\ Runner(w) # NONE
             /\ Serve(ws, c, Runner(w)) /\ Less(ws)
             /\ \A x \in Workers : x # w => ws[x] = worker[x]
             /\ ws[w].outbox = Tail(worker[w].outbox)
             /\ UNCHANGED others
<1> DEFINE outbox == worker[w].outbox
           c == Head(outbox)
           ws == [worker EXCEPT ![w].outbox = Tail(@)]
<1>1. /\ outbox # <<>> /\ outbox \in Seq(CallsOf(w)) /\ outbox \in Seq(ReducerCall)
      /\ c \in CallsOf(w) /\ Tail(outbox) \in Seq(ReducerCall)
  BY ProcessFields DEF ServeWorker
<1>2. Serve(ws, c, Runner(w)) /\ UNCHANGED others
  BY DEF ServeWorker
<1>3. worker \in [Workers -> Process] /\ worker[w] \in Process
  BY DEF IInv, TypeOK
<1>4. Runner(w) \in Runners /\ Runner(w) # Plane /\ Runner(w) # NONE
  <2>1. worker[w].incarnation > 0
    BY <1>1, Alive
  <2>2. worker[w].incarnation \in 1 .. MaxCrashes + 1
    BY <2>1, ProcessFields, BoundsAssumption
  <2> QED BY <2>2, RunnerNotNone DEF Runner
<1>5. c \in Addressed
  BY <1>1 DEF CallsOf
<1>6. \A i \in DOMAIN Tail(outbox) : \E j \in DOMAIN outbox : outbox[j] = Tail(outbox)[i]
  <2>1. \A i \in DOMAIN Tail(outbox) : i + 1 \in DOMAIN outbox /\ outbox[i + 1] = Tail(outbox)[i]
    BY <1>1
  <2> QED BY <2>1
<1> DEFINE me == [worker[w] EXCEPT !.outbox = Tail(outbox)]
<1>7. /\ me \in Process /\ me.incarnation = worker[w].incarnation
      /\ me.scan = worker[w].scan /\ me.inbox = worker[w].inbox /\ me.outbox = Tail(outbox)
      /\ me.busy = worker[w].busy
  BY <1>1, <1>3 DEF Process
<1>8. ws = [worker EXCEPT ![w] = me]
  OBVIOUS
<1> HIDE DEF me
<1>9. ws \in [Workers -> Process] /\ ws[w] = me /\ \A x \in Workers : x # w => ws[x] = worker[x]
  BY <1>3, <1>7, <1>8
<1> HIDE DEF ws
<1>10. Less(ws)
  BY <1>6, <1>7, <1>9 DEF Less
<1> QED BY <1>1, <1>2, <1>4, <1>5, <1>7, <1>9, <1>10 DEF ws

LEMMA WorkerLess == ASSUME IInv PROVE Less(worker)
BY DEF IInv, TypeOK, Less

Route(r) == <<r, "route", 0>>

\* The calls of a dispatch, one by one.
DispatchCall(r, n, c) ==
  /\ n \in 1 .. 7
  /\ n = 1 => c.op = "register_agent"
  /\ n = 2 => c.op = "ingest_inbound"
  /\ n = 3 => c.op = "start_run"
  /\ n = 4 => c.op = "enqueue_step" /\ c.dep = NONE
  /\ n = 5 => c.op = "claim_step" /\ c.owner = Target
  /\ n = 6 => c.op = "complete_step"
  /\ n < 7 => c.step = Route(r)
  /\ c.op = "enqueue_step" => \E stage : c.owner = owner_for_stage(stage)
  /\ n = 7 => /\ c.op = "enqueue_step" /\ c.dep = Route(r)
              /\ next_stage("route") # NONE
              /\ c.step = <<r, next_stage("route"), 0>>

\* The calls of a dispatch by number.
LEMMA DispatchCallAt ==
  ASSUME NEW r \in RunIds, NEW n \in DOMAIN DispatchCalls(r)
  PROVE  DispatchCall(r, n, DispatchCalls(r)[n])
<1> DEFINE route == Route(r)
           stage == next_stage("route")
           c1 == Call("register_agent", route)
           c2 == Call("ingest_inbound", route)
           c3 == Call("start_run", route)
           c4 == Enqueue(route, owner_for_stage("route"), NONE, FALSE)
           c5 == Claim("claim_step", route, Target)
           c6 == Call("complete_step", route)
           c7 == Enqueue(<<r, stage, 0>>, owner_for_stage(stage), route, TRUE)
           rest == IF stage = NONE THEN <<>> ELSE <<c7>>
           calls == DispatchCalls(r)
<1>1. calls = <<c1, c2, c3, c4, c5, c6>> \o rest
  BY DEF DispatchCalls, Route
<1>2. /\ c1.op = "register_agent" /\ c2.op = "ingest_inbound" /\ c3.op = "start_run"
      /\ c4.op = "enqueue_step" /\ c4.dep = NONE /\ c5.op = "claim_step" /\ c5.owner = Target
      /\ c6.op = "complete_step" /\ c7.op = "enqueue_step" /\ c7.dep = route
      /\ c7.step = <<r, stage, 0>>
      /\ c1.step = route /\ c2.step = route /\ c3.step = route /\ c4.step = route
      /\ c5.step = route /\ c6.step = route
      /\ c4.owner = owner_for_stage("route") /\ c7.owner = owner_for_stage(stage)
      /\ c1.op # "enqueue_step" /\ c2.op # "enqueue_step" /\ c3.op # "enqueue_step"
      /\ c5.op # "enqueue_step" /\ c6.op # "enqueue_step"
  BY DEF Call, Claim, Enqueue
<1> SUFFICES DispatchCall(r, n, calls[n])
  OBVIOUS
<1>3. n \in DOMAIN calls
  OBVIOUS
<1> DEFINE S == {c1, c2, c3, c4, c5, c6, c7}
<1>4. c1 \in S /\ c2 \in S /\ c3 \in S /\ c4 \in S /\ c5 \in S /\ c6 \in S /\ c7 \in S
  OBVIOUS
<1>5. rest = <<>> \/ (stage # NONE /\ rest = <<c7>>)
  OBVIOUS
<1> HIDE DEF calls, rest, c1, c2, c3, c4, c5, c6, c7, S, stage
<1>6. <<c1, c2, c3, c4, c5, c6>> \in Seq(S) /\ Len(<<c1, c2, c3, c4, c5, c6>>) = 6
  BY <1>4
<1>7. rest \in Seq(S) /\ (rest # <<>> => stage # NONE /\ Len(rest) = 1 /\ rest[1] = c7)
  <2>1. CASE rest = <<>>
    BY <2>1
  <2>2. CASE stage # NONE /\ rest = <<c7>>
    BY <1>4, <2>2
  <2> QED BY <1>5, <2>1, <2>2
<1>8. /\ n \in 1 .. 6 + Len(rest)
      /\ n <= 6 => calls[n] = <<c1, c2, c3, c4, c5, c6>>[n]
      /\ n > 6 => rest # <<>> /\ calls[n] = rest[n - 6]
  BY <1>1, <1>3, <1>6, <1>7
<1>9. Len(rest) = 0 \/ Len(rest) = 1
  BY <1>4, <1>5
<1>10. CASE n <= 6
  <2>1. /\ n = 1 => calls[n] = c1
        /\ n = 2 => calls[n] = c2
        /\ n = 3 => calls[n] = c3
        /\ n = 4 => calls[n] = c4
        /\ n = 5 => calls[n] = c5
        /\ n = 6 => calls[n] = c6
        /\ n \in 1 .. 6
    BY <1>8, <1>9, <1>10
  <2> QED BY <1>2, <2>1 DEF DispatchCall
<1>11. CASE n > 6
  <2>1. n = 7 /\ calls[n] = c7 /\ stage # NONE
    <3>1. Len(rest) = 1 /\ rest[1] = c7 /\ stage # NONE /\ calls[n] = rest[n - 6]
      BY <1>7, <1>8, <1>11
    <3>2. n \in 1 .. 7
      BY <1>8, <3>1
    <3>3. n = 7
      BY <1>11, <3>2
    <3>4. n - 6 = 1
      BY <3>3
    <3> QED BY <3>1, <3>3, <3>4
  <2>2. c7.op = "enqueue_step" /\ c7.dep = route /\ c7.step = <<r, next_stage("route"), 0>>
    BY <1>2 DEF stage
  <2>3. \E st : c7.owner = owner_for_stage(st)
    BY <1>2
  <2>4. next_stage("route") # NONE
    BY <2>1 DEF stage
  <2>5. DispatchCall(r, 7, c7)
    BY <2>2, <2>3, <2>4 DEF DispatchCall, stage, route
  <2> QED BY <2>1, <2>5
<1> QED BY <1>8, <1>9, <1>10, <1>11

\* A dispatch is a call of the plane.
LEMMA DispatchServes ==
  ASSUME IInv, NEW r \in RunIds, Dispatch(r)
  PROVE  LET n == dispatch[r]
             c == DispatchCalls(r)[n]
         IN  /\ n \in DOMAIN DispatchCalls(r) /\ n \in 1 .. 7 /\ c \in Addressed
             /\ Serve(worker, c, Plane) /\ Plane \in Runners
             /\ c.op \in {"register_agent", "ingest_inbound", "start_run", "enqueue_step",
                          "claim_step", "complete_step"}
<1>1. dispatch[r] \in DOMAIN DispatchCalls(r) /\ Serve(worker, DispatchCalls(r)[dispatch[r]], Plane)
  BY DEF Dispatch
<1>2. dispatch[r] \in 1 .. 7 /\ DispatchCalls(r)[dispatch[r]] \in Addressed
  BY <1>1, DispatchCallsType
<1>3. Plane \in Runners
  BY DEF Runners
<1>4. DispatchCalls(r)[dispatch[r]].op \in {"register_agent", "ingest_inbound", "start_run",
        "enqueue_step", "claim_step", "complete_step"}
  <2>1. DispatchCall(r, dispatch[r], DispatchCalls(r)[dispatch[r]])
    BY <1>1, DispatchCallAt
  <2> QED BY <1>2, <2>1 DEF DispatchCall
<1> QED BY <1>1, <1>2, <1>3, <1>4

\* The call of a retry.
RetryCall(r) ==
  Enqueue(<<r, StageOf(retry[r].step), retry[r].count>>, workflow_step[retry[r].step].owner,
          workflow_step[retry[r].step].depends_on, retry[r].step \in with_thread)

\* So is a retry.
LEMMA RetryServes ==
  ASSUME IInv, NEW r \in RunIds, RetryEnqueues(r)
  PROVE  LET c == RetryCall(r)
             s == retry[r].step
         IN  /\ s # NONE /\ s \in DOMAIN workflow_step /\ s \in StepIds
             /\ c \in Addressed /\ Serve(worker, c, Plane) /\ Plane \in Runners
             /\ c.op = "enqueue_step" /\ c.step = <<r, StageOf(s), retry[r].count>>
             /\ c.dep = workflow_step[s].depends_on
             /\ retry' = [retry EXCEPT ![r].step = NONE] /\ UNCHANGED <<dispatch, crashes, cancels>>
<1> DEFINE s == retry[r].step
           n == retry[r].count
           owner == workflow_step[s].owner
           dep == workflow_step[s].depends_on
           thread == s \in with_thread
           c == Enqueue(<<r, StageOf(s), n>>, owner, dep, thread)
<1>1. s # NONE /\ Serve(worker, c, Plane) /\ retry' = [retry EXCEPT ![r].step = NONE]
      /\ UNCHANGED <<dispatch, crashes, cancels>>
  BY DEF RetryEnqueues
<1>2. retry \in [RunIds -> [count : 0 .. MaxRetries, step : StepIds \cup {NONE}]]
  BY DEF IInv, TypeOK
<1>3. s \in StepIds /\ s \in DOMAIN workflow_step /\ n \in 0 .. MaxRetries
  BY <1>1, <1>2 DEF IInv, RetriesKnown
<1>4. workflow_step[s] \in Store!WorkflowStep
  BY <1>3 DEF IInv, TypeOK, Store!TypeOK, Store!IsTable
<1>5. owner \in ExecutionOwner /\ dep \in StepIds \cup {NONE} /\ thread \in BOOLEAN
  BY <1>4 DEF Store!WorkflowStep
<1>6. <<r, StageOf(s), n>> \in StepIds
  BY <1>3, StepIdParts, StepIdMade
<1>7. c.op = "enqueue_step" /\ c.step = <<r, StageOf(s), n>> /\ c.dep = dep
  BY DEF Enqueue
<1>8. Plane \in Runners
  BY DEF Runners
<1>9. RetryCall(r) = c
  BY DEF RetryCall
<1> HIDE DEF owner, thread, dep, n
<1>10. c \in Addressed
  BY <1>5, <1>6 DEF Enqueue, Addressed, ReducerCall
<1> HIDE DEF c
<1> QED BY <1>1, <1>3, <1>7, <1>8, <1>9, <1>10 DEF dep, n

\* A process that has just started or died holds nothing.
LEMMA EmptyOInv ==
  ASSUME OInv, IInv', NEW w \in Workers, Start(w) \/ Crash(w) PROVE OInv'
<1> DEFINE me == worker'[w]
<1>1. worker \in [Workers -> Process] /\ worker' \in [Workers -> Process]
  BY DEF OInv, IInv, TypeOK
<1>2. PICK n : /\ worker' = [worker EXCEPT ![w] = [Down(n) EXCEPT !.phase = "connected"]]
                    \/ worker' = [worker EXCEPT ![w] = Down(n)]
               /\ UNCHANGED storeVars
  BY DEF Start, Crash
<1>3. /\ worker' = [worker EXCEPT ![w] = me]
      /\ me = [Down(n) EXCEPT !.phase = "connected"] \/ me = Down(n)
  BY <1>1, <1>2
<1> HIDE DEF me
<1>4. me.inbox = <<>> /\ me.scan = {} /\ me.outbox = <<>> /\ me.busy = [th \in Threads |-> NONE]
  BY <1>3 DEF Down
<1>5. Apart(me) /\ Rightful(w, me)
  BY <1>4 DEF Apart, Rightful, Holds
<1> QED BY <1>2, <1>3, <1>5, ProcessOInv DEF me

\* What a scan finds to run is the worker's own.
LEMMA ScanOInv ==
  ASSUME OInv, IInv', NEW w \in Workers, ScanSteps(w) \/ ScanTasks(w) PROVE OInv'
<1> DEFINE me == worker'[w]
<1>0. IInv /\ Rightful(w, worker[w]) /\ Apart(worker[w])
  BY DEF OInv
<1>1. ASSUME NEW before, NEW after, NEW rows, Scan(w, before, after, rows),
             \A x \in rows : /\ x.kind = "run_step" => OwnsStep(x.step, w, Runner(w))
                             /\ x.kind = "run_task" => OwnsTask(x.step, Runner(w))
      PROVE  OInv'
  <2> DEFINE new == [worker[w] EXCEPT !.phase = after, !.scan = rows]
  <2>1. worker[w].inbox = <<>> /\ UNCHANGED storeVars
        /\ worker' = [worker EXCEPT ![w].phase = after, ![w].scan = rows]
    BY <1>1 DEF Scan
  <2>2. worker' = [worker EXCEPT ![w] = new]
    BY <1>0, <2>1, ProcessFields DEF Process
  <2>3. me = new /\ worker' = [worker EXCEPT ![w] = me]
    BY <1>0, <2>2 DEF IInv, TypeOK
  <2> HIDE DEF me
  <2>4. /\ me.scan = rows /\ me.incarnation = worker[w].incarnation
        /\ me.outbox = worker[w].outbox /\ me.inbox = <<>> /\ me.busy = worker[w].busy
    BY <1>0, <2>1, <2>3, ProcessFields DEF Process
  <2>5. Apart(me)
    BY <1>0, <2>4 DEF Apart
  <2>6. \A kind, s : Holds(me, kind, s) =>
          \/ \E x \in rows : x.kind = kind /\ x.step = s
          \/ Holds(worker[w], kind, s)
    BY <2>4 DEF Holds
  <2>7. Rightful(w, me)
    BY <1>0, <1>1, <2>4, <2>6 DEF Rightful, Runner
  <2> QED BY <2>1, <2>3, <2>5, <2>7, ProcessOInv DEF me
<1>2. CASE ScanSteps(w)
  <2> DEFINE rows == maybe_handle_step(w, Runner(w), StepIds, workflow_step, browser_task)
  <2>1. \A x \in rows : /\ x.kind = "run_step" => OwnsStep(x.step, w, Runner(w))
                        /\ x.kind # "run_task"
    BY DEF maybe_handle_step, OwnsStep
  <2>2. Scan(w, "connected", "scanning", rows)
    BY <1>2 DEF ScanSteps
  <2> HIDE DEF rows
  <2> QED BY <1>1, <2>1, <2>2
<1>3. CASE ScanTasks(w)
  <2> DEFINE rows == maybe_handle_browser_task(w, Runner(w), StepIds, browser_task)
  <2>1. \A x \in rows : /\ x.kind # "run_step"
                        /\ x.kind = "run_task" => OwnsTask(x.step, Runner(w))
    BY DEF maybe_handle_browser_task, OwnsTask
  <2>2. Scan(w, "scanning", "serving", rows)
    BY <1>3 DEF ScanTasks
  <2> HIDE DEF rows
  <2> QED BY <1>1, <2>1, <2>2
<1> QED BY <1>2, <1>3

LEMMA ServeWorkerOInv ==
  ASSUME OInv, IInv', NEW w \in Workers, ServeWorker(w) PROVE OInv'
<1> DEFINE c == Head(worker[w].outbox)
           ws == [worker EXCEPT ![w].outbox = Tail(@)]
<1>1. /\ IInv /\ worker[w].outbox # <<>> /\ c \in Addressed /\ Runner(w) \in Runners
      /\ Serve(ws, c, Runner(w)) /\ Less(ws)
  BY ServeWorkerLess DEF OInv
<1>2. c.op = "enqueue_task" => BrowserStep(c.step)
  <2>1. worker[w].outbox \in Seq(ReducerCall)
    BY <1>1, ProcessFields
  <2>2. 1 \in DOMAIN worker[w].outbox /\ worker[w].outbox[1] = c
    BY <1>1, <2>1
  <2> QED BY <2>2 DEF OInv, Rightful
<1> HIDE DEF c, ws
<1> QED BY <1>1, <1>2, ServeOInv

LEMMA PlaneOInv ==
  ASSUME OInv, IInv', NEW r \in RunIds,
         Dispatch(r) \/ DispatchDies(r) \/ RetryReads(r) \/ RetryEnqueues(r) \/ cancel_run(r)
  PROVE  OInv'
<1>0. IInv /\ Less(worker)
  BY WorkerLess DEF OInv
<1>1. CASE Dispatch(r)
  <2> DEFINE c == DispatchCalls(r)[dispatch[r]]
  <2>1. c \in Addressed /\ Serve(worker, c, Plane) /\ Plane \in Runners /\ c.op # "enqueue_task"
    BY <1>0, <1>1, DispatchServes
  <2> HIDE DEF c
  <2> QED BY <1>0, <2>1, ServeOInv
<1>2. CASE RetryEnqueues(r)
  <2> DEFINE c == RetryCall(r)
  <2>1. c \in Addressed /\ Serve(worker, c, Plane) /\ Plane \in Runners /\ c.op # "enqueue_task"
    BY <1>0, <1>2, RetryServes
  <2> HIDE DEF c
  <2> QED BY <1>0, <2>1, ServeOInv
<1>3. CASE DispatchDies(r) \/ RetryReads(r) \/ cancel_run(r)
  <2>1. UNCHANGED <<workflow_step, browser_task, worker>>
    BY <1>3 DEF DispatchDies, RetryReads, cancel_run, storeVars, Store!update_run_status
  <2> QED BY <2>1 DEF OInv, Named, Unclaimed, BrowserStep, Rightful, Apart, Holds, OwnsStep, OwnsTask
<1> QED BY <1>1, <1>2, <1>3

LEMMA InitOInv == Init => OInv
<1> SUFFICES ASSUME Init PROVE OInv
  OBVIOUS
<1>1. IInv /\ Store!Init
  BY InitIInv
<1>2. DOMAIN workflow_step = {} /\ DOMAIN browser_task = {}
  BY <1>1 DEF Store!Init, Store!EmptyTable
<1>3. Named /\ Unclaimed
  BY <1>2 DEF Named, Unclaimed
<1>4. ASSUME NEW w \in Workers PROVE Rightful(w, worker[w]) /\ Apart(worker[w])
  <2>1. worker[w] = Down(0)
    BY DEF Init
  <2>2. Down(0).inbox = <<>> /\ Down(0).scan = {} /\ Down(0).outbox = <<>>
        /\ Down(0).busy = [th \in Threads |-> NONE]
    BY DEF Down
  <2> QED BY <2>1, <2>2 DEF Rightful, Apart, Holds
<1> QED BY <1>1, <1>3, <1>4 DEF OInv

LEMMA NextOInv == OInv /\ [Next]_vars => OInv'
<1> SUFFICES ASSUME OInv, [Next]_vars PROVE OInv'
  OBVIOUS
<1>0. IInv /\ IInv'
  BY NextIInv DEF OInv
<1>1. CASE UNCHANGED vars
  <2>1. UNCHANGED <<workflow_step, browser_task, worker>>
    BY <1>1 DEF vars, storeVars
  <2> QED BY <1>0, <2>1 DEF OInv, Named, Unclaimed, BrowserStep, Rightful, Apart, Holds, OwnsStep, OwnsTask
<1>2. ASSUME NEW w \in Workers, WorkerNext(w) \/ Crash(w) PROVE OInv'
  BY <1>0, <1>2, EmptyOInv, ScanOInv, CallbackOInv, ScanItemOInv, FinishOInv, ServeWorkerOInv
     DEF WorkerNext
<1>3. ASSUME NEW r \in RunIds,
             Dispatch(r) \/ DispatchDies(r) \/ RetryReads(r) \/ RetryEnqueues(r) \/ cancel_run(r)
      PROVE  OInv'
  BY <1>0, <1>3, PlaneOInv
<1> QED BY <1>1, <1>2, <1>3 DEF Next

\* Work is with its owners, always.
LEMMA OwnersInductive == Spec => []OInv
BY InitOInv, NextOInv, PTL DEF Spec

\* There is one browser worker, as in the deployment of docs/ARCHITECTURE_GUIDE.md:144.
LoneBrowser ==
  \A w1, w2 \in Workers :
    OwnerOf[w1] = "browser-worker" /\ OwnerOf[w2] = "browser-worker" => w1 = w2

\* With one browser worker no two threads, of one worker or of two, execute one step
\* or task at a time: workers of any number start and die at any time.
THEOREM OneExecutes == LoneBrowser => (Spec => []ExecutedByOne)
<1> SUFFICES ASSUME LoneBrowser PROVE Spec => []ExecutedByOne
  OBVIOUS
<1>1. ASSUME OInv, NEW w1 \in Workers, NEW w2 \in Workers, NEW t1 \in Threads, NEW t2 \in Threads,
             worker[w1].busy[t1] # NONE, worker[w2].busy[t2] # NONE,
             worker[w1].busy[t1].kind = worker[w2].busy[t2].kind,
             worker[w1].busy[t1].step = worker[w2].busy[t2].step
      PROVE  w1 = w2 /\ t1 = t2
  <2> DEFINE s == worker[w1].busy[t1].step
             kind == worker[w1].busy[t1].kind
  <2>1. IInv /\ Apart(worker[w1]) /\ Apart(worker[w2]) /\ Rightful(w1, worker[w1]) /\ Rightful(w2, worker[w2])
    BY <1>1 DEF OInv
  <2>2. kind \in {"run_step", "run_task"} /\ s \in StepIds
    BY <1>1, <2>1, ProcessFields DEF Apart, IsRunning, Item
  <2>3. Holds(worker[w1], kind, s) /\ Holds(worker[w2], kind, s)
    BY <1>1 DEF Holds
  <2> HIDE DEF s, kind
  <2>4. w1 = w2
    <3>1. CASE kind = "run_step"
      <4>1. OwnsStep(s, w1, <<w1, worker[w1].incarnation>>) /\ OwnsStep(s, w2, <<w2, worker[w2].incarnation>>)
        BY <2>1, <2>2, <2>3, <3>1 DEF Rightful
      <4>2. /\ OwnerOf[w1] = workflow_step[s].owner /\ OwnerOf[w2] = workflow_step[s].owner
            /\ OwnerOf[w1] # "browser-worker" =>
                 <<w1, worker[w1].incarnation>> = <<w2, worker[w2].incarnation>>
        BY <4>1 DEF OwnsStep
      <4>3. CASE OwnerOf[w1] = "browser-worker"
        BY <4>2, <4>3 DEF LoneBrowser
      <4>4. CASE OwnerOf[w1] # "browser-worker"
        BY <4>2, <4>4
      <4> QED BY <4>3, <4>4
    <3>2. CASE kind = "run_task"
      <4>1. OwnsTask(s, <<w1, worker[w1].incarnation>>) /\ OwnsTask(s, <<w2, worker[w2].incarnation>>)
        BY <2>1, <2>2, <2>3, <3>2 DEF Rightful
      <4> QED BY <4>1 DEF OwnsTask
    <3> QED BY <2>2, <3>1, <3>2
  <2> QED BY <1>1, <2>1, <2>4 DEF Apart
<1>2. OInv => ExecutedByOne
  BY <1>1 DEF ExecutedByOne
<1> QED BY <1>2, OwnersInductive, PTL

-----------------------------------------------------------------------------
(* Work that goes as it should: no worker comes up while a run has steps.  *)

\* No worker is scanning, nor comes up, while there are steps: what a scan finds is
\* stale by the time it is acted on, what is announced is not.
Settled ==
  DOMAIN workflow_step # {} =>
    \A w \in Workers : worker[w].phase \in {"down", "serving"} /\ worker[w].scan = {}

EndsTask == {"complete_task", "fail_task"}

Done(s) == s \in DOMAIN workflow_step /\ workflow_step[s].status = "completed"
TaskDone(k) == k \in DOMAIN browser_task /\ browser_task[k].status = "completed"

StepRuns(s, id) ==
  s \in DOMAIN workflow_step /\ workflow_step[s].status = "running" /\ workflow_step[s].runner = id
TaskRuns(k, id) ==
  k \in DOMAIN browser_task /\ browser_task[k].status = "running" /\ browser_task[k].runner = id

TaskBlocks ==
  \A k \in DOMAIN browser_task :
    browser_task[k].status \in {"queued", "running"} =>
      k \in DOMAIN workflow_step /\ workflow_step[k].status = "blocked"

DepsDone ==
  \A s \in DOMAIN workflow_step :
    workflow_step[s].depends_on # NONE => Done(workflow_step[s].depends_on)

Staged(s) == \E i \in DOMAIN Pipeline : StageOf(s) = Pipeline[i]

\* The stages before that of s are done.
Entered(s) ==
  \A i, j \in DOMAIN Pipeline :
    i < j /\ StageOf(s) = Pipeline[j] => Done(<<RunOf(s), Pipeline[i], 0>>)

StepsInOrder ==
  \A s \in DOMAIN workflow_step :
    /\ s[3] <= retry[RunOf(s)].count /\ Staged(s)
    /\ retry[RunOf(s)].count = 0 => Entered(s)

RunDone ==
  \A r \in DOMAIN workflow_run :
    workflow_run[r].status = "completed" /\ retry[r].count = 0 => Done(<<r, "learn", 0>>)

Orderly == TaskBlocks /\ BrowserStepHasResult /\ DepsDone /\ StepsInOrder /\ RunDone

\* The call c is what id has to make now.
Due(c, id) ==
  /\ c.op \in EndsStep => StepRuns(c.step, id)
  /\ c.op \in EndsTask => TaskRuns(c.step, id)
  /\ c.op = "complete_step" /\ BrowserStep(c.step) => TaskDone(c.step)
  /\ c.op = "enqueue_step" =>
       /\ c.dep # NONE => Done(c.dep)
       /\ c.step[3] <= retry[RunOf(c.step)].count /\ Staged(c.step)
       /\ retry[RunOf(c.step)].count = 0 => Entered(c.step)

\* The rows a due call may write, and which it leaves.
LEMMA StepTouched ==
  ASSUME TaskBlocks, NEW c, NEW id, Due(c, id), StepRows(c, id), NEW s \in DOMAIN workflow_step,
         TaskRows(c, id)
  PROVE  /\ s \in DOMAIN workflow_step'
         /\ workflow_step'[s].owner = workflow_step[s].owner
         /\ workflow_step'[s].depends_on = workflow_step[s].depends_on
         /\ \/ workflow_step'[s] = workflow_step[s]
            \/ /\ c.step = s /\ workflow_step'[s].status = StepAfter[c.op]
               /\ \/ c.op = "claim_step" /\ workflow_step[s].status = "ready"
                  \/ c.op \in EndsStep /\ StepRuns(s, id)
                  \/ c.op \in EndsTask /\ workflow_step[s].status = "blocked"
<1>1. DOMAIN StepAfter = {"enqueue_step", "claim_step"} \cup EndsStep \cup EndsTask
  BY DEF StepAfter, EndsStep, EndsTask
<1>2. CASE s # c.step \/ c.op \notin DOMAIN StepAfter
  BY <1>2 DEF StepRows
<1>3. CASE s = c.step /\ c.op \in DOMAIN StepAfter
  <2>1. c.op # "enqueue_step"
    BY <1>3 DEF StepRows
  <2>2. /\ s \in DOMAIN workflow_step' /\ workflow_step'[s].status = StepAfter[c.op]
        /\ workflow_step'[s].owner = workflow_step[s].owner
        /\ workflow_step'[s].depends_on = workflow_step[s].depends_on
        /\ c.op = "claim_step" => workflow_step[s].status = "ready"
    BY <1>3, <2>1 DEF StepRows
  <2>3. c.op \in EndsTask => workflow_step[s].status = "blocked"
    BY <1>3 DEF Due, TaskRuns, TaskBlocks
  <2>4. c.op \in EndsStep => StepRuns(s, id)
    BY <1>3 DEF Due
  <2> QED BY <1>1, <1>3, <2>1, <2>2, <2>3, <2>4
<1> QED BY <1>2, <1>3

\* The same for browser tasks.
LEMMA TaskTouched ==
  ASSUME NEW c, NEW id, Due(c, id), TaskRows(c, id), NEW k \in DOMAIN browser_task
  PROVE  /\ k \in DOMAIN browser_task'
         /\ \/ browser_task'[k] = browser_task[k]
            \/ /\ c.step = k /\ browser_task'[k].status = TaskAfter[c.op]
               /\ \/ c.op = "claim_task" /\ browser_task[k].status = "queued"
                  \/ c.op \in EndsTask /\ TaskRuns(k, id)
<1>1. DOMAIN TaskAfter = {"enqueue_task", "claim_task"} \cup EndsTask
  BY DEF TaskAfter, EndsTask
<1>2. CASE k # c.step \/ c.op \notin DOMAIN TaskAfter
  BY <1>2 DEF TaskRows
<1>3. CASE k = c.step /\ c.op \in DOMAIN TaskAfter
  <2>1. c.op # "enqueue_task"
    BY <1>3 DEF TaskRows
  <2>2. /\ k \in DOMAIN browser_task' /\ browser_task'[k].status = TaskAfter[c.op]
        /\ c.op = "claim_task" => browser_task[k].status = "queued"
    BY <1>3, <2>1 DEF TaskRows
  <2>3. c.op \in EndsTask => TaskRuns(k, id)
    BY <1>3 DEF Due
  <2> QED BY <1>1, <1>3, <2>1, <2>2, <2>3
<1> QED BY <1>2, <1>3

\* What is done stays done, and what somebody runs stays so until that one ends it.
LEMMA DoneKept ==
  ASSUME TaskBlocks, NEW c, NEW id, Due(c, id), StepRows(c, id), TaskRows(c, id), NEW s
  PROVE  /\ Done(s) => Done(s)'
         /\ TaskDone(s) => TaskDone(s)'
<1>1. EndsTask = {"complete_task", "fail_task"} /\ EndsStep = {"fail_step", "complete_step", "enqueue_task"}
  BY DEF EndsTask, EndsStep
<1>2. Done(s) => Done(s)'
  <2> SUFFICES ASSUME s \in DOMAIN workflow_step, workflow_step[s].status = "completed"
               PROVE  s \in DOMAIN workflow_step' /\ workflow_step'[s].status = "completed"
    BY DEF Done
  <2> QED BY StepTouched DEF StepRuns
<1>3. TaskDone(s) => TaskDone(s)'
  <2> SUFFICES ASSUME s \in DOMAIN browser_task, browser_task[s].status = "completed"
               PROVE  s \in DOMAIN browser_task' /\ browser_task'[s].status = "completed"
    BY DEF TaskDone
  <2> QED BY TaskTouched DEF TaskRuns
<1> QED BY <1>2, <1>3

\* A step or task that runs goes on until its runner ends it.
LEMMA RunsKept ==
  ASSUME TaskBlocks, NEW c, NEW id, Due(c, id), StepRows(c, id), TaskRows(c, id), NEW s, NEW who
  PROVE  /\ StepRuns(s, who) =>
              \/ StepRuns(s, who)' /\ workflow_step'[s].owner = workflow_step[s].owner
              \/ c.op \in EndsStep /\ c.step = s /\ who = id
         /\ TaskRuns(s, who) => TaskRuns(s, who)' \/ (c.op \in EndsTask /\ c.step = s /\ who = id)
<1>1. ASSUME StepRuns(s, who)
      PROVE  \/ StepRuns(s, who)' /\ workflow_step'[s].owner = workflow_step[s].owner
             \/ c.op \in EndsStep /\ c.step = s /\ who = id
  BY <1>1, StepTouched DEF StepRuns
<1>2. ASSUME TaskRuns(s, who)
      PROVE  TaskRuns(s, who)' \/ (c.op \in EndsTask /\ c.step = s /\ who = id)
  BY <1>2, TaskTouched DEF TaskRuns
<1> QED BY <1>1, <1>2

\* The stages before a step stay done.
LEMMA EnteredKept ==
  ASSUME \A s : Done(s) => Done(s)', NEW s, Entered(s) PROVE Entered(s)'
BY DEF Entered

\* A due call leaves the tables in order.
LEMMA OrderlyKept ==
  ASSUME OInv, Orderly, NEW c \in Addressed, NEW id \in Runners, Due(c, id),
         StepRows(c, id), TaskRows(c, id), RunRows(c),
         \A r \in RunIds : retry'[r].count = retry[r].count, TypeOK'
  PROVE  Orderly'
<1>0. TaskBlocks /\ BrowserStepHasResult /\ DepsDone /\ StepsInOrder /\ RunDone
  BY DEF Orderly
<1>1. DOMAIN StepAfter = {"enqueue_step", "claim_step", "complete_step", "fail_step",
                          "enqueue_task", "complete_task", "fail_task"}
      /\ DOMAIN TaskAfter = {"enqueue_task", "claim_task", "complete_task", "fail_task"}
      /\ EndsTask = {"complete_task", "fail_task"}
      /\ EndsStep = {"fail_step", "complete_step", "enqueue_task"}
  BY DEF StepAfter, TaskAfter, EndsTask, EndsStep
<1>2. \A s : (Done(s) => Done(s)') /\ (TaskDone(s) => TaskDone(s)')
  BY <1>0, DoneKept
<1>3. \A s \in DOMAIN workflow_step :
        /\ s \in DOMAIN workflow_step'
        /\ workflow_step'[s].owner = workflow_step[s].owner
        /\ workflow_step'[s].depends_on = workflow_step[s].depends_on
        /\ \/ workflow_step'[s] = workflow_step[s]
           \/ /\ c.step = s /\ workflow_step'[s].status = StepAfter[c.op]
              /\ \/ c.op = "claim_step" /\ workflow_step[s].status = "ready"
                 \/ c.op \in EndsStep /\ StepRuns(s, id)
                 \/ c.op \in EndsTask /\ workflow_step[s].status = "blocked"
  BY <1>0, StepTouched
<1>4. \A s \in DOMAIN workflow_step' \ DOMAIN workflow_step :
        s = c.step /\ c.op = "enqueue_step" /\ workflow_step'[s] = NewStep(c)
  BY DEF StepRows
<1>5. \A k \in DOMAIN browser_task' :
        \/ /\ k \in DOMAIN browser_task /\ browser_task'[k] = browser_task[k]
           /\ k = c.step => c.op \notin DOMAIN TaskAfter
        \/ k = c.step /\ c.op \in DOMAIN TaskAfter /\ browser_task'[k].status = TaskAfter[c.op]
  BY <1>1 DEF TaskRows
<1>6. TaskBlocks'
  <2> SUFFICES ASSUME NEW k \in DOMAIN browser_task', browser_task'[k].status \in {"queued", "running"}
               PROVE  k \in DOMAIN workflow_step' /\ workflow_step'[k].status = "blocked"
    BY DEF TaskBlocks
  <2>1. CASE k = c.step /\ c.op \in DOMAIN TaskAfter /\ browser_task'[k].status = TaskAfter[c.op]
    <3>1. c.op = "enqueue_task" \/ c.op = "claim_task"
      BY <1>1, <2>1 DEF TaskAfter
    <3>2. CASE c.op = "enqueue_task"
      BY <1>1, <2>1, <3>2 DEF StepRows, StepAfter
    <3>3. CASE c.op = "claim_task"
      <4>1. k \in DOMAIN browser_task /\ browser_task[k].status = "queued"
        BY <1>1, <2>1, <3>3 DEF TaskRows
      <4>2. workflow_step' = workflow_step
        BY <1>1, <3>3 DEF StepRows
      <4> QED BY <1>0, <4>1, <4>2 DEF TaskBlocks
    <3> QED BY <3>1, <3>2, <3>3
  <2>2. CASE k \in DOMAIN browser_task /\ browser_task'[k] = browser_task[k]
             /\ (k = c.step => c.op \notin DOMAIN TaskAfter)
    <3>1. k \in DOMAIN workflow_step /\ workflow_step[k].status = "blocked"
      BY <1>0, <2>2 DEF TaskBlocks
    <3> QED BY <1>1, <1>3, <2>2, <3>1 DEF StepRuns
  <2> QED BY <1>5, <2>1, <2>2
<1>7. BrowserStepHasResult'
  <2> SUFFICES ASSUME NEW s \in DOMAIN workflow_step', workflow_step'[s].owner = "browser-worker",
                      workflow_step'[s].status = "completed"
               PROVE  TaskDone(s)'
    BY DEF BrowserStepHasResult, TaskDone
  <2>1. s \in DOMAIN workflow_step
    BY <1>4 DEF NewStep
  <2>2. CASE workflow_step'[s] = workflow_step[s]
    <3>1. TaskDone(s)
      BY <1>0, <2>1, <2>2 DEF BrowserStepHasResult, TaskDone
    <3> QED BY <1>2, <3>1
  <2>3. CASE c.step = s /\ c.op \in DOMAIN StepAfter /\ workflow_step'[s].status = StepAfter[c.op]
    <3>1. c.op = "complete_step"
      BY <1>1, <2>3 DEF StepAfter
    <3>2. TaskDone(s)
      BY <1>3, <2>1, <2>3, <3>1 DEF Due, BrowserStep
    <3> QED BY <1>2, <3>2
  <2> QED BY <1>1, <1>3, <2>1, <2>2, <2>3
<1>8. DepsDone'
  <2> SUFFICES ASSUME NEW s \in DOMAIN workflow_step', NEW d, d = workflow_step'[s].depends_on, d # NONE
               PROVE  d \in DOMAIN workflow_step' /\ workflow_step'[d].status = "completed"
    BY DEF DepsDone, Done
  <2>1. Done(d)
    <3>1. CASE s \in DOMAIN workflow_step
      BY <1>0, <1>3, <3>1 DEF DepsDone
    <3>2. CASE s \notin DOMAIN workflow_step
      BY <1>4, <3>2 DEF NewStep, Due
    <3> QED BY <3>1, <3>2
  <2> QED BY <1>2, <2>1 DEF Done
<1>9. StepsInOrder'
  <2> SUFFICES ASSUME NEW s \in DOMAIN workflow_step'
               PROVE  /\ s[3] <= retry'[RunOf(s)].count /\ Staged(s)
                      /\ retry'[RunOf(s)].count = 0 => Entered(s)'
    BY DEF StepsInOrder, Staged, StageOf, RunOf
  <2>1. RunOf(s) \in RunIds
    <3>1. s \in StepIds
      BY DEF TypeOK, Store!TypeOK, Store!IsTable
    <3> QED BY <3>1, StepIdParts
  <2>2. /\ s[3] <= retry[RunOf(s)].count /\ Staged(s)
        /\ retry[RunOf(s)].count = 0 => Entered(s)
    <3>1. CASE s \in DOMAIN workflow_step
      BY <1>0, <3>1 DEF StepsInOrder
    <3>2. CASE s \notin DOMAIN workflow_step
      BY <1>4, <3>2 DEF Due
    <3> QED BY <3>1, <3>2
  <2>3. Entered(s) => Entered(s)'
    BY <1>2, EnteredKept
  <2>4. retry'[RunOf(s)].count = retry[RunOf(s)].count
    BY <2>1
  <2> QED BY <2>2, <2>3, <2>4
<1>10. RunDone'
  <2> SUFFICES ASSUME NEW r \in DOMAIN workflow_run', workflow_run'[r].status = "completed",
                      retry'[r].count = 0
               PROVE  Done(<<r, "learn", 0>>)'
    BY DEF RunDone
  <2>1. r \in RunIds /\ retry[r].count = 0
    BY DEF TypeOK, Store!TypeOK, Store!IsTable
  <2>2. CASE r \in DOMAIN workflow_run /\ workflow_run'[r] = workflow_run[r]
    <3>1. Done(<<r, "learn", 0>>)
      BY <1>0, <2>1, <2>2 DEF RunDone
    <3> QED BY <1>2, <3>1
  <2>3. CASE r = RunOf(c.step) /\ c.op = "complete_step" /\ StageOf(c.step) = "learn"
    <3>1. c.step \in DOMAIN workflow_step /\ c.step \in StepIds
      BY <2>3 DEF StepRows, StepAfter, Addressed, ReducerCall
    <3>2. c.step[3] <= 0 /\ c.step[3] \in Nat /\ c.step = <<c.step[1], c.step[2], c.step[3]>>
      BY <1>0, <2>1, <2>3, <3>1, StepIdParts, BoundsAssumption DEF StepsInOrder, StepIds
    <3>3. c.step = <<r, "learn", 0>>
      BY <2>3, <3>2 DEF RunOf, StageOf
    <3>4. Done(c.step)'
      BY <1>1, <2>3, <3>1 DEF StepRows, StepAfter, Done
    <3> QED BY <3>3, <3>4
  <2> QED BY <2>2, <2>3 DEF RunRows
<1> QED BY <1>6, <1>7, <1>8, <1>9, <1>10 DEF Orderly

-----------------------------------------------------------------------------
(* What a process at work holds, when nobody comes up late.                *)

Work == {"run_step", "run_task"}

\* The kind of work that a call ends.
Ends(op) == IF op \in EndsStep THEN "run_step" ELSE IF op \in EndsTask THEN "run_task" ELSE "none"

Received(me, i, kind, s) == i \in DOMAIN me.inbox /\ me.inbox[i].kind = kind /\ me.inbox[i].step = s
Doing(me, kind, s) ==
  me.busy["callbacks"] # NONE /\ me.busy["callbacks"].kind = kind /\ me.busy["callbacks"].step = s
Sent(me, j, kind, s) == j \in DOMAIN me.outbox /\ Ends(me.outbox[j].op) = kind /\ me.outbox[j].step = s

\* A process is at work on s: from the moment it is told until the server has the call
\* that ends the work.
Engaged(me, kind, s) ==
  \/ \E i : Received(me, i, kind, s)
  \/ Doing(me, kind, s)
  \/ \E j : Sent(me, j, kind, s)

Idle(me) == me.scan = {} /\ me.busy["main"] = NONE

Held(w, who, me) ==
  \A s \in StepIds :
    /\ Engaged(me, "run_step", s) => StepRuns(s, who) /\ workflow_step[s].owner = OwnerOf[w]
    /\ Engaged(me, "run_task", s) => TaskRuns(s, who)

\* Each piece of work is in one place at a time.
Once(me) ==
  \A kind \in Work, s \in StepIds :
    /\ \A i, j : Received(me, i, kind, s) /\ Received(me, j, kind, s) => i = j
    /\ \A i, j : Sent(me, i, kind, s) /\ Sent(me, j, kind, s) => i = j
    /\ \A i, j : ~(Received(me, i, kind, s) /\ Sent(me, j, kind, s))
    /\ Doing(me, kind, s) => \A i : ~Received(me, i, kind, s) /\ ~Sent(me, i, kind, s)

HasResult(x) == x.kind = "run_step" /\ x.cached.task = "completed" => TaskDone(x.step)

Results(w, me) ==
  /\ \A i \in DOMAIN me.inbox : HasResult(me.inbox[i])
  /\ me.busy["callbacks"] # NONE => HasResult(me.busy["callbacks"])
  /\ \A j \in DOMAIN me.outbox :
       me.outbox[j].op = "complete_step" /\ OwnerOf[w] = "browser-worker" => TaskDone(me.outbox[j].step)

\* A step is enqueued behind the completion of the one before it; those of completing
\* are with the server.
Chained(me, completing) ==
  \A i \in DOMAIN me.outbox :
    LET c == me.outbox[i] IN
    c.op = "enqueue_step" =>
      /\ c.dep \in DOMAIN workflow_step /\ Follows(c, c.dep)
      /\ \/ Done(c.dep) \/ c.dep \in completing
         \/ \E j \in 1 .. i - 1 : me.outbox[j].op = "complete_step" /\ me.outbox[j].step = c.dep

Steady(w, who, me, completing) ==
  Idle(me) /\ Held(w, who, me) /\ Once(me) /\ Results(w, me) /\ Chained(me, completing)

Completing(c) == IF c.op = "complete_step" THEN {c.step} ELSE {}

\* What a process still has to do does not contain what c ends.
Rid(me, c) ==
  /\ c.op \in EndsStep => ~Engaged(me, "run_step", c.step)
  /\ c.op \in EndsTask => ~Engaged(me, "run_task", c.step)

\* Which calls end which work.
LEMMA WorkEnds ==
  /\ Work = {"run_step", "run_task"} /\ EndsTask = {"complete_task", "fail_task"}
  /\ EndsStep = {"fail_step", "complete_step", "enqueue_task"}
  /\ \A op : /\ Ends(op) = "run_step" <=> op \in EndsStep
             /\ Ends(op) = "run_task" <=> op \in EndsTask
  /\ Ends("enqueue_step") = "none" /\ Ends("claim_step") = "none" /\ Ends("claim_task") = "none"
  /\ Ends("ingest_summary") = "none"
BY DEF Work, EndsTask, EndsStep, Ends

\* A call that is served leaves every process steady.
LEMMA ServedSteady ==
  ASSUME OInv, TaskBlocks, NEW c \in Addressed, NEW id \in Runners, Due(c, id),
         StepRows(c, id), TaskRows(c, id),
         NEW w \in Workers, NEW who, NEW old \in Process, NEW new,
         \/ new = old
         \/ \E x \in Item : Told(w, who, id, c, x) /\ new = [old EXCEPT !.inbox = Append(@, x)],
         Steady(w, who, old, Completing(c)), id = who => Rid(old, c)
  PROVE  Steady(w, who, new, {})'
<1>0. /\ Idle(old) /\ Held(w, who, old) /\ Once(old) /\ Results(w, old) /\ Chained(old, Completing(c))
      /\ old.inbox \in Seq(Item) /\ c.step \in StepIds
  BY DEF Steady, Process, Addressed, ReducerCall
<1>1. PICK x : \/ new = old
               \/ x \in Item /\ Told(w, who, id, c, x) /\ new = [old EXCEPT !.inbox = Append(@, x)]
  OBVIOUS
<1> DEFINE told == x \in Item /\ Told(w, who, id, c, x) /\ new.inbox = Append(old.inbox, x)
<1>2. /\ new.outbox = old.outbox /\ new.busy = old.busy /\ new.scan = old.scan
      /\ told \/ new.inbox = old.inbox
  BY <1>1 DEF Process
<1>3. told => /\ x.step = c.step
              /\ x.kind = "run_step" => /\ c.op = "claim_step" /\ id = who
                                        /\ workflow_step'[c.step].owner = OwnerOf[w]
                                        /\ x.cached = Cached(c.step, workflow_step', browser_task')
              /\ x.kind = "run_task" => c.op = "claim_task" /\ id = who
  BY DEF Told
<1>4. \A i, kind, s : Received(new, i, kind, s) =>
        \/ Received(old, i, kind, s)
        \/ told /\ x.kind = kind /\ x.step = s /\ i = Len(old.inbox) + 1
  <2>1. CASE new.inbox = old.inbox
    BY <2>1 DEF Received
  <2>2. CASE told
    BY <1>0, <2>2 DEF Received
  <2> QED BY <1>2, <2>1, <2>2
<1>5. \A i, kind, s : /\ Sent(new, i, kind, s) <=> Sent(old, i, kind, s)
                      /\ Doing(new, kind, s) <=> Doing(old, kind, s)
  BY <1>2 DEF Sent, Doing
<1>6. \A kind, s : Engaged(new, kind, s) => Engaged(old, kind, s) \/ (told /\ x.kind = kind /\ x.step = s)
  BY <1>4, <1>5 DEF Engaged
<1>7. \A s : (Done(s) => Done(s)') /\ (TaskDone(s) => TaskDone(s)')
  BY DoneKept
<1>8. \A kind \in Work : told /\ x.kind = kind => ~Engaged(old, kind, x.step)
  <2>1. c.op = "claim_step" => ~StepRuns(c.step, who)
    BY DEF StepRows, StepRuns
  <2>2. c.op = "claim_task" => ~TaskRuns(c.step, who)
    BY DEF TaskRows, TaskRuns
  <2> QED BY <1>0, <1>3, <2>1, <2>2, WorkEnds DEF Held
<1> HIDE DEF told
<1>9. Idle(new)
  BY <1>0, <1>2 DEF Idle
<1>10. Held(w, who, new)'
  <2>1. ASSUME NEW s \in StepIds, Engaged(new, "run_step", s)
        PROVE  StepRuns(s, who)' /\ workflow_step'[s].owner = OwnerOf[w]
    <3>1. CASE Engaged(old, "run_step", s)
      <4>1. StepRuns(s, who) /\ workflow_step[s].owner = OwnerOf[w]
        BY <1>0, <3>1 DEF Held
      <4>2. ~(c.op \in EndsStep /\ c.step = s /\ who = id)
        BY <3>1 DEF Rid
      <4> QED BY <4>1, <4>2, RunsKept
    <3>2. CASE told /\ x.kind = "run_step" /\ x.step = s
      BY <1>3, <3>2 DEF StepRuns, StepRows, StepAfter
    <3> QED BY <1>6, <2>1, <3>1, <3>2
  <2>2. ASSUME NEW s \in StepIds, Engaged(new, "run_task", s)
        PROVE  TaskRuns(s, who)'
    <3>1. CASE Engaged(old, "run_task", s)
      <4>1. TaskRuns(s, who)
        BY <1>0, <3>1 DEF Held
      <4>2. ~(c.op \in EndsTask /\ c.step = s /\ who = id)
        BY <3>1 DEF Rid
      <4> QED BY <4>1, <4>2, RunsKept
    <3>2. CASE told /\ x.kind = "run_task" /\ x.step = s
      BY <1>3, <3>2 DEF TaskRuns, TaskRows, TaskAfter
    <3> QED BY <1>6, <2>2, <3>1, <3>2
  <2> QED BY <2>1, <2>2 DEF Held, Engaged, Received, Doing, Sent
<1>11. Once(new)
  <2> SUFFICES ASSUME NEW kind \in Work, NEW s \in StepIds
               PROVE  /\ \A i, j : Received(new, i, kind, s) /\ Received(new, j, kind, s) => i = j
                      /\ \A i, j : Sent(new, i, kind, s) /\ Sent(new, j, kind, s) => i = j
                      /\ \A i, j : ~(Received(new, i, kind, s) /\ Sent(new, j, kind, s))
                      /\ Doing(new, kind, s) => \A i : ~Received(new, i, kind, s) /\ ~Sent(new, i, kind, s)
    BY DEF Once
  <2>1. /\ \A i, j : Received(old, i, kind, s) /\ Received(old, j, kind, s) => i = j
        /\ \A i, j : Sent(old, i, kind, s) /\ Sent(old, j, kind, s) => i = j
        /\ \A i, j : ~(Received(old, i, kind, s) /\ Sent(old, j, kind, s))
        /\ Doing(old, kind, s) => \A i : ~Received(old, i, kind, s) /\ ~Sent(old, i, kind, s)
    BY <1>0 DEF Once
  <2>2. CASE told /\ x.kind = kind /\ x.step = s
    <3>1. \A i : ~Received(old, i, kind, s) /\ ~Sent(old, i, kind, s) /\ ~Doing(old, kind, s)
      BY <1>8, <2>2 DEF Engaged
    <3> QED BY <1>4, <1>5, <3>1
  <2>3. CASE ~(told /\ x.kind = kind /\ x.step = s)
    BY <1>4, <1>5, <2>1, <2>3
  <2> QED BY <2>2, <2>3
<1>12. Results(w, new)'
  <2>1. \A y : HasResult(y) => HasResult(y)'
    BY <1>7 DEF HasResult
  <2>2. told => HasResult(x)'
    <3>1. told /\ x.kind = "run_step" /\ x.cached.task = "completed" => TaskDone(x.step)'
      BY <1>3 DEF Cached, TaskDone
    <3> QED BY <3>1 DEF HasResult
  <2>3. \A i \in DOMAIN new.inbox : \/ i \in DOMAIN old.inbox /\ new.inbox[i] = old.inbox[i]
                                    \/ told /\ new.inbox[i] = x
    BY <1>0, <1>2 DEF told
  <2>4. \A i \in DOMAIN new.inbox : HasResult(new.inbox[i])'
    BY <1>0, <2>1, <2>2, <2>3 DEF Results
  <2> QED BY <1>0, <1>2, <1>7, <2>1, <2>4 DEF Results, HasResult
<1>13. Chained(new, {})'
  <2>1. \A d \in DOMAIN workflow_step : d \in DOMAIN workflow_step'
    BY DEF StepRows
  <2>2. \A d \in Completing(c) : Done(d)'
    <3>1. c.op = "complete_step" => Done(c.step)'
      BY DEF StepRows, StepAfter, Done
    <3> QED BY <3>1 DEF Completing
  <2> QED BY <1>0, <1>2, <1>7, <2>1, <2>2 DEF Chained, Follows
<1> QED BY <1>9, <1>10, <1>11, <1>12, <1>13 DEF Steady, Idle, Once, Received, Doing, Sent

\* A thread that takes what its process was told.
LEMMA CallbackSteady ==
  ASSUME IInv, IInv', NEW w \in Workers, Callback(w), NEW who, Steady(w, who, worker[w], {})
  PROVE  Steady(w, who, worker'[w], {})
<1> DEFINE inbox == worker[w].inbox
           item == Head(inbox)
           outbox == worker[w].outbox
<1>1. PICK old, me : old = worker[w] /\ me = worker'[w]
  OBVIOUS
<1>2. /\ old.inbox # <<>> /\ old.inbox \in Seq(Item) /\ old.busy["callbacks"] = NONE
      /\ Took(w, "callbacks", Head(old.inbox), Tail(old.inbox), old.scan, me)
      /\ old.outbox \in Seq(ReducerCall) /\ old.busy \in [Threads -> Item \cup {NONE}]
  BY <1>1, CallbackTook, ProcessFields
<1>3. Idle(old) /\ Held(w, who, old) /\ Once(old) /\ Results(w, old) /\ Chained(old, {})
  BY <1>1 DEF Steady
<1> DEFINE x == Head(old.inbox)
<1>4. x \in Item /\ 1 \in DOMAIN old.inbox /\ old.inbox[1] = x
      /\ \A i \in DOMAIN Tail(old.inbox) : i + 1 \in DOMAIN old.inbox /\ i + 1 # 1
                                           /\ old.inbox[i + 1] = Tail(old.inbox)[i]
  BY <1>2
<1>5. /\ me.inbox = Tail(old.inbox) /\ me.scan = old.scan
      /\ \/ /\ ~IsRunning(x) /\ me.busy = old.busy
            /\ me.outbox = Append(old.outbox, Claim(x.kind, x.step, OwnerOf[w]))
         \/ me.outbox = old.outbox /\ me.busy = old.busy
         \/ IsRunning(x) /\ me.outbox = old.outbox /\ me.busy = [old.busy EXCEPT !["callbacks"] = x]
  BY <1>1, <1>2 DEF Took
<1>6. ~IsRunning(x) =>
        /\ Claim(x.kind, x.step, OwnerOf[w]).op \in {"claim_step", "claim_task"}
  BY <1>4 DEF IsRunning, Item, Claim, Call
<1> HIDE DEF x
<1>7. \A j \in DOMAIN me.outbox : \/ j \in DOMAIN old.outbox /\ me.outbox[j] = old.outbox[j]
                                  \/ me.outbox[j].op \in {"claim_step", "claim_task"}
  BY <1>2, <1>5, <1>6
<1>8. "callbacks" \in Threads /\ "main" \in Threads /\ "callbacks" # "main"
  BY DEF Threads
<1>9. me.busy["callbacks"] = NONE \/ me.busy["callbacks"] = x
  BY <1>2, <1>5, <1>8
<1>10. \A i, kind, s : Received(me, i, kind, s) => Received(old, i + 1, kind, s) /\ i + 1 # 1 /\ i \in Nat
  BY <1>2, <1>4, <1>5 DEF Received
<1>11. \A j, s : \A kind \in Work : Sent(me, j, kind, s) => Sent(old, j, kind, s)
  BY <1>7, WorkEnds DEF Sent
<1>12. \A kind, s : Doing(me, kind, s) => Received(old, 1, kind, s)
  BY <1>4, <1>9 DEF Doing, Received
<1>13. \A s : \A kind \in Work : Engaged(me, kind, s) => Engaged(old, kind, s)
  BY <1>10, <1>11, <1>12 DEF Engaged
<1>14. Held(w, who, me)
  BY <1>3, <1>13, WorkEnds DEF Held
<1>15. Idle(me)
  BY <1>2, <1>3, <1>5, <1>8 DEF Idle
<1>16. Once(me)
  <2> SUFFICES ASSUME NEW kind \in Work, NEW s \in StepIds
               PROVE  /\ \A i, j : Received(me, i, kind, s) /\ Received(me, j, kind, s) => i = j
                      /\ \A i, j : Sent(me, i, kind, s) /\ Sent(me, j, kind, s) => i = j
                      /\ \A i, j : ~(Received(me, i, kind, s) /\ Sent(me, j, kind, s))
                      /\ Doing(me, kind, s) => \A i : ~Received(me, i, kind, s) /\ ~Sent(me, i, kind, s)
    BY DEF Once
  <2>1. /\ \A i, j : Received(old, i, kind, s) /\ Received(old, j, kind, s) => i = j
        /\ \A i, j : Sent(old, i, kind, s) /\ Sent(old, j, kind, s) => i = j
        /\ \A i, j : ~(Received(old, i, kind, s) /\ Sent(old, j, kind, s))
    BY <1>3 DEF Once
  <2>2. \A i, j : Received(me, i, kind, s) /\ Received(me, j, kind, s) => i = j
    <3> SUFFICES ASSUME NEW i, NEW j, Received(me, i, kind, s), Received(me, j, kind, s) PROVE i = j
      OBVIOUS
    <3>1. i \in Nat /\ j \in Nat /\ i + 1 = j + 1
      BY <1>10, <2>1
    <3> QED BY <3>1
  <2> QED BY <1>10, <1>11, <1>12, <2>1, <2>2
<1>17. Results(w, me)
  <2>1. \A i \in DOMAIN me.inbox : HasResult(me.inbox[i])
    <3>1. \A i \in DOMAIN me.inbox : i + 1 \in DOMAIN old.inbox /\ old.inbox[i + 1] = me.inbox[i]
      BY <1>4, <1>5
    <3> QED BY <1>3, <3>1 DEF Results
  <2>2. HasResult(x)
    BY <1>3, <1>4 DEF Results
  <2> QED BY <1>3, <1>7, <1>9, <2>1, <2>2 DEF Results
<1>18. Chained(me, {})
  <2> SUFFICES ASSUME NEW i \in DOMAIN me.outbox, me.outbox[i].op = "enqueue_step"
               PROVE  /\ me.outbox[i].dep \in DOMAIN workflow_step /\ Follows(me.outbox[i], me.outbox[i].dep)
                      /\ \/ Done(me.outbox[i].dep)
                         \/ \E j \in 1 .. i - 1 : /\ me.outbox[j].op = "complete_step"
                                                  /\ me.outbox[j].step = me.outbox[i].dep
    BY DEF Chained
  <2>1. i \in DOMAIN old.outbox /\ me.outbox[i] = old.outbox[i]
    BY <1>7
  <2>2. \A j \in 1 .. i - 1 : me.outbox[j] = old.outbox[j]
    <3> DEFINE y == Claim(x.kind, x.step, OwnerOf[w])
    <3>1. me.outbox = old.outbox \/ me.outbox = Append(old.outbox, y)
      BY <1>5
    <3> HIDE DEF y
    <3>2. i \in 1 .. Len(old.outbox)
      BY <1>2, <2>1
    <3>3. \A j \in 1 .. Len(old.outbox) : Append(old.outbox, y)[j] = old.outbox[j]
      BY <1>2
    <3> QED BY <3>1, <3>2, <3>3
  <2> QED BY <1>3, <2>1, <2>2 DEF Chained
<1> QED BY <1>1, <1>14, <1>15, <1>16, <1>17, <1>18 DEF Steady

\* A thread that has done its work.
LEMMA FinishedSteady ==
  ASSUME IInv, NEW w \in Workers, NEW th \in Threads, NEW sent, Finished(w, th, sent, worker'[w]),
         NEW who, Steady(w, who, worker[w], {}), NEW kind, NEW s, kind \in Work, s \in StepIds,
         worker[w].busy[th].kind = kind, worker[w].busy[th].step = s,
         \A k \in DOMAIN sent :
           /\ Ends(sent[k].op) \in Work => k = 1 /\ Ends(sent[k].op) = kind /\ sent[k].step = s
           /\ sent[k].op = "complete_step" /\ OwnerOf[w] = "browser-worker" => TaskDone(sent[k].step)
           /\ sent[k].op = "enqueue_step" =>
                /\ sent[k].dep = s /\ s \in DOMAIN workflow_step /\ Follows(sent[k], s) /\ k > 1
                /\ sent[1].op = "complete_step" /\ sent[1].step = s
  PROVE  Steady(w, who, worker'[w], {})
<1>1. PICK old, me : old = worker[w] /\ me = worker'[w]
  OBVIOUS
<1>2. /\ me.inbox = old.inbox /\ me.scan = old.scan /\ me.outbox = old.outbox \o sent
      /\ sent \in Seq(CallsOf(w)) /\ me.busy = [old.busy EXCEPT ![th] = NONE]
      /\ old.outbox \in Seq(CallsOf(w)) /\ old.busy \in [Threads -> Item \cup {NONE}]
      /\ old.busy[th] # NONE
  BY <1>1, ProcessFields DEF Finished
<1>3. Idle(old) /\ Held(w, who, old) /\ Once(old) /\ Results(w, old) /\ Chained(old, {})
  BY <1>1 DEF Steady
<1>4. Threads = {"callbacks", "main"} /\ "callbacks" # "main"
  BY DEF Threads
<1>5. th = "callbacks" /\ Doing(old, kind, s)
  BY <1>1, <1>2, <1>3, <1>4 DEF Idle, Doing
<1>6. me.busy["callbacks"] = NONE /\ me.busy["main"] = NONE
  BY <1>2, <1>3, <1>4, <1>5 DEF Idle
<1>7. \A j \in DOMAIN me.outbox : \/ j \in DOMAIN old.outbox /\ me.outbox[j] = old.outbox[j]
                                  \/ \E k \in DOMAIN sent : j = Len(old.outbox) + k /\ me.outbox[j] = sent[k]
  <2> SUFFICES ASSUME NEW j \in DOMAIN me.outbox, j \notin DOMAIN old.outbox
               PROVE  \E k \in DOMAIN sent : j = Len(old.outbox) + k /\ me.outbox[j] = sent[k]
    BY <1>2
  <2> DEFINE k == j - Len(old.outbox)
  <2>1. k \in DOMAIN sent /\ j = Len(old.outbox) + k /\ me.outbox[j] = sent[k]
    BY <1>2
  <2> QED BY <2>1
<1>8. \A i, k, t : Received(me, i, k, t) <=> Received(old, i, k, t)
  BY <1>2 DEF Received
<1>9. \A j, t : \A k \in Work : Sent(me, j, k, t) =>
        Sent(old, j, k, t) \/ (k = kind /\ t = s /\ j = Len(old.outbox) + 1)
  BY <1>7 DEF Sent
<1>10. \A k, t : ~Doing(me, k, t)
  BY <1>6 DEF Doing
<1>11. \A t : \A k \in Work : Engaged(me, k, t) => Engaged(old, k, t)
  BY <1>5, <1>8, <1>9, <1>10 DEF Engaged
<1>12. Held(w, who, me)
  BY <1>3, <1>11, WorkEnds DEF Held
<1>13. Idle(me)
  BY <1>2, <1>3, <1>6 DEF Idle
<1>14. Once(me)
  <2> SUFFICES ASSUME NEW k \in Work, NEW t \in StepIds
               PROVE  /\ \A i, j : Received(me, i, k, t) /\ Received(me, j, k, t) => i = j
                      /\ \A i, j : Sent(me, i, k, t) /\ Sent(me, j, k, t) => i = j
                      /\ \A i, j : ~(Received(me, i, k, t) /\ Sent(me, j, k, t))
    BY <1>10 DEF Once
  <2>1. /\ \A i, j : Received(old, i, k, t) /\ Received(old, j, k, t) => i = j
        /\ \A i, j : Sent(old, i, k, t) /\ Sent(old, j, k, t) => i = j
        /\ \A i, j : ~(Received(old, i, k, t) /\ Sent(old, j, k, t))
    BY <1>3 DEF Once
  <2>2. CASE k = kind /\ t = s
    <3>1. \A i : ~Received(old, i, k, t) /\ ~Sent(old, i, k, t)
      BY <1>3, <1>5, <2>2 DEF Once
    <3> QED BY <1>8, <1>9, <3>1
  <2>3. CASE ~(k = kind /\ t = s)
    BY <1>8, <1>9, <2>1, <2>3
  <2> QED BY <2>2, <2>3
<1>15. Results(w, me)
  BY <1>2, <1>3, <1>6, <1>7 DEF Results
<1>16. Chained(me, {})
  <2> SUFFICES ASSUME NEW i \in DOMAIN me.outbox, me.outbox[i].op = "enqueue_step"
               PROVE  /\ me.outbox[i].dep \in DOMAIN workflow_step /\ Follows(me.outbox[i], me.outbox[i].dep)
                      /\ \/ Done(me.outbox[i].dep)
                         \/ \E j \in 1 .. i - 1 : /\ me.outbox[j].op = "complete_step"
                                                  /\ me.outbox[j].step = me.outbox[i].dep
    BY DEF Chained
  <2>1. CASE i \in DOMAIN old.outbox /\ me.outbox[i] = old.outbox[i]
    <3>1. \A j \in 1 .. i - 1 : me.outbox[j] = old.outbox[j]
      BY <1>2, <2>1
    <3> QED BY <1>3, <2>1, <3>1 DEF Chained
  <2>2. ASSUME NEW k \in DOMAIN sent, i = Len(old.outbox) + k, me.outbox[i] = sent[k]
        PROVE  /\ me.outbox[i].dep \in DOMAIN workflow_step /\ Follows(me.outbox[i], me.outbox[i].dep)
               /\ \E j \in 1 .. i - 1 : /\ me.outbox[j].op = "complete_step"
                                        /\ me.outbox[j].step = me.outbox[i].dep
    <3>1. /\ sent[k].dep = s /\ s \in DOMAIN workflow_step /\ Follows(sent[k], s) /\ k > 1
          /\ sent[1].op = "complete_step" /\ sent[1].step = s
      BY <2>2
    <3>2. Len(old.outbox) + 1 \in 1 .. i - 1 /\ me.outbox[Len(old.outbox) + 1] = sent[1]
      BY <1>2, <2>2, <3>1
    <3> QED BY <2>2, <3>1, <3>2
  <2> QED BY <1>7, <2>1, <2>2
<1> QED BY <1>1, <1>12, <1>13, <1>14, <1>15, <1>16 DEF Steady

-----------------------------------------------------------------------------
(* The invariant of settled workers, and the steps of one process.         *)

\* What the control planes count on: the route step a dispatch has claimed is still
\* its own, and a retry in the making has been counted.
PlaneDue ==
  \A r \in RunIds :
    /\ dispatch[r] = 6 => /\ StepRuns(Route(r), Plane)
                          /\ workflow_step[Route(r)].owner # "browser-worker"
    /\ dispatch[r] = 7 => Done(Route(r))

RetriesCounted == \A r \in RunIds : retry[r].step # NONE => retry[r].count > 0

QInv == /\ OInv /\ Orderly /\ PlaneDue /\ RetriesCounted
        /\ \A w \in Workers : Steady(w, Runner(w), worker[w], {})

\* A process is as steady as its rows and itself:
LEMMA SteadySame ==
  ASSUME UNCHANGED <<workflow_step, browser_task>>, NEW w, NEW who, NEW me, NEW completing,
         Steady(w, who, me, completing)
  PROVE  Steady(w, who, me, completing)'
BY DEF Steady, Idle, Held, Once, Results, Chained, Engaged, Received, Doing, Sent, HasResult,
   StepRuns, TaskRuns, Done, TaskDone, Follows

\* the same, of the worker it is.
LEMMA SteadyOf ==
  ASSUME NEW w \in Workers, NEW who, NEW me, who = Runner(w)', me = worker'[w], Steady(w, who, me, {})'
  PROVE  Steady(w, Runner(w), worker[w], {})'
BY DEF Steady, Idle, Held, Once, Results, Chained, Engaged, Received, Doing, Sent, HasResult,
   StepRuns, TaskRuns, Done, TaskDone, Follows

\* The tables stay in order when no step and no task is written.
LEMMA OrderlySame ==
  ASSUME OInv, OInv', Orderly, UNCHANGED <<workflow_step, browser_task>>,
         \A r \in RunIds : retry[r].count <= retry'[r].count,
         \A r \in RunIds : retry[r].count \in Nat /\ retry'[r].count \in Nat,
         \A r \in DOMAIN workflow_run' : r \in DOMAIN workflow_run /\
           (workflow_run'[r].status = "completed" => workflow_run[r].status = "completed")
  PROVE  Orderly'
<1>1. (TaskBlocks /\ BrowserStepHasResult /\ DepsDone)'
  BY DEF Orderly, TaskBlocks, BrowserStepHasResult, DepsDone, Done
<1>2. \A s \in DOMAIN workflow_step' : RunOf(s) \in RunIds /\ s[3] \in Nat
  <2>1. DOMAIN workflow_step' \subseteq StepIds
    BY DEF OInv, IInv, TypeOK, Store!TypeOK, Store!IsTable
  <2>2. \A s \in StepIds : RunOf(s) \in RunIds /\ s[3] \in Nat
    BY BoundsAssumption DEF StepIds, RunOf
  <2> QED BY <2>1, <2>2
<1>3. StepsInOrder'
  <2> SUFFICES ASSUME NEW s \in DOMAIN workflow_step'
               PROVE  /\ s[3] <= retry'[RunOf(s)].count /\ Staged(s)
                      /\ retry'[RunOf(s)].count = 0 => Entered(s)'
    BY DEF StepsInOrder, Staged, StageOf, RunOf
  <2>1. /\ s[3] <= retry[RunOf(s)].count /\ Staged(s)
        /\ retry[RunOf(s)].count = 0 => Entered(s)
    BY DEF Orderly, StepsInOrder
  <2>2. Entered(s) => Entered(s)'
    BY DEF Entered, Done
  <2> QED BY <1>2, <2>1, <2>2
<1>4. RunDone'
  <2> SUFFICES ASSUME NEW r \in DOMAIN workflow_run', workflow_run'[r].status = "completed",
                      retry'[r].count = 0
               PROVE  Done(<<r, "learn", 0>>)'
    BY DEF RunDone
  <2>1. r \in RunIds
    BY DEF OInv, IInv, TypeOK, Store!TypeOK, Store!IsTable
  <2>2. retry[r].count = 0
    BY <2>1
  <2> QED BY <2>2 DEF Orderly, RunDone, Done
<1> QED BY <1>1, <1>3, <1>4 DEF Orderly

\* Retries are counted by numbers.
LEMMA CountsAre ==
  ASSUME TypeOK, NEW r \in RunIds PROVE retry[r].count \in Nat
BY BoundsAssumption DEF TypeOK

\* A step of one process that touches no table.
LEMMA ProcessQInv ==
  ASSUME QInv, OInv', NEW w \in Workers, worker' = [worker EXCEPT ![w] = worker'[w]],
         UNCHANGED <<storeVars, others>>,
         NEW who, who = Runner(w)', Steady(w, who, worker'[w], {})
  PROVE  QInv'
<1>1. UNCHANGED <<workflow_step, browser_task, workflow_run, dispatch, retry>>
  BY DEF storeVars, others
<1>2. OInv /\ Orderly /\ TypeOK /\ TypeOK'
  BY DEF QInv, OInv, IInv
<1>3. Orderly'
  <2>1. \A r \in RunIds : retry[r].count \in Nat /\ retry'[r].count = retry[r].count
    BY <1>1, <1>2, CountsAre
  <2> QED BY <1>1, <1>2, <2>1, OrderlySame
<1>4. (PlaneDue /\ RetriesCounted)'
  BY <1>1 DEF QInv, PlaneDue, RetriesCounted, StepRuns, Done
<1>5. ASSUME NEW x \in Workers PROVE Steady(x, Runner(x), worker[x], {})'
  <2>1. CASE x = w
    <3>1. PICK me : me = worker'[w]
      OBVIOUS
    <3>2. Steady(w, who, me, {})
      BY <3>1
    <3>3. Steady(w, who, me, {})'
      BY <1>1, <3>2, SteadySame
    <3> QED BY <2>1, <3>1, <3>3, SteadyOf
  <2>2. CASE x # w
    <3>1. PICK me, id : me = worker[x] /\ id = Runner(x)
      OBVIOUS
    <3>2. worker'[x] = worker[x]
      BY <1>2, <2>2 DEF TypeOK
    <3>3. Steady(x, id, me, {})
      BY <3>1 DEF QInv
    <3>4. Steady(x, id, me, {})'
      BY <1>1, <3>3, SteadySame
    <3>5. me = worker'[x] /\ id = Runner(x)'
      BY <3>1, <3>2 DEF Runner
    <3> QED BY <3>4, <3>5, SteadyOf
  <2> QED BY <2>1, <2>2
<1> QED BY <1>2, <1>3, <1>4, <1>5 DEF QInv

\* A process with nothing in hand.
LEMMA EmptySteady ==
  ASSUME NEW w, NEW who, NEW me, me.inbox = <<>>, me.scan = {}, me.outbox = <<>>,
         me.busy = [th \in Threads |-> NONE]
  PROVE  Steady(w, who, me, {})
<1>1. /\ \A i, kind, s : ~Received(me, i, kind, s)
      /\ \A i, kind, s : ~Sent(me, i, kind, s)
      /\ \A kind, s : ~Doing(me, kind, s)
      /\ me.busy["main"] = NONE /\ me.busy["callbacks"] = NONE
  BY DEF Received, Sent, Doing, Threads
<1> QED BY <1>1 DEF Steady, Idle, Held, Once, Results, Chained, Engaged

LEMMA EmptyQInv ==
  ASSUME QInv, OInv', NEW w \in Workers, Start(w) \/ Crash(w) PROVE QInv'
<1> DEFINE me == worker'[w]
<1>1. worker \in [Workers -> Process] /\ worker' \in [Workers -> Process]
  BY DEF QInv, OInv, IInv, TypeOK
<1>2. PICK n : /\ worker' = [worker EXCEPT ![w] = [Down(n) EXCEPT !.phase = "connected"]]
                    \/ worker' = [worker EXCEPT ![w] = Down(n)]
               /\ UNCHANGED <<storeVars, others>>
  BY DEF Start, Crash
<1>3. /\ worker' = [worker EXCEPT ![w] = me]
      /\ me = [Down(n) EXCEPT !.phase = "connected"] \/ me = Down(n)
  BY <1>1, <1>2
<1> HIDE DEF me
<1>4. me.inbox = <<>> /\ me.scan = {} /\ me.outbox = <<>> /\ me.busy = [th \in Threads |-> NONE]
  BY <1>3 DEF Down
<1>5. PICK who : who = Runner(w)'
  OBVIOUS
<1>6. Steady(w, who, me, {})
  BY <1>4, EmptySteady
<1> QED BY <1>2, <1>3, <1>5, <1>6, ProcessQInv DEF me

\* Only an empty cache is scanned.
LEMMA ScanQInv ==
  ASSUME QInv, OInv', Settled, Settled', NEW w \in Workers, ScanSteps(w) \/ ScanTasks(w)
  PROVE  QInv'
<1>0. IInv /\ Unclaimed /\ Steady(w, Runner(w), worker[w], {})
  BY DEF QInv, OInv
<1>1. ASSUME NEW before, NEW after, Scan(w, before, after, {}) PROVE QInv'
  <2> DEFINE new == [worker[w] EXCEPT !.phase = after, !.scan = {}]
  <2>1. /\ worker[w].inbox = <<>> /\ UNCHANGED <<storeVars, others>>
        /\ worker' = [worker EXCEPT ![w].phase = after, ![w].scan = {}]
    BY <1>1 DEF Scan
  <2>2. worker' = [worker EXCEPT ![w] = new]
    BY <1>0, <2>1, ProcessFields DEF Process
  <2>3. PICK old, me, who : old = worker[w] /\ me = worker'[w] /\ who = Runner(w)'
    OBVIOUS
  <2>4. me = new
    BY <1>0, <2>2, <2>3 DEF IInv, TypeOK
  <2>5. /\ me.scan = {} /\ me.incarnation = old.incarnation
        /\ me.outbox = old.outbox /\ me.inbox = old.inbox /\ me.busy = old.busy
    BY <1>0, <2>3, <2>4, ProcessFields DEF Process
  <2>6. worker' = [worker EXCEPT ![w] = me]
    BY <2>2, <2>4
  <2>7. who = Runner(w)
    BY <2>3, <2>5 DEF Runner
  <2> HIDE DEF new
  <2>8. Steady(w, who, old, {})
    BY <1>0, <2>3, <2>7
  <2>9. Steady(w, who, me, {})
    BY <2>5, <2>8 DEF Steady, Idle, Held, Once, Results, Chained, Engaged, Received, Doing, Sent
  <2> QED BY <2>1, <2>3, <2>6, <2>9, ProcessQInv
<1>2. CASE ScanSteps(w)
  <2> DEFINE rows == maybe_handle_step(w, Runner(w), StepIds, workflow_step, browser_task)
  <2>1. Scan(w, "connected", "scanning", rows)
    BY <1>2 DEF ScanSteps
  <2>2. worker'[w].phase = "scanning" /\ UNCHANGED storeVars
    <3>1. worker' = [worker EXCEPT ![w].phase = "scanning", ![w].scan = rows] /\ UNCHANGED storeVars
      BY <2>1 DEF Scan
    <3> HIDE DEF rows
    <3>2. worker' = [worker EXCEPT ![w] = [worker[w] EXCEPT !.phase = "scanning", !.scan = rows]]
      BY <1>0, <3>1, ProcessFields DEF Process
    <3> QED BY <1>0, <3>1, <3>2, ProcessFields DEF Process, IInv, TypeOK
  <2>3. DOMAIN workflow_step = {}
    BY <2>2 DEF Settled, storeVars
  <2>4. rows = {}
    BY <2>3 DEF maybe_handle_step
  <2> QED BY <1>1, <2>1, <2>4
<1>3. CASE ScanTasks(w)
  <2> DEFINE rows == maybe_handle_browser_task(w, Runner(w), StepIds, browser_task)
  <2>1. Scan(w, "scanning", "serving", rows)
    BY <1>3 DEF ScanTasks
  <2>2. worker[w].phase = "scanning"
    BY <2>1 DEF Scan
  <2>3. DOMAIN workflow_step = {}
    BY <2>2 DEF Settled
  <2>4. DOMAIN browser_task = {}
    BY <1>0, <2>3 DEF Unclaimed, BrowserStep
  <2>5. rows = {}
    BY <2>4 DEF maybe_handle_browser_task
  <2> QED BY <1>1, <2>1, <2>5
<1> QED BY <1>2, <1>3

LEMMA CallbackQInv ==
  ASSUME QInv, OInv', NEW w \in Workers, Callback(w) PROVE QInv'
<1>1. /\ IInv /\ IInv' /\ Steady(w, Runner(w), worker[w], {})
  BY DEF QInv, OInv
<1>2. PICK who : who = Runner(w)
  OBVIOUS
<1>3. Steady(w, who, worker'[w], {})
  BY <1>1, <1>2, CallbackSteady
<1>4. /\ worker' = [worker EXCEPT ![w] = worker'[w]] /\ UNCHANGED <<storeVars, others>>
      /\ worker'[w].incarnation = worker[w].incarnation
  BY <1>1, CallbackTook DEF Took
<1>5. who = Runner(w)'
  BY <1>2, <1>4 DEF Runner
<1> QED BY <1>3, <1>4, <1>5, ProcessQInv

LEMMA FinishQInv ==
  ASSUME QInv, OInv', NEW w \in Workers, NEW th \in Threads, FinishStep(w, th) \/ FinishTask(w, th)
  PROVE  QInv'
<1> DEFINE item == worker[w].busy[th]
<1>0. IInv /\ IInv' /\ Steady(w, Runner(w), worker[w], {})
  BY DEF QInv, OInv
<1>1. PICK who : who = Runner(w)
  OBVIOUS
<1>2. item # NONE => th = "callbacks" /\ item.step \in StepIds
  BY <1>0, ProcessFields DEF Steady, Idle, Threads, Item
<1>3. ASSUME NEW sent \in Seq(CallsOf(w)), Finish(w, th, sent), item # NONE, item.kind \in Work,
             \A k \in DOMAIN sent :
               /\ Ends(sent[k].op) \in Work => k = 1 /\ Ends(sent[k].op) = item.kind /\ sent[k].step = item.step
               /\ sent[k].op = "complete_step" /\ OwnerOf[w] = "browser-worker" => TaskDone(sent[k].step)
               /\ sent[k].op = "enqueue_step" =>
                    /\ sent[k].dep = item.step /\ item.step \in DOMAIN workflow_step
                    /\ Follows(sent[k], item.step) /\ k > 1
                    /\ sent[1].op = "complete_step" /\ sent[1].step = item.step
      PROVE  QInv'
  <2>1. Finished(w, th, sent, worker'[w])
    BY <1>0, <1>3, FinishFinished
  <2>2. Steady(w, who, worker'[w], {})
    <3>1. Steady(w, who, worker[w], {})
      BY <1>0, <1>1
    <3>2. PICK kind, s : kind = item.kind /\ s = item.step
      OBVIOUS
    <3> QED BY <1>0, <1>2, <1>3, <2>1, <3>1, <3>2, FinishedSteady
  <2>3. /\ worker' = [worker EXCEPT ![w] = worker'[w]] /\ UNCHANGED <<storeVars, others>>
        /\ worker'[w].incarnation = worker[w].incarnation
    BY <2>1 DEF Finished
  <2>4. who = Runner(w)'
    BY <1>1, <2>3 DEF Runner
  <2> QED BY <2>2, <2>3, <2>4, ProcessQInv
<1>4. CASE FinishStep(w, th)
  <2>1. PICK cached : /\ item # NONE /\ item.kind = "run_step"
                      /\ cached = item.cached \/ th = "main"
                      /\ Finish(w, th, process_workflow_step(w, item.step, cached))
    BY <1>4 DEF FinishStep
  <2> DEFINE sent == process_workflow_step(w, item.step, cached)
  <2>2. cached = item.cached /\ item = worker[w].busy["callbacks"]
    BY <1>2, <2>1 DEF Threads
  <2>3. cached.task = "completed" => TaskDone(item.step)
    BY <1>0, <2>1, <2>2 DEF Steady, Results, HasResult
  <2>4. sent \in Seq(CallsOf(w))
    BY <1>2, <2>1, ExecutionCalls
  <2>5. item.step \in DOMAIN workflow_step
    BY <1>0, <1>2, <2>1, <2>2 DEF Steady, Held, Engaged, Doing, StepRuns
  <2>6. ASSUME NEW k \in DOMAIN sent PROVE SentFor(w, item.step, cached, sent, k)
    BY <1>2, <2>1, ExecutionOf
  <2> HIDE DEF sent
  <2>7. ASSUME NEW k \in DOMAIN sent
        PROVE  /\ Ends(sent[k].op) \in Work => k = 1 /\ Ends(sent[k].op) = "run_step" /\ sent[k].step = item.step
               /\ sent[k].op = "complete_step" /\ OwnerOf[w] = "browser-worker" => TaskDone(sent[k].step)
               /\ sent[k].op = "enqueue_step" =>
                    /\ sent[k].dep = item.step /\ item.step \in DOMAIN workflow_step
                    /\ Follows(sent[k], item.step) /\ k > 1
                    /\ sent[1].op = "complete_step" /\ sent[1].step = item.step
    BY <2>3, <2>5, <2>6, WorkEnds DEF SentFor, Follows
  <2>8. Finish(w, th, sent)
    BY <2>1 DEF sent
  <2> HIDE DEF item
  <2>9. item # NONE /\ item.kind = "run_step" /\ item.kind \in Work
    BY <2>1 DEF Work
  <2> QED BY <1>3, <2>4, <2>7, <2>8, <2>9
<1>5. CASE FinishTask(w, th)
  <2>1. PICK op \in {"complete_task", "fail_task"} :
          item # NONE /\ item.kind = "run_task" /\ Finish(w, th, <<Call(op, item.step)>>)
    BY <1>5 DEF FinishTask
  <2> DEFINE sent == <<Call(op, item.step)>>
  <2>2. sent \in Seq(CallsOf(w))
    BY <1>2, <2>1, CallType
  <2>3. \A k \in DOMAIN sent : k = 1 /\ sent[k].op = op /\ sent[k].step = item.step
    BY DEF Call
  <2>4. Finish(w, th, sent)
    BY <2>1
  <2> HIDE DEF sent
  <2>5. \A k \in DOMAIN sent :
          /\ k = 1 /\ Ends(sent[k].op) = "run_task" /\ sent[k].step = item.step
          /\ sent[k].op # "complete_step" /\ sent[k].op # "enqueue_step"
    BY <2>1, <2>3, WorkEnds
  <2> HIDE DEF item
  <2>6. item # NONE /\ item.kind = "run_task" /\ item.kind \in Work
    BY <2>1 DEF Work
  <2> QED BY <1>3, <2>2, <2>4, <2>5, <2>6
<1> QED BY <1>4, <1>5

-----------------------------------------------------------------------------
(* Every call that is made is due.                                         *)

\* The stages in order.
LEMMA NextStageAt ==
  ASSUME NEW stage, next_stage(stage) # NONE
  PROVE  \E k \in DOMAIN Pipeline :
           k - 1 \in DOMAIN Pipeline /\ Pipeline[k - 1] = stage /\ next_stage(stage) = Pipeline[k]
<1> DEFINE later == {i \in DOMAIN Pipeline : i > 1 /\ Pipeline[i - 1] = stage}
           k == CHOOSE i \in later : TRUE
<1>1. later # {} /\ next_stage(stage) = Pipeline[k]
  BY DEF next_stage
<1>2. k \in later
  BY <1>1
<1> HIDE DEF k
<1>3. k \in DOMAIN Pipeline /\ k > 1 /\ Pipeline[k - 1] = stage
  BY <1>2
<1>4. k - 1 \in DOMAIN Pipeline
  BY <1>3, PipelineAssumption
<1> QED BY <1>1, <1>3, <1>4

\* The step after a done one is entered.
LEMMA EnteredAfter ==
  ASSUME IInv, Orderly, NEW d \in StepIds, Done(d), next_stage(StageOf(d)) # NONE,
         NEW s, s = <<RunOf(d), next_stage(StageOf(d)), 0>>
  PROVE  /\ s[3] <= retry[RunOf(s)].count /\ Staged(s)
         /\ retry[RunOf(s)].count = 0 => Entered(s)
<1>1. PICK k \in DOMAIN Pipeline :
        k - 1 \in DOMAIN Pipeline /\ Pipeline[k - 1] = StageOf(d) /\ next_stage(StageOf(d)) = Pipeline[k]
  BY NextStageAt
<1>2. RunOf(s) = RunOf(d) /\ StageOf(s) = Pipeline[k] /\ s[3] = 0 /\ RunOf(d) \in RunIds
  BY <1>1, StepIdParts DEF RunOf, StageOf
<1>3. retry[RunOf(s)].count \in Nat
  BY <1>2, CountsAre DEF IInv
<1>4. d \in DOMAIN workflow_step
  BY DEF Done
<1>5. ASSUME retry[RunOf(s)].count = 0 PROVE Entered(s)
  <2>1. d[3] <= 0 /\ d[3] \in Nat /\ d = <<d[1], d[2], d[3]>> /\ Entered(d)
    BY <1>2, <1>4, <1>5, BoundsAssumption DEF Orderly, StepsInOrder, StepIds
  <2>2. d = <<RunOf(d), Pipeline[k - 1], 0>>
    BY <1>1, <2>1 DEF RunOf, StageOf
  <2> SUFFICES ASSUME NEW i \in DOMAIN Pipeline, NEW j \in DOMAIN Pipeline, i < j, StageOf(s) = Pipeline[j]
               PROVE  Done(<<RunOf(d), Pipeline[i], 0>>)
    BY <1>2 DEF Entered
  <2>3. j = k
    BY <1>2, PipelineAssumption
  <2>4. CASE i = k - 1
    BY <2>2, <2>4
  <2>5. CASE i # k - 1
    <3>1. i < k - 1
      BY <2>3, <2>5, PipelineAssumption
    <3> QED BY <1>1, <2>1, <3>1 DEF Entered
  <2> QED BY <2>4, <2>5
<1> QED BY <1>2, <1>3, <1>5 DEF Staged

\* What a worker sends is due.
LEMMA WorkerDue ==
  ASSUME QInv, NEW w \in Workers, ServeWorker(w)
  PROVE  Due(Head(worker[w].outbox), Runner(w))
<1>1. PICK me, who, c : me = worker[w] /\ who = Runner(w) /\ c = Head(worker[w].outbox)
  OBVIOUS
<1>2. IInv /\ Orderly /\ Steady(w, who, me, {})
  BY <1>1 DEF QInv, OInv
<1>3. me.outbox # <<>> /\ me.outbox \in Seq(ReducerCall)
  BY <1>1, <1>2, ProcessFields DEF ServeWorker
<1>4. 1 \in DOMAIN me.outbox /\ me.outbox[1] = c /\ c.step \in StepIds
  <2>1. 1 \in DOMAIN me.outbox /\ me.outbox[1] = Head(me.outbox) /\ Head(me.outbox) \in ReducerCall
    BY <1>3
  <2>2. c = Head(me.outbox)
    BY <1>1
  <2> QED BY <2>1, <2>2 DEF ReducerCall
<1>5. c.op \in EndsStep => StepRuns(c.step, who) /\ workflow_step[c.step].owner = OwnerOf[w]
  <2>1. c.op \in EndsStep => Sent(me, 1, "run_step", c.step)
    BY <1>4, WorkEnds DEF Sent
  <2> QED BY <1>2, <1>4, <2>1 DEF Steady, Held, Engaged
<1>6. c.op \in EndsTask => TaskRuns(c.step, who)
  <2>1. c.op \in EndsTask => Sent(me, 1, "run_task", c.step)
    BY <1>4, WorkEnds DEF Sent
  <2> QED BY <1>2, <1>4, <2>1 DEF Steady, Held, Engaged
<1>7. c.op = "complete_step" /\ BrowserStep(c.step) => TaskDone(c.step)
  BY <1>2, <1>4, <1>5 DEF Steady, Results, BrowserStep, EndsStep
<1>8. ASSUME c.op = "enqueue_step"
      PROVE  /\ Done(c.dep)
             /\ c.step[3] <= retry[RunOf(c.step)].count /\ Staged(c.step)
             /\ retry[RunOf(c.step)].count = 0 => Entered(c.step)
  <2>1. c.dep \in DOMAIN workflow_step /\ Follows(c, c.dep) /\ Done(c.dep)
    BY <1>2, <1>4, <1>8 DEF Steady, Chained
  <2>2. c.dep \in StepIds
    BY <1>2, <2>1 DEF IInv, TypeOK, Store!TypeOK, Store!IsTable
  <2> QED BY <1>2, <2>1, <2>2, EnteredAfter DEF Follows
<1> QED BY <1>1, <1>5, <1>6, <1>7, <1>8 DEF Due

\* So is what a dispatch calls.
LEMMA DispatchDue ==
  ASSUME QInv, NEW r \in RunIds, Dispatch(r)
  PROVE  Due(DispatchCalls(r)[dispatch[r]], Plane)
<1> DEFINE n == dispatch[r]
<1>1. PICK c : c = DispatchCalls(r)[n]
  OBVIOUS
<1>2. IInv /\ Orderly /\ PlaneDue
  BY DEF QInv, OInv
<1>3. n \in DOMAIN DispatchCalls(r) /\ n \in 1 .. 7
  BY <1>2, DispatchServes
<1>4. DispatchCall(r, n, c)
  BY <1>1, <1>3, DispatchCallAt
<1>5. EndsStep = {"fail_step", "complete_step", "enqueue_task"} /\ EndsTask = {"complete_task", "fail_task"}
  BY WorkEnds
<1>6. Route(r) \in StepIds /\ RunOf(Route(r)) = r /\ StageOf(Route(r)) = "route" /\ Route(r)[3] = 0
  BY StepIdMade, BoundsAssumption DEF Route, RunOf, StageOf, AllStages
<1>7. CASE n \in {1, 2, 3, 5}
  <2>1. c.op \in {"register_agent", "ingest_inbound", "start_run", "claim_step"}
    BY <1>4, <1>7 DEF DispatchCall
  <2> QED BY <1>1, <1>5, <2>1 DEF Due
<1>8. CASE n = 4
  <2>1. c.op = "enqueue_step" /\ c.dep = NONE /\ c.step = Route(r)
    BY <1>4, <1>8 DEF DispatchCall
  <2>2. retry[r].count \in Nat
    BY <1>2, CountsAre DEF IInv
  <2>3. Staged(c.step) /\ Entered(c.step)
    BY <1>6, <2>1, PipelineAssumption DEF Staged, Entered
  <2> QED BY <1>1, <1>5, <1>6, <2>1, <2>2, <2>3 DEF Due
<1>9. CASE n = 6
  <2>1. c.op = "complete_step" /\ c.step = Route(r)
    BY <1>4, <1>9 DEF DispatchCall
  <2>2. StepRuns(Route(r), Plane) /\ ~BrowserStep(Route(r))
    BY <1>2, <1>9 DEF PlaneDue, BrowserStep
  <2> QED BY <1>1, <1>5, <2>1, <2>2 DEF Due
<1>10. CASE n = 7
  <2>1. /\ c.op = "enqueue_step" /\ c.dep = Route(r) /\ next_stage("route") # NONE
        /\ c.step = <<r, next_stage("route"), 0>>
    BY <1>4, <1>10 DEF DispatchCall
  <2>2. Done(Route(r))
    BY <1>2, <1>10 DEF PlaneDue
  <2>3. /\ c.step[3] <= retry[RunOf(c.step)].count /\ Staged(c.step)
        /\ retry[RunOf(c.step)].count = 0 => Entered(c.step)
    BY <1>2, <1>6, <2>1, <2>2, EnteredAfter
  <2> QED BY <1>1, <1>5, <2>1, <2>2, <2>3 DEF Due
<1> QED BY <1>3, <1>7, <1>8, <1>9, <1>10

\* And what a retry enqueues.
LEMMA RetryDue ==
  ASSUME QInv, NEW r \in RunIds, RetryEnqueues(r) PROVE Due(RetryCall(r), Plane)
<1>1. PICK c, s : c = RetryCall(r) /\ s = retry[r].step
  OBVIOUS
<1>2. IInv /\ Orderly /\ RetriesCounted
  BY DEF QInv, OInv
<1>3. /\ s # NONE /\ s \in DOMAIN workflow_step /\ c.op = "enqueue_step"
      /\ c.step = <<r, StageOf(s), retry[r].count>> /\ c.dep = workflow_step[s].depends_on
  BY <1>1, <1>2, RetryServes
<1>4. retry[r].count > 0 /\ retry[r].count \in Nat
  BY <1>1, <1>2, <1>3, CountsAre DEF RetriesCounted, IInv
<1>5. RunOf(c.step) = r /\ StageOf(c.step) = StageOf(s) /\ c.step[3] = retry[r].count
  BY <1>3 DEF RunOf, StageOf
<1>6. Staged(s) /\ (c.dep # NONE => Done(c.dep))
  BY <1>2, <1>3 DEF Orderly, StepsInOrder, DepsDone
<1>7. Staged(c.step)
  BY <1>5, <1>6 DEF Staged
<1> QED BY <1>1, <1>3, <1>4, <1>5, <1>6, <1>7, WorkEnds DEF Due

\* A due call leaves the system in order.
LEMMA ServeQInv ==
  ASSUME QInv, OInv', NEW ws, Less(ws), NEW c \in Addressed, NEW id \in Runners,
         Served(ws, c, id), Due(c, id),
         \A r \in RunIds : retry'[r].count = retry[r].count, (PlaneDue /\ RetriesCounted)',
         \A w \in Workers : Steady(w, Runner(w), ws[w], Completing(c)),
         \A w \in Workers : id = Runner(w) => Rid(ws[w], c)
  PROVE  QInv'
<1>1. OInv /\ Orderly /\ TaskBlocks /\ IInv /\ TypeOK' /\ ws \in [Workers -> Process]
  BY DEF QInv, Orderly, OInv, IInv, Less
<1>2. CASE /\ ~Accepted(c) /\ UNCHANGED <<workflow_run, workflow_step, browser_task>>
           /\ \A w \in Workers : worker'[w] = ws[w]
  <2>1. \A r \in RunIds : retry[r].count \in Nat
    BY <1>1, CountsAre DEF IInv
  <2>2. Orderly'
    BY <1>1, <1>2, <2>1, OrderlySame
  <2>3. Completing(c) = {}
    BY <1>2, WorkEnds DEF Due, StepRuns, Accepted, Completing
  <2>4. ASSUME NEW w \in Workers PROVE Steady(w, Runner(w), worker[w], {})'
    <3>1. PICK me, who : me = ws[w] /\ who = Runner(w)
      OBVIOUS
    <3>2. Steady(w, who, me, {})'
      <4>1. Steady(w, who, me, {})
        BY <2>3, <3>1
      <4> QED BY <1>2, <4>1, SteadySame
    <3>3. me = worker'[w] /\ who = Runner(w)'
      BY <1>2, <3>1 DEF Less, Runner
    <3> QED BY <3>2, <3>3, SteadyOf
  <2> QED BY <2>2, <2>4 DEF QInv
<1>3. CASE /\ Accepted(c) /\ StepRows(c, id) /\ TaskRows(c, id) /\ RunRows(c)
           /\ \A w \in Workers :
                \/ worker'[w] = ws[w]
                \/ \E x \in Item : /\ Told(w, <<w, ws[w].incarnation>>, id, c, x)
                                   /\ worker'[w] = [ws[w] EXCEPT !.inbox = Append(@, x)]
  <2>1. Orderly'
    BY <1>1, <1>3, OrderlyKept
  <2>2. ASSUME NEW w \in Workers PROVE Steady(w, Runner(w), worker[w], {})'
    <3>1. PICK who, old, new : who = <<w, ws[w].incarnation>> /\ old = ws[w] /\ new = worker'[w]
      OBVIOUS
    <3>2. who = Runner(w) /\ old \in Process
      BY <1>1, <3>1 DEF Less, Runner
    <3>3. \/ new = old
          \/ \E x \in Item : Told(w, who, id, c, x) /\ new = [old EXCEPT !.inbox = Append(@, x)]
      <4> DEFINE whom == <<w, ws[w].incarnation>>
      <4>1. \/ worker'[w] = ws[w]
            \/ \E x \in Item : /\ Told(w, whom, id, c, x)
                               /\ worker'[w] = [ws[w] EXCEPT !.inbox = Append(@, x)]
        BY <1>3
      <4>2. who = whom
        BY <3>1
      <4> HIDE DEF whom
      <4> QED BY <3>1, <4>1, <4>2
    <3>4. Steady(w, who, old, Completing(c)) /\ (id = who => Rid(old, c))
      BY <3>1, <3>2
    <3>5. Steady(w, who, new, {})'
      BY <1>1, <1>3, <3>2, <3>3, <3>4, ServedSteady
    <3>6. who = Runner(w)'
      <4>1. worker'[w].incarnation = worker[w].incarnation
        BY <3>1, <3>2, <3>3 DEF Less, Process
      <4> QED BY <3>2, <4>1 DEF Runner
    <3> QED BY <3>1, <3>5, <3>6, SteadyOf
  <2> QED BY <2>1, <2>2 DEF QInv
<1> QED BY <1>2, <1>3 DEF Served

\* What is left to a worker when the server has its oldest call.
LEMMA WorkerLeft ==
  ASSUME IInv, NEW w \in Workers, ServeWorker(w), NEW who, Steady(w, who, worker[w], {}),
         NEW me, NEW c, c = Head(worker[w].outbox), me.outbox = Tail(worker[w].outbox),
         me.inbox = worker[w].inbox, me.scan = worker[w].scan, me.busy = worker[w].busy
  PROVE  Steady(w, who, me, Completing(c)) /\ Rid(me, c)
<1>1. PICK old : old = worker[w]
  OBVIOUS
<1>2. /\ old.outbox # <<>> /\ old.outbox \in Seq(ReducerCall) /\ c = Head(old.outbox)
      /\ me.outbox = Tail(old.outbox) /\ me.inbox = old.inbox /\ me.scan = old.scan /\ me.busy = old.busy
  BY <1>1, ProcessFields DEF ServeWorker
<1>3. Idle(old) /\ Held(w, who, old) /\ Once(old) /\ Results(w, old) /\ Chained(old, {})
  BY <1>1 DEF Steady
<1>4. /\ 1 \in DOMAIN old.outbox /\ old.outbox[1] = c /\ c.step \in StepIds
      /\ \A i \in DOMAIN me.outbox : i \in Nat /\ i # 0 /\ i + 1 \in DOMAIN old.outbox /\ old.outbox[i + 1] = me.outbox[i]
  <2>1. 1 \in DOMAIN old.outbox /\ old.outbox[1] = c /\ c \in ReducerCall
    BY <1>2
  <2>2. \A i \in DOMAIN Tail(old.outbox) : /\ i \in Nat /\ i # 0 /\ i + 1 \in DOMAIN old.outbox
                                           /\ old.outbox[i + 1] = Tail(old.outbox)[i]
    BY <1>2
  <2> QED BY <1>2, <2>1, <2>2 DEF ReducerCall
<1>5. \A i, kind, s : Sent(me, i, kind, s) => Sent(old, i + 1, kind, s) /\ i \in Nat /\ i # 0
  BY <1>4 DEF Sent
<1>6. \A i, kind, s : /\ Received(me, i, kind, s) <=> Received(old, i, kind, s)
                      /\ Doing(me, kind, s) <=> Doing(old, kind, s)
  BY <1>2 DEF Received, Doing
<1>7. \A kind, s : Engaged(me, kind, s) => Engaged(old, kind, s)
  BY <1>5, <1>6 DEF Engaged
<1>8. Idle(me) /\ Held(w, who, me)
  BY <1>2, <1>3, <1>7 DEF Idle, Held
<1>9. ASSUME NEW kind \in Work, NEW s \in StepIds
      PROVE  /\ \A i, j : Received(me, i, kind, s) /\ Received(me, j, kind, s) => i = j
             /\ \A i, j : Sent(me, i, kind, s) /\ Sent(me, j, kind, s) => i = j
             /\ \A i, j : ~(Received(me, i, kind, s) /\ Sent(me, j, kind, s))
             /\ Doing(me, kind, s) => \A i : ~Received(me, i, kind, s) /\ ~Sent(me, i, kind, s)
             /\ Sent(old, 1, kind, s) => ~Engaged(me, kind, s)
  <2>1. /\ \A i, j : Received(old, i, kind, s) /\ Received(old, j, kind, s) => i = j
        /\ \A i, j : Sent(old, i, kind, s) /\ Sent(old, j, kind, s) => i = j
        /\ \A i, j : ~(Received(old, i, kind, s) /\ Sent(old, j, kind, s))
        /\ Doing(old, kind, s) => \A i : ~Received(old, i, kind, s) /\ ~Sent(old, i, kind, s)
    BY <1>3 DEF Once
  <2>2. ASSUME NEW i, NEW j, Sent(me, i, kind, s), Sent(me, j, kind, s) PROVE i = j
    <3>1. i \in Nat /\ j \in Nat /\ i + 1 = j + 1
      BY <1>5, <2>1, <2>2
    <3> QED BY <3>1
  <2>3. Sent(old, 1, kind, s) => \A i : ~Sent(me, i, kind, s)
    <3> SUFFICES ASSUME NEW i, Sent(old, 1, kind, s), Sent(me, i, kind, s) PROVE FALSE
      OBVIOUS
    <3>1. i \in Nat /\ i # 0 /\ i + 1 = 1
      BY <1>5, <2>1
    <3> QED BY <3>1
  <2> QED BY <1>5, <1>6, <2>1, <2>2, <2>3 DEF Engaged
<1>10. Once(me)
  BY <1>9 DEF Once
<1>11. Rid(me, c)
  BY <1>4, <1>9, WorkEnds DEF Rid, Sent
<1>12. Results(w, me)
  <2>1. \A j \in DOMAIN me.outbox : \E i \in DOMAIN old.outbox : me.outbox[j] = old.outbox[i]
    BY <1>4
  <2> QED BY <1>2, <1>3, <2>1 DEF Results
<1>13. Chained(me, Completing(c))
  <2> SUFFICES ASSUME NEW i \in DOMAIN me.outbox, NEW e, e = me.outbox[i], e.op = "enqueue_step"
               PROVE  /\ e.dep \in DOMAIN workflow_step /\ Follows(e, e.dep)
                      /\ \/ Done(e.dep) \/ e.dep \in Completing(c)
                         \/ \E j \in 1 .. i - 1 : me.outbox[j].op = "complete_step" /\ me.outbox[j].step = e.dep
    BY DEF Chained
  <2>1. i + 1 \in DOMAIN old.outbox /\ old.outbox[i + 1] = e /\ i \in Nat
    BY <1>4
  <2>2. /\ e.dep \in DOMAIN workflow_step /\ Follows(e, e.dep)
        /\ \/ Done(e.dep)
           \/ \E j \in 1 .. i : old.outbox[j].op = "complete_step" /\ old.outbox[j].step = e.dep
    <3>1. (i + 1) - 1 = i
      BY <2>1
    <3> QED BY <1>3, <2>1, <3>1 DEF Chained
  <2>3. ASSUME NEW j \in 1 .. i, old.outbox[j].op = "complete_step", old.outbox[j].step = e.dep
        PROVE  \/ e.dep \in Completing(c)
               \/ \E l \in 1 .. i - 1 : me.outbox[l].op = "complete_step" /\ me.outbox[l].step = e.dep
    <3>1. CASE j = 1
      BY <1>4, <2>3, <3>1 DEF Completing
    <3>2. CASE j # 1
      <4>1. j - 1 \in 1 .. i - 1 /\ j - 1 \in DOMAIN me.outbox /\ (j - 1) + 1 = j
        BY <1>2, <2>1, <3>2
      <4>2. old.outbox[(j - 1) + 1] = me.outbox[j - 1]
        BY <1>4, <4>1
      <4> QED BY <2>3, <4>1, <4>2
    <3> QED BY <3>1, <3>2
  <2> QED BY <2>2, <2>3
<1> QED BY <1>8, <1>10, <1>11, <1>12, <1>13 DEF Steady

\* What a call does not touch of a dispatch's route step.
LEMMA PlaneDueKept ==
  ASSUME TaskBlocks, NEW c, NEW id, Due(c, id), StepRows(c, id), TaskRows(c, id),
         NEW r \in RunIds, PlaneDue, ~(c.op \in EndsStep /\ c.step = Route(r) /\ id = Plane)
  PROVE  /\ dispatch[r] = 6 => /\ StepRuns(Route(r), Plane)'
                               /\ workflow_step'[Route(r)].owner # "browser-worker"
         /\ dispatch[r] = 7 => Done(Route(r))'
<1>1. /\ dispatch[r] = 6 => /\ StepRuns(Route(r), Plane)
                            /\ workflow_step[Route(r)].owner # "browser-worker"
      /\ dispatch[r] = 7 => Done(Route(r))
  BY DEF PlaneDue
<1>2. PICK s : s = Route(r)
  OBVIOUS
<1>3. StepRuns(s, Plane) => StepRuns(s, Plane)' /\ workflow_step'[s].owner = workflow_step[s].owner
  BY <1>2, RunsKept
<1>4. Done(s) => Done(s)'
  BY DoneKept
<1> QED BY <1>1, <1>2, <1>3, <1>4 DEF Route, StepRuns, Done

LEMMA ServeWorkerQInv ==
  ASSUME QInv, OInv', NEW w \in Workers, ServeWorker(w) PROVE QInv'
<1> DEFINE outbox == worker[w].outbox
<1>0. OInv /\ IInv /\ TypeOK /\ TasksNamed /\ Named /\ TaskBlocks /\ PlaneDue /\ RetriesCounted
  BY DEF QInv, OInv, IInv, Orderly
<1>1. PICK c, ws, id : c = Head(outbox) /\ ws = [worker EXCEPT ![w].outbox = Tail(@)] /\ id = Runner(w)
  OBVIOUS
<1>2. /\ c \in Addressed /\ id \in Runners /\ id # Plane /\ Serve(ws, c, id) /\ Less(ws)
      /\ \A x \in Workers : x # w => ws[x] = worker[x]
      /\ ws[w].outbox = Tail(outbox) /\ UNCHANGED others
  BY <1>0, <1>1, ServeWorkerLess
<1>3. Due(c, id)
  BY <1>1, WorkerDue
<1>4. Served(ws, c, id)
  BY <1>0, <1>2, ServeServed DEF Less
<1>5. UNCHANGED <<dispatch, retry>>
  BY <1>2 DEF others
<1>6. (PlaneDue /\ RetriesCounted)'
  <2>1. RetriesCounted'
    BY <1>0, <1>5 DEF RetriesCounted
  <2>2. CASE UNCHANGED workflow_step
    BY <1>0, <1>5, <2>1, <2>2 DEF PlaneDue, StepRuns, Done
  <2>3. CASE StepRows(c, id) /\ TaskRows(c, id)
    <3>1. \A r \in RunIds :
            /\ dispatch[r] = 6 => /\ StepRuns(Route(r), Plane)'
                                  /\ workflow_step'[Route(r)].owner # "browser-worker"
            /\ dispatch[r] = 7 => Done(Route(r))'
      BY <1>0, <1>2, <1>3, <2>3, PlaneDueKept
    <3> QED BY <1>5, <2>1, <3>1 DEF PlaneDue, StepRuns, Done
  <2> QED BY <1>4, <2>2, <2>3 DEF Served
<1>7. ASSUME NEW x \in Workers
      PROVE  Steady(x, Runner(x), ws[x], Completing(c)) /\ (id = Runner(x) => Rid(ws[x], c))
  <2>1. Steady(x, Runner(x), worker[x], {})
    BY DEF QInv
  <2>2. CASE x = w
    <3>1. PICK me, who : me = ws[x] /\ who = Runner(x)
      OBVIOUS
    <3>2. /\ Steady(w, who, worker[w], {}) /\ me.outbox = Tail(worker[w].outbox)
          /\ me.inbox = worker[w].inbox /\ me.scan = worker[w].scan /\ me.busy = worker[w].busy
      BY <1>2, <2>1, <2>2, <3>1 DEF Less
    <3>3. Steady(w, who, me, Completing(c)) /\ Rid(me, c)
      BY <1>0, <1>1, <3>2, WorkerLeft
    <3> QED BY <2>2, <3>1, <3>3
  <2>3. CASE x # w
    <3>1. Steady(x, Runner(x), worker[x], Completing(c))
      <4>1. PICK me, who, completing : me = worker[x] /\ who = Runner(x) /\ completing = Completing(c)
        OBVIOUS
      <4>2. Steady(x, who, me, {})
        BY <2>1, <4>1
      <4>3. Steady(x, who, me, completing)
        BY <4>2 DEF Steady, Chained
      <4> QED BY <4>1, <4>3
    <3>2. id # Runner(x)
      BY <1>1, <2>3 DEF Runner
    <3> QED BY <1>2, <2>3, <3>1, <3>2
  <2> QED BY <2>2, <2>3
<1> QED BY <1>2, <1>3, <1>4, <1>5, <1>6, <1>7, ServeQInv

\* A control plane's call.
LEMMA PlaneServed ==
  ASSUME QInv, OInv', NEW c \in Addressed, Serve(worker, c, Plane), Due(c, Plane),
         \A r \in RunIds : retry'[r].count = retry[r].count, (PlaneDue /\ RetriesCounted)'
  PROVE  QInv'
<1>0. IInv /\ TypeOK /\ TasksNamed /\ Named /\ Less(worker)
  BY WorkerLess DEF QInv, OInv, IInv
<1>1. Plane \in Runners
  BY DEF Runners
<1>2. Served(worker, c, Plane)
  BY <1>0, <1>1, ServeServed DEF Less
<1>3. ASSUME NEW w \in Workers PROVE Steady(w, Runner(w), worker[w], Completing(c))
  <2>1. PICK me, who, completing : me = worker[w] /\ who = Runner(w) /\ completing = Completing(c)
    OBVIOUS
  <2>2. Steady(w, who, me, {})
    BY <2>1 DEF QInv
  <2>3. Steady(w, who, me, completing)
    BY <2>2 DEF Steady, Chained
  <2> QED BY <2>1, <2>3
<1>4. ASSUME NEW w \in Workers, Plane = Runner(w) PROVE Rid(worker[w], c)
  <2>1. PICK me, who : me = worker[w] /\ who = Runner(w)
    OBVIOUS
  <2>2. \A kind, s : ~Engaged(me, kind, s)
    <3>1. worker[w].incarnation = 0
      <4>1. worker[w].incarnation \notin 1 .. MaxCrashes + 1
        BY <1>4, PlaneAssumption DEF Runner
      <4> QED BY <1>0, <4>1, ProcessFields, BoundsAssumption
    <3>2. me = Down(0)
      BY <1>0, <2>1, <3>1, ProcessFields DEF LivesOf
    <3>3. me.inbox = <<>> /\ me.outbox = <<>> /\ me.busy["callbacks"] = NONE
      BY <3>2 DEF Down, Threads
    <3> QED BY <3>3 DEF Engaged, Received, Doing, Sent
  <2> QED BY <2>1, <2>2 DEF Rid
<1> QED BY <1>0, <1>1, <1>2, <1>3, <1>4, ServeQInv

LEMMA DispatchQInv ==
  ASSUME QInv, OInv', NEW r \in RunIds, Dispatch(r) PROVE QInv'
<1> DEFINE n == dispatch[r]
<1>0. /\ IInv /\ TypeOK /\ TasksNamed /\ Named /\ TaskBlocks /\ PlaneDue /\ RetriesCounted
      /\ IInv' /\ dispatch \in [RunIds -> 0 .. 8]
  BY DEF QInv, OInv, IInv, Orderly, TypeOK
<1>1. PICK c : c = DispatchCalls(r)[n]
  OBVIOUS
<1>2. /\ n \in DOMAIN DispatchCalls(r) /\ n \in 1 .. 7 /\ c \in Addressed
      /\ Serve(worker, c, Plane) /\ Plane \in Runners /\ DispatchCall(r, n, c)
  BY <1>0, <1>1, DispatchServes, DispatchCallAt
<1>3. Due(c, Plane)
  BY <1>1, DispatchDue
<1>4. /\ retry' = retry
      /\ dispatch' = [dispatch EXCEPT ![r] = IF Accepted(c) THEN n + 1 ELSE Stopped]
  BY <1>1 DEF Dispatch
<1>5. Served(worker, c, Plane)
  BY <1>0, <1>2, ServeServed DEF TypeOK
<1>6. \A q \in RunIds : q # r => dispatch'[q] = dispatch[q]
  BY <1>0, <1>4
<1>7. dispatch'[r] = IF Accepted(c) THEN n + 1 ELSE 0
  BY <1>0, <1>4 DEF Stopped
<1>8. PlaneDue'
  <2>1. CASE ~Accepted(c) /\ UNCHANGED workflow_step
    <3>1. dispatch'[r] = 0
      BY <1>7, <2>1
    <3> QED BY <1>0, <1>6, <2>1, <3>1 DEF PlaneDue, StepRuns, Done
  <2>2. CASE Accepted(c) /\ StepRows(c, Plane) /\ TaskRows(c, Plane)
    <3>1. dispatch'[r] = n + 1
      BY <1>7, <2>2
    <3>2. ASSUME NEW q \in RunIds, q # r
          PROVE  /\ dispatch'[q] = 6 => /\ StepRuns(Route(q), Plane)'
                                        /\ workflow_step'[Route(q)].owner # "browser-worker"
                 /\ dispatch'[q] = 7 => Done(Route(q))'
      <4>1. ~(c.op \in EndsStep /\ c.step = Route(q))
        <5>1. c.op \in EndsStep => c.step = Route(r)
          BY <1>2, WorkEnds DEF DispatchCall
        <5>2. Route(q) # Route(r)
          BY <3>2 DEF Route
        <5> QED BY <5>1, <5>2
      <4>2. dispatch'[q] = dispatch[q]
        BY <1>6, <3>2
      <4> QED BY <1>0, <1>3, <2>2, <4>1, <4>2, PlaneDueKept
    <3>3. dispatch'[r] = 6 => /\ StepRuns(Route(r), Plane)'
                              /\ workflow_step'[Route(r)].owner # "browser-worker"
      <4> SUFFICES ASSUME n = 5
                   PROVE  StepRuns(Route(r), Plane)' /\ workflow_step'[Route(r)].owner # "browser-worker"
        BY <1>2, <3>1
      <4>1. c.op = "claim_step" /\ c.owner = Target /\ c.step = Route(r)
        BY <1>2 DEF DispatchCall
      <4>2. /\ c.step \in DOMAIN workflow_step' /\ workflow_step'[c.step].status = "running"
            /\ workflow_step'[c.step].runner = Plane /\ workflow_step'[c.step].owner = Target
        BY <2>2, <4>1 DEF StepRows, StepAfter
      <4>3. Target # "browser-worker"
        BY WorkerAssumption DEF ExecutionTarget
      <4> QED BY <4>1, <4>2, <4>3 DEF StepRuns, Route
    <3>4. dispatch'[r] = 7 => Done(Route(r))'
      <4> SUFFICES ASSUME n = 6 PROVE Done(Route(r))'
        BY <1>2, <3>1
      <4>1. c.op = "complete_step" /\ c.step = Route(r)
        BY <1>2 DEF DispatchCall
      <4>2. c.step \in DOMAIN workflow_step' /\ workflow_step'[c.step].status = "completed"
        BY <2>2, <4>1 DEF StepRows, StepAfter
      <4> QED BY <4>1, <4>2 DEF Done, Route
    <3> QED BY <3>2, <3>3, <3>4 DEF PlaneDue, StepRuns, Done, Route
  <2> QED BY <1>5, <2>1, <2>2 DEF Served
<1>9. RetriesCounted'
  BY <1>0, <1>4 DEF RetriesCounted
<1> QED BY <1>2, <1>3, <1>4, <1>8, <1>9, PlaneServed

LEMMA RetryEnqueuesQInv ==
  ASSUME QInv, OInv', NEW r \in RunIds, RetryEnqueues(r) PROVE QInv'
<1>0. /\ IInv /\ TypeOK /\ TasksNamed /\ Named /\ TaskBlocks /\ PlaneDue /\ RetriesCounted
  BY DEF QInv, OInv, IInv, Orderly
<1>1. PICK c : c = RetryCall(r)
  OBVIOUS
<1>2. /\ c \in Addressed /\ Serve(worker, c, Plane) /\ Plane \in Runners /\ c.op = "enqueue_step"
      /\ retry' = [retry EXCEPT ![r].step = NONE] /\ UNCHANGED dispatch
  BY <1>0, <1>1, RetryServes
<1>3. Due(c, Plane)
  BY <1>1, RetryDue
<1>4. Served(worker, c, Plane)
  BY <1>0, <1>2, ServeServed DEF TypeOK
<1>5. \A q \in RunIds : retry'[q].count = retry[q].count /\ (retry'[q].step # NONE => retry'[q].step = retry[q].step)
  BY <1>0, <1>2 DEF TypeOK
<1>6. RetriesCounted'
  BY <1>0, <1>5 DEF RetriesCounted
<1>7. PlaneDue'
  <2>1. CASE UNCHANGED workflow_step
    BY <1>0, <1>2, <2>1 DEF PlaneDue, StepRuns, Done
  <2>2. CASE StepRows(c, Plane) /\ TaskRows(c, Plane)
    <3>1. \A q \in RunIds :
            /\ dispatch[q] = 6 => /\ StepRuns(Route(q), Plane)'
                                  /\ workflow_step'[Route(q)].owner # "browser-worker"
            /\ dispatch[q] = 7 => Done(Route(q))'
      BY <1>0, <1>2, <1>3, <2>2, PlaneDueKept, WorkEnds
    <3> QED BY <1>2, <3>1 DEF PlaneDue, StepRuns, Done
  <2> QED BY <1>4, <2>1, <2>2 DEF Served
<1> QED BY <1>2, <1>3, <1>5, <1>6, <1>7, PlaneServed

\* Steps that touch no step, no task and no process.
LEMMA ObserverQInv ==
  ASSUME QInv, OInv', UNCHANGED <<workflow_step, browser_task, worker>>,
         \A r \in DOMAIN workflow_run' : r \in DOMAIN workflow_run /\
           (workflow_run'[r].status = "completed" => workflow_run[r].status = "completed"),
         \A r \in RunIds : /\ dispatch'[r] = dispatch[r] \/ dispatch'[r] = Stopped
                           /\ retry'[r] = retry[r] \/ retry'[r].count = retry[r].count + 1
  PROVE  QInv'
<1>0. OInv /\ Orderly /\ PlaneDue /\ RetriesCounted /\ TypeOK /\ TypeOK'
  BY DEF QInv, OInv, IInv
<1>1. \A r \in RunIds : retry[r].count \in Nat /\ retry'[r].count \in Nat /\ retry[r].count <= retry'[r].count
  <2>1. \A r \in RunIds : retry[r].count \in Nat
    BY <1>0, CountsAre
  <2> QED BY <2>1
<1>2. Orderly'
  BY <1>0, <1>1, OrderlySame
<1>3. PlaneDue'
  BY <1>0 DEF PlaneDue, StepRuns, Done, Stopped
<1>4. RetriesCounted'
  <2> SUFFICES ASSUME NEW r \in RunIds, retry'[r].step # NONE PROVE retry'[r].count > 0
    BY DEF RetriesCounted
  <2>1. CASE retry'[r] = retry[r]
    BY <1>0, <2>1 DEF RetriesCounted
  <2>2. CASE retry'[r].count = retry[r].count + 1
    BY <1>1, <2>2
  <2> QED BY <2>1, <2>2
<1>5. ASSUME NEW w \in Workers PROVE Steady(w, Runner(w), worker[w], {})'
  <2>1. PICK me, who : me = worker[w] /\ who = Runner(w)
    OBVIOUS
  <2>2. Steady(w, who, me, {})
    BY <2>1 DEF QInv
  <2>3. Steady(w, who, me, {})'
    BY <2>2, SteadySame
  <2>4. me = worker'[w] /\ who = Runner(w)'
    BY <2>1 DEF Runner
  <2> QED BY <2>3, <2>4, SteadyOf
<1> QED BY <1>2, <1>3, <1>4, <1>5 DEF QInv

LEMMA OperatorQInv ==
  ASSUME QInv, OInv', NEW r \in RunIds, DispatchDies(r) \/ RetryReads(r) \/ cancel_run(r)
  PROVE  QInv'
<1>0. TypeOK
  BY DEF QInv, OInv, IInv
<1>1. CASE DispatchDies(r)
  <2>1. /\ UNCHANGED <<workflow_step, browser_task, worker, workflow_run, retry>>
        /\ dispatch' = [dispatch EXCEPT ![r] = Stopped]
    BY <1>1 DEF DispatchDies, storeVars
  <2>2. \A q \in RunIds : dispatch'[q] = dispatch[q] \/ dispatch'[q] = Stopped
    BY <1>0, <2>1 DEF TypeOK
  <2> QED BY <2>1, <2>2, ObserverQInv
<1>2. CASE RetryReads(r)
  <2>1. /\ UNCHANGED <<workflow_step, browser_task, worker, workflow_run, dispatch>>
        /\ \E s : retry' = [retry EXCEPT ![r] = [count |-> @.count + 1, step |-> s]]
    BY <1>2 DEF RetryReads, storeVars
  <2>2. \A q \in RunIds : retry'[q] = retry[q] \/ retry'[q].count = retry[q].count + 1
    BY <1>0, <2>1 DEF TypeOK
  <2> QED BY <2>1, <2>2, ObserverQInv
<1>3. CASE cancel_run(r)
  <2>1. /\ UNCHANGED <<workflow_step, browser_task, worker, dispatch, retry>>
        /\ Store!update_run_status(r, "cancelled")
    BY <1>3 DEF cancel_run, Store!update_run_status
  <2>2. \A q \in DOMAIN workflow_run' : q \in DOMAIN workflow_run /\
          (workflow_run'[q].status = "completed" => workflow_run[q].status = "completed")
    <3>1. /\ DOMAIN workflow_run' = DOMAIN workflow_run
          /\ \A q \in DOMAIN workflow_run : q # r => workflow_run'[q] = workflow_run[q]
      BY <2>1 DEF Store!update_run_status
    <3>2. r \in DOMAIN workflow_run /\ workflow_run[r] \in Store!WorkflowRun
      BY <1>0, <2>1 DEF TypeOK, Store!TypeOK, Store!IsTable, Store!update_run_status
    <3>3. workflow_run'[r].status = "cancelled"
      BY <2>1, <3>2 DEF Store!update_run_status, Store!WorkflowRun
    <3> QED BY <3>1, <3>3
  <2> QED BY <2>1, <2>2, ObserverQInv
<1> QED BY <1>1, <1>2, <1>3

LEMMA InitQInv == Init => QInv
<1> SUFFICES ASSUME Init PROVE QInv
  OBVIOUS
<1>1. OInv /\ Store!Init
  BY InitOInv, InitIInv
<1>2. DOMAIN workflow_step = {} /\ DOMAIN browser_task = {} /\ DOMAIN workflow_run = {}
  BY <1>1 DEF Store!Init, Store!EmptyTable
<1>3. Orderly
  BY <1>2 DEF Orderly, TaskBlocks, BrowserStepHasResult, DepsDone, StepsInOrder, RunDone
<1>4. PlaneDue /\ RetriesCounted
  BY DEF Init, PlaneDue, RetriesCounted
<1>5. ASSUME NEW w \in Workers PROVE Steady(w, Runner(w), worker[w], {})
  <2>1. worker[w] = Down(0)
    BY DEF Init
  <2>2. Down(0).inbox = <<>> /\ Down(0).scan = {} /\ Down(0).outbox = <<>>
        /\ Down(0).busy = [th \in Threads |-> NONE]
    BY DEF Down
  <2> QED BY <2>1, <2>2, EmptySteady
<1> QED BY <1>1, <1>3, <1>4, <1>5 DEF QInv

\* Every step of settled workers preserves the invariant.
LEMMA NextQInv == QInv /\ Settled /\ Settled' /\ [Next]_vars => QInv'
<1> SUFFICES ASSUME QInv, Settled, Settled', [Next]_vars PROVE QInv'
  OBVIOUS
<1>0. OInv'
  BY NextOInv DEF QInv
<1>1. CASE UNCHANGED vars
  <2>1. UNCHANGED <<workflow_step, browser_task, workflow_run, worker, dispatch, retry>>
    BY <1>1 DEF vars, storeVars
  <2> QED BY <1>0, <2>1, ObserverQInv
<1>2. ASSUME NEW w \in Workers, WorkerNext(w) \/ Crash(w) PROVE QInv'
  <2>1. ~ScanItem(w)
    BY DEF ScanItem, QInv, Steady, Idle
  <2> QED BY <1>0, <1>2, <2>1, EmptyQInv, ScanQInv, CallbackQInv, FinishQInv, ServeWorkerQInv
          DEF WorkerNext
<1>3. ASSUME NEW r \in RunIds,
             Dispatch(r) \/ DispatchDies(r) \/ RetryReads(r) \/ RetryEnqueues(r) \/ cancel_run(r)
      PROVE  QInv'
  BY <1>0, <1>3, DispatchQInv, RetryEnqueuesQInv, OperatorQInv
<1> QED BY <1>1, <1>2, <1>3 DEF Next

\* Settled workers keep the tables in order and themselves steady.
LEMMA SettledInductive == Spec /\ []Settled => []QInv
BY InitQInv, NextQInv, PTL DEF Spec

\* While no worker comes up on a run under way, no two threads execute one step or
\* task at a time: any number of browser workers, crashes, retries and cancels.
THEOREM OneExecutesSettled == Spec /\ []Settled => []ExecutedByOne
<1>1. ASSUME QInv, NEW w1 \in Workers, NEW w2 \in Workers, NEW t1 \in Threads, NEW t2 \in Threads,
             worker[w1].busy[t1] # NONE, worker[w2].busy[t2] # NONE,
             worker[w1].busy[t1].kind = worker[w2].busy[t2].kind,
             worker[w1].busy[t1].step = worker[w2].busy[t2].step
      PROVE  w1 = w2 /\ t1 = t2
  <2>1. PICK me1, me2, who1, who2 : me1 = worker[w1] /\ me2 = worker[w2] /\ who1 = Runner(w1) /\ who2 = Runner(w2)
    OBVIOUS
  <2>2. PICK kind, s : kind = me1.busy[t1].kind /\ s = me1.busy[t1].step
    OBVIOUS
  <2>3. /\ Apart(me1) /\ Steady(w1, who1, me1, {}) /\ Steady(w2, who2, me2, {}) /\ IInv
    BY <1>1, <2>1 DEF QInv, OInv
  <2>4. Threads = {"callbacks", "main"}
    BY DEF Threads
  <2>5. t1 = "callbacks" /\ t2 = "callbacks"
    BY <1>1, <2>1, <2>3, <2>4 DEF Steady, Idle
  <2>6. Doing(me1, kind, s) /\ Doing(me2, kind, s)
    BY <1>1, <2>1, <2>2, <2>5 DEF Doing
  <2>7. kind \in Work /\ s \in StepIds
    BY <1>1, <2>1, <2>2, <2>3, ProcessFields DEF Apart, IsRunning, Item, Work
  <2>8. who1 = who2
    <3>1. CASE kind = "run_step"
      BY <2>3, <2>6, <2>7, <3>1 DEF Steady, Held, Engaged, StepRuns
    <3>2. CASE kind = "run_task"
      BY <2>3, <2>6, <2>7, <3>2 DEF Steady, Held, Engaged, TaskRuns
    <3> QED BY <2>7, <3>1, <3>2 DEF Work
  <2> QED BY <2>1, <2>5, <2>8 DEF Runner
<1>2. QInv => ExecutedByOne
  BY <1>1 DEF ExecutedByOne
<1> QED BY <1>2, SettledInductive, PTL

\* Nor is a step executed before the one it depends on is completed, which the server
\* does not check.
THEOREM DependencySettled == Spec /\ []Settled => []DependencyCompleted
<1>1. ASSUME QInv, NEW w \in Workers, NEW th \in Threads, worker[w].busy[th] # NONE,
             NEW dep, dep = workflow_step[worker[w].busy[th].step].depends_on, dep # NONE
      PROVE  workflow_step[dep].status = "completed"
  <2>1. PICK me, who : me = worker[w] /\ who = Runner(w)
    OBVIOUS
  <2>2. PICK s, kind : s = me.busy[th].step /\ kind = me.busy[th].kind
    OBVIOUS
  <2>3. Apart(me) /\ Rightful(w, me) /\ IInv /\ Unclaimed /\ DepsDone
    <3>1. Apart(worker[w]) /\ Rightful(w, worker[w]) /\ IInv /\ Unclaimed /\ DepsDone
      BY <1>1 DEF QInv, OInv, Orderly
    <3> QED BY <2>1, <3>1
  <2>4. Holds(me, kind, s) /\ kind \in {"run_step", "run_task"} /\ s \in StepIds
    BY <1>1, <2>1, <2>2, <2>3, ProcessFields DEF Holds, Apart, IsRunning, Item
  <2>5. s \in DOMAIN workflow_step
    BY <2>3, <2>4 DEF Rightful, OwnsStep, OwnsTask, Unclaimed, BrowserStep
  <2> QED BY <1>1, <2>1, <2>2, <2>3, <2>5 DEF DepsDone, Done
<1>2. QInv => DependencyCompleted
  BY <1>1 DEF DependencyCompleted
<1> QED BY <1>2, SettledInductive, PTL

\* And a browser step is only completed with its task's result.
THEOREM ResultsSettled == Spec /\ []Settled => []BrowserStepHasResult
<1>1. QInv => BrowserStepHasResult
  BY DEF QInv, Orderly
<1> QED BY <1>1, SettledInductive, PTL

-----------------------------------------------------------------------------
(* A completed run.                                                        *)

\* The stages of a run that is completed and was never retried are all done.
LEMMA CompletedDone ==
  ASSUME QInv, NEW r \in DOMAIN workflow_run, workflow_run[r].status = "completed", retry[r].count = 0,
         NEW s \in StepIds, RunOf(s) = r, Staged(s), s[3] <= 0
  PROVE  Done(s)
<1>0. IInv /\ Orderly /\ r \in RunIds
  BY DEF QInv, OInv, IInv, TypeOK, Store!TypeOK, Store!IsTable
<1>1. PICK l : l = <<r, "learn", 0>>
  OBVIOUS
<1>2. RunOf(l) = r /\ StageOf(l) = "learn"
  BY <1>1 DEF RunOf, StageOf
<1>3. l \in DOMAIN workflow_step /\ Done(l)
  BY <1>0, <1>1 DEF Orderly, RunDone, Done
<1>4. Staged(l) /\ Entered(l)
  BY <1>0, <1>2, <1>3 DEF Orderly, StepsInOrder
<1>5. PICK j \in DOMAIN Pipeline : Pipeline[j] = "learn"
  BY <1>2, <1>4 DEF Staged
<1>6. PICK i \in DOMAIN Pipeline : StageOf(s) = Pipeline[i]
  BY DEF Staged
<1>7. j = Len(Pipeline) /\ i \in 1 .. Len(Pipeline) /\ Len(Pipeline) \in Nat
  BY <1>5, PipelineAssumption
<1>8. s = <<r, Pipeline[i], 0>>
  BY <1>6, BoundsAssumption DEF StepIds, RunOf, StageOf
<1>9. CASE i = j
  BY <1>1, <1>3, <1>5, <1>8, <1>9
<1>10. CASE i < j
  BY <1>2, <1>4, <1>5, <1>8, <1>10 DEF Entered
<1> QED BY <1>7, <1>9, <1>10

\* A due call that is served leaves it completed.
LEMMA CompletedServed ==
  ASSUME QInv, NEW ws, NEW c \in Addressed, NEW id, Served(ws, c, id), Due(c, id),
         NEW r \in DOMAIN workflow_run, workflow_run[r].status = "completed", retry[r].count = 0
  PROVE  workflow_run'[r].status = "completed"
<1>0. Orderly /\ TaskBlocks /\ DOMAIN workflow_step \subseteq StepIds
  BY DEF QInv, OInv, IInv, Orderly, TypeOK, Store!TypeOK, Store!IsTable
<1>1. CASE UNCHANGED workflow_run
  BY <1>1
<1>2. CASE StepRows(c, id) /\ RunRows(c)
  <2> SUFFICES ASSUME r = RunOf(c.step), c.op \in RunCalls, c.op # "start_run" PROVE FALSE
    BY <1>2 DEF RunRows
  <2>1. ASSUME c.step \in DOMAIN workflow_step PROVE Done(c.step)
    <3>1. Staged(c.step) /\ c.step[3] <= 0
      BY <1>0, <2>1 DEF Orderly, StepsInOrder
    <3> QED BY <1>0, <2>1, <3>1, CompletedDone
  <2>2. CASE c.op = "enqueue_step"
    <3>1. Staged(c.step) /\ c.step[3] <= 0
      BY <2>2 DEF Due
    <3>2. c.step \in StepIds
      BY DEF Addressed, ReducerCall
    <3>3. Done(c.step)
      BY <3>1, <3>2, CompletedDone
    <3> QED BY <1>2, <2>2, <3>3 DEF StepRows, Done
  <2>3. CASE c.op \in EndsStep
    BY <2>1, <2>3 DEF Due, StepRuns, Done
  <2>4. CASE c.op \in EndsTask
    BY <1>0, <2>1, <2>4 DEF Due, TaskRuns, TaskBlocks, Done
  <2> QED BY <2>2, <2>3, <2>4, WorkEnds DEF RunCalls
<1> QED BY <1>1, <1>2 DEF Served

\* No step reopens a run that is completed and was not retried.
LEMMA CompletedStep ==
  ASSUME QInv, [Next]_vars,
         NEW r \in DOMAIN workflow_run, workflow_run[r].status = "completed", retry[r].count = 0
  PROVE  workflow_run'[r].status \in {"completed", "cancelled"}
<1>0. /\ IInv /\ TypeOK /\ TasksNamed /\ Named
      /\ workflow_run[r] \in Store!WorkflowRun
  BY DEF QInv, OInv, IInv, TypeOK, Store!TypeOK, Store!IsTable
<1>1. CASE UNCHANGED workflow_run
  BY <1>1
<1>2. ASSUME NEW w \in Workers, ServeWorker(w) PROVE workflow_run'[r].status = "completed"
  <2>1. PICK c, ws, id : c = Head(worker[w].outbox) /\ ws = [worker EXCEPT ![w].outbox = Tail(@)] /\ id = Runner(w)
    OBVIOUS
  <2>2. c \in Addressed /\ id \in Runners /\ Serve(ws, c, id) /\ Less(ws)
    BY <1>0, <1>2, <2>1, ServeWorkerLess
  <2>3. Due(c, id)
    BY <1>2, <2>1, WorkerDue
  <2>4. Served(ws, c, id)
    BY <1>0, <2>2, ServeServed DEF Less
  <2> QED BY <2>2, <2>3, <2>4, CompletedServed
<1>3. ASSUME NEW c \in Addressed, Serve(worker, c, Plane), Due(c, Plane)
      PROVE  workflow_run'[r].status = "completed"
  <2>1. Plane \in Runners /\ Less(worker)
    BY <1>0, WorkerLess DEF Runners
  <2>2. Served(worker, c, Plane)
    BY <1>0, <1>3, <2>1, ServeServed DEF Less
  <2> QED BY <1>3, <2>2, CompletedServed
<1>4. ASSUME NEW q \in RunIds, Dispatch(q) PROVE workflow_run'[r].status = "completed"
  <2>1. PICK c : c = DispatchCalls(q)[dispatch[q]]
    OBVIOUS
  <2>2. c \in Addressed /\ Serve(worker, c, Plane)
    BY <1>0, <1>4, <2>1, DispatchServes
  <2>3. Due(c, Plane)
    BY <1>4, <2>1, DispatchDue
  <2> QED BY <1>3, <2>2, <2>3
<1>5. ASSUME NEW q \in RunIds, RetryEnqueues(q) PROVE workflow_run'[r].status = "completed"
  <2>1. PICK c : c = RetryCall(q)
    OBVIOUS
  <2>2. c \in Addressed /\ Serve(worker, c, Plane)
    BY <1>0, <1>5, <2>1, RetryServes
  <2>3. Due(c, Plane)
    BY <1>5, <2>1, RetryDue
  <2> QED BY <1>3, <2>2, <2>3
<1>6. ASSUME NEW q \in RunIds, cancel_run(q)
      PROVE  workflow_run'[r].status \in {"completed", "cancelled"}
  <2>1. CASE q = r
    BY <1>0, <1>6, <2>1 DEF cancel_run, Store!update_run_status, Store!WorkflowRun
  <2>2. CASE q # r
    BY <1>6, <2>2 DEF cancel_run, Store!update_run_status
  <2> QED BY <2>1, <2>2
<1>7. ASSUME NEW w \in Workers, WorkerNext(w) \/ Crash(w), ~ServeWorker(w) PROVE UNCHANGED workflow_run
  BY <1>7 DEF WorkerNext, Crash, Start, ScanSteps, ScanTasks, Scan, Callback, ScanItem, Handle,
     FinishStep, FinishTask, Finish, storeVars
<1>8. ASSUME NEW q \in RunIds, DispatchDies(q) \/ RetryReads(q) PROVE UNCHANGED workflow_run
  BY <1>8 DEF DispatchDies, RetryReads, storeVars
<1> QED BY <1>1, <1>2, <1>4, <1>5, <1>6, <1>7, <1>8 DEF Next, vars, storeVars

\* A completed run that nobody has retried is worked on no more: every call still on
\* its way is for a step or a task that somebody is running, and of this run no step is.
THEOREM CompletedSettled == Spec /\ []Settled => CompletedStaysCompleted
<1>1. QInv /\ [Next]_vars =>
        [\A r \in DOMAIN workflow_run :
           /\ workflow_run[r].status = "completed" /\ retry[r].count = 0
           => workflow_run'[r].status \in {"completed", "cancelled"}]_vars
  BY CompletedStep
<1> QED BY <1>1, SettledInductive, PTL DEF CompletedStaysCompleted, Spec

-----------------------------------------------------------------------------
(* Workers that are up before the dispatch and do not die are settled.     *)

\* The phase of a process is that of its start: nothing else changes it, or adds to its scan.
Stays(old, new) == new.phase = old.phase /\ new.scan \subseteq old.scan

\* A call that is served,
LEMMA ServeStays ==
  ASSUME NEW ws \in [Workers -> Process], NEW c, NEW id, Serve(ws, c, id), NEW w \in Workers
  PROVE  Stays(ws[w], worker'[w])
<1>1. ws[w] \in Process
  OBVIOUS
<1>2. CASE worker' = ws
  BY <1>2 DEF Stays
<1>3. CASE worker' = Announce(ws, c)
  <2>1. worker'[w] = ws[w] \/ \E more : worker'[w] = [ws[w] EXCEPT !.inbox = @ \o more]
    BY <1>3 DEF Announce
  <2> QED BY <1>1, <2>1 DEF Stays, Process
<1> QED BY <1>2, <1>3 DEF Serve

\* a row that is handled,
LEMMA HandleStays ==
  ASSUME TypeOK, NEW w \in Workers, NEW th, NEW item, NEW me \in Process, Handle(w, th, item, me)
  PROVE  Stays(me, worker'[w]) /\ \A x \in Workers : x # w => worker'[x] = worker[x]
<1>1. \/ worker' = [worker EXCEPT ![w] = [me EXCEPT !.outbox = Append(@, Claim(item.kind, item.step, OwnerOf[w]))]]
      \/ worker' = [worker EXCEPT ![w] = me]
      \/ worker' = [worker EXCEPT ![w] = [me EXCEPT !.busy[th] = item]]
  BY DEF Handle
<1>2. worker \in [Workers -> Process]
  BY DEF TypeOK
<1>3. \E new : worker' = [worker EXCEPT ![w] = new] /\ Stays(me, new)
  <2>1. me.phase = [me EXCEPT !.outbox = Append(@, Claim(item.kind, item.step, OwnerOf[w]))].phase
        /\ me.scan = [me EXCEPT !.outbox = Append(@, Claim(item.kind, item.step, OwnerOf[w]))].scan
    BY DEF Process
  <2>2. me.phase = [me EXCEPT !.busy[th] = item].phase /\ me.scan = [me EXCEPT !.busy[th] = item].scan
    BY DEF Process
  <2> QED BY <1>1, <2>1, <2>2 DEF Stays
<1> QED BY <1>2, <1>3

\* and every step of a thread leave the phases alone.
LEMMA ThreadStays ==
  ASSUME IInv, NEW w \in Workers,
         \/ Callback(w) \/ ScanItem(w) \/ ServeWorker(w)
         \/ \E th \in Threads : FinishStep(w, th) \/ FinishTask(w, th),
         NEW x \in Workers
  PROVE  Stays(worker[x], worker'[x])
<1>1. TypeOK /\ worker \in [Workers -> Process] /\ worker[w] \in Process
  BY DEF IInv, TypeOK
<1>2. ASSUME NEW th, NEW item, NEW me \in Process, Handle(w, th, item, me), Stays(worker[w], me)
      PROVE  Stays(worker[x], worker'[x])
  BY <1>1, <1>2, HandleStays DEF Stays
<1>3. CASE Callback(w)
  <2>1. PICK me : me = [worker[w] EXCEPT !.inbox = Tail(@)]
    OBVIOUS
  <2>2. worker[w].inbox # <<>> /\ Handle(w, "callbacks", Head(worker[w].inbox), me)
    BY <1>3, <2>1 DEF Callback
  <2>3. Tail(worker[w].inbox) \in Seq(Item)
    BY <2>2, ProcessFields
  <2>4. me \in Process /\ Stays(worker[w], me)
    BY <1>1, <2>1, <2>3 DEF Process, Stays
  <2> QED BY <1>2, <2>2, <2>4
<1>4. CASE ScanItem(w)
  <2>1. PICK row \in worker[w].scan :
          \E item : Handle(w, "main", item, [worker[w] EXCEPT !.scan = @ \ {row}])
    BY <1>4 DEF ScanItem
  <2>2. PICK me : me = [worker[w] EXCEPT !.scan = @ \ {row}]
    OBVIOUS
  <2>3. me \in Process /\ Stays(worker[w], me)
    BY <1>1, <2>2 DEF Process, Stays
  <2> QED BY <1>2, <2>1, <2>2, <2>3
<1>5. CASE ServeWorker(w)
  <2>1. PICK ws : ws = [worker EXCEPT ![w].outbox = Tail(@)]
    OBVIOUS
  <2>2. worker[w].outbox # <<>> /\ Serve(ws, Head(worker[w].outbox), Runner(w))
    BY <1>5, <2>1 DEF ServeWorker
  <2>3. Tail(worker[w].outbox) \in Seq(ReducerCall)
    BY <2>2, ProcessFields
  <2>4. PICK me : me = [worker[w] EXCEPT !.outbox = Tail(@)]
    OBVIOUS
  <2>5. me \in Process /\ Stays(worker[w], me)
    BY <1>1, <2>3, <2>4 DEF Process, Stays
  <2>6. ws \in [Workers -> Process] /\ Stays(worker[x], ws[x])
    BY <1>1, <2>1, <2>4, <2>5 DEF Stays
  <2> QED BY <2>2, <2>6, ServeStays DEF Stays
<1>6. ASSUME NEW th \in Threads, FinishStep(w, th) \/ FinishTask(w, th)
      PROVE  Stays(worker[x], worker'[x])
  <2>1. PICK calls : worker' = [worker EXCEPT ![w].outbox = @ \o calls, ![w].busy[th] = NONE]
    BY <1>6 DEF FinishStep, FinishTask, Finish
  <2>2. PICK new : new = [worker[w] EXCEPT !.outbox = @ \o calls, !.busy[th] = NONE]
    OBVIOUS
  <2>3. new.phase = worker[w].phase /\ new.scan = worker[w].scan
    BY <1>1, <2>2 DEF Process
  <2>4. worker' = [worker EXCEPT ![w] = new]
    BY <1>1, <2>1, <2>2
  <2> QED BY <1>1, <2>3, <2>4 DEF Stays
<1> QED BY <1>3, <1>4, <1>5, <1>6

Serving ==
  DOMAIN workflow_step # {} => \A w \in Workers : worker[w].phase = "serving" /\ worker[w].scan = {}

\* Only a step that is there begets another, but for a dispatch's, which waits for the workers.
LEMMA FirstStep ==
  ASSUME QInv, NEW w \in Workers, ServeWorker(w), DOMAIN workflow_step = {}
  PROVE  DOMAIN workflow_step' = {}
<1>0. IInv /\ TypeOK /\ TasksNamed /\ Named /\ Steady(w, Runner(w), worker[w], {})
  BY DEF QInv, OInv, IInv
<1>1. PICK c, ws, id : c = Head(worker[w].outbox) /\ ws = [worker EXCEPT ![w].outbox = Tail(@)] /\ id = Runner(w)
  OBVIOUS
<1>2. c \in Addressed /\ id \in Runners /\ Serve(ws, c, id) /\ Less(ws)
  BY <1>0, <1>1, ServeWorkerLess
<1>3. Served(ws, c, id)
  BY <1>0, <1>2, ServeServed DEF Less
<1>4. c.op # "enqueue_step"
  <2>1. worker[w].outbox # <<>> /\ worker[w].outbox \in Seq(ReducerCall)
    BY <1>0, ProcessFields DEF ServeWorker
  <2>2. 1 \in DOMAIN worker[w].outbox /\ worker[w].outbox[1] = c
    BY <1>1, <2>1
  <2> QED BY <1>0, <2>2 DEF Steady, Chained
<1> QED BY <1>3, <1>4 DEF Served, StepRows

\* Workers that serve go on serving.
LEMMA NextServing ==
  ASSUME ~LateStart, MaxCrashes = 0, QInv, Serving, [Next]_vars PROVE Serving'
<1>0. IInv /\ TypeOK /\ crashes = 0 /\ worker \in [Workers -> Process]
  BY DEF QInv, OInv, IInv, TypeOK
<1>1. CASE UNCHANGED vars
  BY <1>1 DEF vars, storeVars, Serving
<1>2. ASSUME DOMAIN workflow_step # {}, \A x \in Workers : Stays(worker[x], worker'[x]) PROVE Serving'
  BY <1>2 DEF Serving, Stays
<1>3. ASSUME NEW w \in Workers, WorkerNext(w) PROVE Serving'
  <2>1. CASE Start(w) \/ ScanSteps(w) \/ ScanTasks(w)
    <3>1. UNCHANGED workflow_step
      BY <2>1 DEF Start, ScanSteps, ScanTasks, Scan, storeVars
    <3>2. worker[w].phase # "serving"
      BY <2>1 DEF Start, ScanSteps, ScanTasks, Scan
    <3> QED BY <3>1, <3>2 DEF Serving
  <2>2. CASE ~(Start(w) \/ ScanSteps(w) \/ ScanTasks(w))
    <3>1. \A x \in Workers : Stays(worker[x], worker'[x])
      BY <1>0, <1>3, <2>2, ThreadStays DEF WorkerNext
    <3>2. CASE DOMAIN workflow_step # {}
      BY <1>2, <3>1, <3>2
    <3>3. CASE DOMAIN workflow_step = {} /\ ServeWorker(w)
      BY <3>3, FirstStep DEF Serving
    <3>4. CASE DOMAIN workflow_step = {} /\ ~ServeWorker(w)
      <4>1. UNCHANGED workflow_step
        BY <1>3, <2>2, <3>4 DEF WorkerNext, Callback, ScanItem, Handle, FinishStep, FinishTask,
           Finish, storeVars
      <4> QED BY <3>4, <4>1 DEF Serving
    <3> QED BY <3>2, <3>3, <3>4
  <2> QED BY <2>1, <2>2
<1>4. ASSUME NEW w \in Workers, Crash(w) PROVE FALSE
  BY <1>0, <1>4 DEF Crash
<1>5. ASSUME NEW r \in RunIds, Dispatch(r) PROVE Serving'
  <2>1. \A x \in Workers : worker[x].phase = "serving" /\ worker[x].scan = {}
    BY <1>5 DEF Dispatch
  <2>2. Serve(worker, DispatchCalls(r)[dispatch[r]], Plane)
    BY <1>5 DEF Dispatch
  <2>3. \A x \in Workers : Stays(worker[x], worker'[x])
    BY <1>0, <2>2, ServeStays
  <2> QED BY <2>1, <2>3 DEF Serving, Stays
<1>6. ASSUME NEW r \in RunIds, RetryEnqueues(r) PROVE Serving'
  <2>1. retry[r].step \in DOMAIN workflow_step /\ Serve(worker, RetryCall(r), Plane)
    BY <1>0, <1>6, RetryServes
  <2>2. \A x \in Workers : Stays(worker[x], worker'[x])
    BY <1>0, <2>1, ServeStays
  <2> QED BY <1>2, <2>1, <2>2
<1>7. ASSUME NEW r \in RunIds, DispatchDies(r) PROVE FALSE
  BY <1>0, <1>7 DEF DispatchDies
<1>8. ASSUME NEW r \in RunIds, RetryReads(r) \/ cancel_run(r) PROVE Serving'
  <2>1. UNCHANGED <<workflow_step, worker>>
    BY <1>8 DEF RetryReads, cancel_run, Store!update_run_status, storeVars
  <2> QED BY <2>1 DEF Serving
<1> QED BY <1>1, <1>3, <1>4, <1>5, <1>6, <1>7, <1>8 DEF Next

\* Workers that are all up before the first dispatch, as a dispatch then waits for, and
\* that do not die, are settled.
LEMMA SettledFromStart == ~LateStart /\ MaxCrashes = 0 => (Spec => []Settled)
<1> SUFFICES ASSUME ~LateStart, MaxCrashes = 0 PROVE Spec => []Settled
  OBVIOUS
<1>1. Init => QInv /\ Serving
  <2>1. Init => DOMAIN workflow_step = {}
    BY DEF Init, Store!Init, Store!EmptyTable
  <2> QED BY <2>1, InitQInv DEF Serving
<1>2. Serving => Settled
  BY DEF Serving, Settled
<1>3. QInv /\ Serving /\ [Next]_vars => (QInv /\ Serving)'
  <2>1. QInv /\ Serving /\ [Next]_vars => Serving'
    BY NextServing
  <2>2. Serving' => Settled'
    BY DEF Serving, Settled
  <2> QED BY <1>2, <2>1, <2>2, NextQInv
<1> QED BY <1>1, <1>2, <1>3, PTL DEF Spec

\* So with such workers, however many of them own the browser stages, and whatever is
\* retried and cancelled meanwhile, all four hold.
THEOREM ServingWorkersAgree ==
  ~LateStart /\ MaxCrashes = 0 =>
    (Spec => /\ [](ExecutedByOne /\ DependencyCompleted /\ BrowserStepHasResult)
             /\ CompletedStaysCompleted)
<1> SUFFICES ASSUME ~LateStart, MaxCrashes = 0
             PROVE  Spec => /\ [](ExecutedByOne /\ DependencyCompleted /\ BrowserStepHasResult)
                            /\ CompletedStaysCompleted
  OBVIOUS
<1>1. Spec => []Settled
  BY SettledFromStart
<1> QED BY <1>1, OneExecutesSettled, DependencySettled, ResultsSettled, CompletedSettled, PTL

-----------------------------------------------------------------------------
(* Agents that need no browser: no worker executes a step it does not run, *)
(* so that one thread executes it, and its dependency is done, whoever     *)
(* starts, dies and retries.                                               *)

\* Whoever completes or fails steps as runner id has the manifest.
Able(id) == \A w \in Workers, n \in 1 .. MaxCrashes + 1 : id = <<w, n>> => HasManifest[w]

\* s runs under id.
RunBy(s, id) == s \in DOMAIN workflow_step /\ workflow_step[s].runner = id

\* The browser has no work, and only a worker that has the manifest completed a step.
Plain ==
  /\ \A s \in DOMAIN workflow_step :
       /\ workflow_step[s].owner # "browser-worker"
       /\ workflow_step[s].status = "completed" => Able(workflow_step[s].runner)
  /\ DOMAIN browser_task = {}
  /\ DepsDone

PlainEnds == {"complete_step", "fail_step"}

\* What id may call: it ends steps it runs, as its manifest allows, and enqueues
\* behind what is completed.
PlainCall(c, id) ==
  /\ c.op # "enqueue_task"
  /\ c.op \in PlainEnds => RunBy(c.step, id) /\ (Able(id) <=> c.op = "complete_step")
  /\ c.op = "enqueue_step" => /\ c.owner # "browser-worker"
                              /\ c.dep # NONE => Done(c.dep)

\* The call c, at i on its way from w, is, when its turn comes; those of completing
\* are with the server.
Fits(w, me, i, c, completing) ==
  /\ c.op \in PlainEnds => /\ OwnsStep(c.step, w, <<w, me.incarnation>>)
                           /\ c.op = IF HasManifest[w] THEN "complete_step" ELSE "fail_step"
  /\ c.op = "enqueue_step" =>
       /\ c.owner # "browser-worker"
       /\ \/ c.dep = NONE \/ Done(c.dep) \/ c.dep \in completing
          \/ \E j \in 1 .. i - 1 : me.outbox[j].op = "complete_step" /\ me.outbox[j].step = c.dep

PlainOut(w, me, completing) ==
  \A i \in DOMAIN me.outbox : Fits(w, me, i, me.outbox[i], completing)

\* A dispatch that completes its route step runs it, and one that enqueues the step
\* behind it has completed it.
PlainPlane ==
  \A r \in RunIds : /\ dispatch[r] = 6 => RunBy(Route(r), Plane)
                    /\ dispatch[r] = 7 => Done(Route(r))

\* The invariant of an agent that needs no browser.
PInv == OInv /\ Plain /\ PlainPlane /\ \A w \in Workers : PlainOut(w, worker[w], {})

\* The rows such a call may write.
LEMMA PlainTouched ==
  ASSUME Plain, Unclaimed, NEW c, NEW id, PlainCall(c, id), StepRows(c, id), TaskRows(c, id),
         NEW s \in DOMAIN workflow_step
  PROVE  /\ s \in DOMAIN workflow_step'
         /\ workflow_step'[s].owner = workflow_step[s].owner
         /\ workflow_step'[s].depends_on = workflow_step[s].depends_on
         /\ \/ workflow_step'[s] = workflow_step[s]
            \/ /\ s = c.step /\ c.op = "claim_step" /\ workflow_step[s].status = "ready"
               /\ workflow_step[s].runner = NONE /\ workflow_step'[s].status = "running"
            \/ /\ s = c.step /\ c.op \in PlainEnds /\ workflow_step'[s].status = StepAfter[c.op]
               /\ workflow_step[s].runner = id /\ workflow_step'[s].runner = id
<1>1. DOMAIN StepAfter = {"enqueue_step", "claim_step", "complete_step", "fail_step",
                          "enqueue_task", "complete_task", "fail_task"}
      /\ StepAfter["claim_step"] = "running"
      /\ {"complete_task", "fail_task"} \subseteq DOMAIN TaskAfter \ {"enqueue_task"}
  BY DEF StepAfter, TaskAfter
<1>2. c.op \notin {"enqueue_task", "complete_task", "fail_task"}
  BY <1>1 DEF TaskRows, Plain, PlainCall
<1>3. CASE s # c.step \/ c.op \notin DOMAIN StepAfter
  BY <1>3 DEF StepRows
<1>4. CASE s = c.step /\ c.op \in DOMAIN StepAfter
  <2>1. c.op \in {"claim_step", "complete_step", "fail_step"}
    BY <1>1, <1>2, <1>4 DEF StepRows
  <2>2. /\ s \in DOMAIN workflow_step' /\ workflow_step'[s].status = StepAfter[c.op]
        /\ workflow_step'[s].owner = workflow_step[s].owner
        /\ workflow_step'[s].depends_on = workflow_step[s].depends_on
        /\ workflow_step'[s].runner = IF c.op = "claim_step" THEN id ELSE workflow_step[s].runner
        /\ c.op = "claim_step" => workflow_step[s].status = "ready"
    BY <1>1, <1>4, <2>1 DEF StepRows
  <2>3. CASE c.op = "claim_step"
    BY <1>1, <1>4, <2>2, <2>3 DEF Plain, Unclaimed
  <2>4. CASE c.op \in PlainEnds
    BY <1>4, <2>2, <2>4 DEF PlainCall, RunBy, PlainEnds
  <2> QED BY <2>1, <2>3, <2>4 DEF PlainEnds
<1> QED BY <1>3, <1>4

\* What is done stays done, and whose it is stays so.
LEMMA PlainKept ==
  ASSUME Plain, Unclaimed, NEW c, NEW id, PlainCall(c, id), StepRows(c, id), TaskRows(c, id), NEW s
  PROVE  /\ Done(s) => Done(s)'
         /\ \A who \in Runners : RunBy(s, who) => RunBy(s, who)'
<1>1. StepAfter["complete_step"] = "completed"
  BY DEF StepAfter
<1>2. Done(s) => Done(s)'
  <2> SUFFICES ASSUME s \in DOMAIN workflow_step, workflow_step[s].status = "completed"
               PROVE  s \in DOMAIN workflow_step' /\ workflow_step'[s].status = "completed"
    BY DEF Done
  <2>1. c.op \in PlainEnds /\ workflow_step[s].runner = id /\ s = c.step => c.op = "complete_step"
    BY DEF Plain, PlainCall
  <2> QED BY <1>1, <2>1, PlainTouched
<1>3. ASSUME NEW who \in Runners, RunBy(s, who) PROVE RunBy(s, who)'
  <2>1. who # NONE
    BY NoneAssumption
  <2> QED BY <1>3, <2>1, PlainTouched DEF RunBy
<1> QED BY <1>2, <1>3

\* Such a call keeps the tables plain.
LEMMA PlainTables ==
  ASSUME Plain, Unclaimed, NEW c, NEW id, PlainCall(c, id), StepRows(c, id), TaskRows(c, id)
  PROVE  Plain'
<1>1. \A s : Done(s) => Done(s)'
  BY PlainKept
<1>2. DOMAIN browser_task' = {}
  BY DEF Plain, PlainCall, TaskRows
<1>3. ASSUME NEW s \in DOMAIN workflow_step'
      PROVE  /\ workflow_step'[s].owner # "browser-worker"
             /\ workflow_step'[s].status = "completed" => Able(workflow_step'[s].runner)
             /\ \A d : d = workflow_step'[s].depends_on /\ d # NONE => Done(d)'
  <2>1. CASE s \in DOMAIN workflow_step
    <3>1. /\ workflow_step[s].owner # "browser-worker"
          /\ workflow_step[s].status = "completed" => Able(workflow_step[s].runner)
          /\ \A d : d = workflow_step[s].depends_on /\ d # NONE => Done(d)
      BY <2>1 DEF Plain, DepsDone
    <3>2. c.op \in PlainEnds /\ StepAfter[c.op] = "completed" => Able(id)
      BY DEF PlainEnds, PlainCall, StepAfter
    <3> QED BY <1>1, <2>1, <3>1, <3>2, PlainTouched
  <2>2. CASE s \notin DOMAIN workflow_step
    <3>1. c.op = "enqueue_step" /\ workflow_step'[s] = NewStep(c)
      BY <2>2 DEF StepRows
    <3>2. /\ workflow_step'[s].owner = c.owner /\ workflow_step'[s].depends_on = c.dep
          /\ workflow_step'[s].status = "ready"
      BY <3>1 DEF NewStep
    <3> QED BY <1>1, <3>1, <3>2 DEF PlainCall
  <2> QED BY <2>1, <2>2
<1>4. DepsDone'
  BY <1>3 DEF DepsDone, Done
<1> QED BY <1>2, <1>3, <1>4 DEF Plain

\* A process is as it was when its calls are.
LEMMA PlainOutSame ==
  ASSUME NEW w, NEW old, NEW me, NEW completing, me.outbox = old.outbox,
         me.incarnation = old.incarnation, PlainOut(w, old, completing)
  PROVE  PlainOut(w, me, completing)
BY DEF PlainOut, Fits

\* An outbox in order is in order of the worker it is of.
LEMMA PlainOutOf ==
  ASSUME NEW w, NEW me, me = worker'[w], PlainOut(w, me, {})'
  PROVE  PlainOut(w, worker[w], {})'
BY DEF PlainOut, Fits, OwnsStep, Done

\* A call that is served leaves the others in order.
LEMMA PlainOutKept ==
  ASSUME OInv, Plain, NEW c \in Addressed, NEW id \in Runners, PlainCall(c, id), StepRows(c, id),
         TaskRows(c, id), NEW w \in Workers, NEW me, me.outbox \in Seq(ReducerCall),
         me.outbox # <<>> => <<w, me.incarnation>> \in Runners,
         PlainOut(w, me, Completing(c))
  PROVE  PlainOut(w, me, {})'
<1> SUFFICES ASSUME NEW i \in DOMAIN me.outbox, NEW d, d = me.outbox[i]
             PROVE  Fits(w, me, i, d, {})'
  BY DEF PlainOut, Fits, OwnsStep, Done
<1>1. d \in ReducerCall /\ d.step \in StepIds /\ me.outbox # <<>>
  <2>1. d \in ReducerCall
    OBVIOUS
  <2> QED BY <2>1 DEF ReducerCall
<1>2. Fits(w, me, i, d, Completing(c))
  BY DEF PlainOut
<1>3. PICK who : who = <<w, me.incarnation>>
  OBVIOUS
<1>4. OwnsStep(d.step, w, who) => OwnsStep(d.step, w, who)'
  BY <1>1, <1>3, NoneAssumption, OwnsKept
<1>5. \A s \in Completing(c) : Done(s)'
  <2>1. c.op = "complete_step" => c.step \in DOMAIN workflow_step' /\ workflow_step'[c.step].status = "completed"
    BY DEF StepRows, StepAfter
  <2> QED BY <2>1 DEF Completing, Done
<1>6. \A s : Done(s) => Done(s)'
  BY PlainKept DEF OInv
<1>7. d.op \in PlainEnds => OwnsStep(d.step, w, <<w, me.incarnation>>)'
  BY <1>2, <1>3, <1>4 DEF Fits, OwnsStep
<1> QED BY <1>2, <1>5, <1>6, <1>7 DEF Fits

\* No stage is the browser's.
LEMMA PlainOwner ==
  ASSUME ~BrowserRequired, NEW stage
  PROVE  owner_for_stage(stage) # "browser-worker"
BY WorkerAssumption DEF owner_for_stage, ExecutionTarget

\* What the execution of a plain step sends.
PlainSent(w, s, sent) ==
  \/ ~HasManifest[w] /\ sent = <<Call("fail_step", s)>>
  \/ /\ HasManifest[w]
     /\ \E rest \in Seq(CallsOf(w)) :
          /\ sent = <<Call("complete_step", s)>> \o rest
          /\ \A j \in DOMAIN rest :
               \/ rest[j].op = "ingest_summary"
               \/ rest[j].op = "enqueue_step" /\ rest[j].dep = s /\ rest[j].owner # "browser-worker"

\* An execution sends nothing else.
LEMMA PlainExecution ==
  ASSUME ~BrowserRequired, NEW w \in Workers, OwnerOf[w] # "browser-worker",
         NEW s \in StepIds, NEW cached
  PROVE  PlainSent(w, s, process_workflow_step(w, s, cached))
<1> DEFINE sent == process_workflow_step(w, s, cached)
<1>1. CASE ~HasManifest[w] /\ sent = <<Call("fail_step", s)>>
  BY <1>1 DEF PlainSent
<1>2. ASSUME HasManifest[w], NEW rest \in Seq(CallsOf(w)),
             sent = <<Call("complete_step", s)>> \o rest, Behind(rest, s)
      PROVE  PlainSent(w, s, sent)
  <2>1. \A j \in DOMAIN rest :
          \/ rest[j].op = "ingest_summary"
          \/ rest[j].op = "enqueue_step" /\ rest[j].dep = s /\ rest[j].owner # "browser-worker"
    BY <1>2, PlainOwner DEF Behind, Follows
  <2> QED BY <1>2, <2>1 DEF PlainSent
<1> QED BY <1>1, <1>2, ExecutionRest

\* The k-th of the calls sent by who at once: the completion comes first.
Fresh(w, who, sent, k) ==
  /\ sent[k].op \in PlainEnds =>
       /\ OwnsStep(sent[k].step, w, who)
       /\ sent[k].op = IF HasManifest[w] THEN "complete_step" ELSE "fail_step"
  /\ sent[k].op = "enqueue_step" =>
       /\ sent[k].owner # "browser-worker" /\ k > 1
       /\ sent[1].op = "complete_step" /\ sent[1].step = sent[k].dep

\* More calls of the right kind leave a process in order.
LEMMA PlainMore ==
  ASSUME NEW w, NEW old, NEW me, old.outbox \in Seq(ReducerCall), NEW more \in Seq(ReducerCall),
         me.outbox = old.outbox \o more, me.incarnation = old.incarnation,
         PlainOut(w, old, {}),
         \A k \in DOMAIN more : Fresh(w, <<w, old.incarnation>>, more, k)
  PROVE  PlainOut(w, me, {})
<1> DEFINE n == Len(old.outbox)
<1>1. /\ n \in Nat /\ DOMAIN me.outbox = 1 .. n + Len(more) /\ DOMAIN more = 1 .. Len(more)
      /\ \A j \in 1 .. n : j \in DOMAIN old.outbox /\ me.outbox[j] = old.outbox[j]
      /\ \A k \in DOMAIN more : me.outbox[n + k] = more[k]
  OBVIOUS
<1> HIDE DEF n
<1> SUFFICES ASSUME NEW i \in DOMAIN me.outbox, NEW c, c = me.outbox[i]
             PROVE  Fits(w, me, i, c, {})
  BY DEF PlainOut
<1>2. CASE i <= n
  <2>1. i \in 1 .. n /\ \A j \in 1 .. i - 1 : j \in 1 .. n
    BY <1>1, <1>2
  <2>2. c = old.outbox[i] /\ i \in DOMAIN old.outbox /\ \A j \in 1 .. i - 1 : me.outbox[j] = old.outbox[j]
    BY <1>1, <2>1
  <2>3. Fits(w, old, i, c, {})
    BY <2>2 DEF PlainOut
  <2> QED BY <2>2, <2>3 DEF Fits
<1>3. CASE i > n
  <2>1. PICK k : k \in DOMAIN more /\ i = n + k
    <3>1. i - n \in 1 .. Len(more) /\ i = n + (i - n)
      BY <1>1, <1>3
    <3> QED BY <1>1, <3>1
  <2>2. c = more[k]
    BY <1>1, <2>1
  <2>3. k > 1 => n + 1 \in 1 .. i - 1 /\ me.outbox[n + 1] = more[1]
    <3>1. k > 1 => 1 \in DOMAIN more /\ n + 1 \in 1 .. i - 1
      BY <1>1, <2>1
    <3> QED BY <1>1, <3>1
  <2>4. Fresh(w, <<w, me.incarnation>>, more, k)
    BY <2>1
  <2>5. /\ c.op \in PlainEnds =>
             /\ OwnsStep(c.step, w, <<w, me.incarnation>>)
             /\ c.op = IF HasManifest[w] THEN "complete_step" ELSE "fail_step"
        /\ c.op = "enqueue_step" => c.owner # "browser-worker"
    BY <2>2, <2>4 DEF Fresh
  <2>6. c.op = "enqueue_step" =>
          \E j \in 1 .. i - 1 : me.outbox[j].op = "complete_step" /\ me.outbox[j].step = c.dep
    <3> SUFFICES ASSUME c.op = "enqueue_step"
                 PROVE  n + 1 \in 1 .. i - 1 /\ me.outbox[n + 1].op = "complete_step"
                        /\ me.outbox[n + 1].step = c.dep
      OBVIOUS
    <3> QED BY <2>2, <2>3, <2>4 DEF Fresh
  <2> QED BY <2>5, <2>6 DEF Fits
<1> QED BY <1>1, <1>2, <1>3

\* A step of one process that touches no row.
LEMMA ProcessPInv ==
  ASSUME PInv, OInv', NEW w \in Workers, UNCHANGED <<workflow_step, browser_task, dispatch>>,
         worker' = [worker EXCEPT ![w] = worker'[w]], PlainOut(w, worker'[w], {})
  PROVE  PInv'
<1>1. worker \in [Workers -> Process]
  BY DEF PInv, OInv, IInv, TypeOK
<1>2. Plain' /\ PlainPlane'
  BY DEF PInv, Plain, PlainPlane, DepsDone, Done, RunBy
<1>3. ASSUME NEW x \in Workers PROVE PlainOut(x, worker[x], {})'
  <2>1. PICK me : me = worker'[x]
    OBVIOUS
  <2>2. PlainOut(x, me, {})
    BY <1>1, <2>1 DEF PInv
  <2>3. PlainOut(x, me, {})'
    BY <2>2 DEF PlainOut, Fits, OwnsStep, Done
  <2> QED BY <2>1, <2>3, PlainOutOf
<1> QED BY <1>2, <1>3 DEF PInv

\* Starting, dying, scanning and taking a row send nothing that matters.
LEMMA QuietPInv ==
  ASSUME PInv, OInv', NEW w \in Workers,
         Start(w) \/ Crash(w) \/ ScanSteps(w) \/ ScanTasks(w) \/ Callback(w) \/ ScanItem(w)
  PROVE  PInv'
<1>0. IInv /\ IInv' /\ PlainOut(w, worker[w], {}) /\ worker \in [Workers -> Process]
      /\ worker' \in [Workers -> Process]
  BY DEF PInv, OInv, IInv, TypeOK
<1>1. CASE Start(w) \/ Crash(w)
  <2>1. PICK n : /\ worker' = [worker EXCEPT ![w] = [Down(n) EXCEPT !.phase = "connected"]]
                      \/ worker' = [worker EXCEPT ![w] = Down(n)]
                 /\ UNCHANGED <<storeVars, dispatch>>
    BY <1>1 DEF Start, Crash, others
  <2>2. worker' = [worker EXCEPT ![w] = worker'[w]] /\ worker'[w].outbox = <<>>
    BY <1>0, <2>1 DEF Down
  <2>3. PlainOut(w, worker'[w], {})
    BY <2>2 DEF PlainOut
  <2> QED BY <2>1, <2>2, <2>3, ProcessPInv DEF storeVars
<1>2. CASE ScanSteps(w) \/ ScanTasks(w)
  <2>1. \E after, rows : worker' = [worker EXCEPT ![w].phase = after, ![w].scan = rows]
    BY <1>2 DEF ScanSteps, ScanTasks, Scan
  <2>2. UNCHANGED <<storeVars, dispatch>>
    BY <1>2 DEF ScanSteps, ScanTasks, Scan, others
  <2>3. PICK after, rows : worker' = [worker EXCEPT ![w] = [worker[w] EXCEPT !.phase = after, !.scan = rows]]
    BY <1>0, <2>1
  <2>4. /\ worker' = [worker EXCEPT ![w] = worker'[w]] /\ worker'[w].outbox = worker[w].outbox
        /\ worker'[w].incarnation = worker[w].incarnation
    BY <1>0, <2>3, ProcessFields DEF Process
  <2>5. PlainOut(w, worker'[w], {})
    BY <1>0, <2>4, PlainOutSame
  <2> QED BY <2>2, <2>4, <2>5, ProcessPInv DEF storeVars
<1>3. CASE Callback(w) \/ ScanItem(w)
  <2>1. PICK th, item, inbox, scan : Took(w, th, item, inbox, scan, worker'[w])
    BY <1>0, <1>3, CallbackTook, ScanItemTook
  <2>2. /\ worker' = [worker EXCEPT ![w] = worker'[w]] /\ UNCHANGED <<storeVars, dispatch>>
        /\ worker'[w].incarnation = worker[w].incarnation
    BY <2>1 DEF Took, others
  <2>3. PlainOut(w, worker'[w], {})
    <3>1. CASE worker'[w].outbox = worker[w].outbox
      BY <1>0, <2>2, <3>1, PlainOutSame
    <3>2. CASE /\ ~IsRunning(item) /\ item \in Item
               /\ worker'[w].outbox = Append(worker[w].outbox, Claim(item.kind, item.step, OwnerOf[w]))
      <4>1. PICK c : c = Claim(item.kind, item.step, OwnerOf[w])
        OBVIOUS
      <4>2. item.kind \in {"claim_step", "claim_task"} /\ item.step \in StepIds /\ OwnerOf[w] \in ExecutionOwner
        BY <3>2, WorkerAssumption DEF Item, IsRunning
      <4>3. c \in ReducerCall /\ c.op \in {"claim_step", "claim_task"}
        BY <4>1, <4>2, ClaimType DEF Addressed
      <4>4. worker[w].outbox \in Seq(ReducerCall)
        BY <1>0, ProcessFields
      <4>a. \A o \in Seq(ReducerCall), x \in ReducerCall : Append(o, x) = o \o <<x>> /\ <<x>> \in Seq(ReducerCall)
        OBVIOUS
      <4>5. worker'[w].outbox = worker[w].outbox \o <<c>> /\ <<c>> \in Seq(ReducerCall)
        BY <3>2, <4>1, <4>3, <4>4, <4>a
      <4>6. \A k \in DOMAIN <<c>> : <<c>>[k].op \notin PlainEnds /\ <<c>>[k].op # "enqueue_step"
        BY <4>3 DEF PlainEnds
      <4>7. PICK more : more = <<c>>
        OBVIOUS
      <4>8. /\ more \in Seq(ReducerCall) /\ worker'[w].outbox = worker[w].outbox \o more
            /\ \A k \in DOMAIN more : more[k].op \notin PlainEnds /\ more[k].op # "enqueue_step"
        BY <4>5, <4>6, <4>7
      <4>9. PICK old, me : old = worker[w] /\ me = worker'[w]
        OBVIOUS
      <4>10. /\ old.outbox \in Seq(ReducerCall) /\ me.outbox = old.outbox \o more
             /\ me.incarnation = old.incarnation /\ PlainOut(w, old, {})
        BY <1>0, <2>2, <4>4, <4>8, <4>9
      <4>11. \A k \in DOMAIN more : Fresh(w, <<w, old.incarnation>>, more, k)
        BY <4>8 DEF Fresh
      <4>12. PlainOut(w, me, {})
        BY <4>8, <4>10, <4>11, PlainMore
      <4> QED BY <4>9, <4>12
    <3> QED BY <2>1, <3>1, <3>2 DEF Took
  <2> QED BY <2>2, <2>3, ProcessPInv DEF storeVars
<1> QED BY <1>1, <1>2, <1>3

\* An execution ends its own step, and no browser task is ever done.
LEMMA FinishPInv ==
  ASSUME ~BrowserRequired, PInv, OInv', NEW w \in Workers, NEW th \in Threads,
         FinishStep(w, th) \/ FinishTask(w, th)
  PROVE  PInv'
<1> DEFINE item == worker[w].busy[th]
<1>0. IInv /\ IInv' /\ PlainOut(w, worker[w], {}) /\ (item # NONE => item.step \in StepIds)
      /\ Rightful(w, worker[w]) /\ Plain
  BY ProcessFields DEF PInv, OInv, Item
<1>1. CASE FinishStep(w, th)
  <2>1. PICK cached : /\ item # NONE /\ item.kind = "run_step"
                      /\ Finish(w, th, process_workflow_step(w, item.step, cached))
    BY <1>1 DEF FinishStep
  <2>2. PICK s, sent : s = item.step /\ sent = process_workflow_step(w, s, cached)
    OBVIOUS
  <2>3. OwnsStep(s, w, <<w, worker[w].incarnation>>) /\ s \in StepIds
    <3>1. Holds(worker[w], "run_step", s)
      BY <2>1, <2>2 DEF Holds
    <3> QED BY <1>0, <2>1, <2>2, <3>1 DEF Rightful
  <2>4. OwnerOf[w] # "browser-worker"
    BY <1>0, <2>3 DEF OwnsStep, Plain
  <2>5. PlainSent(w, s, sent) /\ sent \in Seq(CallsOf(w))
    BY <2>2, <2>3, <2>4, PlainExecution, ExecutionCalls
  <2>6. Finished(w, th, sent, worker'[w])
    BY <1>0, <2>1, <2>2, <2>5, FinishFinished
  <2>7. /\ worker' = [worker EXCEPT ![w] = worker'[w]] /\ UNCHANGED <<storeVars, dispatch>>
        /\ worker'[w].incarnation = worker[w].incarnation
        /\ worker'[w].outbox = worker[w].outbox \o sent
    BY <2>6 DEF Finished, others
  <2>8. worker[w].outbox \in Seq(ReducerCall) /\ sent \in Seq(ReducerCall)
    <3>1. CallsOf(w) \subseteq ReducerCall
      BY DEF CallsOf, Addressed
    <3> QED BY <1>0, <2>5, <3>1, ProcessFields
  <2>9. \A k \in DOMAIN sent :
          /\ sent[k].op \in PlainEnds => /\ sent[k].step = s
                                         /\ sent[k].op = (IF HasManifest[w] THEN "complete_step" ELSE "fail_step")
          /\ sent[k].op = "enqueue_step" => /\ sent[k].owner # "browser-worker" /\ k > 1
                                            /\ sent[1].op = "complete_step" /\ sent[1].step = sent[k].dep
    <3>1. CASE ~HasManifest[w] /\ sent = <<Call("fail_step", s)>>
      BY <3>1 DEF Call
    <3>2. ASSUME HasManifest[w], NEW rest \in Seq(CallsOf(w)), sent = <<Call("complete_step", s)>> \o rest,
                 \A j \in DOMAIN rest :
                   \/ rest[j].op = "ingest_summary"
                   \/ rest[j].op = "enqueue_step" /\ rest[j].dep = s /\ rest[j].owner # "browser-worker"
          PROVE  \A k \in DOMAIN sent :
                   /\ sent[k].op \in PlainEnds => /\ sent[k].step = s
                                                  /\ sent[k].op = (IF HasManifest[w] THEN "complete_step" ELSE "fail_step")
                   /\ sent[k].op = "enqueue_step" =>
                        /\ sent[k].owner # "browser-worker" /\ k > 1
                        /\ sent[1].op = "complete_step" /\ sent[1].step = sent[k].dep
      <4>1. PICK first : first = Call("complete_step", s)
        OBVIOUS
      <4>2. first.op = "complete_step" /\ first.step = s /\ first \in CallsOf(w)
        BY <2>3, <4>1, CallType DEF Call
      <4>3. sent[1] = first /\ \A k \in DOMAIN sent : k = 1 \/ (k > 1 /\ k - 1 \in DOMAIN rest /\ sent[k] = rest[k - 1])
        BY <3>2, <4>1, <4>2
      <4> QED BY <3>2, <4>2, <4>3 DEF PlainEnds
    <3> QED BY <2>5, <3>1, <3>2 DEF PlainSent
  <2>10. PlainOut(w, worker'[w], {})
    <3>1. PICK old, me : old = worker[w] /\ me = worker'[w]
      OBVIOUS
    <3>2. /\ old.outbox \in Seq(ReducerCall) /\ me.outbox = old.outbox \o sent
          /\ me.incarnation = old.incarnation /\ PlainOut(w, old, {})
          /\ OwnsStep(s, w, <<w, old.incarnation>>)
      BY <1>0, <2>3, <2>7, <2>8, <3>1
    <3>3. \A k \in DOMAIN sent : Fresh(w, <<w, old.incarnation>>, sent, k)
      BY <2>9, <3>2 DEF Fresh
    <3>4. PlainOut(w, me, {})
      BY <2>8, <3>2, <3>3, PlainMore
    <3> QED BY <3>1, <3>4
  <2> QED BY <2>7, <2>10, ProcessPInv DEF storeVars
<1>2. CASE FinishTask(w, th)
  <2>1. Holds(worker[w], "run_task", item.step) /\ item.step \in StepIds
    BY <1>0, <1>2 DEF FinishTask, Holds
  <2> QED BY <1>0, <2>1 DEF Rightful, OwnsTask, Plain
<1> QED BY <1>1, <1>2

\* A call that is served leaves tables and processes in order, what was done done and
\* what was run run.
LEMMA PlainServed ==
  ASSUME PInv, NEW ws \in [Workers -> Process], NEW c \in Addressed, NEW id \in Runners,
         Served(ws, c, id), PlainCall(c, id),
         \A w \in Workers : /\ PlainOut(w, ws[w], Completing(c))
                            /\ ws[w].outbox # <<>> => <<w, ws[w].incarnation>> \in Runners
  PROVE  /\ Plain' /\ \A w \in Workers : PlainOut(w, worker[w], {})'
         /\ \A s : /\ Done(s) => Done(s)'
                   /\ \A who \in Runners : RunBy(s, who) => RunBy(s, who)'
<1>0. OInv /\ Plain /\ Unclaimed
  BY DEF PInv, OInv
<1>1. CASE /\ Accepted(c) /\ StepRows(c, id) /\ TaskRows(c, id)
           /\ \A w \in Workers :
                \/ worker'[w] = ws[w]
                \/ \E x \in Item : worker'[w] = [ws[w] EXCEPT !.inbox = Append(@, x)]
  <2>1. ASSUME NEW w \in Workers PROVE PlainOut(w, worker[w], {})'
    <3>1. PICK me, old : me = worker'[w] /\ old = ws[w]
      OBVIOUS
    <3>2. me.outbox = old.outbox /\ me.incarnation = old.incarnation /\ old.outbox \in Seq(ReducerCall)
      BY <1>1, <3>1 DEF Process
    <3>3. PlainOut(w, old, Completing(c)) /\ (old.outbox # <<>> => <<w, old.incarnation>> \in Runners)
      BY <3>1
    <3>4. PlainOut(w, me, Completing(c))
      BY <3>2, <3>3, PlainOutSame
    <3>5. me.outbox \in Seq(ReducerCall) /\ (me.outbox # <<>> => <<w, me.incarnation>> \in Runners)
      BY <3>2, <3>3
    <3>6. PlainOut(w, me, {})'
      BY <1>0, <1>1, <3>4, <3>5, PlainOutKept
    <3> QED BY <3>1, <3>6, PlainOutOf
  <2> QED BY <1>0, <1>1, <2>1, PlainTables, PlainKept
<1>2. CASE /\ ~Accepted(c) /\ UNCHANGED <<workflow_step, browser_task>>
           /\ \A w \in Workers : worker'[w] = ws[w]
  <2>1. Completing(c) = {}
    <3>1. c.op = "complete_step" => Accepted(c)
      BY DEF PlainCall, PlainEnds, RunBy, Accepted
    <3> QED BY <1>2, <3>1 DEF Completing
  <2>2. ASSUME NEW w \in Workers PROVE PlainOut(w, worker[w], {})'
    <3>1. PICK me : me = worker'[w]
      OBVIOUS
    <3>2. PlainOut(w, me, {})
      BY <1>2, <2>1, <3>1
    <3>3. PlainOut(w, me, {})'
      BY <1>2, <3>2 DEF PlainOut, Fits, OwnsStep, Done
    <3> QED BY <3>1, <3>3, PlainOutOf
  <2>3. Plain'
    BY <1>0, <1>2 DEF Plain, DepsDone, Done
  <2> QED BY <1>2, <2>2, <2>3 DEF Done, RunBy
<1> QED BY <1>1, <1>2 DEF Served

\* Whether w has the manifest is whether its runner id may complete steps.
LEMMA AbleRunner ==
  ASSUME IInv, NEW w \in Workers, worker[w].outbox # <<>>
  PROVE  (Able(Runner(w)) <=> HasManifest[w]) /\ Runner(w) \in Runners
<1>1. worker[w].incarnation \in 1 .. MaxCrashes + 1
  <2>1. worker[w].incarnation > 0
    BY Alive
  <2> QED BY <2>1, ProcessFields, BoundsAssumption
<1>2. Runner(w) \in Runners
  BY <1>1, RunnerNotNone DEF Runner
<1>3. \A v \in Workers : \A n : Runner(w) = <<v, n>> => v = w
  BY DEF Runner
<1>4. Able(Runner(w)) => HasManifest[w]
  BY <1>1 DEF Able, Runner
<1>5. HasManifest[w] => Able(Runner(w))
  BY <1>3 DEF Able
<1> QED BY <1>2, <1>4, <1>5

\* The oldest call of a worker fits, and behind it the others do.
LEMMA PlainHead ==
  ASSUME PInv, NEW w \in Workers, worker[w].outbox # <<>>, NEW c, c = Head(worker[w].outbox),
         NEW me, me.outbox = Tail(worker[w].outbox), me.incarnation = worker[w].incarnation
  PROVE  PlainCall(c, Runner(w)) /\ PlainOut(w, me, Completing(c))
<1>0. IInv /\ Plain /\ PlainOut(w, worker[w], {}) /\ Rightful(w, worker[w])
  BY DEF PInv, OInv
<1>1. PICK outbox, old : outbox = worker[w].outbox /\ old = worker[w]
  OBVIOUS
<1>2. /\ outbox \in Seq(ReducerCall) /\ outbox # <<>> /\ c = outbox[1] /\ 1 \in DOMAIN outbox
      /\ \A i \in DOMAIN Tail(outbox) : i \in Nat /\ i >= 1 /\ i + 1 \in DOMAIN outbox
                                        /\ Tail(outbox)[i] = outbox[i + 1]
  <2>1. outbox \in Seq(ReducerCall) /\ outbox # <<>> /\ c = Head(outbox)
    BY <1>0, <1>1, ProcessFields
  <2> QED BY <2>1
<1>3. \A i \in DOMAIN outbox : Fits(w, old, i, outbox[i], {})
  BY <1>0, <1>1 DEF PlainOut
<1>4. Fits(w, old, 1, c, {})
  BY <1>2, <1>3
<1>5. PlainCall(c, Runner(w))
  <2>1. c.op # "enqueue_task"
    <3>1. c.op = "enqueue_task" => BrowserStep(c.step)
      BY <1>0, <1>1, <1>2 DEF Rightful
    <3> QED BY <1>0, <3>1 DEF BrowserStep, Plain
  <2>2. c.op \in PlainEnds => RunBy(c.step, Runner(w)) /\ (Able(Runner(w)) <=> c.op = "complete_step")
    <3> SUFFICES ASSUME c.op \in PlainEnds
                 PROVE  RunBy(c.step, Runner(w)) /\ (Able(Runner(w)) <=> c.op = "complete_step")
      OBVIOUS
    <3>1. OwnsStep(c.step, w, <<w, old.incarnation>>)
          /\ c.op = IF HasManifest[w] THEN "complete_step" ELSE "fail_step"
      BY <1>4 DEF Fits
    <3>2. RunBy(c.step, Runner(w))
      BY <1>0, <1>1, <3>1 DEF OwnsStep, Plain, RunBy, Runner
    <3>3. HasManifest[w] <=> c.op = "complete_step"
      <4>1. HasManifest[w] => c.op = "complete_step"
        BY <3>1
      <4>2. ~HasManifest[w] => c.op # "complete_step"
        BY <3>1
      <4> QED BY <4>1, <4>2
    <3> QED BY <1>0, <1>1, <1>2, <3>2, <3>3, AbleRunner
  <2>3. c.op = "enqueue_step" => c.owner # "browser-worker" /\ (c.dep # NONE => Done(c.dep))
    <3>1. ~(\E j \in 1 .. 1 - 1 : TRUE)
      OBVIOUS
    <3> QED BY <1>4, <3>1 DEF Fits
  <2> QED BY <2>1, <2>2, <2>3 DEF PlainCall
<1>6. PlainOut(w, me, Completing(c))
  <2> SUFFICES ASSUME NEW i \in DOMAIN me.outbox, NEW d, d = me.outbox[i]
               PROVE  Fits(w, me, i, d, Completing(c))
    BY DEF PlainOut
  <2>1. i \in Nat /\ i >= 1 /\ i + 1 \in DOMAIN outbox /\ d = outbox[i + 1]
    BY <1>1, <1>2
  <2>2. Fits(w, old, i + 1, d, {})
    BY <1>3, <2>1
  <2>3. ASSUME NEW j \in 1 .. (i + 1) - 1, old.outbox[j].op = "complete_step", old.outbox[j].step = d.dep
        PROVE  \/ d.dep \in Completing(c)
               \/ \E k \in 1 .. i - 1 : me.outbox[k].op = "complete_step" /\ me.outbox[k].step = d.dep
    <3>1. CASE j = 1
      BY <1>1, <1>2, <2>3, <3>1 DEF Completing
    <3>2. CASE j > 1
      <4>1. j - 1 \in 1 .. i - 1 /\ j - 1 \in DOMAIN me.outbox /\ (j - 1) + 1 = j
        <5>1. \A k \in 1 .. i : k \in DOMAIN Tail(outbox)
          BY <1>1, <1>2, <2>1
        <5> QED BY <1>1, <2>1, <3>2, <5>1
      <4>2. me.outbox[j - 1] = old.outbox[j]
        BY <1>1, <1>2, <4>1
      <4> QED BY <2>3, <4>1, <4>2
    <3> QED BY <2>1, <3>1, <3>2
  <2>4. d.op \in PlainEnds => /\ OwnsStep(d.step, w, <<w, me.incarnation>>)
                              /\ d.op = IF HasManifest[w] THEN "complete_step" ELSE "fail_step"
    BY <1>1, <2>2 DEF Fits
  <2>5. d.op = "enqueue_step" =>
          /\ d.owner # "browser-worker"
          /\ \/ d.dep = NONE \/ Done(d.dep) \/ d.dep \in Completing(c)
             \/ \E k \in 1 .. i - 1 : me.outbox[k].op = "complete_step" /\ me.outbox[k].step = d.dep
    BY <2>2, <2>3 DEF Fits
  <2> QED BY <2>4, <2>5 DEF Fits
<1> QED BY <1>5, <1>6

\* The server takes a call of a worker.
LEMMA ServeWorkerPInv ==
  ASSUME PInv, OInv', NEW w \in Workers, ServeWorker(w) PROVE PInv'
<1>0. IInv /\ TypeOK /\ TasksNamed /\ Named
  BY DEF PInv, OInv, IInv
<1>1. PICK c, ws : /\ c = Head(worker[w].outbox)
                   /\ ws = [worker EXCEPT ![w].outbox = Tail(@)]
  OBVIOUS
<1>2. /\ worker[w].outbox # <<>> /\ c \in Addressed /\ Runner(w) \in Runners
      /\ Serve(ws, c, Runner(w)) /\ Less(ws) /\ \A x \in Workers : x # w => ws[x] = worker[x]
      /\ ws[w].outbox = Tail(worker[w].outbox) /\ UNCHANGED others
  BY <1>0, <1>1, ServeWorkerLess
<1>3. ws \in [Workers -> Process] /\ ws[w].incarnation = worker[w].incarnation
  BY <1>2 DEF Less
<1>4. PlainCall(c, Runner(w)) /\ PlainOut(w, ws[w], Completing(c))
  <2>1. PICK me : me = ws[w]
    OBVIOUS
  <2>2. PlainCall(c, Runner(w)) /\ PlainOut(w, me, Completing(c))
    BY <1>1, <1>2, <1>3, <2>1, PlainHead
  <2> QED BY <2>1, <2>2
<1>5. \A x \in Workers : /\ PlainOut(x, ws[x], Completing(c))
                         /\ ws[x].outbox # <<>> => <<x, ws[x].incarnation>> \in Runners
  <2>1. ASSUME NEW x \in Workers, x # w PROVE PlainOut(x, ws[x], Completing(c))
    <3>1. PICK me : me = worker[x]
      OBVIOUS
    <3>2. PlainOut(x, me, {})
      BY <3>1 DEF PInv
    <3>3. PlainOut(x, me, Completing(c))
      BY <3>2 DEF PlainOut, Fits
    <3> QED BY <1>2, <2>1, <3>1, <3>3
  <2>2. ASSUME NEW x \in Workers, ws[x].outbox # <<>> PROVE <<x, ws[x].incarnation>> \in Runners
    <3>1. worker[x].outbox # <<>>
      BY <1>2, <2>2
    <3> QED BY <1>0, <1>2, <1>3, <3>1, AbleRunner DEF Runner
  <2> QED BY <1>4, <2>1, <2>2
<1>6. Served(ws, c, Runner(w))
  BY <1>0, <1>2, <1>3, ServeServed
<1>7. /\ Plain' /\ \A x \in Workers : PlainOut(x, worker[x], {})'
      /\ \A s : /\ Done(s) => Done(s)'
                /\ \A who \in Runners : RunBy(s, who) => RunBy(s, who)'
  <2>1. PICK id : id = Runner(w)
    OBVIOUS
  <2> QED BY <1>2, <1>3, <1>4, <1>5, <1>6, <2>1, PlainServed
<1>8. PlainPlane'
  <2>1. dispatch' = dispatch /\ Plane \in Runners
    BY <1>2 DEF others, Runners
  <2>2. \A r : Done(Route(r)) => Done(Route(r))'
    BY <1>7
  <2> QED BY <1>7, <2>1 DEF PInv, PlainPlane, Route, Done, RunBy
<1> QED BY <1>7, <1>8 DEF PInv

\* A call of a control plane, of which only the row of r counts.
LEMMA PlainPlaneServed ==
  ASSUME PInv, NEW c \in Addressed, Serve(worker, c, Plane), PlainCall(c, Plane)
  PROVE  /\ Plain' /\ \A w \in Workers : PlainOut(w, worker[w], {})'
         /\ \A s : /\ Done(s) => Done(s)'
                   /\ \A who \in Runners : RunBy(s, who) => RunBy(s, who)'
         /\ Served(worker, c, Plane)
<1>0. IInv /\ TypeOK /\ TasksNamed /\ Named /\ worker \in [Workers -> Process] /\ Plane \in Runners
  BY DEF PInv, OInv, IInv, TypeOK, Runners
<1>1. ASSUME NEW w \in Workers
      PROVE  /\ PlainOut(w, worker[w], Completing(c))
             /\ worker[w].outbox # <<>> => <<w, worker[w].incarnation>> \in Runners
  <2>1. PICK me : me = worker[w]
    OBVIOUS
  <2>2. PlainOut(w, me, {})
    BY <2>1 DEF PInv
  <2>3. PlainOut(w, me, Completing(c))
    BY <2>2 DEF PlainOut, Fits
  <2> QED BY <1>0, <2>1, <2>3, AbleRunner DEF Runner
<1>2. Served(worker, c, Plane)
  BY <1>0, ServeServed
<1> QED BY <1>0, <1>1, <1>2, PlainServed

\* A plane is no worker, so that its completions need no manifest.
LEMMA AblePlane == Able(Plane)
BY PlaneAssumption DEF Able

\* A dispatch completes the route step it has claimed.
LEMMA DispatchPInv ==
  ASSUME ~BrowserRequired, PInv, OInv', NEW r \in RunIds, Dispatch(r) PROVE PInv'
<1> DEFINE n == dispatch[r]
<1>0. IInv /\ PlainPlane /\ dispatch \in [RunIds -> 0 .. 8] /\ Plane \in Runners
  BY DEF PInv, OInv, IInv, TypeOK, Runners
<1>1. PICK c : c = DispatchCalls(r)[n]
  OBVIOUS
<1>2. /\ n \in DOMAIN DispatchCalls(r) /\ n \in 1 .. 7 /\ c \in Addressed
      /\ Serve(worker, c, Plane) /\ DispatchCall(r, n, c)
      /\ c.op \in {"register_agent", "ingest_inbound", "start_run", "enqueue_step",
                   "claim_step", "complete_step"}
  BY <1>0, <1>1, DispatchServes, DispatchCallAt
<1>3. dispatch' = [dispatch EXCEPT ![r] = IF Accepted(c) THEN n + 1 ELSE Stopped]
  BY <1>1 DEF Dispatch
<1>4. PlainCall(c, Plane)
  <2>1. c.op \in PlainEnds => n = 6 /\ c.op = "complete_step" /\ c.step = Route(r)
    BY <1>2 DEF DispatchCall, PlainEnds
  <2>2. c.op \in PlainEnds => RunBy(c.step, Plane)
    BY <1>0, <2>1 DEF PlainPlane
  <2>3. c.op = "enqueue_step" => c.owner # "browser-worker"
    BY <1>2, PlainOwner DEF DispatchCall
  <2>4. c.op = "enqueue_step" /\ c.dep # NONE => n = 7 /\ c.dep = Route(r)
    BY <1>2 DEF DispatchCall
  <2>5. c.op = "enqueue_step" /\ c.dep # NONE => Done(c.dep)
    BY <1>0, <2>4 DEF PlainPlane
  <2> QED BY <1>2, <2>1, <2>2, <2>3, <2>5, AblePlane DEF PlainCall
<1>5. /\ Plain' /\ \A w \in Workers : PlainOut(w, worker[w], {})'
      /\ \A s : /\ Done(s) => Done(s)'
                /\ \A who \in Runners : RunBy(s, who) => RunBy(s, who)'
      /\ Served(worker, c, Plane)
  BY <1>2, <1>4, PlainPlaneServed
<1>6. PlainPlane'
  <2>1. ASSUME NEW q \in RunIds
        PROVE  /\ dispatch'[q] = 6 => RunBy(Route(q), Plane)'
               /\ dispatch'[q] = 7 => Done(Route(q))'
    <3>1. CASE q # r
      <4>1. dispatch'[q] = dispatch[q]
        BY <1>0, <1>3, <3>1
      <4> QED BY <1>0, <1>5, <4>1 DEF PlainPlane
    <3>2. CASE q = r /\ ~Accepted(c)
      <4>1. dispatch'[q] = 0
        BY <1>0, <1>3, <3>2 DEF Stopped
      <4> QED BY <4>1
    <3>3. CASE q = r /\ Accepted(c)
      <4>1. dispatch'[q] = n + 1 /\ StepRows(c, Plane)
        BY <1>0, <1>3, <1>5, <3>3 DEF Served
      <4>2. n = 5 => c.op = "claim_step" /\ c.step = Route(r)
        BY <1>2 DEF DispatchCall
      <4>3. n = 6 => c.op = "complete_step" /\ c.step = Route(r)
        BY <1>2 DEF DispatchCall
      <4>4. n = 5 => RunBy(Route(r), Plane)'
        BY <4>1, <4>2 DEF StepRows, StepAfter, RunBy
      <4>5. n = 6 => Done(Route(r))'
        BY <4>1, <4>3 DEF StepRows, StepAfter, Done
      <4> QED BY <1>2, <3>3, <4>1, <4>4, <4>5
    <3> QED BY <3>1, <3>2, <3>3
  <2> QED BY <2>1 DEF PlainPlane, RunBy, Done, Route
<1> QED BY <1>5, <1>6 DEF PInv

\* A retry enqueues behind what the step it repeats was enqueued behind.
LEMMA RetryEnqueuesPInv ==
  ASSUME PInv, OInv', NEW r \in RunIds, RetryEnqueues(r) PROVE PInv'
<1>0. IInv /\ Plain /\ PlainPlane /\ Plane \in Runners
  BY DEF PInv, OInv, Runners
<1>1. PICK c, s : c = RetryCall(r) /\ s = retry[r].step
  OBVIOUS
<1>2. /\ s \in DOMAIN workflow_step /\ c \in Addressed /\ Serve(worker, c, Plane)
      /\ c.op = "enqueue_step" /\ c.dep = workflow_step[s].depends_on /\ UNCHANGED dispatch
  BY <1>0, <1>1, RetryServes
<1>3. c.owner = workflow_step[s].owner
  BY <1>1 DEF RetryCall, Enqueue
<1>4. PlainCall(c, Plane)
  BY <1>0, <1>2, <1>3 DEF PlainCall, PlainEnds, Plain, DepsDone
<1>5. /\ Plain' /\ \A w \in Workers : PlainOut(w, worker[w], {})'
      /\ \A q : /\ Done(q) => Done(q)'
                /\ \A who \in Runners : RunBy(q, who) => RunBy(q, who)'
  BY <1>2, <1>4, PlainPlaneServed
<1>6. PlainPlane'
  BY <1>0, <1>2, <1>5 DEF PlainPlane, RunBy, Done, Route
<1> QED BY <1>5, <1>6 DEF PInv

\* The rest touches neither steps nor processes.
LEMMA ObserverPInv ==
  ASSUME PInv, OInv', UNCHANGED <<workflow_step, browser_task, worker>>,
         \A r \in RunIds : dispatch'[r] = dispatch[r] \/ dispatch'[r] = Stopped
  PROVE  PInv'
<1>1. Plain' /\ PlainPlane'
  BY DEF PInv, Plain, PlainPlane, DepsDone, Done, RunBy, Stopped
<1>2. ASSUME NEW w \in Workers PROVE PlainOut(w, worker[w], {})'
  <2>1. PICK me : me = worker[w]
    OBVIOUS
  <2>2. PlainOut(w, me, {})
    BY <2>1 DEF PInv
  <2>3. PlainOut(w, me, {})'
    BY <2>2 DEF PlainOut, Fits, OwnsStep, Done
  <2> QED BY <2>1, <2>3, PlainOutOf
<1> QED BY <1>1, <1>2 DEF PInv

\* Every step keeps the invariant.
LEMMA NextPInv == ~BrowserRequired /\ PInv /\ [Next]_vars => PInv'
<1> SUFFICES ASSUME ~BrowserRequired, PInv, [Next]_vars PROVE PInv'
  OBVIOUS
<1>0. OInv' /\ TypeOK
  BY NextOInv DEF PInv, OInv, IInv
<1>1. CASE UNCHANGED vars
  BY <1>0, <1>1, ObserverPInv DEF vars, storeVars
<1>2. ASSUME NEW w \in Workers, WorkerNext(w) \/ Crash(w) PROVE PInv'
  BY <1>0, <1>2, QuietPInv, FinishPInv, ServeWorkerPInv DEF WorkerNext
<1>3. ASSUME NEW r \in RunIds, Dispatch(r) \/ RetryEnqueues(r) PROVE PInv'
  BY <1>0, <1>3, DispatchPInv, RetryEnqueuesPInv
<1>4. ASSUME NEW r \in RunIds, DispatchDies(r) \/ RetryReads(r) \/ cancel_run(r) PROVE PInv'
  <2>1. /\ UNCHANGED <<workflow_step, browser_task, worker>>
        /\ dispatch' = dispatch \/ dispatch' = [dispatch EXCEPT ![r] = Stopped]
    BY <1>4 DEF DispatchDies, RetryReads, cancel_run, storeVars, Store!update_run_status
  <2>2. \A q \in RunIds : dispatch'[q] = dispatch[q] \/ dispatch'[q] = Stopped
    BY <1>0, <2>1 DEF TypeOK
  <2> QED BY <1>0, <2>1, <2>2, ObserverPInv
<1> QED BY <1>1, <1>2, <1>3, <1>4 DEF Next

\* No row, no call, no dispatch has begun.
LEMMA InitPInv == Init => PInv
<1> SUFFICES ASSUME Init PROVE PInv
  OBVIOUS
<1>1. OInv /\ Store!Init
  BY InitOInv, InitIInv
<1>2. DOMAIN workflow_step = {} /\ DOMAIN browser_task = {}
  BY <1>1 DEF Store!Init, Store!EmptyTable
<1>3. Plain /\ PlainPlane
  BY <1>2 DEF Init, Plain, DepsDone, PlainPlane
<1>4. ASSUME NEW w \in Workers PROVE PlainOut(w, worker[w], {})
  <2>1. worker[w] = Down(0) /\ Down(0).outbox = <<>>
    BY DEF Init, Down
  <2> QED BY <2>1 DEF PlainOut
<1> QED BY <1>1, <1>3, <1>4 DEF PInv

\* An agent that needs no browser has its steps executed by one thread each, and in order,
\* whatever workers start, scan and die in the middle of a run, and whatever is retried.
THEOREM PlainRunsAgree ==
  ~BrowserRequired => (Spec => [](ExecutedByOne /\ DependencyCompleted))
<1> SUFFICES ASSUME ~BrowserRequired PROVE Spec => [](ExecutedByOne /\ DependencyCompleted)
  OBVIOUS
<1>1. ASSUME PInv, NEW w \in Workers, NEW th \in Threads, worker[w].busy[th] # NONE
      PROVE  LET item == worker[w].busy[th] IN
             /\ item.kind = "run_step" /\ item.step \in DOMAIN workflow_step
             /\ workflow_step[item.step].runner = Runner(w)
  <2>1. PICK item : item = worker[w].busy[th]
    OBVIOUS
  <2>2. Apart(worker[w]) /\ Rightful(w, worker[w]) /\ IInv /\ Plain
    BY <1>1 DEF PInv, OInv
  <2>3. Holds(worker[w], item.kind, item.step) /\ item.kind \in {"run_step", "run_task"} /\ item.step \in StepIds
    BY <1>1, <2>1, <2>2, ProcessFields DEF Holds, Apart, IsRunning, Item
  <2>4. item.kind # "run_task"
    BY <2>2, <2>3 DEF Rightful, OwnsTask, Plain
  <2>5. OwnsStep(item.step, w, Runner(w))
    BY <2>2, <2>3, <2>4 DEF Rightful, Runner
  <2> QED BY <2>1, <2>2, <2>3, <2>4, <2>5 DEF OwnsStep, Plain
<1>2. PInv => ExecutedByOne
  <2> SUFFICES ASSUME PInv, NEW w1 \in Workers, NEW w2 \in Workers, NEW t1 \in Threads, NEW t2 \in Threads,
                      worker[w1].busy[t1] # NONE, worker[w2].busy[t2] # NONE,
                      worker[w1].busy[t1].kind = worker[w2].busy[t2].kind,
                      worker[w1].busy[t1].step = worker[w2].busy[t2].step
               PROVE  w1 = w2 /\ t1 = t2
    BY DEF ExecutedByOne
  <2>1. Runner(w1) = Runner(w2)
    BY <1>1
  <2>2. w1 = w2
    BY <2>1 DEF Runner
  <2> QED BY <2>2 DEF PInv, OInv, Apart
<1>3. PInv => DependencyCompleted
  BY <1>1 DEF DependencyCompleted, PInv, Plain, DepsDone, Done
<1> QED BY <1>2, <1>3, InitPInv, NextPInv, PTL DEF Spec

=============================================================================
