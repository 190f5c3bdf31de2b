-------------------------- MODULE ScheduleDispatch --------------------------
(***************************************************************************)
(* Schedules and jobs: the reducers of spacetimedb/src/lib.rs that keep    *)
(* them, and the reconciliation passes of the control planes that turn due *)
(* schedules into jobs and seed a workflow for each.                       *)
(*                                                                         *)
(* A pass (reconcileLocalSchedules, reconcileCloudControlPlane) lists the  *)
(* due schedules under its own clock, then claims and seeds those it has a *)
(* manifest for and may execute, one after the other with remote calls.    *)
(* The timers, the cron route and the POST routes start passes without     *)
(* excluding one another, so several run at once.  A call may fail before  *)
(* it reaches the database or after the reducer committed (the answer is   *)
(* lost); a pass may die between calls.                                    *)
(***************************************************************************)
EXTENDS Integers, Sequences

CONSTANTS
  ScheduleIds, JobIds, ManualJobIds, Planes, Passes,
  PlaneOf,      \* the control plane a pass works for
  Intervals,    \* intervals a manifest can give a schedule
  MinInterval,
  Deployments,  \* the sets of schedules that may be served at one time
  Skew,         \* how far a pass's clock can be ahead of the database's
  MaxTime,      \* bound on the clock
  NONE

ASSUME IntervalsAssumption ==
  /\ MinInterval \in Nat \ {0}
  /\ Intervals \subseteq Nat
  /\ \A i \in Intervals : i >= MinInterval

ASSUME DeploymentsAssumption == Deployments \subseteq SUBSET ScheduleIds

ASSUME PassesAssumption ==
  /\ PlaneOf \in [Passes -> Planes]
  /\ Skew \in Nat
  /\ MaxTime \in Nat

ASSUME JobIdsAssumption ==
  /\ JobIds \cap ManualJobIds = {}
  /\ NONE \notin JobIds \cup ManualJobIds \cup ScheduleIds \cup Nat

AllJobIds == JobIds \cup ManualJobIds

VARIABLES
  now,               \* ctx.timestamp
  schedule_record,
  job_record,
  served,            \* schedules whose plane has the manifest and may execute it
  progress,          \* job -> number of seeding calls that committed
  pc,                \* pass -> "idle", "claiming" or "seeding"
  due,               \* pass -> listed schedules it has still to look at
  current            \* pass -> the job it is seeding

passes == <<pc, due, current>>
vars == <<now, schedule_record, job_record, served, progress, pc, due, current>>

-----------------------------------------------------------------------------
ScheduleRecord ==
  [control_plane : Planes, enabled : BOOLEAN, interval : Intervals,
   next_run : Nat, last_run : Nat \cup {NONE},
   last_job : JobIds \cup {NONE}, status : {"ready", "claimed"}]

\* schedule is the scheduleId of the job's context_json and created its
\* created_at; occurrence, the due time that was claimed, is an auxiliary
\* field no reducer reads.
JobRecord ==
  [status : {"queued", "running", "completed", "failed"},
   schedule : ScheduleIds \cup {NONE}, created : Nat,
   occurrence : Nat \cup {NONE}]

\* A schedule as a pass listed it.
Listing == [schedule : ScheduleIds, next_run : Nat]

IsTable(table, Keys, Row) ==
  /\ DOMAIN table \subseteq Keys
  /\ table \in [DOMAIN table -> Row]

Insert(table, key, row) ==
  [k \in DOMAIN table \cup {key} |-> IF k = key THEN row ELSE table[k]]

EmptyTable == [k \in {} |-> NONE]

-----------------------------------------------------------------------------
(* Reducers.                                                               *)

\* Slip: registering a known schedule arms it again.
rearm_schedule(s, plane, interval, enabled) ==
  schedule_record' = Insert(schedule_record, s,
    [control_plane |-> plane, enabled |-> enabled, interval |-> interval,
     next_run |-> now,
     last_run |-> NONE, last_job |-> NONE, status |-> "ready"])

\* Every pass and heartbeat registers the schedules of its manifests again;
\* only a new schedule gets a due time.
register_schedule(s, plane, interval, enabled) ==
  LET kept == IF s \in DOMAIN schedule_record
              THEN schedule_record[s]
              ELSE [next_run |-> now, last_run |-> NONE, last_job |-> NONE,
                    status |-> "ready"]
  IN  schedule_record' = Insert(schedule_record, s,
        [control_plane |-> plane, enabled |-> enabled, interval |-> interval,
         next_run |-> kept.next_run, last_run |-> kept.last_run,
         last_job |-> kept.last_job, status |-> kept.status])

MayClaim(s, plane) ==
  /\ s \in DOMAIN schedule_record
  /\ schedule_record[s].control_plane = plane
  /\ schedule_record[s].enabled

\* Slip: a job id that is taken is used again.
record_claim_anyway(s, expected, j) ==
  /\ job_record' = Insert(job_record, j,
       [status |-> "queued", schedule |-> s, created |-> now,
        occurrence |-> expected])
  /\ schedule_record' = [schedule_record EXCEPT
       ![s].next_run = now + schedule_record[s].interval,
       ![s].last_run = now, ![s].last_job = j, ![s].status = "claimed"]

\* The writes of a claim: the job, and the schedule's next due time.
record_claim(s, expected, j) ==
  /\ j \notin DOMAIN job_record
  /\ job_record' = Insert(job_record, j,
       [status |-> "queued", schedule |-> s, created |-> now,
        occurrence |-> expected])
  /\ schedule_record' = [schedule_record EXCEPT
       ![s].next_run = now + schedule_record[s].interval,
       ![s].last_run = now, ![s].last_job = j, ![s].status = "claimed"]

\* Slip: the due time the caller saw is not compared.
claim_without_lease(s, plane, expected, j) ==
  /\ MayClaim(s, plane)
  /\ schedule_record[s].next_run <= now
  /\ record_claim(s, expected, j)

\* Slip: the caller's clock decides that the schedule is due.
claim_before_due(s, plane, expected, j) ==
  /\ MayClaim(s, plane)
  /\ schedule_record[s].next_run = expected
  /\ record_claim(s, expected, j)

\* Slip: a schedule that was claimed waits to be made ready.
claim_ready_only(s, plane, expected, j) ==
  /\ MayClaim(s, plane)
  /\ schedule_record[s].status = "ready"
  /\ schedule_record[s].next_run = expected
  /\ schedule_record[s].next_run <= now
  /\ record_claim(s, expected, j)

\* One transaction; the schedule's status is not consulted.
claim_schedule_run(s, plane, expected, j) ==
  /\ MayClaim(s, plane)
  /\ schedule_record[s].next_run = expected
  /\ schedule_record[s].next_run <= now
  /\ record_claim(s, expected, j)

enqueue_job(j) ==
  /\ j \notin DOMAIN job_record
  /\ job_record' = Insert(job_record, j,
       [status |-> "queued", schedule |-> NONE, created |-> now,
        occurrence |-> NONE])

start_job(j) ==
  /\ j \in DOMAIN job_record
  /\ job_record' = [job_record EXCEPT ![j].status = "running"]

\* complete_job and fail_job; the job's present status is not examined.
transition_job(j, status) ==
  /\ j \in DOMAIN job_record
  /\ job_record' = [job_record EXCEPT ![j].status = status]

-----------------------------------------------------------------------------
(* Passes.                                                                 *)

\* The calls that seed a job's workflow and complete its route stage, in
\* order.  Presence and memory calls between them can only fail, like these.
SeedingCalls ==
  <<"ingest_message", "start_workflow_run", "enqueue_route_step",
    "claim_route_step", "complete_route_step", "enqueue_plan_step",
    "complete_job">>

\* isScheduleDue, under a clock the pass reads from its own machine.
IsScheduleDue(s, clock) ==
  schedule_record[s].enabled /\ schedule_record[s].next_run <= clock

\* A listing that is not served is skipped without a call, so it is left out.
ListDue(c) ==
  /\ pc[c] = "idle"
  /\ \E ahead \in 0..Skew :
       due' = [due EXCEPT ![c] =
         {[schedule |-> s, next_run |-> schedule_record[s].next_run] :
            s \in {z \in DOMAIN schedule_record \cap served :
                     /\ schedule_record[z].control_plane = PlaneOf[c]
                     /\ IsScheduleDue(z, now + ahead)}}]
  /\ pc' = [pc EXCEPT ![c] = "claiming"]
  /\ UNCHANGED <<now, schedule_record, job_record, served, progress, current>>

StartSeeding(c, j) ==
  /\ pc' = [pc EXCEPT ![c] = "seeding"]
  /\ current' = [current EXCEPT ![c] = j]
  /\ progress' = [progress EXCEPT ![j] = 0]

\* The claim commits and the pass learns of it.
ClaimCommits(c, listed) ==
  /\ pc[c] = "claiming"
  /\ listed \in due[c]
  /\ \E j \in JobIds :
       /\ claim_schedule_run(listed.schedule, PlaneOf[c], listed.next_run, j)
       /\ StartSeeding(c, j)
  /\ due' = [due EXCEPT ![c] = @ \ {listed}]
  /\ UNCHANGED <<now, served>>

\* The claim commits and its answer is lost: the pass skips the schedule.
ClaimAnswerLost(c, listed) ==
  /\ pc[c] = "claiming"
  /\ listed \in due[c]
  /\ \E j \in JobIds :
       /\ claim_schedule_run(listed.schedule, PlaneOf[c], listed.next_run, j)
       /\ progress' = [progress EXCEPT ![j] = 0]
  /\ due' = [due EXCEPT ![c] = @ \ {listed}]
  /\ UNCHANGED <<now, served, pc, current>>

\* The reducer refuses or the call does not get through.
SkipSchedule(c, listed) ==
  /\ pc[c] = "claiming"
  /\ listed \in due[c]
  /\ due' = [due EXCEPT ![c] = @ \ {listed}]
  /\ UNCHANGED <<now, schedule_record, job_record, served, progress, pc, current>>

EndPass(c) ==
  /\ pc[c] = "claiming"
  /\ due[c] = {}
  /\ pc' = [pc EXCEPT ![c] = "idle"]
  /\ UNCHANGED <<now, schedule_record, job_record, served, progress, due, current>>

\* dispatchLocalJob, dispatchCloudJob: a job of no schedule, seeded alike.
DispatchJob(c) ==
  /\ pc[c] = "idle"
  /\ \E j \in ManualJobIds : enqueue_job(j) /\ StartSeeding(c, j)
  /\ UNCHANGED <<now, schedule_record, served, due>>

\* Slip: the job of a failed seeding is kept.
leave_with_job(c) ==
  /\ pc' = [pc EXCEPT ![c] = "claiming"]
  /\ UNCHANGED current

\* After the workflow is seeded, or an error caught, the pass goes on with the
\* next schedule; a dispatch (nothing listed) ends through EndPass.
LeaveSeeding(c) ==
  /\ pc' = [pc EXCEPT ![c] = "claiming"]
  /\ current' = [current EXCEPT ![c] = NONE]

\* Slip: the job is completed before its workflow is seeded.
complete_before_seeding(c) ==
  /\ pc[c] = "seeding"
  /\ LET j == current[c] IN
       /\ progress' = [progress EXCEPT ![j] = @ + 1]
       /\ IF progress[j] = 0
          THEN transition_job(j, "completed")
          ELSE UNCHANGED job_record
       /\ IF progress'[j] = Len(SeedingCalls)
          THEN LeaveSeeding(c)
          ELSE UNCHANGED <<pc, current>>
  /\ UNCHANGED <<now, schedule_record, served, due>>

SeedingCallCommits(c) ==
  /\ pc[c] = "seeding"
  /\ LET j == current[c] IN
       /\ progress' = [progress EXCEPT ![j] = @ + 1]
       /\ IF SeedingCalls[progress'[j]] = "complete_job"
          THEN transition_job(j, "completed")
          ELSE UNCHANGED job_record
       /\ IF progress'[j] = Len(SeedingCalls)
          THEN LeaveSeeding(c)
          ELSE UNCHANGED <<pc, current>>
  /\ UNCHANGED <<now, schedule_record, served, due>>

\* An error ends the seeding; when only the answer was lost the call counts.
SeedingCallFails(c) ==
  /\ pc[c] = "seeding"
  /\ LeaveSeeding(c)
  /\ LET j == current[c] IN
       \/ UNCHANGED <<progress, job_record>>
       \/ /\ progress' = [progress EXCEPT ![j] = @ + 1]
          /\ IF SeedingCalls[progress'[j]] = "complete_job"
             THEN transition_job(j, "completed")
             ELSE UNCHANGED job_record
  /\ UNCHANGED <<now, schedule_record, served, due>>

\* The process of a pass dies, or an error ends the pass.
PassDies(c) ==
  /\ pc[c] # "idle"
  /\ pc' = [pc EXCEPT ![c] = "idle"]
  /\ due' = [due EXCEPT ![c] = {}]
  /\ current' = [current EXCEPT ![c] = NONE]
  /\ UNCHANGED <<now, schedule_record, job_record, served, progress>>

-----------------------------------------------------------------------------
Init ==
  /\ now = 0
  /\ schedule_record = EmptyTable
  /\ job_record = EmptyTable
  /\ served \in Deployments
  /\ progress = [j \in AllJobIds |-> 0]
  /\ pc = [c \in Passes |-> "idle"]
  /\ due = [c \in Passes |-> {}]
  /\ current = [c \in Passes |-> NONE]

Tick ==
  /\ now < MaxTime
  /\ now' = now + 1
  /\ UNCHANGED <<schedule_record, job_record, served, progress, passes>>

SyncCatalog ==
  /\ \E s \in ScheduleIds, plane \in Planes, interval \in Intervals,
        enabled \in BOOLEAN : register_schedule(s, plane, interval, enabled)
  /\ UNCHANGED <<now, job_record, served, progress, passes>>

\* Manifests come and go, and a deployment may disable sandbox execution; the
\* rows of schedules that were registered stay as they are.
Deploy ==
  /\ served' \in Deployments
  /\ UNCHANGED <<now, schedule_record, job_record, progress, passes>>

\* An SDK client reports on a job.
ReportJob ==
  /\ \E j \in AllJobIds : start_job(j) \/ transition_job(j, "failed")
  /\ UNCHANGED <<now, schedule_record, served, progress, passes>>

PassStep(c) ==
  \/ \E listed \in due[c] : \/ ClaimCommits(c, listed)
                            \/ ClaimAnswerLost(c, listed)
                            \/ SkipSchedule(c, listed)
  \/ EndPass(c)
  \/ SeedingCallCommits(c)
  \/ SeedingCallFails(c)

Next ==
  \/ Tick
  \/ SyncCatalog
  \/ Deploy
  \/ ReportJob
  \/ \E c \in Passes : ListDue(c) \/ DispatchJob(c) \/ PassStep(c) \/ PassDies(c)

Spec == Init /\ [][Next]_vars

\* The timers start passes for ever and a pass that is not killed goes on; a
\* claim of a schedule that is made again and again gets through once.  A pass
\* only makes it while the schedule is served.
Fairness ==
  \A c \in Passes :
    /\ SF_vars(ListDue(c))
    /\ WF_vars(PassStep(c))
    /\ \A s \in ScheduleIds :
         SF_vars(\E listed \in due[c] : listed.schedule = s /\ ClaimCommits(c, listed))

FairSpec == Spec /\ Fairness
-----------------------------------------------------------------------------
(* Properties.                                                             *)

SchedulesOK == IsTable(schedule_record, ScheduleIds, ScheduleRecord)

JobsOK == IsTable(job_record, AllJobIds, JobRecord)

PassesOK ==
  /\ now \in 0..MaxTime
  /\ served \subseteq ScheduleIds
  /\ progress \in [AllJobIds -> 0..Len(SeedingCalls)]
  /\ pc \in [Passes -> {"idle", "claiming", "seeding"}]
  /\ due \in [Passes -> SUBSET Listing]
  /\ current \in [Passes -> AllJobIds \cup {NONE}]

SeedingOK ==
  \A c \in Passes :
    /\ pc[c] = "seeding" <=> current[c] # NONE
    /\ pc[c] = "seeding" => /\ current[c] \in DOMAIN job_record
                            /\ progress[current[c]] < Len(SeedingCalls)

\* Tables, clock and passes have their types; a pass that is seeding has a job
\* with calls still to make.
TypeOK == SchedulesOK /\ JobsOK /\ PassesOK /\ SeedingOK

\* No two passes seed the same job, even when their job ids collide.
OneSeederPerJob ==
  \A c, d \in Passes : c # d /\ current[c] = current[d] => current[c] = NONE

ScheduledJobs(s) == {j \in DOMAIN job_record : job_record[j].schedule = s}

\* Two jobs of one schedule are at least an interval apart, however many passes
\* hold old listings, whatever their clocks say and however often the manifest
\* is registered again in between.
JobsAreSpaced ==
  \A s \in ScheduleIds : \A i, j \in ScheduledJobs(s) :
    i # j => \/ job_record[i].created + MinInterval <= job_record[j].created
             \/ job_record[j].created + MinInterval <= job_record[i].created

\* A known schedule's due time moves only together with the creation of its
\* job: no occurrence is skipped without a job, and no restart of a control
\* plane (which registers every manifest again) arms a schedule again.
DueTimeMovesWithAJob ==
  [][\A s \in DOMAIN schedule_record :
       schedule_record'[s].next_run # schedule_record[s].next_run =>
         \E j \in DOMAIN job_record' \ DOMAIN job_record :
           /\ job_record'[j].schedule = s
           /\ schedule_record'[s].last_job = j
           /\ schedule_record'[s].next_run = now + schedule_record[s].interval]_vars

\* A job reported completed has a plan step for the workers: no failure of a
\* call, lost answer or death of a pass completes a job it has not seeded.
CompletedJobsArePlanned ==
  \A j \in DOMAIN job_record :
    job_record[j].status = "completed" => progress[j] >= 6

\* The claims as the abstract ledger sees them.
Claims ==
  {<<job_record[j].schedule, job_record[j].occurrence, j>> :
     j \in {i \in DOMAIN job_record : job_record[i].schedule # NONE}}

Ledger == INSTANCE OccurrenceLedger WITH
  Schedules <- ScheduleIds, Times <- 0..MaxTime, Jobs <- JobIds, ledger <- Claims

\* The passes implement the ledger: no occurrence becomes two jobs.
DispatchedOnce == Ledger!Spec

Due(s, plane) ==
  /\ s \in DOMAIN schedule_record
  /\ schedule_record[s].control_plane = plane
  /\ IsScheduleDue(s, now)

\* A schedule that is due and served does not stay both: it is claimed, disabled
\* or moved, or its plane stops serving it.  A pass that dies, skips it or loses its
\* claim to another leaves it to a later one, and the status "claimed" of an
\* earlier occurrence does not hold it back.  One that is not served stays due.
DueIsClaimed ==
  \A s \in ScheduleIds, c \in Passes :
    Due(s, PlaneOf[c]) /\ s \in served ~> ~Due(s, PlaneOf[c]) \/ s \notin served
=============================================================================
