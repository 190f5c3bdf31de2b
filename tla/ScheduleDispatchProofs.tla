----------------------- MODULE ScheduleDispatchProofs -----------------------
(***************************************************************************)
(* Proofs about ScheduleDispatch for any number of schedules, jobs, passes *)
(* and clock skews.                                                        *)
(*                                                                         *)
(* The invariant behind both theorems is ClaimsInv: the due time a         *)
(* schedule has now lies at least an interval after the creation of every  *)
(* job it has had, and after every due time that was claimed.  A claim     *)
(* compares the caller's listing with that due time and the due time with  *)
(* the database's clock, so it cannot repeat an old occurrence nor come    *)
(* early.                                                                  *)
(***************************************************************************)
EXTENDS ScheduleDispatch, TLAPS

USE IntervalsAssumption, PassesAssumption, JobIdsAssumption

-----------------------------------------------------------------------------
(* Types.                                                                  *)

LEMMA InsertType ==
  ASSUME NEW T, NEW K, NEW R, IsTable(T, K, R), NEW k \in K, NEW row \in R
  PROVE  IsTable(Insert(T, k, row), K, R)
BY DEF IsTable, Insert

LEMMA SevenCalls == Len(SeedingCalls) = 7
BY DEF SeedingCalls

LEMMA RegisterType ==
  ASSUME SchedulesOK, now \in Nat, NEW s \in ScheduleIds, NEW plane \in Planes,
         NEW interval \in Intervals, NEW enabled \in BOOLEAN,
         register_schedule(s, plane, interval, enabled)
  PROVE  SchedulesOK'
<1> DEFINE kept == IF s \in DOMAIN schedule_record
                   THEN schedule_record[s]
                   ELSE [next_run |-> now, last_run |-> NONE, last_job |-> NONE,
                         status |-> "ready"]
           row == [control_plane |-> plane, enabled |-> enabled,
                   interval |-> interval, next_run |-> kept.next_run,
                   last_run |-> kept.last_run, last_job |-> kept.last_job,
                   status |-> kept.status]
<1>1. /\ kept.next_run \in Nat
      /\ kept.last_run \in Nat \cup {NONE}
      /\ kept.last_job \in JobIds \cup {NONE}
      /\ kept.status \in {"ready", "claimed"}
  BY DEF SchedulesOK, IsTable, ScheduleRecord
<1>2. schedule_record' = Insert(schedule_record, s, row)
  BY DEF register_schedule
<1> HIDE DEF kept
<1>3. row \in ScheduleRecord
  BY <1>1 DEF ScheduleRecord
<1> HIDE DEF row
<1> QED BY <1>2, <1>3, InsertType DEF SchedulesOK

LEMMA ClaimType ==
  ASSUME SchedulesOK, JobsOK, now \in Nat, NEW listed \in Listing,
         NEW plane, NEW j \in JobIds,
         claim_schedule_run(listed.schedule, plane, listed.next_run, j)
  PROVE  SchedulesOK' /\ JobsOK'
<1> DEFINE s == listed.schedule
           row == [status |-> "queued", schedule |-> s, created |-> now,
                   occurrence |-> listed.next_run]
<1>1. s \in ScheduleIds /\ listed.next_run \in Nat
  BY DEF Listing
<1>2. JobsOK'
  <2>1. row \in JobRecord
    BY <1>1 DEF JobRecord
  <2>2. job_record' = Insert(job_record, j, row)
    BY DEF claim_schedule_run, record_claim
  <2> HIDE DEF row
  <2> QED BY <2>1, <2>2, InsertType DEF JobsOK, AllJobIds
<1>3. SchedulesOK'
  <2>1. /\ s \in DOMAIN schedule_record
        /\ schedule_record' = [schedule_record EXCEPT
             ![s].next_run = now + schedule_record[s].interval,
             ![s].last_run = now, ![s].last_job = j, ![s].status = "claimed"]
    BY DEF claim_schedule_run, record_claim, MayClaim
  <2>2. now + schedule_record[s].interval \in Nat
    BY <2>1 DEF SchedulesOK, IsTable, ScheduleRecord
  <2> HIDE DEF s
  <2> QED BY <2>1, <2>2 DEF SchedulesOK, IsTable, ScheduleRecord
<1> QED BY <1>2, <1>3

LEMMA StatusType ==
  ASSUME JobsOK, NEW j, NEW status \in {"queued", "running", "completed", "failed"},
         job_record' = [job_record EXCEPT ![j].status = status]
  PROVE  JobsOK' /\ DOMAIN job_record' = DOMAIN job_record
BY DEF JobsOK, IsTable, JobRecord

\* Starting to seed a new job, and leaving a job, keep every pass well formed.
LEMMA StartSeedingType ==
  ASSUME PassesOK, SeedingOK, OneSeederPerJob, NEW c \in Passes,
         NEW j \in AllJobIds, j \notin DOMAIN job_record,
         DOMAIN job_record' = DOMAIN job_record \cup {j},
         now' = now, StartSeeding(c, j)
  PROVE  /\ progress' \in [AllJobIds -> 0..Len(SeedingCalls)]
         /\ pc' \in [Passes -> {"idle", "claiming", "seeding"}]
         /\ current' \in [Passes -> AllJobIds \cup {NONE}]
         /\ SeedingOK' /\ OneSeederPerJob'
<1> USE SevenCalls DEF StartSeeding, PassesOK
<1>1. /\ progress' \in [AllJobIds -> 0..Len(SeedingCalls)]
      /\ pc' \in [Passes -> {"idle", "claiming", "seeding"}]
      /\ current' \in [Passes -> AllJobIds \cup {NONE}]
  OBVIOUS
<1>2. \A d \in Passes : current[d] # j
  BY DEF SeedingOK, AllJobIds
<1>3. SeedingOK'
  <2> SUFFICES ASSUME NEW d \in Passes
               PROVE  /\ pc'[d] = "seeding" <=> current'[d] # NONE
                      /\ pc'[d] = "seeding" =>
                           /\ current'[d] \in DOMAIN job_record'
                           /\ progress'[current'[d]] < 7
    BY DEF SeedingOK
  <2>1. CASE d = c
    BY <2>1 DEF AllJobIds
  <2>2. CASE d # c
    BY <2>2, <1>2 DEF SeedingOK
  <2> QED BY <2>1, <2>2
<1>4. OneSeederPerJob'
  BY <1>2 DEF OneSeederPerJob
<1> QED BY <1>1, <1>3, <1>4

LEMMA LeaveSeedingType ==
  ASSUME PassesOK, SeedingOK, OneSeederPerJob, NEW c \in Passes,
         DOMAIN job_record' = DOMAIN job_record,
         LeaveSeeding(c),
         \A d \in Passes : d # c /\ current[d] # NONE =>
           progress'[current[d]] = progress[current[d]]
  PROVE  /\ pc' \in [Passes -> {"idle", "claiming", "seeding"}]
         /\ current' \in [Passes -> AllJobIds \cup {NONE}]
         /\ SeedingOK' /\ OneSeederPerJob'
<1> USE DEF LeaveSeeding, PassesOK
<1>1. SeedingOK'
  BY SevenCalls DEF SeedingOK
<1> QED BY <1>1 DEF OneSeederPerJob

LEMMA ClaimAnswered ==
  ASSUME TypeOK, OneSeederPerJob, NEW c \in Passes, NEW listed \in due[c],
         ClaimCommits(c, listed)
  PROVE  TypeOK' /\ OneSeederPerJob'
<1> USE DEF TypeOK
<1>1. listed \in Listing
  BY DEF PassesOK
<1>2. PICK j \in JobIds :
        /\ claim_schedule_run(listed.schedule, PlaneOf[c], listed.next_run, j)
        /\ StartSeeding(c, j)
  BY DEF ClaimCommits
<1>3. SchedulesOK' /\ JobsOK'
  BY <1>1, <1>2, ClaimType DEF PassesOK
<1>4. j \notin DOMAIN job_record /\ DOMAIN job_record' = DOMAIN job_record \cup {j}
  BY <1>2 DEF claim_schedule_run, record_claim, Insert
<1>5. UNCHANGED <<now, served>> /\ due' \in [Passes -> SUBSET Listing]
  BY DEF ClaimCommits, PassesOK
<1>6. /\ PassesOK'
      /\ SeedingOK' /\ OneSeederPerJob'
  BY <1>2, <1>4, <1>5, StartSeedingType DEF PassesOK, AllJobIds
<1> QED BY <1>3, <1>6

LEMMA ClaimUnanswered ==
  ASSUME TypeOK, OneSeederPerJob, NEW c \in Passes, NEW listed \in due[c],
         ClaimAnswerLost(c, listed)
  PROVE  TypeOK' /\ OneSeederPerJob'
<1> USE DEF TypeOK
<1>1. listed \in Listing
  BY DEF PassesOK
<1>2. PICK j \in JobIds :
        /\ claim_schedule_run(listed.schedule, PlaneOf[c], listed.next_run, j)
        /\ progress' = [progress EXCEPT ![j] = 0]
  BY DEF ClaimAnswerLost
<1>3. SchedulesOK' /\ JobsOK'
  BY <1>1, <1>2, ClaimType DEF PassesOK
<1>4. j \notin DOMAIN job_record /\ DOMAIN job_record' = DOMAIN job_record \cup {j}
  BY <1>2 DEF claim_schedule_run, record_claim, Insert
<1>5. /\ UNCHANGED <<now, served, pc, current>>
      /\ due' \in [Passes -> SUBSET Listing]
  BY DEF ClaimAnswerLost, PassesOK
<1>6. PassesOK'
  BY <1>2, <1>5, SevenCalls DEF PassesOK, AllJobIds
<1>7. OneSeederPerJob'
  BY <1>5 DEF OneSeederPerJob
<1>8. SeedingOK'
  <2> SUFFICES ASSUME NEW d \in Passes
               PROVE  /\ pc[d] = "seeding" <=> current[d] # NONE
                      /\ pc[d] = "seeding" =>
                           /\ current[d] \in DOMAIN job_record'
                           /\ progress'[current[d]] < 7
    BY <1>5, SevenCalls DEF SeedingOK
  <2> QED BY <1>2, <1>4, SevenCalls DEF SeedingOK, PassesOK
<1> QED BY <1>3, <1>6, <1>7, <1>8

LEMMA DispatchType ==
  ASSUME TypeOK, OneSeederPerJob, NEW c \in Passes, DispatchJob(c)
  PROVE  TypeOK' /\ OneSeederPerJob'
<1> USE DEF TypeOK
<1>1. PICK j \in ManualJobIds : enqueue_job(j) /\ StartSeeding(c, j)
  BY DEF DispatchJob
<1>2. JobsOK'
  <2> DEFINE row == [status |-> "queued", schedule |-> NONE, created |-> now,
                     occurrence |-> NONE]
  <2>1. row \in JobRecord
    BY DEF JobRecord, PassesOK
  <2>2. job_record' = Insert(job_record, j, row)
    BY <1>1 DEF enqueue_job
  <2> HIDE DEF row
  <2> QED BY <2>1, <2>2, InsertType DEF JobsOK, AllJobIds
<1>3. j \notin DOMAIN job_record /\ DOMAIN job_record' = DOMAIN job_record \cup {j}
  BY <1>1 DEF enqueue_job, Insert
<1>4. UNCHANGED <<now, schedule_record, served, due>>
  BY DEF DispatchJob
<1>5. PassesOK' /\ SeedingOK' /\ OneSeederPerJob'
  BY <1>1, <1>3, <1>4, StartSeedingType DEF PassesOK, AllJobIds
<1> QED BY <1>2, <1>4, <1>5 DEF SchedulesOK

\* Jobs neither appear nor disappear while a workflow is seeded.
LEMMA SeedingJobs ==
  ASSUME JobsOK, NEW j, UNCHANGED job_record \/ transition_job(j, "completed")
  PROVE  JobsOK' /\ DOMAIN job_record' = DOMAIN job_record
BY StatusType DEF transition_job, JobsOK

LEMMA SeedingCallType ==
  ASSUME TypeOK, OneSeederPerJob, NEW c \in Passes,
         SeedingCallCommits(c) \/ SeedingCallFails(c)
  PROVE  TypeOK' /\ OneSeederPerJob'
<1> USE SevenCalls DEF TypeOK
<1> DEFINE j == current[c]
<1>1. /\ j \in AllJobIds /\ j \in DOMAIN job_record
      /\ progress[j] \in 0..6
      /\ \A d \in Passes : d # c => current[d] # j
  BY DEF SeedingCallCommits, SeedingCallFails, SeedingOK, PassesOK, OneSeederPerJob
<1>2. UNCHANGED job_record \/ transition_job(j, "completed")
  BY DEF SeedingCallCommits, SeedingCallFails
<1>3. JobsOK' /\ DOMAIN job_record' = DOMAIN job_record
  BY <1>2, SeedingJobs
<1>4. UNCHANGED <<now, schedule_record, served, due>>
  BY DEF SeedingCallCommits, SeedingCallFails
<1>5. progress' = progress \/ progress' = [progress EXCEPT ![j] = @ + 1]
  BY DEF SeedingCallCommits, SeedingCallFails
<1>6. progress' \in [AllJobIds -> 0..7]
  BY <1>1, <1>5 DEF PassesOK
<1>7. \A d \in Passes : d # c /\ current[d] # NONE =>
        progress'[current[d]] = progress[current[d]]
  BY <1>1, <1>5 DEF PassesOK
<1>8. CASE LeaveSeeding(c)
  BY <1>3, <1>4, <1>6, <1>7, <1>8, LeaveSeedingType DEF PassesOK, SchedulesOK
<1>9. CASE UNCHANGED <<pc, current>> /\ progress'[j] # 7
  <2>1. PassesOK' /\ OneSeederPerJob' /\ SchedulesOK'
    BY <1>4, <1>6, <1>9 DEF PassesOK, OneSeederPerJob, SchedulesOK
  <2>2. SeedingOK'
    <3> SUFFICES ASSUME NEW d \in Passes
                 PROVE  /\ pc[d] = "seeding" <=> current[d] # NONE
                        /\ pc[d] = "seeding" =>
                             /\ current[d] \in DOMAIN job_record
                             /\ progress'[current[d]] < 7
      BY <1>3, <1>9 DEF SeedingOK
    <3>1. CASE d = c
      BY <3>1, <1>1, <1>6, <1>9 DEF SeedingOK
    <3>2. CASE d # c
      BY <3>2, <1>7 DEF SeedingOK
    <3> QED BY <3>1, <3>2
  <2> QED BY <1>3, <2>1, <2>2
<1> QED BY <1>8, <1>9 DEF SeedingCallCommits, SeedingCallFails

\* Ending a pass and skipping a schedule.
LEMMA PassEndType ==
  ASSUME TypeOK, OneSeederPerJob, NEW c \in Passes,
         \/ EndPass(c)
         \/ PassDies(c)
         \/ ListDue(c)
         \/ \E listed \in due[c] : SkipSchedule(c, listed)
  PROVE  TypeOK' /\ OneSeederPerJob'
<1> USE DEF TypeOK
<1>1. UNCHANGED <<now, schedule_record, job_record, served, progress>>
  BY DEF EndPass, PassDies, SkipSchedule, ListDue
<1>2. CASE EndPass(c)
  BY <1>1, <1>2 DEF EndPass, SchedulesOK, JobsOK, PassesOK, SeedingOK, OneSeederPerJob
<1>5. ASSUME NEW listed \in due[c], SkipSchedule(c, listed)
      PROVE  TypeOK' /\ OneSeederPerJob'
  BY <1>1, <1>5 DEF SkipSchedule, SchedulesOK, JobsOK, PassesOK, SeedingOK,
                    OneSeederPerJob
<1>3. CASE PassDies(c)
  BY <1>1, <1>3 DEF PassDies, SchedulesOK, JobsOK, PassesOK, SeedingOK,
                    OneSeederPerJob
<1>4. CASE ListDue(c)
  <2>1. PICK ahead \in 0..Skew :
          due' = [due EXCEPT ![c] =
            {[schedule |-> s, next_run |-> schedule_record[s].next_run] :
               s \in {z \in DOMAIN schedule_record \cap served :
                        /\ schedule_record[z].control_plane = PlaneOf[c]
                        /\ IsScheduleDue(z, now + ahead)}}]
    BY <1>4 DEF ListDue
  <2>2. ASSUME NEW s \in DOMAIN schedule_record
        PROVE  [schedule |-> s, next_run |-> schedule_record[s].next_run] \in Listing
    BY DEF Listing, SchedulesOK, IsTable, ScheduleRecord
  <2>3. due' \in [Passes -> SUBSET Listing]
    BY <2>1, <2>2 DEF PassesOK
  <2>4. pc[c] = "idle" /\ pc' = [pc EXCEPT ![c] = "claiming"] /\ current' = current
    BY <1>4 DEF ListDue
  <2> QED BY <1>1, <2>3, <2>4 DEF SchedulesOK, JobsOK, PassesOK, SeedingOK,
                                   OneSeederPerJob
<1> QED BY <1>2, <1>3, <1>4, <1>5

LEMMA TypeNext ==
  ASSUME TypeOK, OneSeederPerJob, [Next]_vars
  PROVE  TypeOK' /\ OneSeederPerJob'
<1> USE DEF TypeOK
<1>1. CASE Tick \/ Deploy
  <2>1. /\ UNCHANGED <<schedule_record, job_record, progress, pc, due, current>>
        /\ now' \in 0..MaxTime
        /\ served' \subseteq ScheduleIds
    BY <1>1, DeploymentsAssumption DEF Tick, Deploy, passes, PassesOK
  <2> QED BY <2>1 DEF SchedulesOK, JobsOK, PassesOK, SeedingOK, OneSeederPerJob
<1>2. CASE SyncCatalog
  <2>1. SchedulesOK'
    BY <1>2, RegisterType DEF SyncCatalog, PassesOK
  <2>2. UNCHANGED <<now, job_record, served, progress, pc, due, current>>
    BY <1>2 DEF SyncCatalog, passes
  <2> QED BY <2>1, <2>2 DEF JobsOK, PassesOK, SeedingOK, OneSeederPerJob
<1>3. CASE ReportJob
  <2>1. JobsOK' /\ DOMAIN job_record' = DOMAIN job_record
    BY <1>3, StatusType DEF ReportJob, start_job, transition_job
  <2>2. UNCHANGED <<now, schedule_record, served, progress, pc, due, current>>
    BY <1>3 DEF ReportJob, passes
  <2> QED BY <2>1, <2>2 DEF SchedulesOK, PassesOK, SeedingOK, OneSeederPerJob
<1>4. ASSUME NEW c \in Passes,
             ListDue(c) \/ DispatchJob(c) \/ PassStep(c) \/ PassDies(c)
      PROVE  TypeOK' /\ OneSeederPerJob'
  BY <1>4, DispatchType, ClaimAnswered, ClaimUnanswered, SeedingCallType, PassEndType
     DEF PassStep
<1>5. CASE UNCHANGED vars
  BY <1>5 DEF vars, SchedulesOK, JobsOK, PassesOK, SeedingOK, OneSeederPerJob
<1> QED BY <1>1, <1>2, <1>3, <1>4, <1>5 DEF Next

LEMMA TypeInit == Init => TypeOK /\ OneSeederPerJob
BY SevenCalls, DeploymentsAssumption
DEF Init, EmptyTable, TypeOK, SchedulesOK, JobsOK, PassesOK, SeedingOK,
   OneSeederPerJob, IsTable

\* Schedules, jobs and passes keep their types.
THEOREM TypeCorrect == Spec => []TypeOK
<1> QED BY TypeInit, TypeNext, PTL DEF Spec

\* A job is seeded by the pass that created it and by no other.
THEOREM SeederUnique == Spec => []OneSeederPerJob
<1> QED BY TypeInit, TypeNext, PTL DEF Spec

-----------------------------------------------------------------------------
(* Claims.                                                                 *)

\* The invariant described at the head of the module.
ClaimsInv ==
  \A j \in DOMAIN job_record :
    LET s == job_record[j].schedule IN
    s # NONE =>
      /\ j \in JobIds
      /\ s \in DOMAIN schedule_record
      /\ job_record[j].created + MinInterval <= schedule_record[s].next_run
      /\ job_record[j].occurrence \in 0..MaxTime
      /\ job_record[j].occurrence < schedule_record[s].next_run

\* A step that claims nothing: no due time moves, and a new job is nobody's.
NoClaim ==
  /\ \A s \in DOMAIN schedule_record :
       /\ s \in DOMAIN schedule_record'
       /\ schedule_record'[s].next_run = schedule_record[s].next_run
  /\ DOMAIN job_record \subseteq DOMAIN job_record'
  /\ \A j \in DOMAIN job_record' :
       IF j \in DOMAIN job_record
       THEN /\ job_record'[j].schedule = job_record[j].schedule
            /\ job_record'[j].created = job_record[j].created
            /\ job_record'[j].occurrence = job_record[j].occurrence
       ELSE job_record'[j].schedule = NONE

\* What a claim of occurrence t of schedule s by job j does.
Claim(s, t, j) ==
  /\ s \in DOMAIN schedule_record
  /\ j \in JobIds /\ j \notin DOMAIN job_record
  /\ t = schedule_record[s].next_run
  /\ t <= now
  /\ DOMAIN job_record' = DOMAIN job_record \cup {j}
  /\ \A i \in DOMAIN job_record : job_record'[i] = job_record[i]
  /\ job_record'[j].schedule = s
  /\ job_record'[j].created = now
  /\ job_record'[j].occurrence = t
  /\ DOMAIN schedule_record' = DOMAIN schedule_record
  /\ schedule_record'[s].last_job = j
  /\ schedule_record'[s].next_run = now + schedule_record[s].interval
  /\ \A z \in DOMAIN schedule_record :
       z # s => schedule_record'[z].next_run = schedule_record[z].next_run

LEMMA ClaimEffect ==
  ASSUME TypeOK, NEW s, NEW plane, NEW t, NEW j \in JobIds,
         claim_schedule_run(s, plane, t, j)
  PROVE  Claim(s, t, j)
<1>1. /\ s \in DOMAIN schedule_record
      /\ t = schedule_record[s].next_run
      /\ t <= now
      /\ j \notin DOMAIN job_record
  BY DEF claim_schedule_run, MayClaim, record_claim
<1>2. /\ DOMAIN job_record' = DOMAIN job_record \cup {j}
      /\ \A i \in DOMAIN job_record : job_record'[i] = job_record[i]
      /\ job_record'[j] = [status |-> "queued", schedule |-> s, created |-> now,
                           occurrence |-> t]
  BY <1>1 DEF claim_schedule_run, record_claim, Insert
<1>3. schedule_record' = [schedule_record EXCEPT
        ![s].next_run = now + schedule_record[s].interval,
        ![s].last_run = now, ![s].last_job = j, ![s].status = "claimed"]
  BY DEF claim_schedule_run, record_claim
<1>4. /\ DOMAIN schedule_record' = DOMAIN schedule_record
      /\ schedule_record'[s].last_job = j
      /\ schedule_record'[s].next_run = now + schedule_record[s].interval
      /\ \A z \in DOMAIN schedule_record :
           z # s => schedule_record'[z].next_run = schedule_record[z].next_run
  BY <1>1, <1>3 DEF TypeOK, SchedulesOK, IsTable, ScheduleRecord
<1> QED BY <1>1, <1>2, <1>4 DEF Claim

LEMMA StatusIsNoClaim ==
  ASSUME TypeOK, NEW j, NEW status, UNCHANGED schedule_record,
         job_record' = [job_record EXCEPT ![j].status = status]
  PROVE  NoClaim
BY DEF NoClaim, TypeOK, JobsOK, IsTable, JobRecord

\* Every step claims one occurrence or none.
LEMMA ClaimOrNone ==
  ASSUME TypeOK, [Next]_vars
  PROVE  NoClaim \/ \E s \in ScheduleIds, t \in 0..MaxTime, j \in JobIds : Claim(s, t, j)
<1>1. CASE UNCHANGED <<schedule_record, job_record>>
  BY <1>1 DEF NoClaim
<1>2. CASE SyncCatalog
  <2>1. PICK s \in ScheduleIds, plane \in Planes, interval \in Intervals,
             enabled \in BOOLEAN : register_schedule(s, plane, interval, enabled)
    BY <1>2 DEF SyncCatalog
  <2>2. job_record' = job_record
    BY <1>2 DEF SyncCatalog
  <2>3. \A z \in DOMAIN schedule_record :
          /\ z \in DOMAIN schedule_record'
          /\ schedule_record'[z].next_run = schedule_record[z].next_run
    BY <2>1 DEF register_schedule, Insert
  <2> QED BY <2>2, <2>3 DEF NoClaim
<1>3. CASE ReportJob
  BY <1>3, StatusIsNoClaim DEF ReportJob, start_job, transition_job
<1>4. ASSUME NEW c \in Passes, NEW listed \in due[c],
             ClaimCommits(c, listed) \/ ClaimAnswerLost(c, listed)
      PROVE  \E s \in ScheduleIds, t \in 0..MaxTime, j \in JobIds : Claim(s, t, j)
  <2>1. PICK j \in JobIds :
          claim_schedule_run(listed.schedule, PlaneOf[c], listed.next_run, j)
    BY <1>4 DEF ClaimCommits, ClaimAnswerLost
  <2>2. Claim(listed.schedule, listed.next_run, j)
    BY <2>1, ClaimEffect
  <2>3. listed.schedule \in ScheduleIds /\ listed.next_run \in Nat /\ now \in 0..MaxTime
    BY DEF TypeOK, PassesOK, Listing
  <2>4. listed.next_run \in 0..MaxTime
    BY <2>2, <2>3 DEF Claim
  <2> QED BY <2>2, <2>3, <2>4
<1>5. ASSUME NEW c \in Passes, DispatchJob(c)
      PROVE  NoClaim
  <2>1. PICK j \in ManualJobIds : enqueue_job(j)
    BY <1>5 DEF DispatchJob
  <2>2. schedule_record' = schedule_record
    BY <1>5 DEF DispatchJob
  <2> QED BY <2>1, <2>2 DEF enqueue_job, Insert, NoClaim
<1>6. ASSUME NEW c \in Passes, SeedingCallCommits(c) \/ SeedingCallFails(c)
      PROVE  NoClaim
  <2>1. UNCHANGED schedule_record
    BY <1>6 DEF SeedingCallCommits, SeedingCallFails
  <2>2. UNCHANGED job_record \/ transition_job(current[c], "completed")
    BY <1>6 DEF SeedingCallCommits, SeedingCallFails
  <2>3. CASE transition_job(current[c], "completed")
    BY <2>1, <2>3, StatusIsNoClaim DEF transition_job
  <2> QED BY <1>1, <2>1, <2>2, <2>3 DEF NoClaim
<1>7. ASSUME NEW c \in Passes, ListDue(c) \/ EndPass(c) \/ PassDies(c)
      PROVE  UNCHANGED <<schedule_record, job_record>>
  BY <1>7 DEF ListDue, EndPass, PassDies
<1>8. ASSUME NEW c \in Passes, NEW listed \in due[c], SkipSchedule(c, listed)
      PROVE  UNCHANGED <<schedule_record, job_record>>
  BY <1>8 DEF SkipSchedule
<1> QED BY <1>1, <1>2, <1>3, <1>4, <1>5, <1>6, <1>7, <1>8
        DEF Next, Tick, Deploy, PassStep, vars

LEMMA ClaimsNext ==
  ASSUME TypeOK, ClaimsInv, [Next]_vars
  PROVE  ClaimsInv'
<1>1. CASE NoClaim
  BY <1>1 DEF NoClaim, ClaimsInv
<1>2. ASSUME NEW s \in ScheduleIds, NEW t \in 0..MaxTime, NEW j \in JobIds,
             Claim(s, t, j)
      PROVE  ClaimsInv'
  <2>1. /\ now \in Nat
        /\ schedule_record[s].next_run \in Nat
        /\ schedule_record[s].next_run <= now
        /\ schedule_record[s].interval \in Nat
        /\ schedule_record[s].interval >= MinInterval
    BY <1>2 DEF Claim, TypeOK, PassesOK, SchedulesOK, IsTable, ScheduleRecord
  <2>2. schedule_record[s].next_run < schedule_record'[s].next_run
    BY <1>2, <2>1 DEF Claim
  <2> SUFFICES ASSUME NEW i \in DOMAIN job_record',
                      job_record'[i].schedule # NONE
               PROVE  LET z == job_record'[i].schedule IN
                      /\ i \in JobIds
                      /\ z \in DOMAIN schedule_record'
                      /\ job_record'[i].created + MinInterval
                           <= schedule_record'[z].next_run
                      /\ job_record'[i].occurrence \in 0..MaxTime
                      /\ job_record'[i].occurrence < schedule_record'[z].next_run
    BY DEF ClaimsInv
  <2>3. CASE i = j
    BY <1>2, <2>1, <2>3 DEF Claim
  <2>4. CASE i # j
    <3>1. /\ i \in DOMAIN job_record
          /\ job_record'[i] = job_record[i]
      BY <1>2, <2>4 DEF Claim
    <3>2. job_record[i].created \in Nat
      BY <3>1 DEF TypeOK, JobsOK, IsTable, JobRecord
    <3> DEFINE z == job_record[i].schedule
    <3>3. /\ i \in JobIds
          /\ z \in DOMAIN schedule_record
          /\ job_record[i].created + MinInterval <= schedule_record[z].next_run
          /\ job_record[i].occurrence \in 0..MaxTime
          /\ job_record[i].occurrence < schedule_record[z].next_run
      BY <3>1 DEF ClaimsInv
    <3>4. /\ z \in DOMAIN schedule_record'
          /\ schedule_record[z].next_run \in Nat
          /\ schedule_record'[z].next_run \in Nat
          /\ schedule_record[z].next_run <= schedule_record'[z].next_run
      BY <1>2, <2>1, <2>2, <3>3 DEF Claim, TypeOK, SchedulesOK, IsTable, ScheduleRecord
    <3> HIDE DEF z
    <3>5. /\ job_record[i].created + MinInterval <= schedule_record'[z].next_run
          /\ job_record[i].occurrence < schedule_record'[z].next_run
      BY <3>2, <3>3, <3>4
    <3> QED BY <3>1, <3>3, <3>4, <3>5 DEF z
  <2> QED BY <2>3, <2>4
<1> QED BY <1>1, <1>2, ClaimOrNone

LEMMA ClaimsAlways == Spec => []ClaimsInv
<1>1. Init => ClaimsInv
  BY DEF Init, EmptyTable, ClaimsInv
<1> QED BY <1>1, ClaimsNext, TypeCorrect, PTL DEF Spec

LEMMA SpacedNext ==
  ASSUME TypeOK, ClaimsInv, JobsAreSpaced, [Next]_vars
  PROVE  JobsAreSpaced'
<1>1. CASE NoClaim
  BY <1>1 DEF NoClaim, JobsAreSpaced, ScheduledJobs, JobIdsAssumption
<1>2. ASSUME NEW s \in ScheduleIds, NEW t \in 0..MaxTime, NEW j \in JobIds,
             Claim(s, t, j)
      PROVE  JobsAreSpaced'
  <2>1. ASSUME NEW i \in DOMAIN job_record, job_record[i].schedule = s
        PROVE  job_record[i].created + MinInterval <= now
    <3>1. /\ job_record[i].created + MinInterval <= schedule_record[s].next_run
          /\ schedule_record[s].next_run <= now
      BY <1>2, <2>1 DEF ClaimsInv, Claim
    <3>2. /\ job_record[i].created \in Nat
          /\ schedule_record[s].next_run \in Nat
          /\ now \in Nat
      BY <1>2 DEF Claim, TypeOK, JobsOK, SchedulesOK, PassesOK, IsTable, JobRecord,
                  ScheduleRecord
    <3> QED BY <3>1, <3>2
  <2> SUFFICES ASSUME NEW z \in ScheduleIds,
                      NEW a \in DOMAIN job_record', NEW b \in DOMAIN job_record',
                      job_record'[a].schedule = z, job_record'[b].schedule = z, a # b
               PROVE  \/ job_record'[a].created + MinInterval <= job_record'[b].created
                      \/ job_record'[b].created + MinInterval <= job_record'[a].created
    BY DEF JobsAreSpaced, ScheduledJobs
  <2>2. CASE a # j /\ b # j
    BY <1>2, <2>2 DEF Claim, JobsAreSpaced, ScheduledJobs
  <2>3. CASE a = j
    BY <1>2, <2>1, <2>3 DEF Claim
  <2>4. CASE b = j
    BY <1>2, <2>1, <2>4 DEF Claim
  <2> QED BY <2>2, <2>3, <2>4
<1> QED BY <1>1, <1>2, ClaimOrNone

\* However many passes hold old listings and whatever their clocks say, two
\* jobs of one schedule are an interval apart.
THEOREM SpacedHold == Spec => []JobsAreSpaced
<1>1. Init => JobsAreSpaced
  BY DEF Init, EmptyTable, JobsAreSpaced, ScheduledJobs
<1> QED BY <1>1, SpacedNext, TypeCorrect, ClaimsAlways, PTL DEF Spec

\* Due times move only with the creation of the job that serves them.
THEOREM DueTimesHold == Spec => DueTimeMovesWithAJob
<1> DEFINE Moves ==
      \A s \in DOMAIN schedule_record :
        schedule_record'[s].next_run # schedule_record[s].next_run =>
          \E j \in DOMAIN job_record' \ DOMAIN job_record :
            /\ job_record'[j].schedule = s
            /\ schedule_record'[s].last_job = j
            /\ schedule_record'[s].next_run = now + schedule_record[s].interval
<1>1. TypeOK /\ [Next]_vars => [Moves]_vars
  <2> SUFFICES ASSUME TypeOK, [Next]_vars PROVE Moves
    OBVIOUS
  <2>1. CASE NoClaim
    BY <2>1 DEF NoClaim
  <2>2. ASSUME NEW s \in ScheduleIds, NEW t \in 0..MaxTime, NEW j \in JobIds,
               Claim(s, t, j)
        PROVE  Moves
    BY <2>2 DEF Claim
  <2> QED BY <2>1, <2>2, ClaimOrNone
<1> QED BY <1>1, TypeCorrect, PTL DEF Spec, DueTimeMovesWithAJob

\* The passes implement the ledger of occurrences: a claim is a dispatch of an
\* occurrence that is not in it, and every other step leaves it alone.
THEOREM LedgerHolds == Spec => DispatchedOnce
<1>1. Init => Ledger!Init
  BY DEF Init, EmptyTable, Claims, Ledger!Init
<1>2. TypeOK /\ ClaimsInv /\ [Next]_vars => [Ledger!Next]_Claims
  <2> SUFFICES ASSUME TypeOK, ClaimsInv, [Next]_vars
               PROVE  Ledger!Next \/ UNCHANGED Claims
    OBVIOUS
  <2>1. CASE NoClaim
    BY <2>1 DEF NoClaim, Claims
  <2>2. ASSUME NEW s \in ScheduleIds, NEW t \in 0..MaxTime, NEW j \in JobIds,
               Claim(s, t, j)
        PROVE  Ledger!Dispatch(s, t, j)
    <3>1. ASSUME NEW i \in DOMAIN job_record, job_record[i].schedule # NONE
          PROVE  i # j /\ (job_record[i].schedule # s \/ job_record[i].occurrence # t)
      BY <2>2, <3>1 DEF Claim, ClaimsInv, TypeOK, SchedulesOK, IsTable, ScheduleRecord
    <3>2. Claims' = Claims \cup {<<s, t, j>>}
      BY <2>2 DEF Claim, Claims
    <3> QED BY <3>1, <3>2 DEF Ledger!Dispatch, Claims
  <2> QED BY <2>1, <2>2, ClaimOrNone DEF Ledger!Next
<1> QED BY <1>1, <1>2, TypeCorrect, ClaimsAlways, PTL
        DEF Spec, DispatchedOnce, Ledger!Spec

-----------------------------------------------------------------------------
(* Seeding.                                                                *)

\* Only the seventh call is complete_job.
LEMMA CompletionIsLast ==
  ASSUME NEW n \in 1..7, SeedingCalls[n] = "complete_job"
  PROVE  n = 7
BY DEF SeedingCalls

\* A job that a step creates or completes is planned if it is completed, and
\* the others keep their status and their progress.
LEMMA PlannedAfterNewJob ==
  ASSUME CompletedJobsArePlanned, NEW j, j \notin DOMAIN job_record,
         NEW row, row.status = "queued", job_record' = Insert(job_record, j, row),
         progress' = [progress EXCEPT ![j] = 0]
  PROVE  CompletedJobsArePlanned'
BY DEF CompletedJobsArePlanned, Insert

LEMMA PlannedAfterCall ==
  ASSUME TypeOK, CompletedJobsArePlanned, NEW c \in Passes,
         SeedingCallCommits(c) \/ SeedingCallFails(c)
  PROVE  CompletedJobsArePlanned'
<1> DEFINE j == current[c]
<1>1. /\ j \in AllJobIds
      /\ progress \in [AllJobIds -> Int]
      /\ progress[j] \in 0..6
  BY SevenCalls DEF TypeOK, SeedingCallCommits, SeedingCallFails, SeedingOK, PassesOK,
                    AllJobIds
<1>2. \A i \in DOMAIN job_record : i \in AllJobIds
  BY DEF TypeOK, JobsOK, IsTable
<1>3. CASE UNCHANGED <<progress, job_record>>
  BY <1>3 DEF CompletedJobsArePlanned
<1>4. CASE /\ progress' = [progress EXCEPT ![j] = @ + 1]
           /\ UNCHANGED job_record
  BY <1>1, <1>2, <1>4 DEF CompletedJobsArePlanned
<1>5. CASE /\ progress' = [progress EXCEPT ![j] = @ + 1]
           /\ SeedingCalls[progress'[j]] = "complete_job"
           /\ transition_job(j, "completed")
  <2>1. progress'[j] \in 1..7
    BY <1>1, <1>5
  <2>2. progress'[j] = 7
    BY <2>1, <1>5, CompletionIsLast
  <2>3. \A i \in DOMAIN job_record : i # j => progress'[i] = progress[i]
    BY <1>1, <1>2, <1>5
  <2>4. \A i \in DOMAIN job_record' :
          /\ i \in DOMAIN job_record
          /\ i # j => job_record'[i] = job_record[i]
    BY <1>5 DEF transition_job
  <2> QED BY <2>2, <2>3, <2>4 DEF CompletedJobsArePlanned
<1> QED BY <1>3, <1>4, <1>5 DEF SeedingCallCommits, SeedingCallFails

\* A job reported completed has a plan step, however many passes, jobs,
\* failures and deaths there are.
THEOREM JobsArePlanned == Spec => []CompletedJobsArePlanned
<1>1. Init => CompletedJobsArePlanned
  BY DEF Init, EmptyTable, CompletedJobsArePlanned
<1>2. ASSUME TypeOK, CompletedJobsArePlanned, [Next]_vars
      PROVE  CompletedJobsArePlanned'
  <2>1. CASE Tick \/ SyncCatalog \/ Deploy \/ UNCHANGED vars
    BY <1>2, <2>1 DEF Tick, SyncCatalog, Deploy, vars, CompletedJobsArePlanned
  <2>2. CASE ReportJob
    <3>1. PICK j \in AllJobIds : start_job(j) \/ transition_job(j, "failed")
      BY <2>2 DEF ReportJob
    <3>2. progress' = progress
      BY <2>2 DEF ReportJob
    <3>3. PICK status \in {"running", "failed"} :
            job_record' = [job_record EXCEPT ![j].status = status]
      BY <3>1 DEF start_job, transition_job
    <3>4. \A i \in DOMAIN job_record' :
            /\ i \in DOMAIN job_record
            /\ job_record'[i].status = "completed" =>
                 job_record[i].status = "completed"
      BY <1>2, <3>3 DEF TypeOK, JobsOK, IsTable, JobRecord
    <3> QED BY <1>2, <3>2, <3>4 DEF CompletedJobsArePlanned
  <2>3. ASSUME NEW c \in Passes, ListDue(c) \/ PassDies(c) \/ EndPass(c)
        PROVE  CompletedJobsArePlanned'
    BY <1>2, <2>3 DEF ListDue, PassDies, EndPass, CompletedJobsArePlanned
  <2>4. ASSUME NEW c \in Passes, DispatchJob(c)
        PROVE  CompletedJobsArePlanned'
    BY <1>2, <2>4, PlannedAfterNewJob DEF DispatchJob, enqueue_job, StartSeeding
  <2>5. ASSUME NEW c \in Passes, NEW listed \in due[c], SkipSchedule(c, listed)
        PROVE  CompletedJobsArePlanned'
    BY <1>2, <2>5 DEF SkipSchedule, CompletedJobsArePlanned
  <2>6. ASSUME NEW c \in Passes, NEW listed \in due[c],
               ClaimCommits(c, listed) \/ ClaimAnswerLost(c, listed)
        PROVE  CompletedJobsArePlanned'
    BY <1>2, <2>6, PlannedAfterNewJob
       DEF ClaimCommits, ClaimAnswerLost, claim_schedule_run, record_claim, StartSeeding
  <2>7. ASSUME NEW c \in Passes, SeedingCallCommits(c) \/ SeedingCallFails(c)
        PROVE  CompletedJobsArePlanned'
    BY <1>2, <2>7, PlannedAfterCall
  <2> QED BY <1>2, <2>1, <2>2, <2>3, <2>4, <2>5, <2>6, <2>7 DEF Next, PassStep
<1> QED BY <1>1, <1>2, TypeCorrect, PTL DEF Spec
=============================================================================
