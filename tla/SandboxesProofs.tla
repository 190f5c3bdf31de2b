-------------------------- MODULE SandboxesProofs --------------------------
(* For any number of sandboxes, requests and faults: the tables keep their   *)
(* types, a deleted sandbox stays deleted, and every machine that nobody can *)
(* find, every place of the limit that is lost, was paid for with a fault.   *)
EXTENDS Sandboxes, TLAPS, FiniteSetTheorems

\* An image that is about to be recorded has an id.
Recording == \A w \in Workers : At(w, "record") => work[w].snap \in Snapshots

DeliveryCalls == {"take", "record", "revive", "halt", "rest"}

\* A delivery is a sleep and makes the calls of a sleep; there is a machine
\* behind it.
Deliveries ==
  \A s \in Sandbox :
    /\ work[s].at \in {"idle"} \cup DeliveryCalls \cup Ended
    /\ work[s].at \in DeliveryCalls => work[s].op = "sleep"
    /\ work[s].at # "idle" => machine[s] # "none"

\* Whoever speaks of a sandbox speaks of a machine that was started.
MachinesKnown ==
  \A s \in Sandbox :
    (HasRow(s) \/ mail[s] > 0 \/ s \in pass.todo \/ \E w \in Workers : work[w].id = s)
      => machine[s] # "none"

\* A row that says creating belongs to a request that got past that call.
PendingRows ==
  \A r \in Requests :
    StatusIn(r, {"creating"}) => work[r].at \in {"boot", "mark", "unpend", "insert"} \cup Ended

IInv == TypeOK /\ Recording /\ Deliveries /\ MachinesKnown /\ PendingRows
-----------------------------------------------------------------------------
(* What the helpers of the model do.                                       *)

LEMMA GoFacts ==
  ASSUME TypeOK, NEW w \in Workers, NEW at \in Calls \cup Ended, Go(w, at)
  PROVE  /\ work' \in [Workers -> Work]
         /\ \A v \in Workers : v # w => work'[v] = work[v]
         /\ work'[w].at = at
         /\ at \in Ended => work'[w].id = NONE
         /\ at \notin Ended => /\ work'[w].id = work[w].id
                               /\ work'[w].snap = work[w].snap
                               /\ work'[w].op = work[w].op
<1>1. work[w] \in Work /\ Idle \in Work
  BY DEF TypeOK, Idle, Work
<1> DEFINE new == [(IF at \in Ended THEN Idle ELSE work[w]) EXCEPT !.at = at]
<1>2. new \in Work /\ new.at = at
      /\ (at \in Ended => new.id = NONE)
      /\ (at \notin Ended => new.id = work[w].id /\ new.snap = work[w].snap /\ new.op = work[w].op)
  <2>1. CASE at \in Ended
    BY <1>1, <2>1 DEF Idle, Work
  <2>2. CASE at \notin Ended
    BY <1>1, <2>2 DEF Work
  <2> QED BY <2>1, <2>2
<1>3. work' = [work EXCEPT ![w] = new]
  BY DEF Go
<1> HIDE DEF new
<1> QED BY <1>2, <1>3 DEF TypeOK

LEMMA StartFacts ==
  ASSUME TypeOK, NEW w \in Workers, NEW s \in Sandbox,
         NEW at \in {"unpend", "mark", "insert"}, Start(w, s, at)
  PROVE  /\ work' \in [Workers -> Work]
         /\ \A v \in Workers : v # w => work'[v] = work[v]
         /\ work'[w].at = at /\ work'[w].id = s
         /\ machine[s] = "none" /\ machine'[s] = "up"
         /\ machine' \in [Sandbox -> {"none", "up", "down"}]
         /\ \A t \in Sandbox : t # s => machine'[t] = machine[t]
         /\ UNCHANGED image
<1>1. work[w] \in Work
  BY DEF TypeOK
<1> QED BY <1>1 DEF TypeOK, Start, Work, Calls

LEMMA CreateFacts ==
  ASSUME TypeOK, NEW id \in Ids, NEW status \in SandboxStatus, create_sandbox(id, status)
  PROVE  /\ sandbox_instance' \in [Ids -> SandboxRow \cup {NONE}]
         /\ sandbox_instance'[id].status = status /\ HasRow(id)' /\ ~HasRow(id)
         /\ \A i \in Ids : i # id => sandbox_instance'[i] = sandbox_instance[i]
         /\ fresh' \subseteq Sandbox
         /\ UNCHANGED sandbox_snapshot
<1>1. [status |-> status, snapshot |-> NONE] \in SandboxRow
  BY DEF SandboxRow
<1> QED BY <1>1, DistinctIds DEF TypeOK, create_sandbox, Touch, HasRow

LEMMA DeleteFacts ==
  ASSUME TypeOK, NEW id \in Ids \cup {NONE}, delete_sandbox(id)
  PROVE  /\ sandbox_instance' \in [Ids -> SandboxRow \cup {NONE}]
         /\ id \in Ids => sandbox_instance'[id] = NONE
         /\ \A i \in Ids : i # id => sandbox_instance'[i] = sandbox_instance[i]
         /\ fresh' \subseteq Sandbox
         /\ UNCHANGED sandbox_snapshot
BY DEF TypeOK, delete_sandbox, HasRow

\* A status written is a row changed, never a row made or unmade.
LEMMA UpdateFacts ==
  ASSUME TypeOK, NEW id \in Ids \cup {NONE}, NEW status \in SandboxStatus,
         updateSandboxStatus(id, status)
  PROVE  /\ sandbox_instance' \in [Ids -> SandboxRow \cup {NONE}]
         /\ \A i \in Ids : HasRow(i)' <=> HasRow(i)
         /\ \A i \in Ids : i # id => sandbox_instance'[i] = sandbox_instance[i]
         /\ faults' = faults => \A i \in Ids :
              i = id /\ HasRow(i) => sandbox_instance'[i].status = status
         /\ fresh' \subseteq Sandbox
         /\ UNCHANGED sandbox_snapshot
         /\ faults' \in 0..MaxFaults /\ (faults' = faults \/ faults' = faults + 1)
         /\ faults' = faults \/ UNCHANGED sandbox_instance
<1>1. faults' \in 0..MaxFaults /\ (faults' = faults \/ faults' = faults + 1)
      /\ (faults' = faults => update_sandbox_status(id, status))
      /\ (faults' # faults => UNCHANGED tables)
      /\ faults + 1 # faults
  BY BoundsAreNumbers DEF updateSandboxStatus, Succeeds, Fails, TypeOK
<1>2. CASE update_sandbox_status(id, status) /\ id \in Ids /\ HasRow(id)
  <2>1. sandbox_instance[id] \in SandboxRow
    BY <1>2 DEF TypeOK, HasRow
  <2> DEFINE new == [sandbox_instance[id] EXCEPT !.status = status]
  <2>2. new \in SandboxRow /\ new.status = status
    BY <2>1 DEF SandboxRow
  <2>3. sandbox_instance' = [sandbox_instance EXCEPT ![id] = new]
    BY <1>2 DEF update_sandbox_status
  <2>4. fresh' \subseteq Sandbox /\ UNCHANGED sandbox_snapshot
    BY <1>2 DEF update_sandbox_status, Touch, TypeOK
  <2> HIDE DEF new
  <2> QED BY <1>1, <1>2, <2>1, <2>2, <2>3, <2>4, DistinctIds DEF TypeOK, HasRow, tables
<1>3. CASE update_sandbox_status(id, status) /\ (id \in Ids => ~HasRow(id))
  <2>1. id \notin Ids => [sandbox_instance EXCEPT ![id].status = status] = sandbox_instance
    BY DEF TypeOK
  <2>2. UNCHANGED <<sandbox_instance, sandbox_snapshot>> /\ fresh' \subseteq Sandbox
    BY <1>3, <2>1 DEF update_sandbox_status, tables, Touch, TypeOK
  <2>3. \A i \in Ids : HasRow(i)' <=> HasRow(i)
    BY <2>2 DEF HasRow
  <2> QED BY <1>1, <1>3, <2>2, <2>3 DEF TypeOK, HasRow
<1>4. CASE faults' # faults
  BY <1>1, <1>4 DEF TypeOK, HasRow, tables
<1> QED BY <1>1, <1>2, <1>3, <1>4

LEMMA SnapshotFacts ==
  ASSUME TypeOK, NEW id \in Ids \cup {NONE}, NEW n \in Snapshots, create_sandbox_snapshot(n, id)
  PROVE  /\ sandbox_instance' \in [Ids -> SandboxRow \cup {NONE}]
         /\ \A i \in Ids : HasRow(i)' <=> HasRow(i)
         /\ \A i \in Ids : i # id => sandbox_instance'[i] = sandbox_instance[i]
         /\ fresh' \subseteq Sandbox
         /\ sandbox_snapshot' \subseteq Snapshots
<1>1. CASE id \in Ids /\ HasRow(id)
  <2>1. sandbox_instance[id] \in SandboxRow
    BY <1>1 DEF TypeOK, HasRow
  <2> DEFINE new == [sandbox_instance[id] EXCEPT !.snapshot = n]
  <2>2. new \in SandboxRow
    BY <2>1 DEF SandboxRow
  <2>3. sandbox_instance' = [sandbox_instance EXCEPT ![id] = new]
    BY <1>1 DEF create_sandbox_snapshot
  <2>4. fresh' \subseteq Sandbox /\ sandbox_snapshot' \subseteq Snapshots
    BY <1>1 DEF create_sandbox_snapshot, Touch, TypeOK
  <2> HIDE DEF new
  <2> QED BY <1>1, <2>1, <2>2, <2>3, <2>4, DistinctIds DEF TypeOK, HasRow
<1>2. CASE ~(id \in Ids /\ HasRow(id))
  <2>1. id \notin Ids => [sandbox_instance EXCEPT ![id].snapshot = n] = sandbox_instance
    BY DEF TypeOK
  <2>2. UNCHANGED sandbox_instance /\ fresh' \subseteq Sandbox /\ sandbox_snapshot' \subseteq Snapshots
    BY <1>2, <2>1 DEF create_sandbox_snapshot, Touch, TypeOK
  <2> QED BY <1>2, <2>2 DEF TypeOK, HasRow
<1> QED BY <1>1, <1>2
-----------------------------------------------------------------------------
(* What every step of a handler keeps to.                                  *)

\* Nobody stops being a machine, and nothing but a creation makes a row.
KeepsData ==
  /\ sandbox_instance' \in [Ids -> SandboxRow \cup {NONE}]
  /\ sandbox_snapshot' \subseteq Snapshots
  /\ machine' \in [Sandbox -> {"none", "up", "down"}]
  /\ image' \in [Snapshots -> Sandbox \cup {NONE}]
  /\ fresh' \subseteq Sandbox
  /\ faults' \in 0..MaxFaults
  /\ UNCHANGED <<mail, pass>>
  /\ \A s \in Sandbox : machine[s] # "none" => machine'[s] # "none"
  /\ \A s \in Sandbox : HasRow(s)' => HasRow(s) \/ Expected(s)

\* Nobody else's work is touched; a delivery goes on as a sleep does, and a
\* pending row stays with its request.
KeepsWork(w) ==
  /\ work' \in [Workers -> Work]
  /\ \A v \in Workers : v # w => work'[v] = work[v]
  /\ \A s \in Sandbox : work'[w].id = s => machine'[s] # "none"
  /\ work'[w].at = "record" => work'[w].snap \in Snapshots
  /\ w \in Sandbox => /\ work[w].at # "idle"
                      /\ work'[w].at \in DeliveryCalls \cup Ended
                      /\ work'[w].at \in DeliveryCalls => work'[w].op = "sleep"
  /\ \A r \in Requests : StatusIn(r, {"creating"})' =>
       work'[r].at \in {"boot", "mark", "unpend", "insert"} \cup Ended

Keeps(w) == KeepsData /\ KeepsWork(w)

LEMMA KeepsIInv ==
  ASSUME IInv, NEW w \in Workers, Keeps(w)
  PROVE  IInv'
<1> USE DEF IInv
<1>1. TypeOK'
  BY DEF TypeOK, Keeps, KeepsData, KeepsWork
<1>2. Recording'
  BY DEF Recording, Keeps, KeepsWork, At
<1>3. Deliveries'
  BY DEF Deliveries, Keeps, KeepsData, KeepsWork, Workers
<1>4. MachinesKnown'
  <2> SUFFICES ASSUME NEW s \in Sandbox,
                      (HasRow(s) \/ mail[s] > 0 \/ s \in pass.todo
                        \/ \E v \in Workers : work[v].id = s)'
               PROVE  machine'[s] # "none"
    BY DEF MachinesKnown
  <2>1. CASE HasRow(s)'
    <3>1. HasRow(s) \/ Expected(s)
      BY <2>1 DEF Keeps, KeepsData
    <3>2. Expected(s) => \E v \in Workers : work[v].id = s
      BY DEF Expected, Workers
    <3> QED BY <3>1, <3>2 DEF MachinesKnown, Keeps, KeepsData, KeepsWork
  <2>2. CASE mail'[s] > 0 \/ s \in pass'.todo
    BY <2>2 DEF MachinesKnown, Keeps, KeepsData, KeepsWork
  <2>3. ASSUME NEW v \in Workers, work'[v].id = s
        PROVE  machine'[s] # "none"
    BY <2>3 DEF MachinesKnown, Keeps, KeepsData, KeepsWork
  <2> QED BY <2>1, <2>2, <2>3
<1>5. PendingRows'
  BY DEF PendingRows, Keeps, KeepsWork
<1> QED BY <1>1, <1>2, <1>3, <1>4, <1>5

\* A step that leaves the tables and the provider alone.
LEMMA GoKeeps ==
  ASSUME IInv, NEW w \in Workers, NEW at \in (Calls \ {"record"}) \cup Ended, Go(w, at),
         work[w].at \in Calls,
         w \in Sandbox => at \in DeliveryCalls \cup Ended,
         w \in Requests /\ StatusIn(w, {"creating"})' =>
           at \in {"boot", "mark", "unpend", "insert"} \cup Ended,
         \A r \in Requests : r # w => sandbox_instance'[r] = sandbox_instance[r],
         \A s \in Sandbox : HasRow(s)' => HasRow(s) \/ Expected(s),
         sandbox_instance' \in [Ids -> SandboxRow \cup {NONE}],
         sandbox_snapshot' \subseteq Snapshots,
         machine' \in [Sandbox -> {"none", "up", "down"}],
         \A s \in Sandbox : machine[s] # "none" => machine'[s] # "none",
         fresh' \subseteq Sandbox,
         UNCHANGED <<image, mail, pass>>,
         faults' = faults \/ Fails
  PROVE  Keeps(w)
<1> USE DEF IInv
<1>1. faults' \in 0..MaxFaults
  BY BoundsAreNumbers DEF TypeOK, Fails
<1>2. /\ work' \in [Workers -> Work]
      /\ \A v \in Workers : v # w => work'[v] = work[v]
      /\ work'[w].at = at
      /\ at \in Ended => work'[w].id = NONE
      /\ at \notin Ended => work'[w].id = work[w].id /\ work'[w].op = work[w].op
  BY GoFacts
<1>3. \A s \in Sandbox : work'[w].id = s => machine'[s] # "none"
  BY <1>2, DistinctIds DEF MachinesKnown
<1>4. w \in Sandbox => /\ work[w].at # "idle"
                       /\ work'[w].at \in DeliveryCalls \cup Ended
                       /\ work'[w].at \in DeliveryCalls => work'[w].op = "sleep"
  <2>1. work[w].at \notin {"idle"} \cup Ended
    BY DEF Calls, Ended
  <2>2. w \in Sandbox => work[w].op = "sleep"
    BY <2>1 DEF Deliveries
  <2>3. at \in DeliveryCalls => at \notin Ended
    BY DEF Ended, DeliveryCalls
  <2> QED BY <1>2, <2>1, <2>2, <2>3
<1>5. \A r \in Requests : StatusIn(r, {"creating"})' =>
        work'[r].at \in {"boot", "mark", "unpend", "insert"} \cup Ended
  BY <1>2 DEF PendingRows, StatusIn, HasRow, Workers
<1>6. work'[w].at # "record"
  BY <1>2 DEF Ended
<1>7. image' \in [Snapshots -> Sandbox \cup {NONE}]
  BY DEF TypeOK
<1>8. KeepsData
  BY <1>1, <1>7 DEF KeepsData
<1>9. KeepsWork(w)
  BY <1>2, <1>3, <1>4, <1>5, <1>6 DEF KeepsWork
<1> QED BY <1>8, <1>9 DEF Keeps
-----------------------------------------------------------------------------
(* Each call of a handler keeps to it.                                     *)

LEMMA OnlyRequests ==
  ASSUME IInv, NEW w \in Workers, work[w].at \in Calls \ DeliveryCalls
  PROVE  w \in Requests /\ w \notin Sandbox
BY DistinctIds DEF IInv, Deliveries, Workers, Calls, DeliveryCalls, Ended

LEMMA TheirIds ==
  ASSUME IInv, NEW w \in Workers
  PROVE  /\ work[w].id \in Sandbox \cup {NONE}
         /\ work[w].id \in Ids \cup {NONE}
         /\ work[w].id \notin Requests
BY DistinctIds DEF IInv, TypeOK, Work, Ids

\* A step of a handler that only goes on.
LEMMA QuietKeeps ==
  ASSUME IInv, NEW w \in Workers, NEW at \in (Calls \ {"record"}) \cup Ended, Go(w, at),
         work[w].at \in Calls,
         work[w].at \in {"boot", "mark", "unpend", "insert"} =>
           at \in {"boot", "mark", "unpend", "insert"} \cup Ended,
         w \in Sandbox => at \in DeliveryCalls \cup Ended,
         UNCHANGED <<sandbox_instance, sandbox_snapshot, fresh, image, mail, pass>>,
         machine' \in [Sandbox -> {"none", "up", "down"}],
         \A s \in Sandbox : machine[s] # "none" => machine'[s] # "none",
         faults' = faults \/ Fails
  PROVE  Keeps(w)
<1>1. w \in Requests /\ StatusIn(w, {"creating"})' =>
        at \in {"boot", "mark", "unpend", "insert"} \cup Ended
  BY DEF IInv, PendingRows, StatusIn, HasRow, Calls, Ended
<1>2. \A s \in Sandbox : HasRow(s)' => HasRow(s) \/ Expected(s)
  BY DEF HasRow
<1>3. /\ sandbox_instance' \in [Ids -> SandboxRow \cup {NONE}]
      /\ sandbox_snapshot' \subseteq Snapshots
      /\ fresh' \subseteq Sandbox
  BY DEF IInv, TypeOK
<1> QED BY <1>1, <1>2, <1>3, GoKeeps

\* A step that writes a status of its sandbox and goes on.
LEMMA UpdateKeeps ==
  ASSUME IInv, NEW w \in Workers, NEW at \in (Calls \ {"record"}) \cup Ended, Go(w, at),
         work[w].at \in Calls \ {"boot", "mark", "unpend", "insert"},
         w \in Sandbox => at \in DeliveryCalls \cup Ended,
         NEW status \in SandboxStatus, updateSandboxStatus(work[w].id, status),
         UNCHANGED <<machine, image, mail, pass>>
  PROVE  Keeps(w)
<1> DEFINE id == work[w].id
<1>1. id \in Ids \cup {NONE} /\ id \notin Requests
  BY TheirIds
<1>2. updateSandboxStatus(id, status)
  OBVIOUS
<1> HIDE DEF id
<1>3. /\ sandbox_instance' \in [Ids -> SandboxRow \cup {NONE}]
      /\ \A i \in Ids : HasRow(i)' <=> HasRow(i)
      /\ \A i \in Ids : i # id => sandbox_instance'[i] = sandbox_instance[i]
      /\ fresh' \subseteq Sandbox
      /\ UNCHANGED sandbox_snapshot
  BY <1>1, <1>2, UpdateFacts DEF IInv
<1>4. faults' = faults \/ Fails
  BY <1>2 DEF updateSandboxStatus, Succeeds
<1>5. \A r \in Requests : sandbox_instance'[r] = sandbox_instance[r]
  BY <1>1, <1>3 DEF Ids
<1>6. w \in Requests /\ StatusIn(w, {"creating"})' =>
        at \in {"boot", "mark", "unpend", "insert"} \cup Ended
  BY <1>5 DEF IInv, PendingRows, StatusIn, HasRow, Calls, Ended
<1>7. \A s \in Sandbox : HasRow(s)' => HasRow(s) \/ Expected(s)
  BY <1>3 DEF Ids
<1>8. sandbox_snapshot' \subseteq Snapshots /\ machine' \in [Sandbox -> {"none", "up", "down"}]
  BY <1>3 DEF IInv, TypeOK
<1> QED BY <1>3, <1>4, <1>5, <1>6, <1>7, <1>8, GoKeeps

LEMMA CountKeeps == ASSUME IInv, NEW w \in Workers, Count(w) PROVE Keeps(w)
<1>1. w \notin Sandbox /\ work[w].at = "count"
  BY OnlyRequests DEF Count, At, Calls, DeliveryCalls
<1>2. PICK at \in {"pend", "failed"} : Go(w, at)
  BY DEF Count
<1>3. machine' \in [Sandbox -> {"none", "up", "down"}] /\ faults' = faults
  BY DEF Count, IInv, TypeOK, provider
<1> QED BY <1>1, <1>2, <1>3, QuietKeeps DEF Count, tables, provider, Calls, Ended

LEMMA PendKeeps == ASSUME IInv, NEW w \in Workers, Pend(w) PROVE Keeps(w)
<1>1. w \in Requests /\ w \notin Sandbox /\ work[w].at = "pend" /\ w \in Ids
  BY OnlyRequests DEF Pend, At, Calls, DeliveryCalls, Ids
<1>2. UNCHANGED <<machine, image, mail, pass>>
      /\ machine' \in [Sandbox -> {"none", "up", "down"}]
  BY DEF Pend, provider, IInv, TypeOK
<1>3. CASE Succeeds /\ create_sandbox(w, "creating") /\ Go(w, "boot")
  <2>1. "creating" \in SandboxStatus
    BY DEF SandboxStatus
  <2>2. /\ sandbox_instance' \in [Ids -> SandboxRow \cup {NONE}]
        /\ \A i \in Ids : i # w => sandbox_instance'[i] = sandbox_instance[i]
        /\ fresh' \subseteq Sandbox
        /\ UNCHANGED sandbox_snapshot
    BY <1>1, <1>3, <2>1, CreateFacts DEF IInv
  <2>3. sandbox_snapshot' \subseteq Snapshots /\ faults' = faults
    BY <1>3, <2>2 DEF IInv, TypeOK, Succeeds
  <2>4. \A s \in Sandbox : HasRow(s)' => HasRow(s) \/ Expected(s)
    BY <1>1, <2>2 DEF HasRow, Ids
  <2> QED BY <1>1, <1>2, <1>3, <2>2, <2>3, <2>4, GoKeeps DEF Calls, Ids
<1>4. CASE Fails /\ UNCHANGED tables /\ Go(w, "failed")
  BY <1>1, <1>2, <1>4, QuietKeeps DEF tables, Calls, Ended
<1> QED BY <1>3, <1>4 DEF Pend

\* A machine is started for w: nobody spoke of it before.
LEMMA StartKeeps ==
  ASSUME IInv, NEW w \in Requests, w \notin Sandbox,
         work[w].at \in {"boot", "restore"},
         NEW s \in Sandbox, NEW at \in {"unpend", "mark", "insert"}, Start(w, s, at),
         UNCHANGED <<tables, mail, pass>>,
         faults' = faults \/ Fails
  PROVE  Keeps(w)
<1>0. w \in Workers
  BY DEF Workers
<1>1. /\ work' \in [Workers -> Work]
      /\ \A v \in Workers : v # w => work'[v] = work[v]
      /\ work'[w].at = at /\ work'[w].id = s
      /\ machine[s] = "none" /\ machine'[s] = "up"
      /\ machine' \in [Sandbox -> {"none", "up", "down"}]
      /\ \A t \in Sandbox : t # s => machine'[t] = machine[t]
      /\ UNCHANGED image
  BY <1>0, StartFacts DEF IInv
<1>2. faults' \in 0..MaxFaults
  BY BoundsAreNumbers DEF IInv, TypeOK, Fails
<1>3. KeepsData
  BY <1>1, <1>2 DEF KeepsData, IInv, TypeOK, tables, HasRow
<1>4. \A r \in Requests : StatusIn(r, {"creating"})' =>
        work'[r].at \in {"boot", "mark", "unpend", "insert"} \cup Ended
  BY <1>1 DEF IInv, PendingRows, StatusIn, HasRow, tables, Workers
<1>5. KeepsWork(w)
  BY <1>1, <1>4 DEF KeepsWork
<1> QED BY <1>3, <1>5 DEF Keeps

LEMMA BootKeeps == ASSUME IInv, NEW w \in Workers, Boot(w) PROVE Keeps(w)
<1>1. w \in Requests /\ w \notin Sandbox /\ work[w].at = "boot"
  BY OnlyRequests DEF Boot, At, Calls, DeliveryCalls
<1>2. CASE Succeeds /\ \E s \in Sandbox : Start(w, s, "unpend")
  BY <1>1, <1>2, StartKeeps DEF Boot, Succeeds
<1>3. CASE Fails /\ \E s \in Sandbox : Start(w, s, "mark")
  BY <1>1, <1>3, StartKeeps DEF Boot
<1>4. CASE Refuses(MachinesLeft) /\ UNCHANGED provider /\ Go(w, "mark")
  <2>1. /\ UNCHANGED <<sandbox_instance, sandbox_snapshot, fresh, machine, image, mail, pass>>
        /\ machine' \in [Sandbox -> {"none", "up", "down"}]
        /\ faults' = faults \/ Fails
    BY <1>4 DEF Boot, tables, provider, IInv, TypeOK, Refuses, Succeeds
  <2> QED BY <1>1, <1>4, <2>1, QuietKeeps DEF Calls
<1> QED BY <1>2, <1>3, <1>4 DEF Boot

LEMMA RestoreKeeps == ASSUME IInv, NEW w \in Workers, Restore(w) PROVE Keeps(w)
<1>1. w \in Requests /\ w \notin Sandbox /\ work[w].at = "restore"
  BY OnlyRequests DEF Restore, At, Calls, DeliveryCalls
<1>2. CASE Succeeds /\ \E s \in Sandbox : Start(w, s, "insert")
  BY <1>1, <1>2, StartKeeps DEF Restore, Succeeds
<1>3. CASE Refuses(MachinesLeft) /\ UNCHANGED provider /\ Go(w, "failed")
  <2>1. /\ UNCHANGED <<sandbox_instance, sandbox_snapshot, fresh, machine, image, mail, pass>>
        /\ machine' \in [Sandbox -> {"none", "up", "down"}]
        /\ faults' = faults \/ Fails
    BY <1>3 DEF Restore, tables, provider, IInv, TypeOK, Refuses, Succeeds
  <2> QED BY <1>1, <1>3, <2>1, QuietKeeps DEF Calls, Ended
<1> QED BY <1>2, <1>3 DEF Restore

LEMMA MarkKeeps == ASSUME IInv, NEW w \in Workers, Mark(w) PROVE Keeps(w)
<1>1. w \in Requests /\ w \notin Sandbox /\ work[w].at = "mark" /\ w \in Ids
  BY OnlyRequests DEF Mark, At, Calls, DeliveryCalls, Ids
<1>2. "error" \in SandboxStatus /\ updateSandboxStatus(w, "error") /\ Go(w, "failed")
  BY DEF Mark, SandboxStatus
<1>3. /\ sandbox_instance' \in [Ids -> SandboxRow \cup {NONE}]
      /\ \A i \in Ids : HasRow(i)' <=> HasRow(i)
      /\ \A i \in Ids : i # w => sandbox_instance'[i] = sandbox_instance[i]
      /\ fresh' \subseteq Sandbox
      /\ UNCHANGED sandbox_snapshot
  BY <1>1, <1>2, UpdateFacts DEF IInv
<1>4. /\ faults' = faults \/ Fails
      /\ machine' \in [Sandbox -> {"none", "up", "down"}]
      /\ UNCHANGED <<machine, image, mail, pass>>
      /\ sandbox_snapshot' \subseteq Snapshots
  BY <1>3 DEF Mark, updateSandboxStatus, Succeeds, provider, IInv, TypeOK
<1>5. \A s \in Sandbox : HasRow(s)' => HasRow(s) \/ Expected(s)
  BY <1>3 DEF Ids
<1> QED BY <1>1, <1>2, <1>3, <1>4, <1>5, GoKeeps DEF Calls, Ended, Ids

LEMMA UnpendKeeps == ASSUME IInv, NEW w \in Workers, Unpend(w) PROVE Keeps(w)
<1>1. w \in Requests /\ w \notin Sandbox /\ work[w].at = "unpend" /\ w \in Ids
  BY OnlyRequests DEF Unpend, At, Calls, DeliveryCalls, Ids
<1>2. UNCHANGED <<machine, image, mail, pass>> /\ Go(w, "insert")
      /\ machine' \in [Sandbox -> {"none", "up", "down"}]
  BY DEF Unpend, provider, IInv, TypeOK
<1>3. CASE Succeeds /\ delete_sandbox(w)
  <2>1. /\ sandbox_instance' \in [Ids -> SandboxRow \cup {NONE}]
        /\ \A i \in Ids : i # w => sandbox_instance'[i] = sandbox_instance[i]
        /\ fresh' \subseteq Sandbox
        /\ UNCHANGED sandbox_snapshot
    BY <1>1, <1>3, DeleteFacts DEF IInv
  <2>2. sandbox_snapshot' \subseteq Snapshots /\ faults' = faults
    BY <1>3, <2>1 DEF IInv, TypeOK, Succeeds
  <2>3. \A s \in Sandbox : HasRow(s)' => HasRow(s) \/ Expected(s)
    BY <1>1, <2>1 DEF HasRow, Ids
  <2> QED BY <1>1, <1>2, <2>1, <2>2, <2>3, GoKeeps DEF Calls, Ids
<1>4. CASE Fails /\ UNCHANGED tables
  BY <1>1, <1>2, <1>4, QuietKeeps DEF tables, Calls
<1> QED BY <1>3, <1>4 DEF Unpend

LEMMA InsertKeeps == ASSUME IInv, NEW w \in Workers, Insert(w) PROVE Keeps(w)
<1>1. w \in Requests /\ w \notin Sandbox /\ work[w].at = "insert"
  BY OnlyRequests DEF Insert, At, Calls, DeliveryCalls
<1>2. UNCHANGED <<machine, image, mail, pass>>
      /\ machine' \in [Sandbox -> {"none", "up", "down"}]
  BY DEF Insert, provider, IInv, TypeOK
<1>3. CASE Succeeds /\ create_sandbox(work[w].id, "running") /\ Go(w, "done")
  <2> DEFINE id == work[w].id
  <2>1. /\ "running" \in SandboxStatus
        /\ id \in Ids \cup {NONE} /\ id \in Sandbox \cup {NONE} /\ id \notin Requests
    BY TheirIds DEF SandboxStatus
  <2>2. create_sandbox(id, "running")
    BY <1>3
  <2>3. id \in Sandbox => Expected(id)
    BY <1>1 DEF Expected
  <2> HIDE DEF id
  <2>4. /\ sandbox_instance' \in [Ids -> SandboxRow \cup {NONE}]
        /\ \A i \in Ids : i # id => sandbox_instance'[i] = sandbox_instance[i]
        /\ fresh' \subseteq Sandbox
        /\ UNCHANGED sandbox_snapshot
    <3>1. CASE id \in Ids
      BY <2>1, <2>2, <3>1, CreateFacts DEF IInv
    <3>2. CASE id \notin Ids
      BY <2>2, <3>2 DEF create_sandbox, Touch, IInv, TypeOK
    <3> QED BY <3>1, <3>2
  <2>5. sandbox_snapshot' \subseteq Snapshots /\ faults' = faults
    BY <1>3, <2>4 DEF IInv, TypeOK, Succeeds
  <2>6. \A s \in Sandbox : HasRow(s)' => HasRow(s) \/ Expected(s)
    BY <2>3, <2>4 DEF HasRow, Ids
  <2>7. \A r \in Requests : sandbox_instance'[r] = sandbox_instance[r]
    BY <2>1, <2>4 DEF Ids
  <2> QED BY <1>1, <1>2, <1>3, <2>4, <2>5, <2>6, <2>7, GoKeeps DEF Calls, Ended
<1>4. CASE Fails /\ UNCHANGED tables /\ Go(w, "failed")
  BY <1>1, <1>2, <1>4, QuietKeeps DEF tables, Calls, Ended
<1> QED BY <1>3, <1>4 DEF Insert

LEMMA ExecKeeps == ASSUME IInv, NEW w \in Workers, Exec(w) PROVE Keeps(w)
<1>1. w \notin Sandbox /\ work[w].at = "exec"
  BY OnlyRequests DEF Exec, At, Calls, DeliveryCalls
<1>2. PICK at \in {"revive", "failed"} : Go(w, at)
  BY DEF Exec
<1>3. /\ UNCHANGED <<sandbox_instance, sandbox_snapshot, fresh, machine, image, mail, pass>>
      /\ machine' \in [Sandbox -> {"none", "up", "down"}]
      /\ faults' = faults \/ Fails
  BY DEF Exec, tables, provider, IInv, TypeOK, Refuses, Succeeds
<1> QED BY <1>1, <1>2, <1>3, QuietKeeps DEF Calls, Ended

LEMMA TakeKeeps == ASSUME IInv, NEW w \in Workers, Take(w) PROVE Keeps(w)
<1>1. work[w].at = "take" /\ work[w] \in Work
  BY DEF Take, At, IInv, TypeOK
<1>2. UNCHANGED <<sandbox_instance, sandbox_snapshot, fresh, mail, pass>>
  BY DEF Take, tables
<1>3. ASSUME NEW n \in Snapshots, Succeeds,
             image' = [image EXCEPT ![n] = work[w].id],
             work' = [work EXCEPT ![w].at = "record", ![w].snap = n],
             NEW m \in {"up", "down"}, machine' = [machine EXCEPT ![work[w].id] = m]
      PROVE  Keeps(w)
  <2>1. /\ work' \in [Workers -> Work]
        /\ \A v \in Workers : v # w => work'[v] = work[v]
        /\ work'[w].at = "record" /\ work'[w].snap = n
        /\ work'[w].id = work[w].id /\ work'[w].op = work[w].op
    BY <1>1, <1>3 DEF IInv, TypeOK, Work, Calls
  <2>2. /\ machine' \in [Sandbox -> {"none", "up", "down"}]
        /\ \A s \in Sandbox : machine[s] # "none" => machine'[s] # "none"
    BY <1>3 DEF IInv, TypeOK
  <2>3. image' \in [Snapshots -> Sandbox \cup {NONE}]
    BY <1>3, TheirIds DEF IInv, TypeOK
  <2>4. KeepsData
    BY <1>2, <1>3, <2>2, <2>3 DEF KeepsData, IInv, TypeOK, HasRow, Succeeds
  <2>5. \A r \in Requests : StatusIn(r, {"creating"})' =>
          work'[r].at \in {"boot", "mark", "unpend", "insert"} \cup Ended
    <3>1. w \in Requests => ~StatusIn(w, {"creating"})
      BY <1>1 DEF IInv, PendingRows, Ended
    <3> QED BY <1>2, <2>1, <3>1 DEF IInv, PendingRows, StatusIn, HasRow, Workers
  <2>6. \A s \in Sandbox : work'[w].id = s => machine'[s] # "none"
    BY <2>1, <2>2 DEF IInv, MachinesKnown
  <2>7. w \in Sandbox => work[w].op = "sleep"
    BY <1>1 DEF IInv, Deliveries, DeliveryCalls
  <2>8. KeepsWork(w)
    BY <1>1, <2>1, <2>5, <2>6, <2>7 DEF KeepsWork, DeliveryCalls
  <2> QED BY <2>4, <2>8 DEF Keeps
<1>4. CASE Refuses(Up(w) /\ ImagesLeft) /\ Go(w, "failed") /\ UNCHANGED provider
  <2>1. /\ machine' \in [Sandbox -> {"none", "up", "down"}]
        /\ faults' = faults \/ Fails
        /\ UNCHANGED <<machine, image>>
    BY <1>4 DEF provider, IInv, TypeOK, Refuses, Succeeds
  <2> QED BY <1>1, <1>2, <1>4, <2>1, QuietKeeps DEF Calls, Ended
<1> QED BY <1>3, <1>4 DEF Take

LEMMA RecordKeeps == ASSUME IInv, NEW w \in Workers, Record(w) PROVE Keeps(w)
<1>1. work[w].at = "record" /\ work[w].snap \in Snapshots
  BY DEF Record, At, IInv, Recording
<1>2. UNCHANGED <<machine, image, mail, pass>>
      /\ machine' \in [Sandbox -> {"none", "up", "down"}]
  BY DEF Record, provider, IInv, TypeOK
<1>3. CASE Succeeds /\ create_sandbox_snapshot(work[w].snap, work[w].id) /\ Go(w, "revive")
  <2> DEFINE id == work[w].id
             n == work[w].snap
  <2>1. id \in Ids \cup {NONE} /\ id \notin Requests /\ n \in Snapshots
    BY <1>1, TheirIds
  <2>2. create_sandbox_snapshot(n, id)
    BY <1>3
  <2> HIDE DEF id, n
  <2>3. /\ sandbox_instance' \in [Ids -> SandboxRow \cup {NONE}]
        /\ \A i \in Ids : HasRow(i)' <=> HasRow(i)
        /\ \A i \in Ids : i # id => sandbox_instance'[i] = sandbox_instance[i]
        /\ fresh' \subseteq Sandbox
        /\ sandbox_snapshot' \subseteq Snapshots
    BY <2>1, <2>2, SnapshotFacts DEF IInv
  <2>4. \A r \in Requests : sandbox_instance'[r] = sandbox_instance[r]
    BY <2>1, <2>3 DEF Ids
  <2>5. ~(w \in Requests /\ StatusIn(w, {"creating"})')
    BY <1>1, <2>4 DEF IInv, PendingRows, StatusIn, HasRow, Ended
  <2>6. \A s \in Sandbox : HasRow(s)' => HasRow(s) \/ Expected(s)
    BY <2>3 DEF Ids
  <2>7. faults' = faults
    BY <1>3 DEF Succeeds
  <2> QED BY <1>1, <1>2, <1>3, <2>3, <2>4, <2>5, <2>6, <2>7, GoKeeps DEF Calls, DeliveryCalls
<1>4. CASE Fails /\ UNCHANGED tables /\ Go(w, "failed")
  BY <1>1, <1>2, <1>4, QuietKeeps DEF tables, Calls, Ended
<1> QED BY <1>3, <1>4 DEF Record

LEMMA ReviveKeeps == ASSUME IInv, NEW w \in Workers, Revive(w) PROVE Keeps(w)
<1>1. work[w].at = "revive" /\ "running" \in SandboxStatus
  BY DEF Revive, At, SandboxStatus
<1>2. PICK at \in {"halt", "done"} : Go(w, at)
  BY DEF Revive
<1> QED BY <1>1, <1>2, UpdateKeeps DEF Revive, provider, Calls, Ended, DeliveryCalls

LEMMA HaltKeeps == ASSUME IInv, NEW w \in Workers, Halt(w) PROVE Keeps(w)
<1>1. work[w].at = "halt"
  BY DEF Halt, At
<1>2. w \in Sandbox => work[w].op = "sleep"
  BY <1>1 DEF IInv, Deliveries, DeliveryCalls
<1>3. PICK at \in {"rest", "retire", "failed"} :
        Go(w, at) /\ (work[w].op = "sleep" => at # "retire")
  BY DEF Halt
<1>4. /\ UNCHANGED <<sandbox_instance, sandbox_snapshot, fresh, image, mail, pass>>
      /\ faults' = faults \/ Fails
  BY DEF Halt, tables, Succeeds
<1>5. /\ machine' \in [Sandbox -> {"none", "up", "down"}]
      /\ \A s \in Sandbox : machine[s] # "none" => machine'[s] # "none"
  BY DEF Halt, IInv, TypeOK
<1> QED BY <1>1, <1>2, <1>3, <1>4, <1>5, QuietKeeps DEF Calls, Ended, DeliveryCalls

LEMMA RestKeeps == ASSUME IInv, NEW w \in Workers, Rest(w) PROVE Keeps(w)
<1>1. work[w].at = "rest" /\ "sleeping" \in SandboxStatus
  BY DEF Rest, At, SandboxStatus
<1> QED BY <1>1, UpdateKeeps DEF Rest, provider, Calls, Ended

LEMMA RetireKeeps == ASSUME IInv, NEW w \in Workers, Retire(w) PROVE Keeps(w)
<1>1. w \notin Sandbox /\ work[w].at = "retire" /\ "stopped" \in SandboxStatus
  BY OnlyRequests DEF Retire, At, Calls, DeliveryCalls, SandboxStatus
<1>2. PICK at \in {"erase", "done"} : Go(w, at)
  BY DEF Retire
<1> QED BY <1>1, <1>2, UpdateKeeps DEF Retire, provider, Calls, Ended

LEMMA EraseKeeps == ASSUME IInv, NEW w \in Workers, Erase(w) PROVE Keeps(w)
<1>1. w \notin Sandbox /\ work[w].at = "erase"
  BY OnlyRequests DEF Erase, At, Calls, DeliveryCalls
<1>2. UNCHANGED <<machine, image, mail, pass>>
      /\ machine' \in [Sandbox -> {"none", "up", "down"}]
  BY DEF Erase, provider, IInv, TypeOK
<1>3. CASE Succeeds /\ delete_sandbox(work[w].id) /\ Go(w, "done")
  <2> DEFINE id == work[w].id
  <2>1. id \in Ids \cup {NONE} /\ id \notin Requests
    BY TheirIds
  <2>2. delete_sandbox(id)
    BY <1>3
  <2> HIDE DEF id
  <2>3. /\ sandbox_instance' \in [Ids -> SandboxRow \cup {NONE}]
        /\ id \in Ids => sandbox_instance'[id] = NONE
        /\ \A i \in Ids : i # id => sandbox_instance'[i] = sandbox_instance[i]
        /\ fresh' \subseteq Sandbox
        /\ UNCHANGED sandbox_snapshot
    BY <2>1, <2>2, DeleteFacts DEF IInv
  <2>4. \A r \in Requests : sandbox_instance'[r] = sandbox_instance[r]
    BY <2>1, <2>3 DEF Ids
  <2>5. \A s \in Sandbox : HasRow(s)' => HasRow(s) \/ Expected(s)
    BY <2>3 DEF HasRow, Ids
  <2>6. sandbox_snapshot' \subseteq Snapshots /\ faults' = faults
    BY <1>3, <2>3 DEF IInv, TypeOK, Succeeds
  <2> QED BY <1>1, <1>2, <1>3, <2>3, <2>4, <2>5, <2>6, GoKeeps DEF Calls, Ended
<1>4. CASE Fails /\ UNCHANGED tables /\ Go(w, "failed")
  BY <1>1, <1>2, <1>4, QuietKeeps DEF tables, Calls, Ended
<1> QED BY <1>3, <1>4 DEF Erase

LEMMA DieKeeps == ASSUME IInv, NEW w \in Workers, Die(w) PROVE Keeps(w)
<1>1. /\ UNCHANGED <<sandbox_instance, sandbox_snapshot, fresh, machine, image, mail, pass>>
      /\ machine' \in [Sandbox -> {"none", "up", "down"}]
  BY DEF Die, tables, provider, IInv, TypeOK
<1> QED BY <1>1, QuietKeeps DEF Die, Calls, Ended

LEMMA HandlerKeeps ==
  ASSUME IInv, NEW w \in Workers, HandlerStep(w) \/ Die(w)
  PROVE  Keeps(w)
BY CountKeeps, PendKeeps, BootKeeps, MarkKeeps, UnpendKeeps, InsertKeeps, RestoreKeeps,
   ExecKeeps, TakeKeeps, RecordKeeps, ReviveKeeps, HaltKeeps, RestKeeps, RetireKeeps,
   EraseKeeps, DieKeeps DEF HandlerStep
-----------------------------------------------------------------------------
(* The other steps.                                                        *)

RowsAreExpected == \A s \in Sandbox : HasRow(s)' => HasRow(s) \/ Expected(s)

LEMMA InitIInv == Init => IInv
<1> SUFFICES ASSUME Init PROVE IInv
  OBVIOUS
<1>1. Idle \in Work /\ Listing \in Pass
  BY DEF Idle, Work, Listing, Pass
<1>2. TypeOK
  BY <1>1, BoundsAreNumbers DEF Init, TypeOK
<1>3. \A i \in Ids : ~HasRow(i)
  BY DEF Init, HasRow
<1>4. \A w \in Workers : work[w].at = "idle" /\ work[w].id = NONE
  BY DEF Init, Idle
<1>5. MachinesKnown
  BY <1>3, <1>4, DistinctIds DEF MachinesKnown, Init, Listing, Ids
<1>6. Recording /\ Deliveries /\ PendingRows
  BY <1>3, <1>4 DEF Recording, Deliveries, DeliveryCalls, PendingRows, StatusIn, At, Workers, Ids
<1> QED BY <1>2, <1>5, <1>6 DEF IInv

LEMMA ArriveIInv ==
  ASSUME IInv, NEW r \in Requests, NEW op \in Operations, NEW id \in Sandbox \cup {NONE},
         NEW n \in Snapshots \cup {NONE}, Arrive(r, op, id, n),
         id \in Sandbox => HasRow(id)
  PROVE  IInv' /\ RowsAreExpected
<1> USE DEF IInv
<1>1. r \in Workers /\ r \notin Sandbox /\ work[r].at = "idle"
  BY DistinctIds DEF Arrive, At, Workers
<1>2. FirstCall(op) \in Calls \ {"record", "pend"}
  BY DEF FirstCall, Operations, Calls
<1>3. /\ work' = [work EXCEPT ![r] =
                     [op |-> op, at |-> FirstCall(op), id |-> id, snap |-> n]]
      /\ UNCHANGED <<sandbox_instance, sandbox_snapshot, fresh, machine, image, mail, pass, faults>>
  BY DEF Arrive, tables, provider
<1>4. [op |-> op, at |-> FirstCall(op), id |-> id, snap |-> n] \in Work
  BY <1>2 DEF Work
<1>5. /\ work' \in [Workers -> Work]
      /\ \A v \in Workers : v # r => work'[v] = work[v]
      /\ work'[r].at # "record" /\ work'[r].id = id
  BY <1>1, <1>2, <1>3, <1>4 DEF TypeOK
<1>6. TypeOK'
  BY <1>3, <1>5 DEF TypeOK
<1>7. Recording' /\ Deliveries'
  BY <1>1, <1>3, <1>5 DEF Recording, Deliveries, At, Workers
<1>8. MachinesKnown'
  BY <1>3, <1>5, DistinctIds DEF MachinesKnown, HasRow
<1>9. PendingRows'
  <2>1. ~StatusIn(r, {"creating"})
    BY <1>1 DEF PendingRows, Ended
  <2> QED BY <1>3, <1>5, <2>1 DEF PendingRows, StatusIn, HasRow, Workers
<1>10. RowsAreExpected
  BY <1>3 DEF RowsAreExpected, HasRow
<1> QED BY <1>6, <1>7, <1>8, <1>9, <1>10

\* A delivery begins or ends.
LEMMA DeliveryIInv ==
  ASSUME IInv, NEW s \in Sandbox, Deliver(s) \/ Settle(s)
  PROVE  IInv' /\ RowsAreExpected
<1> USE DEF IInv
<1>1. s \in Workers /\ s \notin Requests /\ work[s] \in Work /\ mail[s] \in Nat
  BY DistinctIds DEF Workers, TypeOK
<1>2. UNCHANGED <<sandbox_instance, sandbox_snapshot, fresh, machine, image, pass, faults>>
  BY DEF Deliver, Settle, tables, provider
<1>3. machine[s] # "none"
  BY DEF Deliver, Settle, MachinesKnown, Deliveries, Ended
<1> DEFINE new == [op |-> "sleep", at |-> "take", id |-> s, snap |-> NONE]
<1>4. new \in Work /\ Idle \in Work
  BY DEF Work, Idle, Operations, Calls
<1>5. /\ mail' \in [Sandbox -> Nat]
      /\ \A t \in Sandbox : t # s => mail'[t] = mail[t]
  BY <1>1 DEF Deliver, Settle, TypeOK
<1>6. \/ work' = work
      \/ work' = [work EXCEPT ![s] = new]
      \/ work' = [work EXCEPT ![s] = Idle]
  BY DEF Deliver, Settle
<1>7. /\ work' \in [Workers -> Work]
      /\ \A v \in Workers : v # s => work'[v] = work[v]
      /\ work'[s] \in {work[s], new, Idle}
  BY <1>1, <1>4, <1>6 DEF TypeOK
<1>8. TypeOK'
  BY <1>2, <1>5, <1>7 DEF TypeOK
<1>9. work'[s].at = "record" => work'[s].snap \in Snapshots
  BY <1>1, <1>7 DEF Recording, At, Idle
<1>10. Recording'
  BY <1>7, <1>9 DEF Recording, At
<1>11. /\ work'[s].at \in {"idle"} \cup DeliveryCalls \cup Ended
       /\ work'[s].at \in DeliveryCalls => work'[s].op = "sleep"
  BY <1>7 DEF Deliveries, Idle, DeliveryCalls
<1>12. Deliveries'
  BY <1>2, <1>3, <1>7, <1>11 DEF Deliveries, Workers
<1>13. MachinesKnown'
  <2>1. \A t \in Sandbox : work'[s].id = t => t = s \/ work[s].id = t
    BY <1>7, DistinctIds DEF Idle
  <2> QED BY <1>1, <1>2, <1>3, <1>5, <1>7, <2>1 DEF MachinesKnown, HasRow
<1>14. PendingRows'
  BY <1>1, <1>2, <1>7 DEF PendingRows, StatusIn, HasRow, Workers
<1>15. RowsAreExpected
  BY <1>2 DEF RowsAreExpected, HasRow
<1> QED BY <1>8, <1>10, <1>12, <1>13, <1>14, <1>15

\* It changes rows of sandboxes, and makes or removes none.
LEMMA WatchdogRows ==
  ASSUME IInv, WatchdogStep \/ WatchdogDies
  PROVE  /\ sandbox_instance' \in [Ids -> SandboxRow \cup {NONE}]
         /\ \A i \in Ids : HasRow(i)' <=> HasRow(i)
         /\ \A r \in Requests : sandbox_instance'[r] = sandbox_instance[r]
         /\ fresh' \subseteq Sandbox
         /\ UNCHANGED sandbox_snapshot
<1> USE DEF IInv
<1>0. pass.id \in Sandbox \cup {NONE}
  BY DEF TypeOK, Pass
<1>1. CASE UNCHANGED tables
  BY <1>1 DEF tables, TypeOK, HasRow
<1>2. CASE \E status \in {"sleeping", "error"} : updateSandboxStatus(pass.id, status)
  <2> PICK status \in {"sleeping", "error"} : updateSandboxStatus(pass.id, status)
    BY <1>2
  <2> DEFINE id == pass.id
  <2>1. id \in Ids \cup {NONE} /\ id \notin Requests /\ status \in SandboxStatus
    BY <1>0, DistinctIds DEF Ids, SandboxStatus
  <2>2. updateSandboxStatus(id, status)
    OBVIOUS
  <2> HIDE DEF id
  <2>3. /\ sandbox_instance' \in [Ids -> SandboxRow \cup {NONE}]
        /\ \A i \in Ids : HasRow(i)' <=> HasRow(i)
        /\ \A i \in Ids : i # id => sandbox_instance'[i] = sandbox_instance[i]
        /\ fresh' \subseteq Sandbox
        /\ UNCHANGED sandbox_snapshot
    BY <2>1, <2>2, UpdateFacts
  <2> QED BY <2>1, <2>3 DEF Ids
<1>3. Slept \/ Errored => \E status \in {"sleeping", "error"} : updateSandboxStatus(pass.id, status)
  BY DEF Slept, Errored
<1>4. List \/ Send \/ WatchdogDies => UNCHANGED tables
  BY DEF List, Send, WatchdogDies
<1> QED BY <1>1, <1>2, <1>3, <1>4 DEF WatchdogStep

\* The watchdog speaks of sandboxes it found in the table.
LEMMA WatchdogIInv ==
  ASSUME IInv, WatchdogStep \/ WatchdogDies
  PROVE  IInv' /\ RowsAreExpected
<1> USE DEF IInv
<1>1. pass \in Pass /\ pass.todo \subseteq Sandbox /\ pass.id \in Sandbox \cup {NONE}
      /\ Listing \in Pass /\ Listing.todo = {}
  BY DEF TypeOK, Pass, Listing
<1>2. UNCHANGED <<machine, image, work>>
  BY DEF WatchdogStep, WatchdogDies, List, Send, Slept, Errored, provider
<1>3. faults' \in 0..MaxFaults
  BY BoundsAreNumbers DEF WatchdogStep, WatchdogDies, List, Send, Slept, Errored,
     updateSandboxStatus, Succeeds, Fails, TypeOK
<1>4. pass' \in Pass /\ \A s \in pass'.todo : s \in pass.todo \/ HasRow(s)
  <2>1. CASE List
    BY <2>1 DEF List, Pass, StatusIn
  <2>2. CASE Send
    <3>1. PICK s \in pass.todo, at \in {"slept", "errored"} : Took(s, at)
      BY <2>2 DEF Send
    <3> QED BY <1>1, <3>1 DEF Took, Pass
  <2>3. CASE Slept \/ Errored \/ WatchdogDies
    <3>1. pass' = Listing \/ pass' = [pass EXCEPT !.at = "send", !.id = NONE]
      BY <2>3 DEF Slept, Errored, WatchdogDies, NextRow
    <3>2. [pass EXCEPT !.at = "send", !.id = NONE] \in Pass
          /\ [pass EXCEPT !.at = "send", !.id = NONE].todo = pass.todo
      BY <1>1 DEF Pass
    <3> QED BY <1>1, <3>1, <3>2
  <2> QED BY <2>1, <2>2, <2>3 DEF WatchdogStep
<1>5. mail' \in [Sandbox -> Nat] /\ \A s \in Sandbox : mail'[s] > 0 => mail[s] > 0 \/ s \in pass.todo
  <2>1. CASE Send
    <3>1. PICK s \in pass.todo : mail' \in {mail, [mail EXCEPT ![s] = IF @ = 0 THEN 1 ELSE @]}
      BY <2>1 DEF Send
    <3> QED BY <1>1, <3>1 DEF TypeOK
  <2>2. CASE UNCHANGED mail
    BY <2>2 DEF TypeOK
  <2> QED BY <2>1, <2>2 DEF WatchdogStep, WatchdogDies, List, Slept, Errored
<1>6. /\ sandbox_instance' \in [Ids -> SandboxRow \cup {NONE}]
      /\ \A i \in Ids : HasRow(i)' <=> HasRow(i)
      /\ \A r \in Requests : sandbox_instance'[r] = sandbox_instance[r]
      /\ fresh' \subseteq Sandbox
      /\ UNCHANGED sandbox_snapshot
  BY WatchdogRows
<1>7. TypeOK'
  BY <1>2, <1>3, <1>4, <1>5, <1>6 DEF TypeOK
<1>8. (Recording /\ Deliveries)'
  BY <1>2 DEF Recording, Deliveries, At
<1>9. MachinesKnown'
  BY <1>1, <1>2, <1>4, <1>5, <1>6 DEF MachinesKnown, Ids
<1>10. PendingRows'
  BY <1>2, <1>6 DEF PendingRows, StatusIn, HasRow
<1>11. RowsAreExpected
  BY <1>6 DEF RowsAreExpected, Ids
<1> QED BY <1>7, <1>8, <1>9, <1>10, <1>11

LEMMA TimeIInv ==
  ASSUME IInv, NEW s \in Sandbox, Expire(s) \/ Age(s)
  PROVE  IInv' /\ RowsAreExpected
<1> USE DEF IInv
<1>1. /\ UNCHANGED <<sandbox_instance, sandbox_snapshot, image, work, mail, pass, faults>>
      /\ fresh' \subseteq Sandbox
      /\ machine' \in [Sandbox -> {"none", "up", "down"}]
      /\ \A t \in Sandbox : machine[t] # "none" => machine'[t] # "none"
  BY DEF Expire, Age, tables, provider, TypeOK
<1>2. TypeOK'
  BY <1>1 DEF TypeOK
<1>3. (Recording /\ Deliveries)'
  BY <1>1 DEF Recording, Deliveries, At
<1>4. (MachinesKnown /\ PendingRows)' /\ RowsAreExpected
  BY <1>1 DEF MachinesKnown, PendingRows, RowsAreExpected, StatusIn, HasRow
<1> QED BY <1>2, <1>3, <1>4

LEMMA NextIInv == IInv /\ [Next]_vars => IInv' /\ RowsAreExpected
<1> SUFFICES ASSUME IInv, [Next]_vars PROVE IInv' /\ RowsAreExpected
  OBVIOUS
<1>1. ASSUME NEW r \in Requests, ArriveCreate(r) \/ ArriveWake(r) \/ ArriveFor(r)
      PROVE  IInv' /\ RowsAreExpected
  <2>1. CASE ArriveCreate(r)
    <3>1. Arrive(r, "create", NONE, NONE) /\ "create" \in Operations
      BY <2>1 DEF ArriveCreate, Operations
    <3> QED BY <3>1, ArriveIInv, DistinctIds
  <2>2. CASE ArriveWake(r)
    <3>1. PICK n \in sandbox_snapshot : Arrive(r, "wake", NONE, n)
      BY <2>2 DEF ArriveWake
    <3>2. n \in Snapshots /\ "wake" \in Operations
      BY DEF IInv, TypeOK, Operations
    <3> QED BY <3>1, <3>2, ArriveIInv, DistinctIds
  <2>3. CASE ArriveFor(r)
    <3>1. PICK op \in Kinds \ {"create", "wake"}, s \in Sandbox : HasRow(s) /\ Arrive(r, op, s, NONE)
      BY <2>3 DEF ArriveFor
    <3>2. op \in Operations
      BY KindsAreOperations
    <3> QED BY <3>1, <3>2, ArriveIInv
  <2> QED BY <1>1, <2>1, <2>2, <2>3
<1>2. ASSUME NEW w \in Workers, HandlerStep(w) \/ Die(w)
      PROVE  IInv' /\ RowsAreExpected
  BY <1>2, HandlerKeeps, KeepsIInv DEF Keeps, KeepsData, RowsAreExpected
<1>3. CASE UNCHANGED vars
  <2>1. IInv'
    BY <1>3 DEF vars, tables, provider, IInv, TypeOK, Recording, Deliveries, MachinesKnown,
       PendingRows, HasRow, StatusIn, At
  <2>2. RowsAreExpected
    BY <1>3 DEF vars, tables, RowsAreExpected, HasRow
  <2> QED BY <2>1, <2>2
<1> QED BY <1>1, <1>2, <1>3, DeliveryIInv, WatchdogIInv, TimeIInv DEF Next

LEMMA Inductive == Spec => []IInv
BY InitIInv, NextIInv, PTL DEF Spec

\* Every variable has its type.
THEOREM TypeCorrect == Spec => []TypeOK
<1>1. IInv => TypeOK
  BY DEF IInv
<1> QED BY <1>1, Inductive, PTL

\* No handler, delivery or pass of the watchdog makes the row of a deleted sandbox
\* again (sandbox.ts, lib.rs), for any number of them and in any order.
THEOREM DeletedNeverReturns == Spec => DeletedStaysDeleted
<1>1. IInv /\ [Next]_vars =>
        [\A s \in Sandbox :
           machine[s] # "none" /\ ~HasRow(s) /\ ~Expected(s) => ~HasRow(s)']_vars
  BY NextIInv DEF RowsAreExpected
<1> QED BY <1>1, Inductive, PTL DEF Spec, DeletedStaysDeleted
-----------------------------------------------------------------------------
(* What is lost, or will be lost unless somebody's next call succeeds, was   *)
(* paid for.                                                                 *)

\* Running machines without a row to come, or whose row is about to go.
AtRisk ==
  {s \in Sandbox :
     /\ machine[s] = "up"
     /\ \/ ~HasRow(s) /\ ~Expected(s)
        \/ \E w \in Workers : work[w].id = s /\ work[w].at \in {"retire", "erase"}}

\* Pending rows that the end of their creation will not remove.
LostPlaces ==
  {r \in Requests : StatusIn(r, {"creating"}) /\ work[r].at \in Ended \cup {"insert"}}

Within(S) == IsFiniteSet(S) /\ Cardinality(S) <= faults

LInv == IInv /\ Within(AtRisk) /\ Within(LostPlaces)

\* From S to T: nothing is added, or one element for one fault.
Pays(T, S) ==
  \/ faults' = faults /\ T \subseteq S
  \/ faults' = faults + 1 /\ \E x : T \subseteq S \cup {x}

Paid == Pays(AtRisk', AtRisk) /\ Pays(LostPlaces', LostPlaces)

LEMMA PaysWithin ==
  ASSUME NEW S, NEW T, faults \in Nat, IsFiniteSet(S), Cardinality(S) <= faults, Pays(T, S)
  PROVE  IsFiniteSet(T) /\ Cardinality(T) <= faults'
<1>1. CASE faults' = faults /\ T \subseteq S
  <2>1. IsFiniteSet(T) /\ Cardinality(T) <= Cardinality(S)
    BY <1>1, FS_Subset
  <2>2. Cardinality(T) \in Nat /\ Cardinality(S) \in Nat
    BY <2>1, FS_CardinalityType
  <2> QED BY <1>1, <2>1, <2>2
<1>2. ASSUME faults' = faults + 1, NEW x, T \subseteq S \cup {x}
      PROVE  IsFiniteSet(T) /\ Cardinality(T) <= faults'
  <2>1. /\ IsFiniteSet(S \cup {x})
        /\ Cardinality(S \cup {x}) = IF x \in S THEN Cardinality(S) ELSE Cardinality(S) + 1
    BY FS_AddElement
  <2>2. IsFiniteSet(T) /\ Cardinality(T) <= Cardinality(S \cup {x})
    BY <1>2, <2>1, FS_Subset
  <2>3. Cardinality(T) \in Nat /\ Cardinality(S) \in Nat
    BY <2>2, FS_CardinalityType
  <2> QED BY <1>2, <2>1, <2>2, <2>3
<1> QED BY <1>1, <1>2 DEF Pays

LEMMA RiskBound ==
  ASSUME NEW x,
         \A s \in Sandbox \ {x} :
           /\ machine'[s] = "up" => machine[s] = "up"
           /\ HasRow(s) => HasRow(s)'
           /\ Expected(s) => Expected(s)' \/ HasRow(s)'
           /\ \A w \in Workers :
                machine'[s] = "up" /\ work'[w].id = s /\ work'[w].at \in {"retire", "erase"}
                  => work[w].id = s /\ work[w].at \in {"retire", "erase"}
  PROVE  AtRisk' \subseteq AtRisk \cup {x}
<1> SUFFICES ASSUME NEW s \in AtRisk', s # x PROVE s \in AtRisk
  OBVIOUS
<1>1. s \in Sandbox \ {x} /\ machine'[s] = "up"
  BY DEF AtRisk
<1>2. \/ ~HasRow(s)' /\ ~Expected(s)'
      \/ \E w \in Workers : work'[w].id = s /\ work'[w].at \in {"retire", "erase"}
  BY DEF AtRisk
<1>3. CASE ~HasRow(s)' /\ ~Expected(s)'
  BY <1>1, <1>3 DEF AtRisk
<1>4. CASE \E w \in Workers : work'[w].id = s /\ work'[w].at \in {"retire", "erase"}
  BY <1>1, <1>4 DEF AtRisk
<1> QED BY <1>2, <1>3, <1>4

LEMMA PlacesBound ==
  ASSUME NEW x,
         \A r \in Requests \ {x} :
           StatusIn(r, {"creating"})' /\ work'[r].at \in Ended \cup {"insert"} =>
           StatusIn(r, {"creating"}) /\ work[r].at \in Ended \cup {"insert"}
  PROVE  LostPlaces' \subseteq LostPlaces \cup {x}
BY DEF LostPlaces

\* The work of w, and of nobody else, goes on at that place.
Moves(w, at) ==
  /\ \A v \in Workers : v # w => work'[v] = work[v]
  /\ work'[w].at = at
  /\ at \in Ended => work'[w].id = NONE
  /\ at \notin Ended => work'[w].id = work[w].id

LEMMA MovesRisk ==
  ASSUME IInv, NEW w \in Workers, NEW at \in Calls \cup Ended, Moves(w, at), NEW x,
         \A s \in Sandbox \ {x} :
           /\ machine'[s] = "up" => machine[s] = "up"
           /\ HasRow(s) => HasRow(s)'
           /\ work[w].id = s /\ work[w].at \in {"unpend", "insert"} =>
                at \in {"unpend", "insert"} \/ HasRow(s)'
           /\ work[w].id = s /\ at \in {"retire", "erase"} =>
                work[w].at \in {"retire", "erase"} \/ machine'[s] # "up"
  PROVE  AtRisk' \subseteq AtRisk \cup {x}
<1>1. ASSUME NEW s \in Sandbox \ {x}, Expected(s)
      PROVE  Expected(s)' \/ HasRow(s)'
  <2>1. PICK r \in Requests : work[r].id = s /\ work[r].at \in {"unpend", "insert"}
    BY <1>1 DEF Expected
  <2>2. CASE r # w
    BY <2>1, <2>2 DEF Moves, Expected, Workers
  <2>3. CASE r = w
    <3>1. CASE at \in {"unpend", "insert"}
      BY <2>1, <2>3, <3>1 DEF Moves, Expected, Ended
    <3>2. CASE at \notin {"unpend", "insert"}
      BY <2>1, <2>3, <3>2
    <3> QED BY <3>1, <3>2
  <2> QED BY <2>2, <2>3
<1>2. ASSUME NEW s \in Sandbox \ {x}, NEW v \in Workers,
             machine'[s] = "up", work'[v].id = s, work'[v].at \in {"retire", "erase"}
      PROVE  work[v].id = s /\ work[v].at \in {"retire", "erase"}
  BY <1>2 DEF Moves, Ended
<1> QED BY <1>1, <1>2, RiskBound

LEMMA MovesPlaces ==
  ASSUME IInv, NEW w \in Workers, NEW at \in Calls \cup Ended, Moves(w, at), NEW x,
         \A r \in Requests \ {x, w} : sandbox_instance'[r] = sandbox_instance[r],
         w \in Requests \ {x} /\ StatusIn(w, {"creating"})' /\ at \in Ended \cup {"insert"} =>
           StatusIn(w, {"creating"}) /\ work[w].at \in Ended \cup {"insert"}
  PROVE  LostPlaces' \subseteq LostPlaces \cup {x}
<1>1. ASSUME NEW r \in Requests \ {x}, StatusIn(r, {"creating"})',
             work'[r].at \in Ended \cup {"insert"}
      PROVE  StatusIn(r, {"creating"}) /\ work[r].at \in Ended \cup {"insert"}
  BY <1>1 DEF Moves, StatusIn, HasRow, Workers
<1> QED BY <1>1, PlacesBound

\* Without x.
LEMMA Nothing ==
  /\ AtRisk' \subseteq AtRisk \cup {NONE} => AtRisk' \subseteq AtRisk
  /\ LostPlaces' \subseteq LostPlaces \cup {NONE} => LostPlaces' \subseteq LostPlaces
BY DistinctIds DEF AtRisk, LostPlaces

LEMMA GoMoves ==
  ASSUME IInv, NEW w \in Workers, NEW at \in Calls \cup Ended, Go(w, at)
  PROVE  Moves(w, at)
BY GoFacts DEF IInv, Moves

\* A fault of w can lose the machine w works on and the place w holds.
LEMMA FaultPaid ==
  ASSUME IInv, NEW w \in Workers, NEW at \in Calls \cup Ended, Go(w, at), Fails,
         UNCHANGED <<sandbox_instance, machine>>
  PROVE  Paid
<1> DEFINE x == work[w].id
<1>1. Moves(w, at)
  BY GoMoves
<1>2. \A s \in Sandbox \ {x} : work[w].id # s
  OBVIOUS
<1> HIDE DEF x
<1>3. AtRisk' \subseteq AtRisk \cup {x}
  BY <1>1, <1>2, MovesRisk DEF HasRow
<1>4. LostPlaces' \subseteq LostPlaces \cup {w}
  BY <1>1, MovesPlaces
<1> QED BY <1>3, <1>4 DEF Fails, Paid, Pays

\* A step without a fault that makes or removes no row of a machine.
LEMMA QuietPaid ==
  ASSUME IInv, NEW w \in Workers, NEW at \in Calls \cup Ended, Moves(w, at), Succeeds,
         \A s \in Sandbox :
           (machine'[s] = "up" => machine[s] = "up") /\ (HasRow(s) => HasRow(s)'),
         work[w].at \notin {"unpend", "insert"} \/ at \in {"unpend", "insert"},
         \A s \in Sandbox : work[w].id = s /\ at \in {"retire", "erase"} =>
            work[w].at \in {"retire", "erase"} \/ machine'[s] # "up",
         \A r \in Requests \ {w} : sandbox_instance'[r] = sandbox_instance[r],
         w \in Requests /\ StatusIn(w, {"creating"})' /\ at \in Ended \cup {"insert"} =>
           StatusIn(w, {"creating"}) /\ work[w].at \in Ended \cup {"insert"}
  PROVE  Paid
<1>1. AtRisk' \subseteq AtRisk \cup {NONE}
  BY MovesRisk
<1>2. LostPlaces' \subseteq LostPlaces \cup {NONE}
  BY MovesPlaces
<1> QED BY <1>1, <1>2, Nothing DEF Succeeds, Paid, Pays

\* No request has a pending row before it is past pend.
LEMMA NoPlace ==
  ASSUME IInv, NEW w \in Workers, w \in Requests,
         work[w].at \notin {"boot", "mark", "unpend", "insert"} \cup Ended
  PROVE  ~StatusIn(w, {"creating"})
BY DEF IInv, PendingRows

\* A step of a handler that only goes on, from a place where nothing is at stake.
LEMMA CalmPaid ==
  ASSUME IInv, NEW w \in Workers, NEW at \in (Calls \ {"retire", "erase"}) \cup Ended,
         Go(w, at), Succeeds,
         work[w].at \in Calls \ {"mark", "unpend", "insert"},
         at \in Ended \cup {"insert"} => work[w].at # "boot",
         UNCHANGED sandbox_instance,
         \A s \in Sandbox : machine'[s] = "up" => machine[s] = "up"
  PROVE  Paid
<1>1. Moves(w, at)
  BY GoMoves
<1>2. w \in Requests /\ at \in Ended \cup {"insert"} => ~StatusIn(w, {"creating"})'
  BY NoPlace DEF Calls, Ended, StatusIn, HasRow
<1> QED BY <1>1, <1>2, QuietPaid DEF HasRow, Ended

LEMMA CountPaid == ASSUME IInv, NEW w \in Workers, Count(w) PROVE Paid
<1>1. work[w].at = "count"
  BY DEF Count, At
<1>2. PICK at \in {"pend", "failed"} : Go(w, at)
  BY DEF Count
<1> QED BY <1>1, <1>2, CalmPaid DEF Count, tables, provider, Succeeds, Calls, Ended

LEMMA PendPaid == ASSUME IInv, NEW w \in Workers, Pend(w) PROVE Paid
<1>1. w \in Requests /\ w \notin Sandbox /\ work[w].at = "pend" /\ w \in Ids
  BY OnlyRequests DEF Pend, At, Calls, DeliveryCalls, Ids
<1>2. CASE Succeeds /\ create_sandbox(w, "creating") /\ Go(w, "boot")
  <2>1. \A i \in Ids : i # w => sandbox_instance'[i] = sandbox_instance[i]
    BY <1>1, <1>2, CreateFacts DEF IInv, SandboxStatus
  <2>2. Moves(w, "boot") /\ UNCHANGED machine
    BY <1>2, GoMoves DEF Pend, provider, Calls
  <2> QED BY <1>1, <1>2, <2>1, <2>2, QuietPaid DEF HasRow, Ids, Calls, Ended
<1>3. CASE Fails /\ UNCHANGED tables /\ Go(w, "failed")
  BY <1>3, FaultPaid DEF Pend, tables, provider, Ended
<1> QED BY <1>2, <1>3 DEF Pend

\* A new machine is at risk only if its handler fails at once.
LEMMA StartPaid ==
  ASSUME IInv, NEW w \in Requests, NEW s \in Sandbox,
         NEW at \in {"unpend", "mark", "insert"}, Start(w, s, at),
         work[w].at = IF at = "insert" THEN "restore" ELSE "boot",
         UNCHANGED sandbox_instance,
         at = "mark" => Fails,
         at # "mark" => Succeeds
  PROVE  Paid
<1>0. w \in Workers
  BY DEF Workers
<1>1. /\ \A v \in Workers : v # w => work'[v] = work[v]
      /\ work'[w].at = at /\ work'[w].id = s
      /\ machine[s] = "none" /\ machine'[s] = "up"
      /\ \A t \in Sandbox : t # s => machine'[t] = machine[t]
  BY <1>0, StartFacts DEF IInv
<1>2. \A r \in Requests : StatusIn(r, {"creating"})' => StatusIn(r, {"creating"})
  BY DEF StatusIn, HasRow
<1>3. at = "insert" => ~StatusIn(w, {"creating"})
  BY <1>0, NoPlace DEF Ended
<1>4. LostPlaces' \subseteq LostPlaces \cup {NONE}
  BY <1>1, <1>2, <1>3, PlacesBound DEF Workers, Ended
<1>5. AtRisk' \subseteq AtRisk \cup {s}
  <2>1. ASSUME NEW t \in Sandbox \ {s}, Expected(t) PROVE Expected(t)'
    BY <1>1, <2>1 DEF Expected, Workers
  <2>2. ASSUME NEW t \in Sandbox \ {s}, NEW v \in Workers,
               work'[v].id = t, work'[v].at \in {"retire", "erase"}
        PROVE  work[v].id = t /\ work[v].at \in {"retire", "erase"}
    BY <1>1, <2>2
  <2> QED BY <1>1, <2>1, <2>2, RiskBound DEF HasRow
<1>6. at # "mark" => s \notin AtRisk'
  <2> SUFFICES ASSUME at # "mark", s \in AtRisk' PROVE FALSE
    OBVIOUS
  <2>1. Expected(s)'
    BY <1>1 DEF Expected
  <2>2. PICK v \in Workers : work'[v].id = s /\ work'[v].at \in {"retire", "erase"}
    BY <2>1 DEF AtRisk
  <2>3. v # w /\ work[v].id = s
    BY <1>1, <2>2
  <2> QED BY <1>1, <2>3 DEF IInv, MachinesKnown
<1>7. CASE at = "mark" /\ Fails
  BY <1>4, <1>5, <1>7, Nothing DEF Paid, Pays, Fails
<1>8. CASE at # "mark" /\ Succeeds
  <2>1. AtRisk' \subseteq AtRisk
    BY <1>5, <1>6, <1>8
  <2> QED BY <1>4, <1>8, <2>1, Nothing DEF Paid, Pays, Succeeds
<1> QED BY <1>7, <1>8

LEMMA BootPaid == ASSUME IInv, NEW w \in Workers, Boot(w) PROVE Paid
<1>1. w \in Requests /\ work[w].at = "boot" /\ UNCHANGED sandbox_instance
  BY OnlyRequests DEF Boot, At, Calls, DeliveryCalls, tables
<1>2. CASE Succeeds /\ \E s \in Sandbox : Start(w, s, "unpend")
  BY <1>1, <1>2, StartPaid
<1>3. CASE Fails /\ \E s \in Sandbox : Start(w, s, "mark")
  BY <1>1, <1>3, StartPaid
<1>4. CASE Refuses(MachinesLeft) /\ UNCHANGED provider /\ Go(w, "mark")
  <2>1. CASE Fails
    BY <1>1, <1>4, <2>1, FaultPaid DEF provider, Calls
  <2>2. CASE Succeeds
    BY <1>1, <1>4, <2>2, CalmPaid DEF provider, Calls, Ended
  <2> QED BY <1>4, <2>1, <2>2 DEF Refuses
<1> QED BY <1>2, <1>3, <1>4 DEF Boot

LEMMA RestorePaid == ASSUME IInv, NEW w \in Workers, Restore(w) PROVE Paid
<1>1. w \in Requests /\ work[w].at = "restore" /\ UNCHANGED sandbox_instance
  BY OnlyRequests DEF Restore, At, Calls, DeliveryCalls, tables
<1>2. CASE Succeeds /\ \E s \in Sandbox : Start(w, s, "insert")
  BY <1>1, <1>2, StartPaid
<1>3. CASE Refuses(MachinesLeft) /\ UNCHANGED provider /\ Go(w, "failed")
  <2>1. CASE Fails
    BY <1>1, <1>3, <2>1, FaultPaid DEF provider, Ended
  <2>2. CASE Succeeds
    BY <1>1, <1>3, <2>2, CalmPaid DEF provider, Calls, Ended
  <2> QED BY <1>3, <2>1, <2>2 DEF Refuses
<1> QED BY <1>2, <1>3 DEF Restore

\* A status of its sandbox is written and the handler goes on.
LEMMA UpdatePaid ==
  ASSUME IInv, NEW w \in Workers, NEW at \in Calls \cup Ended, Go(w, at),
         work[w].at \in {"revive", "rest", "retire"},
         at \in {"retire", "erase"} => work[w].at = "retire",
         at # "insert",
         NEW status \in SandboxStatus, updateSandboxStatus(work[w].id, status),
         UNCHANGED machine
  PROVE  Paid
<1>1. CASE Fails /\ UNCHANGED tables
  BY <1>1, FaultPaid DEF tables
<1>2. CASE Succeeds
  <2> DEFINE id == work[w].id
  <2>1. id \in Ids \cup {NONE} /\ id \notin Requests
    BY TheirIds
  <2>2. updateSandboxStatus(id, status)
    OBVIOUS
  <2> HIDE DEF id
  <2>3. /\ \A i \in Ids : HasRow(i)' <=> HasRow(i)
        /\ \A i \in Ids : i # id => sandbox_instance'[i] = sandbox_instance[i]
    BY <2>1, <2>2, UpdateFacts DEF IInv
  <2>4. \A r \in Requests : sandbox_instance'[r] = sandbox_instance[r]
    BY <2>1, <2>3 DEF Ids
  <2>5. w \in Requests => ~StatusIn(w, {"creating"})'
    BY <2>4, NoPlace DEF StatusIn, HasRow, Ended
  <2>6. Moves(w, at)
    BY GoMoves
  <2> QED BY <1>2, <2>3, <2>4, <2>5, <2>6, QuietPaid DEF Ids
<1> QED BY <1>1, <1>2 DEF updateSandboxStatus

LEMMA MarkPaid == ASSUME IInv, NEW w \in Workers, Mark(w) PROVE Paid
<1>1. w \in Requests /\ w \notin Sandbox /\ work[w].at = "mark" /\ w \in Ids
  BY OnlyRequests DEF Mark, At, Calls, DeliveryCalls, Ids
<1>2. updateSandboxStatus(w, "error") /\ Go(w, "failed") /\ UNCHANGED machine
  BY DEF Mark, provider
<1>3. CASE Fails /\ UNCHANGED tables
  BY <1>2, <1>3, FaultPaid DEF tables, Ended
<1>4. CASE Succeeds
  <2>1. /\ \A i \in Ids : HasRow(i)' <=> HasRow(i)
        /\ \A i \in Ids : i # w => sandbox_instance'[i] = sandbox_instance[i]
        /\ HasRow(w) => sandbox_instance'[w].status = "error"
    BY <1>1, <1>2, <1>4, UpdateFacts DEF IInv, SandboxStatus, Succeeds
  <2>2. ~StatusIn(w, {"creating"})'
    BY <1>1, <2>1 DEF StatusIn
  <2>3. Moves(w, "failed")
    BY <1>2, GoMoves DEF Ended
  <2> QED BY <1>1, <1>2, <1>4, <2>1, <2>2, <2>3, QuietPaid DEF Ids, Ended
<1> QED BY <1>2, <1>3, <1>4 DEF updateSandboxStatus

LEMMA UnpendPaid == ASSUME IInv, NEW w \in Workers, Unpend(w) PROVE Paid
<1>1. w \in Requests /\ w \notin Sandbox /\ work[w].at = "unpend" /\ w \in Ids
  BY OnlyRequests DEF Unpend, At, Calls, DeliveryCalls, Ids
<1>2. Go(w, "insert") /\ UNCHANGED machine
  BY DEF Unpend, provider
<1>3. CASE Fails /\ UNCHANGED tables
  BY <1>2, <1>3, FaultPaid DEF tables, Calls
<1>4. CASE Succeeds /\ delete_sandbox(w)
  <2>1. /\ sandbox_instance'[w] = NONE
        /\ \A i \in Ids : i # w => sandbox_instance'[i] = sandbox_instance[i]
    BY <1>1, <1>4, DeleteFacts DEF IInv
  <2>2. ~StatusIn(w, {"creating"})'
    BY <2>1 DEF StatusIn, HasRow
  <2>3. Moves(w, "insert")
    BY <1>2, GoMoves DEF Calls
  <2> QED BY <1>1, <1>2, <1>4, <2>1, <2>2, <2>3, QuietPaid DEF HasRow, Ids, Calls
<1> QED BY <1>3, <1>4 DEF Unpend

LEMMA InsertPaid == ASSUME IInv, NEW w \in Workers, Insert(w) PROVE Paid
<1>1. w \in Requests /\ w \notin Sandbox /\ work[w].at = "insert" /\ UNCHANGED machine
  BY OnlyRequests DEF Insert, At, Calls, DeliveryCalls, provider
<1>2. CASE Succeeds /\ create_sandbox(work[w].id, "running") /\ Go(w, "done")
  <2> DEFINE id == work[w].id
  <2>1. id \in Sandbox \cup {NONE} /\ id \notin Requests /\ create_sandbox(id, "running")
    BY <1>2, TheirIds
  <2>2. Moves(w, "done")
    BY <1>2, GoMoves DEF Ended
  <2>3. \A s \in Sandbox : work[w].id = s => s = id
    OBVIOUS
  <2> HIDE DEF id
  <2>4. /\ \A i \in Ids : i # id => sandbox_instance'[i] = sandbox_instance[i]
        /\ \A s \in Sandbox : s = id => HasRow(s)'
    BY <2>1, DistinctIds DEF create_sandbox, IInv, TypeOK, HasRow, Ids, SandboxRow, SandboxStatus
  <2>5. \A s \in Sandbox : HasRow(s) => HasRow(s)'
    BY <2>4 DEF HasRow, Ids
  <2>6. AtRisk' \subseteq AtRisk \cup {NONE}
    BY <1>1, <2>2, <2>3, <2>4, <2>5, MovesRisk DEF Ended
  <2>7. LostPlaces' \subseteq LostPlaces \cup {NONE}
    BY <1>1, <2>1, <2>2, <2>4, MovesPlaces DEF StatusIn, HasRow, Ids, Ended
  <2> QED BY <1>2, <2>6, <2>7, Nothing DEF Paid, Pays, Succeeds
<1>3. CASE Fails /\ UNCHANGED tables /\ Go(w, "failed")
  BY <1>1, <1>3, FaultPaid DEF tables, Ended
<1> QED BY <1>2, <1>3 DEF Insert

LEMMA ExecPaid == ASSUME IInv, NEW w \in Workers, Exec(w) PROVE Paid
<1>1. work[w].at = "exec" /\ UNCHANGED <<sandbox_instance, machine>>
  BY DEF Exec, At, tables, provider
<1>2. PICK at \in {"revive", "failed"} : Go(w, at)
  BY DEF Exec
<1>3. Succeeds \/ Fails
  BY DEF Exec, Refuses
<1> QED BY <1>1, <1>2, <1>3, CalmPaid, FaultPaid DEF Calls, Ended

LEMMA TakePaid == ASSUME IInv, NEW w \in Workers, Take(w) PROVE Paid
<1>1. work[w].at = "take" /\ work[w] \in Work /\ UNCHANGED sandbox_instance
  BY DEF Take, At, IInv, TypeOK, tables
<1>2. ASSUME Up(w), Succeeds, NEW n \in Snapshots,
             work' = [work EXCEPT ![w].at = "record", ![w].snap = n],
             NEW m \in {"up", "down"}, machine' = [machine EXCEPT ![work[w].id] = m]
      PROVE  Paid
  <2>1. Moves(w, "record")
    BY <1>1, <1>2 DEF Moves, IInv, TypeOK, Work, Ended
  <2>2. \A s \in Sandbox : machine'[s] = "up" => machine[s] = "up"
    BY <1>2 DEF Up, IInv, TypeOK
  <2> QED BY <1>1, <1>2, <2>1, <2>2, QuietPaid DEF HasRow, Calls, Ended
<1>3. CASE Refuses(Up(w) /\ ImagesLeft) /\ Go(w, "failed") /\ UNCHANGED provider
  <2>1. Succeeds \/ Fails
    BY <1>3 DEF Refuses
  <2> QED BY <1>1, <1>3, <2>1, CalmPaid, FaultPaid DEF provider, Calls, Ended
<1> QED BY <1>2, <1>3 DEF Take

LEMMA RecordPaid == ASSUME IInv, NEW w \in Workers, Record(w) PROVE Paid
<1>1. work[w].at = "record" /\ work[w].snap \in Snapshots /\ UNCHANGED machine
  BY DEF Record, At, IInv, Recording, provider
<1>2. CASE Succeeds /\ create_sandbox_snapshot(work[w].snap, work[w].id) /\ Go(w, "revive")
  <2> DEFINE id == work[w].id
             n == work[w].snap
  <2>1. id \in Ids \cup {NONE} /\ id \notin Requests /\ n \in Snapshots
    BY <1>1, TheirIds
  <2>2. create_sandbox_snapshot(n, id)
    BY <1>2
  <2> HIDE DEF id, n
  <2>3. /\ \A i \in Ids : HasRow(i)' <=> HasRow(i)
        /\ \A i \in Ids : i # id => sandbox_instance'[i] = sandbox_instance[i]
    BY <2>1, <2>2, SnapshotFacts DEF IInv
  <2>4. \A r \in Requests : sandbox_instance'[r] = sandbox_instance[r]
    BY <2>1, <2>3 DEF Ids
  <2>5. Moves(w, "revive")
    BY <1>2, GoMoves DEF Calls
  <2> QED BY <1>1, <1>2, <2>3, <2>4, <2>5, QuietPaid DEF Ids, Calls, Ended
<1>3. CASE Fails /\ UNCHANGED tables /\ Go(w, "failed")
  BY <1>1, <1>3, FaultPaid DEF tables, Ended
<1> QED BY <1>2, <1>3 DEF Record

LEMMA StatusPaid ==
  ASSUME IInv, NEW w \in Workers, Revive(w) \/ Rest(w) \/ Retire(w)
  PROVE  Paid
<1>1. CASE Revive(w)
  <2>1. PICK at \in {"halt", "done"} : Go(w, at)
    BY <1>1 DEF Revive
  <2> QED BY <1>1, <2>1, UpdatePaid DEF Revive, At, provider, Calls, Ended, SandboxStatus
<1>2. CASE Rest(w)
  BY <1>2, UpdatePaid DEF Rest, At, provider, Ended, SandboxStatus
<1>3. CASE Retire(w)
  <2>1. PICK at \in {"erase", "done"} : Go(w, at)
    BY <1>3 DEF Retire
  <2> QED BY <1>3, <2>1, UpdatePaid DEF Retire, At, provider, Calls, Ended, SandboxStatus
<1> QED BY <1>1, <1>2, <1>3

LEMMA HaltPaid == ASSUME IInv, NEW w \in Workers, Halt(w) PROVE Paid
<1>1. work[w].at = "halt" /\ UNCHANGED sandbox_instance
  BY DEF Halt, At, tables
<1>2. PICK at \in {"rest", "retire", "failed"} : Go(w, at)
  BY DEF Halt
<1>3. Moves(w, at)
  BY <1>2, GoMoves DEF Calls, Ended
<1>4. CASE Succeeds
  <2>1. \A s \in Sandbox : /\ machine'[s] = "up" => machine[s] = "up"
                           /\ work[w].id = s => machine'[s] # "up"
    <3>1. CASE Up(w) /\ machine' = [machine EXCEPT ![work[w].id] = "down"]
      BY <3>1 DEF IInv, TypeOK
    <3>2. CASE ~Up(w) /\ UNCHANGED machine
      BY <3>2 DEF Up
    <3>3. CASE Fails
      BY <1>4, <3>3 DEF Fails, Succeeds, IInv, TypeOK
    <3> QED BY <3>1, <3>2, <3>3 DEF Halt
  <2>2. w \in Requests => ~StatusIn(w, {"creating"})'
    BY <1>1, NoPlace DEF StatusIn, HasRow, Ended
  <2> QED BY <1>1, <1>2, <1>3, <1>4, <2>1, <2>2, QuietPaid DEF HasRow, Calls, Ended
<1>5. CASE Fails /\ UNCHANGED machine
  BY <1>1, <1>2, <1>5, FaultPaid DEF Calls, Ended
<1> QED BY <1>4, <1>5 DEF Halt

\* The row of a machine that was not stopped was at risk before it goes.
LEMMA ErasePaid == ASSUME IInv, NEW w \in Workers, Erase(w) PROVE Paid
<1>1. w \notin Sandbox /\ work[w].at = "erase" /\ UNCHANGED machine
  BY OnlyRequests DEF Erase, At, Calls, DeliveryCalls, provider
<1>2. CASE Succeeds /\ delete_sandbox(work[w].id) /\ Go(w, "done")
  <2> DEFINE id == work[w].id
  <2>1. id \in Ids \cup {NONE} /\ id \in Sandbox \cup {NONE} /\ id \notin Requests
    BY TheirIds
  <2>2. delete_sandbox(id)
    BY <1>2
  <2>3. id \in Sandbox /\ machine[id] = "up" => id \in AtRisk
    BY <1>1 DEF AtRisk
  <2>4. Moves(w, "done")
    BY <1>2, GoMoves DEF Ended
  <2> HIDE DEF id
  <2>5. \A i \in Ids : i # id => sandbox_instance'[i] = sandbox_instance[i]
    BY <2>1, <2>2, DeleteFacts DEF IInv
  <2>6. AtRisk' \subseteq AtRisk \cup {id}
    BY <1>1, <2>4, <2>5, MovesRisk DEF HasRow, Ids, Ended
  <2>7. AtRisk' \subseteq AtRisk
    BY <1>1, <2>3, <2>6 DEF AtRisk
  <2>8. \A r \in Requests : sandbox_instance'[r] = sandbox_instance[r]
    BY <2>1, <2>5 DEF Ids
  <2>9. w \in Requests => ~StatusIn(w, {"creating"})'
    BY <1>1, <2>8, NoPlace DEF StatusIn, HasRow, Ended
  <2>10. LostPlaces' \subseteq LostPlaces \cup {NONE}
    BY <2>4, <2>8, <2>9, MovesPlaces DEF Ended
  <2> QED BY <1>2, <2>7, <2>10, Nothing DEF Paid, Pays, Succeeds
<1>3. CASE Fails /\ UNCHANGED tables /\ Go(w, "failed")
  BY <1>1, <1>3, FaultPaid DEF tables, Ended
<1> QED BY <1>2, <1>3 DEF Erase

LEMMA HandlerPaid ==
  ASSUME IInv, NEW w \in Workers, HandlerStep(w) \/ Die(w)
  PROVE  Paid
<1>1. CASE Die(w)
  BY <1>1, FaultPaid DEF Die, tables, provider, Ended
<1> QED BY <1>1, CountPaid, PendPaid, BootPaid, MarkPaid, UnpendPaid, InsertPaid, RestorePaid,
           ExecPaid, TakePaid, RecordPaid, StatusPaid, HaltPaid, ErasePaid DEF HandlerStep

\* Everybody else leaves the rows' presence alone and starts no machine.
LEMMA OthersPaid ==
  ASSUME IInv,
         faults' = faults \/ Fails,
         \A i \in Ids : HasRow(i)' <=> HasRow(i),
         \A r \in Requests : sandbox_instance'[r] = sandbox_instance[r],
         \A s \in Sandbox : machine'[s] = "up" => machine[s] = "up",
         \A w \in Workers : work[w].at \in {"unpend", "insert"} \cup Ended /\ w \in Requests
                             => work'[w] = work[w],
         \A w \in Workers : work'[w].at \in {"retire", "erase"} => work'[w] = work[w],
         \A r \in Requests : StatusIn(r, {"creating"}) => work'[r] = work[r]
  PROVE  Paid
<1>1. \A s \in Sandbox : HasRow(s) => HasRow(s)'
  BY DEF Ids
<1>2. \A s \in Sandbox : Expected(s) => Expected(s)'
  BY DEF Expected, Workers
<1>3. AtRisk' \subseteq AtRisk \cup {NONE}
  BY <1>1, <1>2, RiskBound
<1>4. LostPlaces' \subseteq LostPlaces \cup {NONE}
  BY PlacesBound DEF StatusIn, HasRow
<1> QED BY <1>3, <1>4, Nothing DEF Paid, Pays, Fails

LEMMA ArrivePaid ==
  ASSUME IInv, NEW r \in Requests, NEW op \in Operations, NEW id, NEW n, Arrive(r, op, id, n)
  PROVE  Paid
<1>1. r \in Workers /\ work[r].at = "idle" /\ ~StatusIn(r, {"creating"})
  BY DEF Arrive, At, Workers, IInv, PendingRows, Ended
<1>2. FirstCall(op) \notin {"retire", "erase"}
  BY DEF FirstCall, Operations
<1>3. /\ \A v \in Workers : v # r => work'[v] = work[v]
      /\ work'[r].at = FirstCall(op)
      /\ UNCHANGED <<sandbox_instance, machine, faults>>
  BY <1>1 DEF Arrive, IInv, TypeOK, tables, provider
<1> QED BY <1>1, <1>2, <1>3, OthersPaid DEF HasRow, Workers, Ended

LEMMA DeliveryPaid ==
  ASSUME IInv, NEW s \in Sandbox, Deliver(s) \/ Settle(s)
  PROVE  Paid
<1>1. s \in Workers /\ s \notin Requests
  BY DistinctIds DEF Workers
<1>2. /\ \A v \in Workers : v # s => work'[v] = work[v]
      /\ work'[s] = work[s] \/ work'[s].at \in {"take", "idle"}
      /\ UNCHANGED <<sandbox_instance, machine, faults>>
  BY <1>1 DEF Deliver, Settle, Idle, IInv, TypeOK, tables, provider
<1> QED BY <1>1, <1>2, OthersPaid DEF HasRow, Workers

LEMMA WatchdogPaid ==
  ASSUME IInv, WatchdogStep \/ WatchdogDies
  PROVE  Paid
<1>1. UNCHANGED <<machine, work>> /\ (faults' = faults \/ Fails)
  BY DEF WatchdogStep, WatchdogDies, List, Send, Slept, Errored, provider,
         updateSandboxStatus, Succeeds
<1>2. /\ \A i \in Ids : HasRow(i)' <=> HasRow(i)
      /\ \A r \in Requests : sandbox_instance'[r] = sandbox_instance[r]
  BY WatchdogRows
<1> QED BY <1>1, <1>2, OthersPaid

LEMMA NextPaid == ASSUME IInv, [Next]_vars PROVE Paid
<1>1. ASSUME NEW r \in Requests, ArriveCreate(r) \/ ArriveWake(r) \/ ArriveFor(r) PROVE Paid
  <2>1. PICK op \in Operations, id \in Sandbox \cup {NONE}, n \in Snapshots \cup {NONE} :
          Arrive(r, op, id, n)
    BY <1>1, KindsAreOperations
       DEF ArriveCreate, ArriveWake, ArriveFor, Operations, IInv, TypeOK
  <2> QED BY <2>1, ArrivePaid
<1>2. ASSUME NEW s \in Sandbox, Expire(s) \/ Age(s) PROVE Paid
  <2>1. UNCHANGED <<sandbox_instance, work, faults>>
        /\ \A t \in Sandbox : machine'[t] = "up" => machine[t] = "up"
    BY <1>2 DEF Expire, Age, provider, tables, IInv, TypeOK
  <2> QED BY <2>1, OthersPaid DEF HasRow
<1>3. CASE UNCHANGED vars
  BY <1>3, OthersPaid DEF vars, tables, provider, HasRow
<1> QED BY <1>1, <1>2, <1>3, HandlerPaid, DeliveryPaid, WatchdogPaid DEF Next

LEMMA InitLInv == Init => LInv
<1> SUFFICES ASSUME Init PROVE LInv
  OBVIOUS
<1>1. AtRisk = {}
  BY DEF Init, AtRisk
<1>2. LostPlaces = {}
  BY DEF Init, LostPlaces, StatusIn, HasRow, Ids
<1>3. IsFiniteSet({}) /\ Cardinality({}) = 0 /\ faults = 0
  BY FS_EmptySet DEF Init
<1> QED BY <1>1, <1>2, <1>3, InitIInv DEF LInv, Within

LEMMA NextLInv == LInv /\ [Next]_vars => LInv'
<1> SUFFICES ASSUME LInv, [Next]_vars PROVE LInv'
  OBVIOUS
<1>1. IInv' /\ Paid /\ faults \in Nat
  BY NextIInv, NextPaid DEF LInv, IInv, TypeOK
<1>2. IsFiniteSet(AtRisk') /\ Cardinality(AtRisk') <= faults'
  BY <1>1, PaysWithin DEF LInv, Within, Paid
<1>3. IsFiniteSet(LostPlaces') /\ Cardinality(LostPlaces') <= faults'
  BY <1>1, PaysWithin DEF LInv, Within, Paid
<1> QED BY <1>1, <1>2, <1>3 DEF LInv, Within

LEMMA LossesAreBounded == LInv => LossesNeedFaults
<1> SUFFICES ASSUME LInv PROVE LossesNeedFaults
  OBVIOUS
<1>1. Unlisted \subseteq AtRisk /\ Stranded \subseteq LostPlaces
  BY DEF Unlisted, AtRisk, Stranded, LostPlaces
<1>2. ASSUME NEW S, NEW T, T \subseteq S, Within(S) PROVE Cardinality(T) <= faults
  <2>1. IsFiniteSet(T) /\ Cardinality(T) <= Cardinality(S)
    BY <1>2, FS_Subset DEF Within
  <2>2. Cardinality(T) \in Nat /\ Cardinality(S) \in Nat /\ faults \in Nat
    BY <1>2, <2>1, FS_CardinalityType DEF Within, LInv, IInv, TypeOK
  <2> QED BY <1>2, <2>1, <2>2 DEF Within
<1> QED BY <1>1, <1>2 DEF LossesNeedFaults, LInv

\* Every machine that nobody can find and every place of the operator's limit that
\* is gone for good cost a fault of its own (createSandbox, deleteSandbox), for any
\* number of sandboxes, requests, deliveries and passes of the watchdog.
THEOREM LossesArePaid == Spec => []LossesNeedFaults
BY InitLInv, NextLInv, LossesAreBounded, PTL DEF Spec
=============================================================================
