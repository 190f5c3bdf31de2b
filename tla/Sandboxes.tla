----------------------------- MODULE Sandboxes -----------------------------
(* Sandboxes of one operator: the rows of sandbox_instance and               *)
(* sandbox_snapshot against the machines of the provider.  Web requests,     *)
(* the watchdog of the cron route and deliveries of the lifecycle queue work *)
(* on them side by side; every call to the provider or to a reducer is a     *)
(* step of its own, and a handler may fail or be killed between two.         *)
EXTENDS Naturals, FiniteSets

CONSTANTS
  Sandbox,         \* ids the provider gives to machines
  Requests,        \* web requests; r also stands for its "pending_<uuid>"
  Snapshots,       \* ids the provider gives to images
  Kinds,           \* operations that requests may ask for
  MaxPerOperator,  \* sandboxMaxPerOperator
  RetryLimit,      \* deliveries after which a failure is acknowledged (3)
  MaxFaults,       \* bound: calls that fail and handlers that are killed
  NONE

VARIABLES
  sandbox_instance,  \* table: NONE or a row, by id
  sandbox_snapshot,  \* table: ids present
  machine,           \* the provider's machines
  image,             \* the provider's images: the machine each was taken of
  work,              \* what each request, and each delivery, is doing
  mail,              \* deliveries so far of the queued sleep of a sandbox
  pass,              \* the watchdog
  fresh,             \* rows updated within the idle timeout
  faults             \* faults so far

tables == <<sandbox_instance, sandbox_snapshot, fresh>>
provider == <<machine, image>>
vars == <<tables, provider, work, mail, pass, faults>>

Ids == Sandbox \cup Requests

SandboxStatus == {"creating", "running", "sleeping", "stopped", "error"}

SandboxRow == [status: SandboxStatus, snapshot: Snapshots \cup {NONE}]

ASSUME DistinctIds ==
  /\ NONE \notin Sandbox \cup Requests \cup Snapshots \cup SandboxRow
  /\ Sandbox \cap Requests = {}

ASSUME BoundsAreNumbers == RetryLimit \in Nat /\ MaxFaults \in Nat

Operations == {"create", "wake", "run", "snapshot", "sleep", "stop", "delete"}

ASSUME KindsAreOperations == Kinds \subseteq Operations

\* Where a handler is: the call it makes next, or how it ended.  A call that was
\* carried out and whose answer is lost is a call followed by Die.
Calls == {"count", "pend", "boot", "mark", "unpend", "insert", "restore", "exec",
          "take", "record", "revive", "halt", "rest", "retire", "erase"}
Ended == {"done", "failed"}

\* Requests have their own key; a delivery is keyed by the sandbox it is about.
Workers == Requests \cup Sandbox

Work == [op: Operations \cup {NONE}, at: Calls \cup Ended \cup {"idle"},
         id: Sandbox \cup {NONE}, snap: Snapshots \cup {NONE}]

Idle == [op |-> NONE, at |-> "idle", id |-> NONE, snap |-> NONE]

Pass == [at: {"list", "send", "slept", "errored"}, todo: SUBSET Sandbox,
         id: Sandbox \cup {NONE}]

Listing == [at |-> "list", todo |-> {}, id |-> NONE]

HasRow(id) == sandbox_instance[id] # NONE

StatusIn(id, statuses) == HasRow(id) /\ sandbox_instance[id].status \in statuses

At(w, at) == work[w].at = at

Go(w, at) ==
  work' = [work EXCEPT ![w] = [(IF at \in Ended THEN Idle ELSE @) EXCEPT !.at = at]]

\* The idle timeout of a row starts anew; only a machine's row has one.
Touch(id) == fresh' = fresh \cup ({id} \cap Sandbox)

Succeeds == UNCHANGED faults

Fails == faults < MaxFaults /\ faults' = faults + 1

Init ==
  /\ sandbox_instance = [id \in Ids |-> NONE]
  /\ sandbox_snapshot = {}
  /\ machine = [s \in Sandbox |-> "none"]
  /\ image = [n \in Snapshots |-> NONE]
  /\ work = [w \in Workers |-> Idle]
  /\ mail = [s \in Sandbox |-> 0]
  /\ pass = Listing
  /\ fresh = {}
  /\ faults = 0
-----------------------------------------------------------------------------
(* Reducers.                                                               *)

create_sandbox(id, status) ==
  /\ ~HasRow(id)
  /\ sandbox_instance' =
       [sandbox_instance EXCEPT ![id] = [status |-> status, snapshot |-> NONE]]
  /\ Touch(id)
  /\ UNCHANGED sandbox_snapshot

\* Slip: a status written to a row that is not there creates it.
upsert_sandbox_status(id, status) ==
  /\ sandbox_instance' =
       [sandbox_instance EXCEPT ![id] =
          [status |-> status, snapshot |-> IF @ = NONE THEN NONE ELSE @.snapshot]]
  /\ Touch(id)
  /\ UNCHANGED sandbox_snapshot

\* Refused when the row is gone; the caller swallows that.
update_sandbox_status(id, status) ==
  IF HasRow(id)
  THEN /\ sandbox_instance' = [sandbox_instance EXCEPT ![id].status = status]
       /\ Touch(id)
       /\ UNCHANGED sandbox_snapshot
  ELSE UNCHANGED tables

delete_sandbox(id) ==
  /\ sandbox_instance' = [sandbox_instance EXCEPT ![id] = NONE]
  /\ fresh' = fresh \ {id}
  /\ UNCHANGED sandbox_snapshot

create_sandbox_snapshot(n, id) ==
  /\ n \notin sandbox_snapshot
  /\ sandbox_snapshot' = sandbox_snapshot \cup {n}
  /\ IF HasRow(id)
     THEN /\ sandbox_instance' = [sandbox_instance EXCEPT ![id].snapshot = n]
          /\ Touch(id)
     ELSE UNCHANGED <<sandbox_instance, fresh>>

\* updateSandboxStatus: a call that fails is logged and forgotten.
updateSandboxStatus(id, status) ==
  \/ Succeeds /\ update_sandbox_status(id, status)
  \/ Fails /\ UNCHANGED tables
-----------------------------------------------------------------------------
(* A request arrives; one about a sandbox is let in if its row is there.   *)

FirstCall(op) ==
  CASE op = "create" -> "count"
    [] op = "wake" -> "restore"
    [] op = "run" -> "exec"
    [] op \in {"snapshot", "sleep"} -> "take"
    [] op \in {"stop", "delete"} -> "halt"

Arrive(r, op, id, n) ==
  /\ At(r, "idle")
  /\ work' = [work EXCEPT ![r] = [op |-> op, at |-> FirstCall(op), id |-> id, snap |-> n]]
  /\ UNCHANGED <<tables, provider, mail, pass, faults>>

ArriveCreate(r) == "create" \in Kinds /\ Arrive(r, "create", NONE, NONE)

ArriveWake(r) ==
  /\ "wake" \in Kinds
  /\ \E s \in Sandbox, n \in sandbox_snapshot :
       HasRow(s) /\ Arrive(r, "wake", NONE, n)

ArriveFor(r) ==
  \E op \in Kinds \ {"create", "wake"}, s \in Sandbox :
    HasRow(s) /\ Arrive(r, op, s, NONE)
-----------------------------------------------------------------------------
(* createSandbox and wakeSandbox.                                          *)

Active == {id \in Ids : StatusIn(id, {"creating", "running"})}

Count(r) ==
  /\ At(r, "count")
  /\ Go(r, IF Cardinality(Active) < MaxPerOperator THEN "pend" ELSE "failed")
  /\ UNCHANGED <<tables, provider, mail, pass, faults>>

Pend(r) ==
  /\ At(r, "pend")
  /\ \/ Succeeds /\ create_sandbox(r, "creating") /\ Go(r, "boot")
     \/ Fails /\ UNCHANGED tables /\ Go(r, "failed")
  /\ UNCHANGED <<provider, mail, pass>>

\* Bound: a provider that has given out all its ids refuses.
MachinesLeft == \E s \in Sandbox : machine[s] = "none"

ImagesLeft == \E n \in Snapshots : image[n] = NONE

Refuses(possible) == IF possible THEN Fails ELSE Succeeds

Start(w, s, at) ==
  /\ machine[s] = "none"
  /\ machine' = [machine EXCEPT ![s] = "up"]
  /\ work' = [work EXCEPT ![w].at = at, ![w].id = s]
  /\ UNCHANGED image

\* Sandbox.create and the set-up commands, either of which may throw.
Boot(r) ==
  /\ At(r, "boot")
  /\ \/ Succeeds /\ \E s \in Sandbox : Start(r, s, "unpend")
     \/ Fails /\ \E s \in Sandbox : Start(r, s, "mark")
     \/ Refuses(MachinesLeft) /\ UNCHANGED provider /\ Go(r, "mark")
  /\ UNCHANGED <<tables, mail, pass>>

Mark(r) ==
  /\ At(r, "mark")
  /\ updateSandboxStatus(r, "error")
  /\ Go(r, "failed")
  /\ UNCHANGED <<provider, mail, pass>>

\* The pending row goes before the real one comes; a failure is ignored.
Unpend(r) ==
  /\ At(r, "unpend")
  /\ \/ Succeeds /\ delete_sandbox(r)
     \/ Fails /\ UNCHANGED tables
  /\ Go(r, "insert")
  /\ UNCHANGED <<provider, mail, pass>>

\* Slip: no check of the answer to the last call of a creation.
InsertUnseen(r) ==
  /\ At(r, "insert")
  /\ \/ Succeeds /\ create_sandbox(work[r].id, "running")
     \/ Succeeds /\ UNCHANGED tables
  /\ Go(r, "done")
  /\ UNCHANGED <<provider, mail, pass>>

Insert(r) ==
  /\ At(r, "insert")
  /\ \/ Succeeds /\ create_sandbox(work[r].id, "running") /\ Go(r, "done")
     \/ Fails /\ UNCHANGED tables /\ Go(r, "failed")
  /\ UNCHANGED <<provider, mail, pass>>

Restore(r) ==
  /\ At(r, "restore")
  /\ \/ Succeeds /\ \E s \in Sandbox : Start(r, s, "insert")
     \/ Refuses(MachinesLeft) /\ UNCHANGED provider /\ Go(r, "failed")
  /\ UNCHANGED <<tables, mail, pass>>
-----------------------------------------------------------------------------
(* Work on a machine that exists.                                          *)

Up(w) == machine[work[w].id] = "up"

\* runInSandbox: Sandbox.get, then the command.
Exec(w) ==
  /\ At(w, "exec")
  /\ \/ Up(w) /\ Succeeds /\ Go(w, "revive")
     \/ Refuses(Up(w)) /\ Go(w, "failed")
  /\ UNCHANGED <<tables, provider, mail, pass>>

\* The provider may stop the machine to take its image.
Take(w) ==
  /\ At(w, "take")
  /\ \/ /\ Up(w) /\ Succeeds
        /\ \E n \in Snapshots :
             /\ image[n] = NONE
             /\ image' = [image EXCEPT ![n] = work[w].id]
             /\ work' = [work EXCEPT ![w].at = "record", ![w].snap = n]
        /\ \E m \in {"up", "down"} : machine' = [machine EXCEPT ![work[w].id] = m]
     \/ Refuses(Up(w) /\ ImagesLeft) /\ Go(w, "failed") /\ UNCHANGED provider
  /\ UNCHANGED <<tables, mail, pass>>

Record(w) ==
  /\ At(w, "record")
  /\ \/ Succeeds /\ create_sandbox_snapshot(work[w].snap, work[w].id) /\ Go(w, "revive")
     \/ Fails /\ UNCHANGED tables /\ Go(w, "failed")
  /\ UNCHANGED <<provider, mail, pass>>

Revive(w) ==
  /\ At(w, "revive")
  /\ updateSandboxStatus(work[w].id, "running")
  /\ Go(w, IF work[w].op = "sleep" THEN "halt" ELSE "done")
  /\ UNCHANGED <<provider, mail, pass>>

\* sleepSandbox lets a failing stop throw, stopSandbox ignores it.
Halt(w) ==
  LET sleeping == work[w].op = "sleep"
      onward == IF sleeping THEN "rest" ELSE "retire"
  IN
  /\ At(w, "halt")
  /\ \/ /\ Up(w) /\ Succeeds
        /\ machine' = [machine EXCEPT ![work[w].id] = "down"]
        /\ Go(w, onward)
     \/ /\ ~Up(w) /\ Succeeds /\ UNCHANGED machine
        /\ Go(w, onward) \/ (sleeping /\ Go(w, "failed"))
     \/ Fails /\ UNCHANGED machine /\ Go(w, IF sleeping THEN "failed" ELSE onward)
  /\ UNCHANGED <<tables, image, mail, pass>>

Rest(w) ==
  /\ At(w, "rest")
  /\ updateSandboxStatus(work[w].id, "sleeping")
  /\ Go(w, "done")
  /\ UNCHANGED <<provider, mail, pass>>

Retire(w) ==
  /\ At(w, "retire")
  /\ updateSandboxStatus(work[w].id, "stopped")
  /\ Go(w, IF work[w].op = "delete" THEN "erase" ELSE "done")
  /\ UNCHANGED <<provider, mail, pass>>

Erase(w) ==
  /\ At(w, "erase")
  /\ \/ Succeeds /\ delete_sandbox(work[w].id) /\ Go(w, "done")
     \/ Fails /\ UNCHANGED tables /\ Go(w, "failed")
  /\ UNCHANGED <<provider, mail, pass>>

\* The platform kills a handler at the end of its time.
Die(w) ==
  /\ work[w].at \in Calls
  /\ Fails
  /\ Go(w, "failed")
  /\ UNCHANGED <<tables, provider, mail, pass>>

HandlerStep(w) ==
  \/ Count(w) \/ Pend(w) \/ Boot(w) \/ Mark(w) \/ Unpend(w) \/ Insert(w) \/ Restore(w)
  \/ Exec(w) \/ Take(w) \/ Record(w) \/ Revive(w)
  \/ Halt(w) \/ Rest(w) \/ Retire(w) \/ Erase(w)
-----------------------------------------------------------------------------
(* The lifecycle queue.  The watchdog is its only producer, of sleeps.     *)

\* A sandbox that sleeps or is stopped is left alone; a row that is gone is not
\* noticed.
Deliver(s) ==
  /\ mail[s] > 0
  /\ At(s, "idle")
  /\ IF StatusIn(s, {"sleeping", "stopped"})
     THEN mail' = [mail EXCEPT ![s] = 0] /\ UNCHANGED work
     ELSE /\ work' = [work EXCEPT ![s] =
                        [op |-> "sleep", at |-> "take", id |-> s, snap |-> NONE]]
          /\ UNCHANGED mail
  /\ UNCHANGED <<tables, provider, pass, faults>>

\* Acknowledged, or delivered again unless it has failed too often.
Settle(s) ==
  /\ work[s].at \in Ended
  /\ mail' = [mail EXCEPT ![s] = IF At(s, "done") \/ @ > RetryLimit THEN 0 ELSE @ + 1]
  /\ work' = [work EXCEPT ![s] = Idle]
  /\ UNCHANGED <<tables, provider, pass, faults>>
-----------------------------------------------------------------------------
(* runSandboxWatchdog, every five minutes.                                 *)

List ==
  /\ pass.at = "list"
  /\ \E idle \in {{s \in Sandbox : StatusIn(s, {"running"}) /\ s \notin fresh}} :
       /\ idle # {}
       /\ pass' = [at |-> "send", todo |-> idle, id |-> NONE]
  /\ UNCHANGED <<tables, provider, work, mail, faults>>

Took(s, at) == pass' = [at |-> at, todo |-> pass.todo \ {s}, id |-> s]

\* The idempotency key is that of an earlier sleep of the same sandbox: the
\* queue may take the message for a repetition.
Send ==
  /\ pass.at = "send"
  /\ \E s \in pass.todo :
       \/ /\ Succeeds /\ Took(s, "slept")
          /\ mail' \in {mail, [mail EXCEPT ![s] = IF @ = 0 THEN 1 ELSE @]}
       \/ Fails /\ Took(s, "errored") /\ UNCHANGED mail
  /\ UNCHANGED <<tables, provider, work>>

NextRow ==
  pass' = IF pass.todo = {} THEN Listing ELSE [pass EXCEPT !.at = "send", !.id = NONE]

\* Slip: the watchdog leaves the status to the consumer.
SleptUnwritten ==
  /\ pass.at = "slept"
  /\ NextRow
  /\ UNCHANGED <<tables, provider, work, mail, faults>>

Slept ==
  /\ pass.at = "slept"
  /\ updateSandboxStatus(pass.id, "sleeping")
  /\ NextRow
  /\ UNCHANGED <<provider, work, mail>>

Errored ==
  /\ pass.at = "errored"
  /\ updateSandboxStatus(pass.id, "error")
  /\ NextRow
  /\ UNCHANGED <<provider, work, mail>>

WatchdogDies ==
  /\ pass # Listing
  /\ Fails
  /\ pass' = Listing
  /\ UNCHANGED <<tables, provider, work, mail>>

WatchdogStep == List \/ Send \/ Slept \/ Errored
-----------------------------------------------------------------------------
(* Time.                                                                   *)

\* The machine's own timeout of two minutes.
Expire(s) ==
  /\ machine[s] = "up"
  /\ machine' = [machine EXCEPT ![s] = "down"]
  /\ UNCHANGED <<tables, image, work, mail, pass, faults>>

\* The idle timeout of a row.
Age(s) ==
  /\ s \in fresh
  /\ fresh' = fresh \ {s}
  /\ UNCHANGED <<sandbox_instance, sandbox_snapshot, provider, work, mail, pass, faults>>

Next ==
  \/ \E r \in Requests : ArriveCreate(r) \/ ArriveWake(r) \/ ArriveFor(r)
  \/ \E w \in Workers : HandlerStep(w) \/ Die(w)
  \/ \E s \in Sandbox : Deliver(s) \/ Settle(s) \/ Expire(s) \/ Age(s)
  \/ WatchdogStep \/ WatchdogDies

Spec == Init /\ [][Next]_vars

\* Handlers go on unless they are killed, the queue delivers, the cron route is
\* called again and again, time passes.  Faults are not fair.
Fairness ==
  /\ \A w \in Workers : WF_vars(HandlerStep(w))
  /\ \A s \in Sandbox : WF_vars(Deliver(s)) /\ WF_vars(Settle(s)) /\ WF_vars(Age(s))
  /\ WF_vars(WatchdogStep)

FairSpec == Spec /\ Fairness
-----------------------------------------------------------------------------
(* Properties.                                                             *)

\* Every variable has its type.
TypeOK ==
  /\ sandbox_instance \in [Ids -> SandboxRow \cup {NONE}]
  /\ sandbox_snapshot \subseteq Snapshots
  /\ machine \in [Sandbox -> {"none", "up", "down"}]
  /\ image \in [Snapshots -> Sandbox \cup {NONE}]
  /\ work \in [Workers -> Work]
  /\ mail \in [Sandbox -> Nat]
  /\ pass \in Pass
  /\ fresh \subseteq Sandbox
  /\ faults \in 0..MaxFaults

\* Somebody is still to insert the row of machine s.
Expected(s) ==
  \E r \in Requests : work[r].id = s /\ work[r].at \in {"unpend", "insert"}

\* Machines that run and that no row admits to, nor ever will.
Unlisted == {s \in Sandbox : machine[s] = "up" /\ ~HasRow(s) /\ ~Expected(s)}

\* Pending rows whose creation is over, and which count against the limit.
Stranded ==
  {r \in Requests : StatusIn(r, {"creating"}) /\ work[r].at \in Ended}

\* A fault costs at most one machine that nobody can find and stop, and at most
\* one place of the operator's limit; without faults neither is ever lost,
\* whatever requests, deliveries and watchdog do to a sandbox at once.
LossesNeedFaults ==
  /\ Cardinality(Unlisted) <= faults
  /\ Cardinality(Stranded) <= faults

\* A sandbox that was deleted does not come back: neither a command that was
\* running, nor a snapshot, nor a late delivery, nor the watchdog's stale list
\* makes its row again.
DeletedStaysDeleted ==
  [][\A s \in Sandbox :
       machine[s] # "none" /\ ~HasRow(s) /\ ~Expected(s) => ~HasRow(s)']_vars

\* A row that says running of a machine that has gone is put right in the end,
\* although nothing tells the tables that a machine stopped.
StaleRunningFades ==
  \A s \in Sandbox :
    (StatusIn(s, {"running"}) /\ machine[s] = "down") ~> ~StatusIn(s, {"running"})
=============================================================================
