------------------------------ MODULE Desktop ------------------------------
(* The live data of the desktop application: the subscription thread of      *)
(* live.rs that turns changes of the database into events, the loop of the   *)
(* user interface that applies them, rendering, the Reload button, and the   *)
(* one-shot calls that post a message or answer an approval.  A snapshot is  *)
(* the number of changes it contains.                                        *)
EXTENDS Integers, Sequences

CONSTANTS
  Calls,       \* presses of "Send reply", "Approve" or "Reject"
  MaxChanges,  \* bound: changes of the database after the start
  MaxReloads   \* bound: presses of "Reload"

ASSUME DesktopAssumption == MaxChanges \in Nat /\ MaxReloads \in Nat

VARIABLES
  db,          \* changes made to the database
  cache,       \* changes the subscription's connection has received
  stream,      \* the subscription thread
  queue,       \* DesktopEvents not yet handled, oldest first
  bootstrap,   \* the snapshot main() started from
  blank,       \* bootstrap has neither a run nor a thread
  live,        \* LiveState: the tables and connection_status
  snapshot,    \* the older signal with the whole snapshot
  load_error,  \* an error is shown in the toolbar
  dirty,       \* app() is to be rendered
  screen,      \* what MissionControlApp last drew
  reloads,     \* presses of "Reload" so far
  call,        \* what the user is told of each call
  wire,        \* where each call is on its own connection
  effects      \* times the database carried it out

data == <<db, cache, stream, queue>>
boot == <<bootstrap, blank>>
signals == <<live, snapshot, load_error, dirty>>
calls == <<call, wire, effects>>
vars == <<data, boot, signals, screen, reloads, calls>>

Unset == -2   \* LiveState::new
Sample == -1  \* sample_snapshot(), which has runs and threads
Versions == 0..MaxChanges

Statuses == {"Connecting", "Connected", "Error"}
View == [version: {Unset, Sample} \cup Versions, status: Statuses]

Snapshot(v) == [kind |-> "snapshot", version |-> v]
Error == [kind |-> "error", version |-> -3]
Events == {Snapshot(v) : v \in Versions} \cup {Error}

\* apply_snapshot: whatever is shown counts as connected.
Applied(v) == [version |-> v, status |-> "Connected"]

\* main() loads a snapshot or falls back to the sample, then launches app().
Init ==
  /\ db = 0
  /\ cache = 0
  /\ stream = "building"
  /\ queue = <<>>
  /\ \/ bootstrap = 0 /\ blank \in BOOLEAN /\ load_error = FALSE
     \/ bootstrap = Sample /\ blank = FALSE /\ load_error = TRUE
  /\ live = [version |-> Unset, status |-> "Connecting"]
  /\ snapshot = bootstrap
  /\ dirty = TRUE
  /\ screen = live
  /\ reloads = 0
  /\ call = [c \in Calls |-> "idle"]
  /\ wire = [c \in Calls |-> "none"]
  /\ effects = [c \in Calls |-> 0]
-----------------------------------------------------------------------------
(* The database and the subscription thread.                               *)

Change ==
  /\ db < MaxChanges
  /\ db' = db + 1
  /\ UNCHANGED <<cache, stream, queue, boot, signals, screen, reloads, calls>>

\* Slip: the newest snapshot overtakes those that wait.
PublishFirst(event) == queue' = <<event>> \o queue

\* The channel is unbounded.
Publish(event) == queue' = Append(queue, event)

\* Connecting fails or the subscription is asked for.
Build ==
  /\ stream = "building"
  /\ \/ stream' = "subscribing" /\ UNCHANGED queue
     \/ stream' = "dead" /\ Publish(Error)
  /\ UNCHANGED <<db, cache, boot, signals, screen, reloads, calls>>

\* on_applied and the subscription's on_error.
Subscribed ==
  /\ stream = "subscribing"
  /\ \/ /\ stream' = "live" /\ cache' = db
        /\ Publish(Snapshot(db))
     \/ /\ stream' = "deaf" /\ UNCHANGED cache
        /\ Publish(Error)
  /\ UNCHANGED <<db, boot, signals, screen, reloads, calls>>

\* Slip: the table that changed has no watchers.
ReceiveUnwatched ==
  /\ stream = "live" /\ cache < db
  /\ cache' = cache + 1
  /\ UNCHANGED queue
  /\ UNCHANGED <<db, stream, boot, signals, screen, reloads, calls>>

\* Changes arrive one transaction at a time; the row callbacks of one publish
\* the same snapshot.
Receive ==
  /\ stream = "live" /\ cache < db
  /\ cache' = cache + 1
  /\ Publish(Snapshot(cache + 1))
  /\ UNCHANGED <<db, stream, boot, signals, screen, reloads, calls>>

\* Slip: no on_disconnect.
DisconnectSilently ==
  /\ stream \in {"subscribing", "live", "deaf"}
  /\ stream' = "dead"
  /\ UNCHANGED queue
  /\ UNCHANGED <<db, cache, boot, signals, screen, reloads, calls>>

\* The thread ends; nothing connects again.
Disconnect ==
  /\ stream \in {"subscribing", "live", "deaf"}
  /\ stream' = "dead"
  /\ Publish(Error)
  /\ UNCHANGED <<db, cache, boot, signals, screen, reloads, calls>>
-----------------------------------------------------------------------------
(* The user interface.                                                     *)

\* One turn of the event loop that app() spawns.
Handle ==
  /\ queue # <<>>
  /\ queue' = Tail(queue)
  /\ LET event == Head(queue) IN
       IF event = Error
       THEN /\ live' = [live EXCEPT !.status = "Error"]
            /\ load_error' = TRUE
            /\ UNCHANGED snapshot
       ELSE /\ live' = Applied(event.version)
            /\ snapshot' = event.version
            /\ load_error' = FALSE
  /\ dirty' = TRUE
  /\ UNCHANGED <<db, cache, stream, boot, screen, reloads, calls>>

\* app() runs again whenever a signal it reads was set, and each time it puts a
\* bootstrap snapshot that has rows back into LiveState; MissionControlApp draws
\* LiveState, never the snapshot it is given.
Render ==
  /\ dirty
  /\ live' = IF blank THEN live ELSE Applied(bootstrap)
  /\ screen' = live'
  /\ dirty' = FALSE
  /\ UNCHANGED <<data, boot, snapshot, load_error, reloads, calls>>

\* The button and the menu entry, over a connection of their own.
Reload ==
  /\ reloads < MaxReloads
  /\ reloads' = reloads + 1
  /\ \/ snapshot' = db /\ load_error' = FALSE
     \/ UNCHANGED snapshot /\ load_error' = TRUE
  /\ dirty' = TRUE
  /\ UNCHANGED <<data, boot, live, screen, calls>>

\* A menu entry, a shortcut or the splash screen: signals that app() reads.
Interact ==
  /\ dirty' = TRUE
  /\ UNCHANGED <<data, boot, live, snapshot, load_error, screen, reloads, calls>>
-----------------------------------------------------------------------------
(* send_live_message and resolve_live_approval.                            *)

Press(c) ==
  /\ call[c] = "idle"
  /\ call' = [call EXCEPT ![c] = "connecting"]
  /\ UNCHANGED <<data, boot, signals, screen, reloads, wire, effects>>

\* connect() fails or gives up after ten seconds.
Connect(c) ==
  /\ call[c] = "connecting"
  /\ \/ /\ call' = [call EXCEPT ![c] = "waiting"]
        /\ wire' = [wire EXCEPT ![c] = "sent"]
     \/ call' = [call EXCEPT ![c] = "failed"] /\ UNCHANGED wire
  /\ UNCHANGED <<data, boot, signals, screen, reloads, effects>>

\* The reducer runs, whether or not anybody still waits for it.
Execute(c) ==
  /\ wire[c] = "sent"
  /\ \/ /\ db < MaxChanges
        /\ db' = db + 1
        /\ wire' = [wire EXCEPT ![c] = "ok"]
        /\ effects' = [effects EXCEPT ![c] = @ + 1]
     \/ /\ wire' = [wire EXCEPT ![c] = "refused"]
        /\ UNCHANGED <<db, effects>>
  /\ UNCHANGED <<cache, stream, queue, boot, signals, screen, reloads, call>>

Answer(c) ==
  /\ call[c] = "waiting" /\ wire[c] \in {"ok", "refused"}
  /\ call' = [call EXCEPT ![c] = IF wire[c] = "ok" THEN "done" ELSE "failed"]
  /\ UNCHANGED <<data, boot, signals, screen, reloads, wire, effects>>

\* Slip: a call that was not answered in time is made again.
CallAgain(c) ==
  /\ call[c] = "waiting"
  /\ wire' = [wire EXCEPT ![c] = "sent"]
  /\ UNCHANGED <<data, boot, signals, screen, reloads, call, effects>>

\* recv_timeout of ten seconds; the call is still on its way.
TimeOut(c) ==
  /\ call[c] = "waiting"
  /\ call' = [call EXCEPT ![c] = "failed"]
  /\ UNCHANGED <<data, boot, signals, screen, reloads, wire, effects>>

Next ==
  \/ Change \/ Build \/ Subscribed \/ Receive \/ Disconnect
  \/ Handle \/ Render \/ Reload \/ Interact
  \/ \E c \in Calls :
       Press(c) \/ Connect(c) \/ Execute(c) \/ Answer(c) \/ TimeOut(c)

Spec == Init /\ [][Next]_vars

\* The network delivers to a connection that stands, the event loop and the
\* renderer run.
Fairness ==
  /\ WF_vars(Build) /\ WF_vars(Subscribed) /\ WF_vars(Receive)
  /\ WF_vars(Handle) /\ WF_vars(Render)

FairSpec == Spec /\ Fairness
-----------------------------------------------------------------------------
(* Properties.                                                             *)

\* Every variable has its type.
TypeOK ==
  /\ db \in Versions /\ cache \in 0..db
  /\ stream \in {"building", "subscribing", "live", "deaf", "dead"}
  /\ queue \in Seq(Events)
  /\ bootstrap \in {Sample, 0} /\ blank \in BOOLEAN
  /\ live \in View /\ screen \in View
  /\ snapshot \in {Sample} \cup Versions
  /\ load_error \in BOOLEAN /\ dirty \in BOOLEAN
  /\ reloads \in 0..MaxReloads
  /\ call \in [Calls -> {"idle", "connecting", "waiting", "done", "failed"}]
  /\ wire \in [Calls -> {"none", "sent", "ok", "refused"}]
  /\ effects \in [Calls -> Nat]

\* A message the user is told was posted is in the database once, and so is an
\* approval; one that "timed out" may be there all the same, but not twice.
CalledOnce ==
  \A c \in Calls :
    effects[c] <= 1 /\ (call[c] = "done" => effects[c] = 1)

\* What is drawn never goes back, Reload and late events included, when the
\* application started on an empty database.
ScreenNeverGoesBack ==
  [][blank => screen'.version >= screen.version]_screen

\* Every change gets on the screen of such an application while the stream lives.
ScreenCatchesUp ==
  \A v \in Versions :
    (blank /\ stream = "live" /\ db >= v) ~> (screen.version >= v \/ stream = "dead")

\* The end of its stream gets on the screen: the connection dot stops claiming a
\* connection, and no snapshot that was still waiting brings it back while the
\* stream is dead.
DeathShows ==
  (blank /\ stream = "dead") ~>
    [](stream = "dead" => screen.status \notin {"Connected", "Connecting"})

\* Nothing is left to receive, to handle or to draw.
Settled == stream = "live" /\ cache = db /\ queue = <<>> /\ ~dirty

\* An application at rest shows the database, whatever it started from.
ScreenKeepsUp == Settled => screen.version = db
=============================================================================
