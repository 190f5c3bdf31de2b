--------------------------- MODULE ScoringDaemon ---------------------------
(* The background task that scores trajectories (starbridge-core,            *)
(* scoring_daemon.rs): a bounded channel, a pause flag and a state watched   *)
(* from outside, the loop behind them with its gate, and the two tables its  *)
(* callback writes.  Scores are levels 0..Unit, delights 0..Unit * Unit.     *)
EXTENDS DelightGate

CONSTANTS
  Trajectories,   \* trajectories that may be submitted
  Profiles,       \* resource profiles the daemon may be configured with
  ChannelBuffer,  \* capacity of the channel (64)
  ColdStart,      \* entries before distances mean anything (20)
  Unit,           \* the score 1.0
  MaxPauses,      \* bound: how often the operator pauses
  NONE            \* nothing

ASSUME DaemonAssumption ==
  /\ Unit \in Nat /\ ChannelBuffer \in Nat /\ MaxPauses \in Nat
  /\ NONE \notin Trajectories

\* The gate's bounds leave room for what the daemon can score.
ASSUME SizesAssumption ==
  /\ IsFiniteSet(Trajectories)
  /\ MaxDelight = Unit * Unit
  /\ MaxScores >= Cardinality(Trajectories)

VARIABLES
  profile,        \* config.profile
  handles,        \* some DaemonHandle is left
  channel,        \* the entries sent and not yet received
  running,        \* the pause flag: true = running
  state,          \* the state that is_running() reads
  pc,             \* where the loop is
  entry,          \* the entry it has in hand
  scored,         \* its score, once there is one
  trajectory_count,
  trajectory_score, training_buffer,   \* rows by trajectory, with their delight
  pauses,         \* for the bound
  submitted,      \* trajectories sent so far: each row is announced once
  held            \* auxiliary: entries sent since the flag was last lowered

tables == <<trajectory_score, training_buffer>>
loopVars == <<pc, entry, scored, trajectory_count, gateVars, tables>>
vars == <<profile, handles, channel, running, state, loopVars, pauses, submitted, held>>

Scores == 0..Unit

DaemonState == {"Running", "Paused", "Stopped"}

Pcs == {"receiving", "checking", "waiting", "judging", "recording", "buffering",
        "stopped"}

\* ScoredTrajectory, as far as the writes depend on it.
ScoredTrajectory ==
  [in_range: BOOLEAN, composite: Scores, surprise: Scores,
   delight: Delights, should_buffer: BOOLEAN]

auto_scores == profile # "lightweight"

compute_loss(composite) == Unit - composite

compute_delight(loss, surprise) == loss * surprise

is_cold_start(count) == count < ColdStart

\* Surprise of an embedding: none at hand, no scale yet, or a distance that may
\* exceed the scale it is divided by.
compute_surprise(distance) ==
  CASE distance = NONE -> Unit
    [] distance.max_distance = 0 -> Unit
    [] distance.distance > Unit -> Unit
    [] OTHER -> distance.distance

Distances ==
  {NONE} \cup [distance: 0..(Unit + 1), max_distance: {0, 1}]

\* parse_judge_response: scores as the judge sent them.  The composite is
\* clamped, the four single scores are not.
Judgements == [in_range: BOOLEAN, composite: Scores]

Init ==
  /\ profile \in Profiles
  /\ handles = TRUE
  /\ channel = <<>>
  /\ running = TRUE
  /\ state = "Running"
  /\ pc = "receiving"
  /\ entry = NONE
  /\ scored = NONE
  /\ trajectory_count = 0
  /\ GateInit
  /\ trajectory_score = <<>>
  /\ training_buffer = <<>>
  /\ pauses = 0
  /\ submitted = {}
  /\ held = {}
-----------------------------------------------------------------------------
(* The handle.                                                             *)

Sent == {channel[i] : i \in DOMAIN channel}

\* Entries on their way: in the channel or in the loop's hand.
InFlight == (Sent \cup {entry}) \ {NONE}

\* A submit waits while the channel is full.
submit(t) ==
  /\ handles
  /\ t \notin submitted
  /\ submitted' = submitted \cup {t}
  /\ Len(channel) < ChannelBuffer
  /\ channel' = Append(channel, t)
  /\ held' = IF running THEN held ELSE held \cup {t}
  /\ UNCHANGED <<profile, handles, running, state, loopVars, pauses>>

pause ==
  /\ handles /\ running
  /\ pauses < MaxPauses
  /\ running' = FALSE
  /\ pauses' = pauses + 1
  /\ held' = {}
  /\ UNCHANGED <<profile, handles, channel, state, loopVars, submitted>>

resume ==
  /\ handles /\ ~running
  /\ running' = TRUE
  /\ held' = {}
  /\ UNCHANGED <<profile, handles, channel, state, loopVars, pauses, submitted>>

\* The last handle goes, and with it the senders of both channels.
DropHandles ==
  /\ handles
  /\ handles' = FALSE
  /\ UNCHANGED <<profile, channel, running, state, loopVars, pauses, submitted, held>>
-----------------------------------------------------------------------------
(* The loop.                                                               *)

loopAt(place) ==
  pc = place /\ UNCHANGED <<profile, handles, running, pauses, submitted, held>>

\* The task ends: what is still in the channel or in its hand goes with it.
Stop ==
  /\ pc' = "stopped"
  /\ state' = "Stopped"
  /\ channel' = <<>>
  /\ entry' = NONE
  /\ UNCHANGED <<scored, trajectory_count, gateVars, tables>>

\* Back to recv with empty hands.
NextEntry ==
  /\ pc' = "receiving"
  /\ entry' = NONE
  /\ scored' = NONE

Receive ==
  /\ loopAt("receiving")
  /\ channel # <<>>
  /\ entry' = Head(channel)
  /\ channel' = Tail(channel)
  /\ pc' = "checking"
  /\ UNCHANGED <<state, scored, trajectory_count, gateVars, tables>>

\* Slip: stops at once when the last handle goes.
ChannelClosedEarly ==
  /\ loopAt("receiving")
  /\ ~handles
  /\ Stop

\* recv gives None once the senders are gone and the channel is empty.
ChannelClosed ==
  /\ loopAt("receiving")
  /\ channel = <<>> /\ ~handles
  /\ Stop

\* The entry goes to the judge, unless the profile scores on demand only.
Begin ==
  /\ IF auto_scores
     THEN /\ state' = "Running"
          /\ trajectory_count' = trajectory_count + 1
          /\ pc' = "judging"
          /\ UNCHANGED <<entry, scored>>
     ELSE /\ NextEntry
          /\ UNCHANGED <<state, trajectory_count>>
  /\ UNCHANGED <<channel, gateVars, tables>>

\* Slip: the flag was read before the entry was received.
CheckPauseFirst ==
  /\ loopAt("checking")
  /\ Begin

CheckPause ==
  /\ loopAt("checking")
  /\ \/ running /\ Begin
     \/ /\ ~running
        /\ state' = "Paused"
        /\ pc' = "waiting"
        /\ UNCHANGED <<channel, entry, scored, trajectory_count, gateVars, tables>>

\* Slip: back in the loop, but the state is left as it is.
BeginSilently ==
  /\ pc' = "judging"
  /\ trajectory_count' = trajectory_count + 1
  /\ UNCHANGED <<state, channel, entry, scored, gateVars, tables>>

WaitSilently ==
  /\ loopAt("waiting")
  /\ running /\ BeginSilently

\* Slip: only a raised flag ends the wait.
WaitForResume ==
  /\ loopAt("waiting")
  /\ running /\ Begin

\* changed() wakes the loop when the flag is raised or the handles are gone.
WaitPaused ==
  /\ loopAt("waiting")
  /\ \/ running /\ Begin
     \/ ~running /\ ~handles /\ Stop

\* The judge's answer is missing or does not parse: the entry is dropped.
JudgeFails ==
  /\ loopAt("judging")
  /\ NextEntry
  /\ UNCHANGED <<channel, state, trajectory_count, gateVars, tables>>

\* score_trajectory.
JudgeAnswers ==
  /\ loopAt("judging")
  /\ \E judged \in Judgements, distance \in Distances :
       LET surprise == IF is_cold_start(trajectory_count) THEN Unit
                       ELSE compute_surprise(distance)
           delight == compute_delight(compute_loss(judged.composite), surprise)
       IN /\ is_cold_start(trajectory_count) => distance = NONE
          /\ should_buffer(delight)
          /\ scored' = [in_range |-> judged.in_range, composite |-> judged.composite,
                        surprise |-> surprise, delight |-> delight,
                        should_buffer |-> delight > threshold]
  /\ pc' = "recording"
  /\ UNCHANGED <<channel, entry, state, trajectory_count, tables>>

AfterRecording ==
  IF scored.should_buffer
  THEN pc' = "buffering" /\ UNCHANGED <<entry, scored>>
  ELSE NextEntry

\* Slip: stores the composite where the loss belongs.
record_score_as_loss(t) ==
  trajectory_score' =
    [x \in {t} \cup DOMAIN trajectory_score |->
       IF x = t THEN scored.composite * scored.surprise ELSE trajectory_score[x]]

\* The reducer computes loss and delight from the scores itself.
record_trajectory_score(t) ==
  trajectory_score' =
    [x \in {t} \cup DOMAIN trajectory_score |->
       IF x = t THEN (Unit - scored.composite) * scored.surprise
                ELSE trajectory_score[x]]

\* The reducer refuses single scores out of range and a call may be lost;
\* either way the loop only reports it and goes on.
RecordScore ==
  /\ loopAt("recording")
  /\ \/ scored.in_range /\ record_trajectory_score(entry)
     \/ UNCHANGED trajectory_score
  /\ AfterRecording
  /\ UNCHANGED <<channel, state, trajectory_count, gateVars, training_buffer>>

buffer_high_delight_trajectory(t) ==
  training_buffer' =
    [x \in {t} \cup DOMAIN training_buffer |->
       IF x = t THEN scored.delight ELSE training_buffer[x]]

BufferTrajectory ==
  /\ loopAt("buffering")
  /\ \/ buffer_high_delight_trajectory(entry)
     \/ UNCHANGED training_buffer
  /\ NextEntry
  /\ UNCHANGED <<channel, state, trajectory_count, gateVars, trajectory_score>>

daemon_loop ==
  \/ Receive \/ ChannelClosed
  \/ CheckPause \/ WaitPaused
  \/ JudgeFails \/ JudgeAnswers
  \/ RecordScore \/ BufferTrajectory

Next ==
  \/ \E t \in Trajectories : submit(t)
  \/ pause \/ resume \/ DropHandles
  \/ daemon_loop

Spec == Init /\ [][Next]_vars

\* The task is scheduled by the runtime and every call of the callback returns;
\* what the operator does with the handles is left open.
FairSpec == Spec /\ WF_vars(daemon_loop)
-----------------------------------------------------------------------------
(* Properties.                                                             *)

RowsOf(table) == DOMAIN table \subseteq Trajectories
                 /\ \A t \in DOMAIN table : table[t] \in Delights

\* The loop has an entry exactly between receiving and writing, and a score
\* exactly while it writes; the tables have their types, as the gate has its own.
TypeOK ==
  /\ profile \in Profiles
  /\ handles \in BOOLEAN /\ running \in BOOLEAN
  /\ channel \in Seq(Trajectories) /\ Len(channel) <= ChannelBuffer
  /\ state \in DaemonState
  /\ pc \in Pcs
  /\ pc \in {"receiving", "stopped"} => entry = NONE
  /\ pc \notin {"receiving", "stopped"} => entry \in Trajectories
  /\ pc \in {"recording", "buffering"} => scored \in ScoredTrajectory
  /\ pc = "stopped" <=> state = "Stopped"
  /\ trajectory_count \in Nat
  /\ RowsOf(trajectory_score) /\ RowsOf(training_buffer)
  /\ pauses \in 0..MaxPauses
  /\ submitted \subseteq Trajectories /\ held \subseteq submitted

\* No entry sent while the daemon is paused is scored before it is resumed, the
\* one the loop was waiting for included: the flag is read after the entry was
\* received, not before.
HeldEntriesWait ==
  pc \in {"judging", "recording", "buffering"} => entry \notin held

\* A trajectory that has both rows has one delight: what the gate judged is what
\* the reducer computes again, for clamped and missing distances too.
RowsAgree ==
  \A t \in DOMAIN trajectory_score \cap DOMAIN training_buffer :
    trajectory_score[t] = training_buffer[t]

\* A daemon that is not paused does not stop before it has taken up everything
\* that was sent.
StopsEmptyHanded ==
  [][pc' = "stopped" /\ pc # "stopped" /\ running => InFlight = {}]_vars

\* The task ends once the last handle is gone, paused or not.
DroppedHandlesStop == ~handles ~> pc = "stopped"

\* Whoever watches the state of a scoring profile sees a resumed daemon leave
\* "Paused" again.
StateFollowsResume ==
  auto_scores /\ running /\ state = "Paused" ~> state # "Paused" \/ ~running
=============================================================================
