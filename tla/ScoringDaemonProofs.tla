------------------------ MODULE ScoringDaemonProofs ------------------------
(* For any number of trajectories, any channel and any gate: held entries    *)
(* wait, the two tables agree, a running daemon stops empty-handed, and its  *)
(* gate is the one of DelightGate, whose theorems so hold of the daemon.     *)
EXTENDS ScoringDaemon, DelightGateProofs

Rows == DOMAIN trajectory_score \cup DOMAIN training_buffer

\* A trajectory is in one place: it waits in the channel once, or is in the
\* loop's hand, or has been dealt with.
OnePlace ==
  /\ \A i \in 1..Len(channel) :
       /\ channel[i] \in submitted \ Rows
       /\ channel[i] # entry
       /\ \A j \in 1..Len(channel) : channel[i] = channel[j] => i = j
  /\ Rows \subseteq submitted
  /\ pc \notin {"receiving", "stopped"} =>
       /\ entry \in submitted
       /\ entry \notin DOMAIN training_buffer
       /\ pc # "buffering" => entry \notin DOMAIN trajectory_score

\* The score in hand is the one the reducer computes, or has just computed.
ScoreAgrees ==
  /\ pc \in {"recording", "buffering"} =>
       scored.delight = (Unit - scored.composite) * scored.surprise
  /\ pc = "buffering" /\ entry \in DOMAIN trajectory_score =>
       trajectory_score[entry] = scored.delight

NothingHeld == running => held = {}

IInv == TypeOK /\ OnePlace /\ ScoreAgrees /\ RowsAgree /\ NothingHeld /\ HeldEntriesWait
-----------------------------------------------------------------------------
LEMMA ProductBounded ==
  ASSUME NEW a \in Nat, NEW b \in Nat, NEW u \in Nat, a <= u, b <= u
  PROVE  a * b \in 0..(u * u)
<1>1. a * b \in Nat /\ u * u \in Nat /\ u * b \in Nat
  OBVIOUS
<1>2. a * b <= u * b
  OBVIOUS
<1>3. u * b <= u * u
  OBVIOUS
<1> QED BY <1>1, <1>2, <1>3

LEMMA DelightBounded ==
  ASSUME NEW composite \in Scores, NEW surprise \in Scores
  PROVE  (Unit - composite) * surprise \in Delights
<1>1. Unit - composite \in Nat /\ Unit - composite <= Unit /\ surprise \in Nat /\ surprise <= Unit
  BY DaemonAssumption DEF Scores
<1>2. (Unit - composite) * surprise \in 0..(Unit * Unit)
  BY <1>1, ProductBounded, DaemonAssumption
<1> QED BY <1>2, SizesAssumption DEF Delights

LEMMA SurpriseTyped ==
  ASSUME NEW distance \in Distances
  PROVE  compute_surprise(distance) \in Scores
BY DaemonAssumption DEF Distances, compute_surprise, Scores
-----------------------------------------------------------------------------
LEMMA InitIInv == Init => IInv
<1> SUFFICES ASSUME Init PROVE IInv
  OBVIOUS
<1>1. channel = <<>> /\ Len(channel) = 0 /\ channel \in Seq(Trajectories)
  BY DEF Init
<1>2. DOMAIN trajectory_score = {} /\ DOMAIN training_buffer = {}
  BY DEF Init
<1>3. TypeOK
  BY <1>1, <1>2, DaemonAssumption DEF Init, TypeOK, RowsOf, DaemonState, Pcs
<1>4. OnePlace
  BY <1>1, <1>2 DEF Init, OnePlace, Rows
<1> QED BY <1>2, <1>3, <1>4 DEF Init, IInv, ScoreAgrees, RowsAgree, NothingHeld, HeldEntriesWait

LEMMA SubmitIInv == ASSUME IInv, NEW t \in Trajectories, submit(t) PROVE IInv'
<1> USE DEF IInv
<1>1. /\ t \notin submitted /\ submitted' = submitted \cup {t}
      /\ channel' = Append(channel, t) /\ Len(channel) < ChannelBuffer
      /\ held' = IF running THEN held ELSE held \cup {t}
      /\ UNCHANGED <<profile, handles, running, state, pc, entry, scored, trajectory_count,
                     trajectory_score, training_buffer, pauses>>
  BY DEF submit, loopVars, tables
<1>2. /\ channel \in Seq(Trajectories) /\ channel' \in Seq(Trajectories)
      /\ Len(channel) \in Nat /\ Len(channel') = Len(channel) + 1
      /\ channel'[Len(channel) + 1] = t
      /\ \A i \in 1..Len(channel) : channel'[i] = channel[i]
  BY <1>1 DEF TypeOK
<1>3. TypeOK'
  BY <1>1, <1>2, DaemonAssumption DEF TypeOK, RowsOf
<1>4. OnePlace'
  <2>1. t # entry
    BY <1>1, DaemonAssumption DEF OnePlace, TypeOK
  <2>2. \A i \in 1..Len(channel') : i \in 1..Len(channel) \/ i = Len(channel) + 1
    BY <1>2
  <2>3. t \notin Rows /\ \A i \in 1..Len(channel) : channel[i] # t
    BY <1>1 DEF OnePlace
  <2> QED BY <1>1, <1>2, <2>1, <2>2, <2>3 DEF OnePlace, Rows
<1>5. (ScoreAgrees /\ RowsAgree /\ NothingHeld)'
  BY <1>1 DEF ScoreAgrees, RowsAgree, NothingHeld
<1>6. HeldEntriesWait'
  BY <1>1 DEF HeldEntriesWait, OnePlace
<1> QED BY <1>3, <1>4, <1>5, <1>6

LEMMA HandleIInv == ASSUME IInv, pause \/ resume \/ DropHandles PROVE IInv'
<1> USE DEF IInv
<1>1. /\ UNCHANGED <<profile, channel, state, pc, entry, scored, trajectory_count,
                     trajectory_score, training_buffer, submitted>>
      /\ held' = {} \/ (held' = held /\ running' = running)
      /\ running' \in BOOLEAN /\ handles' \in BOOLEAN /\ pauses' \in 0..MaxPauses
  <2>1. CASE pause
    <3>1. pauses' \in 0..MaxPauses
      BY <2>1, DaemonAssumption DEF pause, TypeOK
    <3>2. running' \in BOOLEAN /\ handles' \in BOOLEAN
      BY <2>1 DEF pause, TypeOK
    <3> QED BY <2>1, <3>1, <3>2 DEF pause, loopVars, tables
  <2>2. CASE resume
    BY <2>2 DEF resume, loopVars, tables, TypeOK
  <2>3. CASE DropHandles
    BY <2>3 DEF DropHandles, loopVars, tables, TypeOK
  <2> QED BY <2>1, <2>2, <2>3
<1>2. TypeOK'
  BY <1>1 DEF TypeOK, RowsOf
<1>3. (OnePlace /\ ScoreAgrees /\ RowsAgree)'
  BY <1>1 DEF OnePlace, Rows, ScoreAgrees, RowsAgree
<1>4. (NothingHeld /\ HeldEntriesWait)'
  BY <1>1 DEF NothingHeld, HeldEntriesWait
<1> QED BY <1>2, <1>3, <1>4

\* A step of the loop that leaves the tables alone and keeps or drops its entry.
LEMMA QuietIInv ==
  ASSUME IInv,
         UNCHANGED <<profile, handles, running, pauses, submitted, held>>,
         UNCHANGED <<trajectory_score, training_buffer>>,
         channel' = channel \/ channel' = <<>>,
         trajectory_count' \in Nat, state' \in DaemonState, pc' \in Pcs,
         pc' = "stopped" <=> state' = "Stopped",
         \/ pc' \in {"receiving", "stopped"} /\ entry' = NONE
         \/ /\ pc \notin {"receiving", "stopped", "buffering"} /\ entry' = entry
            /\ pc' \notin {"receiving", "stopped", "recording", "buffering"}
            /\ pc' = "judging" => running
  PROVE  IInv'
<1> USE DEF IInv
<1>1. channel' \in Seq(Trajectories) /\ Len(channel') <= ChannelBuffer
      /\ Len(channel') \in Nat
      /\ \A i \in 1..Len(channel') : i \in 1..Len(channel) /\ channel'[i] = channel[i]
  <2>1. CASE channel' = channel
    BY <2>1 DEF TypeOK
  <2>2. CASE channel' = <<>>
    <3>1. <<>> \in Seq(Trajectories) /\ Len(<<>>) = 0
      OBVIOUS
    <3> QED BY <2>2, <3>1, DaemonAssumption
  <2> QED BY <2>1, <2>2
<1>2. TypeOK'
  BY <1>1 DEF TypeOK, RowsOf
<1>3. OnePlace'
  <2>1. \A i \in 1..Len(channel) : channel[i] \in Trajectories
    BY DEF TypeOK
  <2>2. \A i \in 1..Len(channel) : channel[i] # entry'
    BY <2>1, DaemonAssumption DEF OnePlace
  <2> QED BY <1>1, <2>2 DEF OnePlace, Rows
<1>4. (ScoreAgrees /\ RowsAgree /\ NothingHeld)'
  BY DEF ScoreAgrees, RowsAgree, NothingHeld
<1>5. HeldEntriesWait'
  BY DEF HeldEntriesWait, NothingHeld
<1> QED BY <1>2, <1>3, <1>4, <1>5

LEMMA ReceiveIInv == ASSUME IInv, Receive PROVE IInv'
<1> USE DEF IInv
<1>1. /\ pc = "receiving" /\ pc' = "checking" /\ channel # <<>>
      /\ entry' = Head(channel) /\ channel' = Tail(channel)
      /\ UNCHANGED <<profile, handles, running, pauses, submitted, held, state, scored,
                     trajectory_count, trajectory_score, training_buffer>>
  BY DEF Receive, loopAt, tables
<1>2. /\ channel \in Seq(Trajectories) /\ Len(channel) \in Nat /\ Len(channel) > 0
      /\ channel' \in Seq(Trajectories) /\ Len(channel') = Len(channel) - 1
      /\ entry' = channel[1] /\ entry' \in Trajectories
      /\ \A i \in 1..Len(channel') : channel'[i] = channel[i + 1] /\ i + 1 \in 1..Len(channel)
  BY <1>1 DEF TypeOK
<1>3. TypeOK'
  <2>1. Len(channel') <= ChannelBuffer
    BY <1>2, DaemonAssumption DEF TypeOK
  <2> QED BY <1>1, <1>2, <2>1 DEF TypeOK, RowsOf, Pcs
<1>4. OnePlace'
  <2>1. 1 \in 1..Len(channel)
    BY <1>2
  <2>2. \A i \in 1..Len(channel') : channel'[i] # entry'
    BY <1>2, <2>1 DEF OnePlace
  <2>3. entry' \in submitted \ Rows
    BY <1>2, <2>1 DEF OnePlace
  <2> QED BY <1>1, <1>2, <2>2, <2>3 DEF OnePlace, Rows
<1>5. (ScoreAgrees /\ RowsAgree /\ NothingHeld /\ HeldEntriesWait)'
  BY <1>1 DEF ScoreAgrees, RowsAgree, NothingHeld, HeldEntriesWait
<1> QED BY <1>3, <1>4, <1>5

LEMMA BeginIInv ==
  ASSUME IInv, CheckPause \/ WaitPaused \/ ChannelClosed \/ JudgeFails
  PROVE  IInv'
<1>1. UNCHANGED <<profile, handles, running, pauses, submitted, held>>
      /\ UNCHANGED <<trajectory_score, training_buffer>>
  BY DEF CheckPause, WaitPaused, ChannelClosed, JudgeFails, loopAt, Begin, Stop, tables
<1>2. channel' = channel \/ channel' = <<>>
  BY DEF CheckPause, WaitPaused, ChannelClosed, JudgeFails, Begin, Stop
<1>3. /\ trajectory_count' \in Nat /\ state' \in DaemonState /\ pc' \in Pcs
      /\ pc' = "stopped" <=> state' = "Stopped"
  BY DEF CheckPause, WaitPaused, ChannelClosed, JudgeFails, loopAt, Begin, Stop, NextEntry,
         IInv, TypeOK, DaemonState, Pcs
<1>4. \/ pc' \in {"receiving", "stopped"} /\ entry' = NONE
      \/ /\ pc \notin {"receiving", "stopped", "buffering"} /\ entry' = entry
         /\ pc' \notin {"receiving", "stopped", "recording", "buffering"}
         /\ pc' = "judging" => running
  BY DEF CheckPause, WaitPaused, ChannelClosed, JudgeFails, loopAt, Begin, Stop, NextEntry
<1> QED BY <1>1, <1>2, <1>3, <1>4, QuietIInv

LEMMA JudgeIInv == ASSUME IInv, JudgeAnswers PROVE IInv'
<1> USE DEF IInv
<1>1. /\ pc = "judging" /\ pc' = "recording"
      /\ UNCHANGED <<profile, handles, running, pauses, submitted, held, channel, entry, state,
                     trajectory_count, trajectory_score, training_buffer>>
  BY DEF JudgeAnswers, loopAt, tables
<1>2. PICK judged \in Judgements, distance \in Distances :
        LET surprise == IF is_cold_start(trajectory_count) THEN Unit
                        ELSE compute_surprise(distance)
            delight == compute_delight(compute_loss(judged.composite), surprise)
        IN scored' = [in_range |-> judged.in_range, composite |-> judged.composite,
                      surprise |-> surprise, delight |-> delight,
                      should_buffer |-> delight > threshold]
  BY DEF JudgeAnswers
<1> DEFINE surprise == IF is_cold_start(trajectory_count) THEN Unit
                       ELSE compute_surprise(distance)
           delight == (Unit - judged.composite) * surprise
<1>3. scored' = [in_range |-> judged.in_range, composite |-> judged.composite,
                 surprise |-> surprise, delight |-> delight,
                 should_buffer |-> delight > threshold]
  BY <1>2 DEF compute_delight, compute_loss
<1>4. surprise \in Scores /\ judged.composite \in Scores /\ judged.in_range \in BOOLEAN
  BY SurpriseTyped, DaemonAssumption DEF Judgements, Scores
<1> HIDE DEF surprise
<1>5. delight \in Delights
  BY <1>4, DelightBounded
<1>6. scored' \in ScoredTrajectory
  BY <1>3, <1>4, <1>5 DEF ScoredTrajectory
<1>7. scored'.delight = (Unit - scored'.composite) * scored'.surprise
  BY <1>3
<1>8. TypeOK'
  BY <1>1, <1>6 DEF TypeOK, RowsOf, Pcs
<1>9. (OnePlace /\ RowsAgree /\ NothingHeld)'
  BY <1>1 DEF OnePlace, Rows, RowsAgree, NothingHeld
<1>10. (ScoreAgrees /\ HeldEntriesWait)'
  BY <1>1, <1>7 DEF ScoreAgrees, HeldEntriesWait
<1> QED BY <1>8, <1>9, <1>10

LEMMA RecordIInv == ASSUME IInv, RecordScore PROVE IInv'
<1> USE DEF IInv
<1>1. /\ pc = "recording" /\ entry \in Trajectories /\ scored \in ScoredTrajectory
      /\ UNCHANGED <<profile, handles, running, pauses, submitted, held, channel, state,
                     trajectory_count, training_buffer>>
      /\ \/ pc' = "buffering" /\ UNCHANGED <<entry, scored>>
         \/ pc' = "receiving" /\ entry' = NONE
  BY DEF RecordScore, AfterRecording, NextEntry, loopAt, tables, TypeOK
<1>2. (Unit - scored.composite) * scored.surprise \in Delights
  BY <1>1, DelightBounded DEF ScoredTrajectory
<1>3. \/ trajectory_score' = trajectory_score
      \/ /\ DOMAIN trajectory_score' = {entry} \cup DOMAIN trajectory_score
         /\ \A t \in DOMAIN trajectory_score : t # entry => trajectory_score'[t] = trajectory_score[t]
         /\ trajectory_score'[entry] = scored.delight
  BY <1>1 DEF RecordScore, record_trajectory_score, ScoreAgrees
<1>4. RowsOf(trajectory_score)' /\ RowsOf(training_buffer)'
  BY <1>1, <1>2, <1>3 DEF TypeOK, RowsOf, ScoreAgrees
<1>5. TypeOK'
  BY <1>1, <1>4 DEF TypeOK, Pcs
<1>6. OnePlace'
  <2>1. \A i \in 1..Len(channel) : channel[i] \in Trajectories
    BY DEF TypeOK
  <2>2. \A i \in 1..Len(channel) : channel[i] # entry'
    BY <1>1, <2>1, DaemonAssumption DEF OnePlace
  <2>3. Rows' \subseteq Rows \cup {entry}
    BY <1>1, <1>3 DEF Rows
  <2> QED BY <1>1, <2>2, <2>3 DEF OnePlace, Rows
<1>7. ScoreAgrees'
  BY <1>1, <1>3 DEF ScoreAgrees, OnePlace
<1>8. RowsAgree'
  BY <1>1, <1>3 DEF RowsAgree, OnePlace
<1>9. (NothingHeld /\ HeldEntriesWait)'
  BY <1>1 DEF NothingHeld, HeldEntriesWait
<1> QED BY <1>5, <1>6, <1>7, <1>8, <1>9

LEMMA BufferIInv == ASSUME IInv, BufferTrajectory PROVE IInv'
<1> USE DEF IInv
<1>1. /\ pc = "buffering" /\ entry \in Trajectories /\ scored \in ScoredTrajectory
      /\ UNCHANGED <<profile, handles, running, pauses, submitted, held, channel, state,
                     trajectory_count, trajectory_score>>
      /\ pc' = "receiving" /\ entry' = NONE
  BY DEF BufferTrajectory, NextEntry, loopAt, tables, TypeOK
<1>2. \/ training_buffer' = training_buffer
      \/ /\ DOMAIN training_buffer' = {entry} \cup DOMAIN training_buffer
         /\ \A t \in DOMAIN training_buffer : t # entry => training_buffer'[t] = training_buffer[t]
         /\ training_buffer'[entry] = scored.delight
  BY DEF BufferTrajectory, buffer_high_delight_trajectory
<1>3. RowsOf(trajectory_score)' /\ RowsOf(training_buffer)'
  BY <1>1, <1>2 DEF TypeOK, RowsOf, ScoredTrajectory
<1>4. TypeOK'
  BY <1>1, <1>3 DEF TypeOK, Pcs
<1>5. OnePlace'
  <2>1. \A i \in 1..Len(channel) : channel[i] \in Trajectories
    BY DEF TypeOK
  <2>2. \A i \in 1..Len(channel) : channel[i] # entry'
    BY <1>1, <2>1, DaemonAssumption
  <2>3. Rows' \subseteq Rows \cup {entry}
    BY <1>1, <1>2 DEF Rows
  <2> QED BY <1>1, <2>2, <2>3 DEF OnePlace, Rows
<1>6. RowsAgree'
  BY <1>1, <1>2 DEF RowsAgree, ScoreAgrees
<1>7. (ScoreAgrees /\ NothingHeld /\ HeldEntriesWait)'
  BY <1>1 DEF ScoreAgrees, NothingHeld, HeldEntriesWait
<1> QED BY <1>4, <1>5, <1>6, <1>7

LEMMA NextIInv == IInv /\ [Next]_vars => IInv'
<1> SUFFICES ASSUME IInv, [Next]_vars PROVE IInv'
  OBVIOUS
<1>1. CASE UNCHANGED vars
  BY <1>1 DEF vars, loopVars, tables, IInv, TypeOK, RowsOf, OnePlace, Rows, ScoreAgrees, RowsAgree,
     NothingHeld, HeldEntriesWait
<1> QED BY <1>1, SubmitIInv, HandleIInv, ReceiveIInv, BeginIInv, JudgeIInv, RecordIInv, BufferIInv
        DEF Next, daemon_loop

LEMMA Inductive == Spec => []IInv
BY InitIInv, NextIInv, PTL DEF Spec

\* The loop has an entry and a score where it needs them; every variable of the
\* daemon's own has its type.
THEOREM TypeCorrect == Spec => []TypeOK
<1>1. IInv => TypeOK
  BY DEF IInv
<1> QED BY <1>1, Inductive, PTL

\* No entry sent during a pause is scored before the daemon is resumed
\* (daemon_loop reads the flag after recv), for channels of any size.
THEOREM HeldWait == Spec => []HeldEntriesWait
<1>1. IInv => HeldEntriesWait
  BY DEF IInv
<1> QED BY <1>1, Inductive, PTL

\* The row the reducer computes and the row the gate let through carry the same
\* delight (score_trajectory, record_trajectory_score), for any gate.
THEOREM TablesAgree == Spec => []RowsAgree
<1>1. IInv => RowsAgree
  BY DEF IInv
<1> QED BY <1>1, Inductive, PTL

\* A daemon that is not paused ends with nothing in its channel or its hand.
THEOREM NothingDropped == Spec => StopsEmptyHanded
<1>1. ASSUME IInv, [Next]_vars
      PROVE  [pc' = "stopped" /\ pc # "stopped" /\ running => InFlight = {}]_vars
  <2> SUFFICES ASSUME pc' = "stopped", pc # "stopped", running PROVE InFlight = {}
    OBVIOUS
  <2>1. daemon_loop
    <3>1. pc' # pc
      OBVIOUS
    <3>2. ~UNCHANGED vars /\ ~pause /\ ~resume /\ ~DropHandles
      BY <3>1 DEF vars, loopVars, pause, resume, DropHandles
    <3>3. \A t \in Trajectories : ~submit(t)
      BY <3>1 DEF loopVars, submit
    <3> QED BY <1>1, <3>2, <3>3 DEF Next
  <2>2. ChannelClosed
    BY <2>1 DEF daemon_loop, Receive, CheckPause, WaitPaused, JudgeFails, JudgeAnswers,
       RecordScore, BufferTrajectory, AfterRecording, Begin, NextEntry, loopAt
  <2>3. channel = <<>> /\ entry = NONE
    BY <1>1, <2>2 DEF ChannelClosed, loopAt, IInv, TypeOK
  <2> QED BY <2>3 DEF InFlight, Sent
<1> QED BY <1>1, Inductive, PTL DEF Spec, StopsEmptyHanded
-----------------------------------------------------------------------------
(* The gate of the daemon.                                                 *)

\* Entries the loop has in hand and has not had judged.
Unjudged == IF pc \in {"checking", "waiting", "judging"} THEN 1 ELSE 0

\* No trajectory is judged twice: what the gate has seen in this period, what waits and
\* what is in hand are no more than what was submitted.
JudgedOnce ==
  /\ total_count \in Nat
  /\ total_count + Len(channel) + Unjudged <= Cardinality(submitted)

LEMMA SubmittedFinite ==
  ASSUME IInv
  PROVE  /\ IsFiniteSet(submitted) /\ Cardinality(submitted) \in Nat
         /\ Cardinality(Trajectories) \in Nat
         /\ Cardinality(submitted) <= Cardinality(Trajectories)
<1>1. submitted \subseteq Trajectories /\ IsFiniteSet(Trajectories)
  BY SizesAssumption DEF IInv, TypeOK
<1> QED BY <1>1, FS_Subset, FS_CardinalityType

LEMMA SubmitJudged == ASSUME IInv, JudgedOnce, NEW t \in Trajectories, submit(t) PROVE JudgedOnce'
<1>1. /\ UNCHANGED <<total_count, pc>> /\ channel' = Append(channel, t)
      /\ t \notin submitted /\ submitted' = submitted \cup {t}
  BY DEF submit, loopVars, gateVars
<1>2. Cardinality(submitted') = Cardinality(submitted) + 1
  BY <1>1, SubmittedFinite, FS_AddElement
<1>3. Len(channel') = Len(channel) + 1 /\ Len(channel) \in Nat
  BY <1>1 DEF IInv, TypeOK
<1>4. Unjudged' = Unjudged /\ Unjudged \in Nat
  BY <1>1 DEF Unjudged
<1> HIDE DEF Unjudged
<1> QED BY <1>1, <1>2, <1>3, <1>4, SubmittedFinite DEF JudgedOnce

\* The gate counts one score at most.
LEMMA GateCounts ==
  ASSUME total_count \in Nat, NEW delight, should_buffer(delight)
  PROVE  total_count' \in Nat /\ total_count' <= total_count + 1
BY DEF should_buffer, recompute_threshold

LEMMA LoopJudged == ASSUME IInv, JudgedOnce, daemon_loop PROVE JudgedOnce'
<1>0. /\ submitted' = submitted /\ channel \in Seq(Trajectories) /\ Len(channel) \in Nat
      /\ Cardinality(submitted) \in Nat
  BY SubmittedFinite DEF daemon_loop, Receive, ChannelClosed, CheckPause, WaitPaused, JudgeFails,
     JudgeAnswers, RecordScore, BufferTrajectory, loopAt, IInv, TypeOK
<1>1. CASE Receive
  <2>1. /\ pc = "receiving" /\ pc' = "checking" /\ total_count' = total_count
        /\ channel # <<>> /\ channel' = Tail(channel)
    BY <1>1 DEF Receive, loopAt, gateVars
  <2>2. Len(channel') + 1 = Len(channel) /\ Len(channel') \in Nat
    BY <1>0, <2>1
  <2> QED BY <1>0, <2>1, <2>2 DEF JudgedOnce, Unjudged
<1>2. CASE JudgeAnswers
  <2>1. pc = "judging" /\ pc' = "recording" /\ channel' = channel
    BY <1>2 DEF JudgeAnswers, loopAt
  <2>2. \E delight : should_buffer(delight)
    BY <1>2 DEF JudgeAnswers
  <2>3. total_count' \in Nat /\ total_count' <= total_count + 1
    BY <2>2, GateCounts DEF JudgedOnce
  <2> QED BY <1>0, <2>1, <2>3 DEF JudgedOnce, Unjudged
<1>3. CASE ~Receive /\ ~JudgeAnswers
  <2>1. /\ total_count' = total_count
        /\ channel' = channel \/ channel' = <<>>
        /\ pc' \in {"checking", "waiting", "judging"} => pc \in {"checking", "waiting", "judging"}
    BY <1>3 DEF daemon_loop, ChannelClosed, CheckPause, WaitPaused, JudgeFails, RecordScore,
       BufferTrajectory, AfterRecording, Begin, NextEntry, Stop, loopAt, gateVars
  <2>2. Len(channel') \in Nat /\ Len(channel') <= Len(channel)
    BY <1>0, <2>1
  <2>3. Unjudged' \in Nat /\ Unjudged \in Nat /\ Unjudged' <= Unjudged
    BY <2>1 DEF Unjudged
  <2> HIDE DEF Unjudged
  <2> QED BY <1>0, <2>1, <2>2, <2>3 DEF JudgedOnce
<1> QED BY <1>1, <1>2, <1>3

LEMMA NextJudged == IInv /\ JudgedOnce /\ [Next]_vars => JudgedOnce'
<1> SUFFICES ASSUME IInv, JudgedOnce, [Next]_vars PROVE JudgedOnce'
  OBVIOUS
<1>1. CASE UNCHANGED vars
  BY <1>1 DEF vars, loopVars, gateVars, JudgedOnce, Unjudged
<1>2. CASE pause \/ resume \/ DropHandles
  BY <1>2 DEF pause, resume, DropHandles, loopVars, gateVars, JudgedOnce, Unjudged
<1> QED BY <1>1, <1>2, SubmitJudged, LoopJudged DEF Next

\* A step of the daemon is one of the gate or leaves it alone.
LEMMA GateStep ==
  ASSUME IInv, JudgedOnce, [Next]_vars PROVE [GateNext]_gateVars
<1>1. CASE JudgeAnswers
  <2>1. PICK judged \in Judgements, distance \in Distances :
          should_buffer(compute_delight(compute_loss(judged.composite),
            IF is_cold_start(trajectory_count) THEN Unit ELSE compute_surprise(distance)))
    BY <1>1 DEF JudgeAnswers
  <2>2. PICK surprise :
          surprise = IF is_cold_start(trajectory_count) THEN Unit ELSE compute_surprise(distance)
    OBVIOUS
  <2>3. surprise \in Scores /\ judged.composite \in Scores
    BY <2>2, SurpriseTyped, DaemonAssumption DEF Judgements, Scores
  <2>4. (Unit - judged.composite) * surprise \in Delights
    BY <2>3, DelightBounded
  <2>5. should_buffer((Unit - judged.composite) * surprise)
    BY <2>1, <2>2 DEF compute_delight, compute_loss
  <2>6. total_count < MaxScores
    <3>1. pc = "judging" /\ Len(channel) \in Nat
      BY <1>1 DEF JudgeAnswers, loopAt, IInv, TypeOK
    <3> QED BY <3>1, SubmittedFinite, SizesAssumption, GateAssumption DEF JudgedOnce, Unjudged
  <2> QED BY <2>4, <2>5, <2>6 DEF GateNext
<1>2. CASE ~JudgeAnswers
  BY <1>2 DEF Next, vars, submit, pause, resume, DropHandles, daemon_loop, Receive, ChannelClosed,
     CheckPause, WaitPaused, JudgeFails, RecordScore, BufferTrajectory, Begin, Stop, loopAt,
     loopVars, gateVars
<1> QED BY <1>1, <1>2

\* The daemon implements the gate: of its loop only score_trajectory touches the gate, once
\* for a trajectory, with a delight the gate knows.
THEOREM ImplementsGate == Spec => GateSpec
<1>1. Init => GateInit /\ IInv /\ JudgedOnce
  <2> SUFFICES ASSUME Init PROVE GateInit /\ IInv /\ JudgedOnce
    OBVIOUS
  <2>1. GateInit /\ IInv
    BY InitIInv DEF Init
  <2>2. total_count = 0 /\ channel = <<>> /\ pc = "receiving" /\ submitted = {}
    BY DEF Init, GateInit
  <2>3. Len(channel) = 0 /\ Unjudged = 0 /\ Cardinality(submitted) \in Nat
    BY <2>1, <2>2, SubmittedFinite DEF Unjudged
  <2> QED BY <2>1, <2>2, <2>3 DEF JudgedOnce
<1>2. IInv /\ JudgedOnce /\ [Next]_vars => (IInv /\ JudgedOnce)' /\ [GateNext]_gateVars
  BY NextIInv, NextJudged, GateStep
<1> QED BY <1>1, <1>2, PTL DEF Spec, GateSpec

\* So what is proved of the gate holds in the running daemon: a starved gate is
\* never relaxed, and no threshold lets through more than the ceiling of its window.
THEOREM GateHolds == Spec => [](GateTypeOK /\ FloorNeverBinds) /\ CeilingHolds
<1> QED BY ImplementsGate, GateTypeCorrect, FloorHolds, CeilingKept, PTL
=============================================================================
