--------------------------- MODULE DesktopProofs ---------------------------
(* For any number of calls and changes: what a user is told of a call is     *)
(* true, and the screen of an application that started on an empty database  *)
(* never goes back.                                                          *)
EXTENDS Desktop, TLAPS

\* A call was carried out exactly when its connection says so, which it does
\* before the user is told.
CallsCounted ==
  \A c \in Calls :
    /\ effects[c] = IF wire[c] = "ok" THEN 1 ELSE 0
    /\ call[c] = "done" => wire[c] = "ok"
    /\ call[c] \in {"idle", "connecting"} => wire[c] = "none"

IsSnapshot(i) == queue[i].kind = "snapshot"

\* The snapshots on their way are in order: none is older than what is shown,
\* none newer than what was received.
QueueInOrder ==
  \A i \in 1..Len(queue) : IsSnapshot(i) =>
    /\ live.version <= queue[i].version
    /\ queue[i].version <= cache
    /\ \A j \in 1..Len(queue) : i <= j /\ IsSnapshot(j) => queue[i].version <= queue[j].version

ScreenBehind == live.version <= cache /\ (blank => screen.version <= live.version)

IInv == TypeOK /\ CallsCounted /\ QueueInOrder /\ ScreenBehind

NeverBack == blank' = blank /\ (blank => screen'.version >= screen.version)
-----------------------------------------------------------------------------
LEMMA EventsTyped ==
  ASSUME NEW e \in Events
  PROVE  /\ e # Error => e.kind = "snapshot" /\ e.version \in Versions
         /\ e = Error => e.kind = "error"
BY DEF Events, Snapshot, Error

LEMMA VersionsAreInts ==
  ASSUME NEW view \in View
  PROVE  view.version \in Int /\ view.version >= -2
BY DesktopAssumption DEF View, Versions, Unset, Sample

LEMMA InitIInv == Init => IInv
<1> SUFFICES ASSUME Init PROVE IInv
  OBVIOUS
<1>1. queue = <<>> /\ Len(queue) = 0 /\ queue \in Seq(Events)
  BY DEF Init
<1>2. live \in View /\ screen = live /\ live.version = -2
  BY DEF Init, View, Unset, Statuses
<1>3. TypeOK
  <2>1. 0 \in Versions /\ 0..0 = {0} /\ 0 \in 0..MaxReloads
    BY DesktopAssumption DEF Versions
  <2>2. /\ db = 0 /\ cache = 0 /\ reloads = 0 /\ stream = "building" /\ dirty \in BOOLEAN
        /\ snapshot = bootstrap
    BY DEF Init
  <2>3. bootstrap \in {Sample, 0} /\ blank \in BOOLEAN /\ load_error \in BOOLEAN
    BY DEF Init
  <2>4. /\ call \in [Calls -> {"idle", "connecting", "waiting", "done", "failed"}]
        /\ wire \in [Calls -> {"none", "sent", "ok", "refused"}]
        /\ effects \in [Calls -> Nat]
    BY DEF Init
  <2> QED BY <1>1, <1>2, <2>1, <2>2, <2>3, <2>4 DEF TypeOK
<1>4. CallsCounted
  BY DEF Init, CallsCounted
<1>5. QueueInOrder /\ ScreenBehind
  BY <1>1, <1>2 DEF Init, QueueInOrder, ScreenBehind
<1> QED BY <1>3, <1>4, <1>5 DEF IInv

\* The subscription thread publishes what it has received by now.
LEMMA PublishIInv ==
  ASSUME IInv, NEW event \in Events, Publish(event),
         event # Error => event.version = cache',
         cache' \in cache..db,
         stream' \in {"building", "subscribing", "live", "deaf", "dead"},
         UNCHANGED <<db, boot, signals, screen, reloads, calls>>
  PROVE  IInv'
<1> USE DEF IInv
<1>1. /\ queue \in Seq(Events) /\ queue' \in Seq(Events)
      /\ Len(queue) \in Nat /\ Len(queue') = Len(queue) + 1
      /\ queue'[Len(queue) + 1] = event
      /\ \A i \in 1..Len(queue) : queue'[i] = queue[i] /\ queue[i] \in Events
  BY DEF TypeOK, Publish
<1>2. TypeOK'
  BY <1>1 DEF TypeOK, boot, signals, calls, Versions
<1>3. CallsCounted'
  BY DEF CallsCounted, calls
<1>4. cache \in Int /\ cache' \in Int /\ cache <= cache' /\ live.version \in Int
  BY VersionsAreInts DEF TypeOK, Versions
<1>5. ScreenBehind'
  BY <1>4 DEF ScreenBehind, boot, signals
<1>6. QueueInOrder'
  <2>1. ASSUME NEW i \in 1..Len(queue)
        PROVE  queue[i].kind = "snapshot" => queue[i].version \in Int
    BY <1>1, EventsTyped, DesktopAssumption DEF Versions, Error
  <2>2. event.kind = "snapshot" => event.version = cache'
    BY EventsTyped
  <2> QED BY <1>1, <1>4, <2>1, <2>2 DEF QueueInOrder, IsSnapshot, ScreenBehind, signals
<1> QED BY <1>2, <1>3, <1>5, <1>6

LEMMA StreamIInv ==
  ASSUME IInv, Build \/ Subscribed \/ Receive \/ Disconnect
  PROVE  IInv'
<1>1. db \in Versions /\ cache \in 0..db /\ cache \in cache..db /\ db \in cache..db
      /\ db \in Nat /\ cache \in Nat
  BY DesktopAssumption DEF IInv, TypeOK, Versions
<1>2. Error \in Events
  BY DEF Events
<1>3. \A v \in Versions : Snapshot(v) \in Events /\ Snapshot(v).version = v
  BY DEF Events, Snapshot
<1>4. CASE Build
  <2>1. CASE Publish(Error) /\ stream' = "dead"
    BY <1>1, <1>2, <1>4, <2>1, PublishIInv DEF Build
  <2>2. CASE stream' = "subscribing" /\ UNCHANGED queue
    BY <1>4, <2>2 DEF Build, IInv, TypeOK, CallsCounted, QueueInOrder, IsSnapshot, ScreenBehind,
       boot, signals, calls
  <2> QED BY <1>4, <2>1, <2>2 DEF Build
<1>5. CASE Subscribed
  <2>1. CASE stream' = "live" /\ cache' = db /\ Publish(Snapshot(db))
    BY <1>1, <1>3, <1>5, <2>1, PublishIInv DEF Subscribed
  <2>2. CASE stream' = "deaf" /\ UNCHANGED cache /\ Publish(Error)
    BY <1>1, <1>2, <1>5, <2>2, PublishIInv DEF Subscribed
  <2> QED BY <1>5, <2>1, <2>2 DEF Subscribed
<1>6. CASE Receive
  <2>1. cache + 1 \in Versions /\ cache + 1 \in cache..db
    BY <1>1, <1>6, DesktopAssumption DEF Receive, Versions
  <2>2. Publish(Snapshot(cache + 1)) /\ cache' = cache + 1 /\ stream' = "live"
    BY <1>6 DEF Receive
  <2> QED BY <1>3, <1>6, <2>1, <2>2, PublishIInv DEF Receive
<1>7. CASE Disconnect
  BY <1>1, <1>2, <1>7, PublishIInv DEF Disconnect
<1> QED BY <1>4, <1>5, <1>6, <1>7

LEMMA HandleIInv == ASSUME IInv, Handle PROVE IInv'
<1> USE DEF IInv
<1>1. /\ queue \in Seq(Events) /\ queue' = Tail(queue) /\ queue' \in Seq(Events)
      /\ Len(queue) \in Nat /\ Len(queue) > 0 /\ Len(queue') = Len(queue) - 1
      /\ Head(queue) = queue[1] /\ queue[1] \in Events
      /\ \A i \in 1..Len(queue') : queue'[i] = queue[i + 1] /\ i + 1 \in 1..Len(queue)
  BY DEF TypeOK, Handle
<1>2. UNCHANGED <<db, cache, stream, bootstrap, blank, screen, reloads, call, wire, effects>>
  BY DEF Handle, boot, calls
<1>3. CASE queue[1] = Error
  <2>1. live' = [live EXCEPT !.status = "Error"] /\ load_error' = TRUE /\ snapshot' = snapshot
        /\ dirty' = TRUE
    BY <1>1, <1>3 DEF Handle
  <2>2. live' \in View /\ live'.version = live.version
    BY <2>1 DEF TypeOK, View, Statuses
  <2>3. TypeOK'
    BY <1>1, <1>2, <2>1, <2>2 DEF TypeOK
  <2>4. QueueInOrder'
    BY <1>1, <1>2, <2>2 DEF QueueInOrder, IsSnapshot
  <2> QED BY <1>2, <2>2, <2>3, <2>4 DEF CallsCounted, ScreenBehind
<1>4. CASE queue[1] # Error
  <2> DEFINE v == queue[1].version
  <2>1. live' = Applied(v) /\ snapshot' = v /\ load_error' = FALSE /\ dirty' = TRUE
    BY <1>1, <1>4 DEF Handle
  <2>2. queue[1].kind = "snapshot" /\ v \in Versions /\ v \in Int
    BY <1>1, <1>4, EventsTyped, DesktopAssumption DEF Versions
  <2>3. 1 \in 1..Len(queue) /\ IsSnapshot(1)
    BY <1>1, <2>2 DEF IsSnapshot
  <2>4. live.version <= v /\ v <= cache
        /\ \A j \in 1..Len(queue) : IsSnapshot(j) => v <= queue[j].version
    BY <2>3 DEF QueueInOrder
  <2> HIDE DEF v
  <2>5. live' \in View /\ live'.version = v
    BY <2>1, <2>2 DEF Applied, View, Statuses
  <2>6. TypeOK'
    BY <1>1, <1>2, <2>1, <2>2, <2>5 DEF TypeOK
  <2>7. QueueInOrder'
    BY <1>1, <1>2, <2>4, <2>5 DEF QueueInOrder, IsSnapshot
  <2>8. ScreenBehind'
    <3>1. screen.version \in Int /\ live.version \in Int
      BY VersionsAreInts DEF TypeOK
    <3> QED BY <1>2, <2>2, <2>4, <2>5, <3>1 DEF ScreenBehind
  <2> QED BY <1>2, <2>6, <2>7, <2>8 DEF CallsCounted
<1> QED BY <1>3, <1>4

LEMMA RenderIInv == ASSUME IInv, Render PROVE IInv' /\ NeverBack
<1> USE DEF IInv
<1>1. /\ live' = IF blank THEN live ELSE Applied(bootstrap)
      /\ screen' = live' /\ dirty' = FALSE
      /\ UNCHANGED <<db, cache, stream, queue, bootstrap, blank, snapshot, load_error, reloads,
                     call, wire, effects>>
  BY DEF Render, data, boot, calls
<1>2. live' \in View /\ (blank => live' = live) /\ (~blank => live'.version = bootstrap)
  BY <1>1, DesktopAssumption DEF TypeOK, Applied, View, Statuses, Versions
<1>3. bootstrap \in Int /\ bootstrap <= 0 /\ cache \in Nat
      /\ live.version \in Int /\ screen.version \in Int
  BY VersionsAreInts, DesktopAssumption DEF TypeOK, Sample, Versions
<1>4. TypeOK'
  BY <1>1, <1>2 DEF TypeOK
<1>5. QueueInOrder'
  <2>1. ASSUME NEW i \in 1..Len(queue), IsSnapshot(i) PROVE queue[i].version \in Nat
    <3>1. queue[i] \in Events
      BY DEF TypeOK
    <3> QED BY <2>1, <3>1, EventsTyped, DesktopAssumption DEF IsSnapshot, Versions
  <2>2. ASSUME NEW i \in 1..Len(queue), IsSnapshot(i) PROVE live'.version <= queue[i].version
    <3>1. CASE blank
      BY <1>2, <2>2, <3>1 DEF QueueInOrder
    <3>2. CASE ~blank
      BY <1>2, <1>3, <2>1, <2>2, <3>2
    <3> QED BY <3>1, <3>2
  <2> QED BY <1>1, <2>2 DEF QueueInOrder, IsSnapshot
<1>6. ScreenBehind'
  BY <1>1, <1>2, <1>3 DEF ScreenBehind
<1>7. NeverBack
  BY <1>1, <1>2, <1>3 DEF ScreenBehind, NeverBack
<1> QED BY <1>1, <1>4, <1>5, <1>6, <1>7 DEF CallsCounted

\* Steps of the user and of the database that the screen does not see.
LEMMA CallIInv ==
  ASSUME IInv, NEW c \in Calls,
         Press(c) \/ Connect(c) \/ Execute(c) \/ Answer(c) \/ TimeOut(c)
  PROVE  IInv'
<1> USE DEF IInv
<1>1. /\ UNCHANGED <<cache, stream, queue, boot, signals, screen, reloads>>
      /\ db' \in Versions /\ db' >= db
  BY DesktopAssumption DEF Press, Connect, Execute, Answer, TimeOut, data, TypeOK, Versions
<1>2. /\ call' \in [Calls -> {"idle", "connecting", "waiting", "done", "failed"}]
      /\ wire' \in [Calls -> {"none", "sent", "ok", "refused"}]
      /\ effects' \in [Calls -> Nat]
      /\ CallsCounted'
  <2>1. CASE Press(c)
    BY <2>1 DEF Press, TypeOK, CallsCounted
  <2>2. CASE Connect(c)
    BY <2>2 DEF Connect, TypeOK, CallsCounted
  <2>3. CASE Execute(c)
    <3>1. CASE wire' = [wire EXCEPT ![c] = "ok"] /\ effects' = [effects EXCEPT ![c] = @ + 1]
      BY <2>3, <3>1 DEF Execute, TypeOK, CallsCounted
    <3>2. CASE wire' = [wire EXCEPT ![c] = "refused"] /\ UNCHANGED effects
      BY <2>3, <3>2 DEF Execute, TypeOK, CallsCounted
    <3> QED BY <2>3, <3>1, <3>2 DEF Execute
  <2>4. CASE Answer(c)
    BY <2>4 DEF Answer, TypeOK, CallsCounted
  <2>5. CASE TimeOut(c)
    BY <2>5 DEF TimeOut, TypeOK, CallsCounted
  <2> QED BY <2>1, <2>2, <2>3, <2>4, <2>5
<1>3. TypeOK'
  BY <1>1, <1>2, DesktopAssumption DEF TypeOK, boot, signals, Versions
<1>4. (QueueInOrder /\ ScreenBehind)'
  BY <1>1 DEF QueueInOrder, IsSnapshot, ScreenBehind, boot, signals
<1> QED BY <1>2, <1>3, <1>4

LEMMA UserIInv == ASSUME IInv, Change \/ Reload \/ Interact PROVE IInv'
<1> USE DEF IInv
<1>1. /\ UNCHANGED <<cache, stream, queue, boot, live, screen, calls>>
      /\ db' \in Versions /\ db' >= db /\ reloads' \in 0..MaxReloads
      /\ snapshot' \in {Sample} \cup Versions
      /\ load_error' \in BOOLEAN /\ dirty' \in BOOLEAN
  <2>0. /\ db \in Nat /\ db \in Versions /\ reloads \in 0..MaxReloads
        /\ snapshot \in {Sample} \cup Versions
        /\ load_error \in BOOLEAN /\ dirty \in BOOLEAN
    BY DesktopAssumption DEF TypeOK, Versions
  <2>1. CASE Change
    <3>1. db' \in Versions /\ db' >= db
      BY <2>0, <2>1, DesktopAssumption DEF Change, Versions
    <3> QED BY <2>0, <2>1, <3>1 DEF Change, signals
  <2>2. CASE Reload
    <3>1. reloads' \in 0..MaxReloads /\ db' = db /\ db' >= db
      BY <2>0, <2>2, DesktopAssumption DEF Reload, data
    <3>2. snapshot' \in {Sample} \cup Versions /\ load_error' \in BOOLEAN /\ dirty' \in BOOLEAN
      BY <2>0, <2>2 DEF Reload
    <3> QED BY <2>0, <2>2, <3>1, <3>2 DEF Reload, data
  <2>3. CASE Interact
    <3>1. dirty' \in BOOLEAN /\ db' = db /\ db' >= db
      BY <2>0, <2>3 DEF Interact, data
    <3> QED BY <2>0, <2>3, <3>1 DEF Interact, data
  <2> QED BY <2>1, <2>2, <2>3
<1>2. TypeOK'
  BY <1>1, DesktopAssumption DEF TypeOK, boot, calls, Versions
<1>3. (CallsCounted /\ QueueInOrder /\ ScreenBehind)'
  BY <1>1 DEF CallsCounted, QueueInOrder, IsSnapshot, ScreenBehind, boot, calls
<1> QED BY <1>2, <1>3

LEMMA NextIInv == IInv /\ [Next]_vars => IInv' /\ NeverBack
<1> SUFFICES ASSUME IInv, [Next]_vars PROVE IInv' /\ NeverBack
  OBVIOUS
<1>1. CASE UNCHANGED vars
  <2>1. UNCHANGED <<db, cache, stream, queue, bootstrap, blank, live, snapshot, load_error, dirty,
                    screen, reloads, call, wire, effects>>
    BY <1>1 DEF vars, data, boot, signals, calls
  <2>2. TypeOK'
    BY <2>1 DEF IInv, TypeOK
  <2>3. CallsCounted'
    BY <2>1 DEF IInv, CallsCounted
  <2>4. (QueueInOrder /\ ScreenBehind)'
    BY <2>1 DEF IInv, QueueInOrder, IsSnapshot, ScreenBehind
  <2>5. NeverBack
    BY <2>1, VersionsAreInts DEF IInv, TypeOK, NeverBack
  <2> QED BY <2>2, <2>3, <2>4, <2>5 DEF IInv
<1>2. IInv'
  BY <1>1, StreamIInv, HandleIInv, RenderIInv, CallIInv, UserIInv DEF Next
<1>3. Render \/ UNCHANGED <<blank, screen>>
  BY DEF Next, vars, boot, Build, Subscribed, Receive, Disconnect, Handle, Press, Connect, Execute,
     Answer, TimeOut, Change, Reload, Interact
<1>4. screen.version \in Int
  BY VersionsAreInts DEF IInv, TypeOK
<1> QED BY <1>2, <1>3, <1>4, RenderIInv DEF NeverBack

LEMMA Inductive == Spec => []IInv
BY InitIInv, NextIInv, PTL DEF Spec

\* Every variable has its type.
THEOREM TypeCorrect == Spec => []TypeOK
<1>1. IInv => TypeOK
  BY DEF IInv
<1> QED BY <1>1, Inductive, PTL

\* A call that was reported as done took effect once, and none takes effect twice
\* (send_live_message, resolve_live_approval), for any number of calls.
THEOREM CallsTakeEffectOnce == Spec => []CalledOnce
<1>1. IInv => CalledOnce
  <2> SUFFICES ASSUME IInv, NEW c \in Calls
               PROVE  effects[c] <= 1 /\ (call[c] = "done" => effects[c] = 1)
    BY DEF CalledOnce
  <2>1. effects[c] = IF wire[c] = "ok" THEN 1 ELSE 0
    BY DEF IInv, CallsCounted
  <2>2. call[c] = "done" => wire[c] = "ok"
    BY DEF IInv, CallsCounted
  <2> QED BY <2>1, <2>2
<1> QED BY <1>1, Inductive, PTL

\* The screen of an application that started on an empty database only moves
\* forward (run_live_subscription, app), for any number of changes.
THEOREM OnlyForward == Spec => ScreenNeverGoesBack
<1>1. IInv /\ [Next]_vars => [blank => screen'.version >= screen.version]_screen
  BY NextIInv DEF NeverBack
<1> QED BY <1>1, Inductive, PTL DEF Spec, ScreenNeverGoesBack
=============================================================================
