------------------------ MODULE ObjectTrackerProofs ------------------------
(***************************************************************************)
(* Proofs about ObjectTracker for any timeouts, windows and LiDAR ids.     *)
(* That recovery goes on, under fairness, is left to TLC.                  *)
(*                                                                         *)
(* Then proofs about the expression the tracker is given (ToiRegex), for   *)
(* all sets of expressions and any number of commands: BeliefCurrent and   *)
(* RegexUnlessSkipped.                                                     *)
(***************************************************************************)
EXTENDS ObjectTracker, ToiRegex, SequenceTheorems, TLAPS

(* A tracker marked lost has no detection left, and one that was reset     *)
(* since then has not even a first one: neither goes on tracking.          *)
UnsightedIdle ==
    ~sighted => /\ "detection" \notin flags
                /\ state = "LOST" \/ (state = "INACTIVE" /\ "first_detection" \notin flags)

LEMMA UnsightedIdleInit == Init => UnsightedIdle
BY DEF Init, UnsightedIdle

\* The filter's own tick changes neither for a tracker without a first detection.
LEMMA EstimateKeepsIdle ==
    ASSUME UnsightedIdle, EstimateTarget, state # "LOST"
    PROVE  UnsightedIdle'
<1>1. sighted' = sighted
    BY DEF EstimateTarget
<1>2. CASE sighted
    BY <1>1, <1>2 DEF UnsightedIdle
<1>3. CASE ~sighted
    <2>1. "first_detection" \notin flags /\ state = "INACTIVE"
        BY <1>3 DEF UnsightedIdle
    <2>2. UNCHANGED <<state, flags>>
        BY <2>1 DEF EstimateTarget, Has
    <2>3. QED
        BY <1>1, <2>2 DEF UnsightedIdle
<1>4. QED
    BY <1>2, <1>3

LEMMA TrackKeepsIdle ==
    ASSUME UnsightedIdle, Track, sighted' = sighted
    PROVE  UnsightedIdle'
<1>1. CASE sighted
    BY <1>1 DEF UnsightedIdle
<1>2. CASE ~sighted /\ state = "LOST"
    <2>1. StaysLost
        BY <1>2 DEF UnsightedIdle, StaysLost, Has
    <2>2. QED
        BY <2>1 DEF Track, trackerVars, UnsightedIdle
<1>3. CASE ~sighted /\ state = "INACTIVE"
    <2>1. ~StaysLost /\ ~Has("first_detection")
        BY <1>3 DEF UnsightedIdle, StaysLost, Has
    <2>2. state' = "INACTIVE" /\ UNCHANGED flags
        BY <2>1 DEF Track
    <2>3. QED
        BY <1>3, <2>1, <2>2 DEF UnsightedIdle, Has
<1>4. QED
    BY <1>1, <1>2, <1>3 DEF UnsightedIdle

LEMMA MarkLostIdle ==
    ASSUME NEW m, MarkLost(m)
    PROVE  UnsightedIdle'
BY DEF MarkLost, Set, UnsightedIdle

LEMMA EstimatorTickKeepsIdle ==
    ASSUME UnsightedIdle, EstimatorTick
    PROVE  UnsightedIdle'
<1>1. CASE ApplyRecoveryOdometry
    BY <1>1 DEF ApplyRecoveryOdometry, ResetTrackingState, Set, UnsightedIdle
<1>2. CASE EstimateTarget /\ state # "LOST"
    BY <1>2, EstimateKeepsIdle
<1>3. CASE \E m : MarkLost(m)
    BY <1>3, MarkLostIdle
<1>4. CASE UNCHANGED <<trackerVars, sighted>>
    BY <1>4 DEF trackerVars, UnsightedIdle
<1>5. ASSUME NEW m, Watch(m), state # "LOST"
      PROVE  EstimateTarget \/ \E n : MarkLost(n)
    BY <1>5 DEF Watch
<1>6. QED
    BY <1>1, <1>2, <1>3, <1>4, <1>5 DEF EstimatorTick

LEMMA UnsightedIdleNext == UnsightedIdle /\ [Next]_vars => UnsightedIdle'
<1> SUFFICES ASSUME UnsightedIdle, [Next]_vars PROVE UnsightedIdle'
    OBVIOUS
<1>1. ASSUME NEW r \in {"usable", "clipped", "missed"}, Detections(r)
      PROVE  UnsightedIdle'
    BY <1>1 DEF Detections, Set, UnsightedIdle
<1>2. CASE Reset /\ sighted' = sighted
    BY <1>2 DEF Reset, ResetTrackingState, Set, UnsightedIdle
<1>3. CASE TrackingTick
    BY <1>2, <1>3, TrackKeepsIdle DEF TrackingTick
<1>4. CASE EstimatorTick
    BY <1>4, EstimatorTickKeepsIdle
<1>5. CASE UNCHANGED <<state, flags, sighted>>
    BY <1>5 DEF UnsightedIdle
<1>6. CASE Retarget
    BY <1>2, <1>6 DEF Retarget
<1>7. ASSUME CameraInfo \/ AnswerLost \/ ResetCallback \/ UpdateSettings \/ Elapse
             \/ (\E ids \in Clouds : PointCloud(ids))
             \/ (\E a \in {"moving", "stationary"} : CheckSpeedAnswer(a))
             \/ (\E o \in {"empty", "valid"} : OdometryAnswer(o))
      PROVE  UNCHANGED <<state, flags, sighted>>
    BY <1>7 DEF CameraInfo, AnswerLost, ResetCallback, UpdateSettings, Elapse, PointCloud,
                CheckSpeedAnswer, OdometryAnswer, trackerVars
<1>8. CASE UNCHANGED vars
    BY <1>5, <1>8 DEF vars, trackerVars
<1>9. QED
    BY <1>1, <1>3, <1>4, <1>5, <1>6, <1>7, <1>8 DEF Next

(* Only a new detection of its target, or a reset, ends LOST, however the  *)
(* ticks, the answers of the target vehicle and the sensors fall together. *)
THEOREM LostTillSighted == Spec => []LostUntilSighted
<1>1. UnsightedIdle => LostUntilSighted
    BY DEF UnsightedIdle, LostUntilSighted
<1>2. QED
    BY <1>1, UnsightedIdleInit, UnsightedIdleNext, PTL DEF Spec

-----------------------------------------------------------------------------
(* The confirmation of the monitor.  A request, or its answer, belongs to  *)
(* a full speed window, and there is one of them at most.                  *)
Quiet(m) == ~m.checking /\ m.answer = "none"
Sound(m) == /\ ~Quiet(m) => m.confirm = "WAITING" /\ m.speed = WindowTime
            /\ m.answer # "none" => ~m.checking
Confirming == Sound(monitor) /\ (state = "LOST" => Quiet(monitor))

LEMMA ConstantsNat ==
    /\ WindowTime \in Nat /\ SustainedTrackingTime \in Nat /\ MaxAttempts \in Nat
    /\ BackoffTime \in Nat /\ RetryBackoff \in Nat /\ ServiceResponseTimeout \in Nat
    /\ TargetTimeout \in Nat /\ ReacquireTime \in Nat /\ MaxDetectionSkew \in Nat
BY TrackerAssumption DEF TrackerAssumption

LEMMA InRange ==
    /\ 0 \in Upto(ServiceResponseTimeout)
    /\ {0, BackoffTime, RetryBackoff} \subseteq 0..(BackoffTime + RetryBackoff)
    /\ 0 \in 0..MaxAttempts
    /\ {-1, 0} \subseteq -1..SustainedTrackingTime
    /\ {-1, 0} \subseteq -1..WindowTime
BY ConstantsNat DEF Upto

LEMMA AbortConfirmQuiet ==
    ASSUME NEW m \in Monitors
    PROVE  AbortPendingConfirm(m) \in Monitors /\ Quiet(AbortPendingConfirm(m))
<1> DEFINE a == [m EXCEPT !.checking = FALSE, !.answer = "none"]
           b == [a EXCEPT !.confirm = "IDLE", !.confirm_age = 0]
<1>1. a \in Monitors /\ ~a.checking /\ a.answer = "none"
    BY DEF Monitors
<1> HIDE DEF a
<1>2. b \in Monitors /\ b.checking = a.checking /\ b.answer = a.answer
    BY <1>1, InRange DEF Monitors, Requests
<1> HIDE DEF b
<1>3. AbortPendingConfirm(m) = b
    BY DEF AbortPendingConfirm, a, b
<1>4. QED
    BY <1>1, <1>2, <1>3 DEF Quiet

LEMMA QuietSound == ASSUME NEW m, Quiet(m) PROVE Sound(m)
BY DEF Quiet, Sound

LEMMA ResetSpeedQuiet ==
    ASSUME NEW m \in Monitors, Sound(m)
    PROVE  /\ ResetSpeedWindow(m) \in Monitors
           /\ Quiet(ResetSpeedWindow(m))
<1>1. CASE m.speed = -1 /\ m.confirm = "IDLE"
    BY <1>1 DEF ResetSpeedWindow, Sound
<1>2. CASE ~(m.speed = -1 /\ m.confirm = "IDLE")
    <2>1. [m EXCEPT !.speed = -1] \in Monitors
        BY ConstantsNat DEF Monitors
    <2>2. QED
        BY <1>2, <2>1, AbortConfirmQuiet DEF ResetSpeedWindow
<1>3. QED
    BY <1>1, <1>2

LEMMA ResetWindowsQuiet ==
    ASSUME NEW m \in Monitors, Sound(m)
    PROVE  ResetWindows(m) \in Monitors /\ Quiet(ResetWindows(m))
<1>1. ResetSpeedWindow(m) \in Monitors /\ Quiet(ResetSpeedWindow(m))
    BY ResetSpeedQuiet
<1>2. QED
    BY <1>1, ConstantsNat DEF ResetWindows, Monitors, Quiet

LEMMA AbortRecoveryKeeps ==
    ASSUME NEW m \in Monitors
    PROVE  /\ AbortPendingRecovery(m) \in Monitors
           /\ Quiet(m) => Quiet(AbortPendingRecovery(m))
<1> DEFINE a == [m EXCEPT !.fetching = FALSE, !.odom = "none"]
           b == [a EXCEPT !.recovery = "IDLE", !.recovery_age = 0]
<1>1. a \in Monitors /\ a.checking = m.checking /\ a.answer = m.answer
    BY DEF Monitors
<1> HIDE DEF a
<1>2. b \in Monitors /\ b.checking = a.checking /\ b.answer = a.answer
    BY <1>1, InRange DEF Monitors, Requests
<1> HIDE DEF b
<1>3. AbortPendingRecovery(m) = b
    BY DEF AbortPendingRecovery, a, b
<1>4. QED
    BY <1>1, <1>2, <1>3 DEF Quiet

LEMMA ResetMonitorQuiet ==
    ASSUME NEW m \in Monitors, Sound(m)
    PROVE  ResetMonitor(m) \in Monitors /\ Quiet(ResetMonitor(m))
<1> DEFINE a == AbortPendingRecovery(ResetWindows(m))
           b == [a EXCEPT !.confirm_backoff = 0, !.retry = 0]
           c == [b EXCEPT !.been_active = FALSE, !.streak = -1, !.attempts = 0]
<1>1. a \in Monitors /\ Quiet(a)
    BY ResetWindowsQuiet, AbortRecoveryKeeps
<1> HIDE DEF a
<1>2. b \in Monitors /\ Quiet(b)
    BY <1>1, InRange DEF Monitors, Quiet
<1> HIDE DEF b
<1>3. c \in Monitors /\ Quiet(c)
    BY <1>2, InRange DEF Monitors, Quiet
<1>4. ResetMonitor(m) = c
    BY DEF ResetMonitor, a, b
<1>5. QED
    BY <1>3, <1>4

LEMMA SustainSound ==
    ASSUME NEW m \in Monitors, Sound(m)
    PROVE  Sustain(m) \in Monitors /\ Sound(Sustain(m))
<1> DEFINE s == IF m.streak = -1 THEN 0 ELSE m.streak
           t == [m EXCEPT !.streak = s]
           a == [t EXCEPT !.been_active = TRUE, !.attempts = 0]
<1>1. s \in -1..SustainedTrackingTime
    BY ConstantsNat DEF Monitors
<1>2. /\ t \in Monitors /\ t.checking = m.checking /\ t.answer = m.answer
      /\ t.confirm = m.confirm /\ t.speed = m.speed
    BY <1>1 DEF Monitors
<1> HIDE DEF t
<1>3. /\ a \in Monitors /\ a.checking = t.checking /\ a.answer = t.answer
      /\ a.confirm = t.confirm /\ a.speed = t.speed
    BY <1>2, InRange DEF Monitors
<1> HIDE DEF a
<1>4. [m EXCEPT !.streak = -1] \in Monitors /\ Sound([m EXCEPT !.streak = -1])
    BY ConstantsNat DEF Monitors, Sound, Quiet
<1>5. Sustain(m) \in {[m EXCEPT !.streak = -1], t, a}
    BY DEF Sustain, t, a
<1>6. Sound(t) /\ Sound(a)
    BY <1>2, <1>3 DEF Sound, Quiet
<1>7. QED
    BY <1>2, <1>3, <1>4, <1>5, <1>6

LEMMA WindowsSound ==
    ASSUME NEW m \in Monitors, Sound(m)
    PROVE  Windows(m) \in Monitors /\ Sound(Windows(m))
<1>1. CASE Has("filter") /\ state \in Active
    <2> DEFINE sp == IF m.speed = -1 THEN 0 ELSE m.speed
               un == IF m.uncertainty = -1 THEN 0 ELSE m.uncertainty
    <2>1. sp \in -1..WindowTime /\ un \in -1..WindowTime
        BY ConstantsNat DEF Monitors
    <2>2. ~Quiet(m) => sp = WindowTime
        BY ConstantsNat DEF Sound
    <2>3. Windows(m) = [m EXCEPT !.speed = sp, !.uncertainty = un]
        BY <1>1 DEF Windows
    <2> HIDE DEF sp, un
    <2>4. QED
        BY <2>1, <2>2, <2>3 DEF Monitors, Sound, Quiet
<1>2. CASE ~(Has("filter") /\ state \in Active)
    <2>1. ResetSpeedWindow(m) \in Monitors /\ Quiet(ResetSpeedWindow(m))
        BY ResetSpeedQuiet
    <2>2. QED
        BY <1>2, <2>1, ConstantsNat
        DEF Windows, Monitors, Sound, Quiet
<1>3. QED
    BY <1>1, <1>2

LEMMA NoMovementSound ==
    ASSUME NEW m \in Monitors, Sound(m), NEW n \in RunNoMovementCheck(m)
    PROVE  n \in Monitors /\ Sound(n)
<1>1. CASE n = m
    BY <1>1
<1>2. CASE n = [AbortPendingConfirm(m) EXCEPT !.confirm_backoff = RetryBackoff]
    BY <1>2, AbortConfirmQuiet, ConstantsNat
    DEF Monitors, Sound, Quiet
<1>3. CASE /\ m.confirm # "WAITING" /\ ~(m.speed < WindowTime)
           /\ n = [m EXCEPT !.checking = TRUE, !.confirm = "WAITING"]
    <2>1. Quiet(m)
        BY <1>3 DEF Sound, Quiet
    <2>2. m.speed = WindowTime
        <3>1. m.speed \in -1..WindowTime
            BY DEF Monitors
        <3>2. QED
            BY <1>3, <3>1, ConstantsNat
    <2>3. /\ n \in Monitors /\ n.speed = m.speed /\ n.confirm = "WAITING"
          /\ n.answer = m.answer
        BY <1>3 DEF Monitors, Requests
    <2>4. QED
        BY <2>1, <2>2, <2>3 DEF Sound, Quiet
<1>4. QED
    BY <1>1, <1>2, <1>3 DEF RunNoMovementCheck

LEMMA RunRecoveryQuiet ==
    ASSUME NEW m \in Monitors, Quiet(m), NEW n \in RunRecovery(m)
    PROVE  n \in Monitors /\ Quiet(n)
<1>1. CASE n = [AbortPendingRecovery(m) EXCEPT !.retry = RetryBackoff]
    BY <1>1, AbortRecoveryKeeps, ConstantsNat DEF Monitors, Quiet
<1>2. CASE n = m
    BY <1>2
<1>3. CASE n = [m EXCEPT !.fetching = TRUE, !.recovery = "WAITING"]
    BY <1>3 DEF Monitors, Requests, Quiet
<1>4. QED
    BY <1>1, <1>2, <1>3 DEF RunRecovery

-----------------------------------------------------------------------------
(* What the two ticks do to the tracker itself. *)
TrackerOK ==
    /\ state \in States
    /\ flags \subseteq Flags
    /\ tracked_id \in MarkerIds \cup {-1}
    /\ clocks \in [target : Upto(TargetTimeout), detection : Upto(TargetTimeout),
                   lidar : 0..ReacquireTime]

LEMMA ZeroClocks == 0 \in Upto(TargetTimeout) /\ 0 \in 0..ReacquireTime
BY ConstantsNat DEF Upto

LEMMA EstimateKeepsOK ==
    ASSUME TrackerOK, EstimateTarget, state # "LOST"
    PROVE  TrackerOK' /\ state' # "LOST"
<1>1. CASE ~Has("first_detection")
    BY <1>1 DEF EstimateTarget, TrackerOK
<1>2. CASE UpdateFilter /\ UNCHANGED <<clocks, tracked_id>>
    <2>1. state' \in {state, "NO_DETECTION"} /\ flags' \subseteq flags \cup {"filter"}
        BY <1>2 DEF UpdateFilter, Set
    <2>2. QED
        BY <1>2, <2>1 DEF TrackerOK, Flags, States
<1>3. CASE /\ state' = "INACTIVE" /\ tracked_id' = -1 /\ UNCHANGED clocks
           /\ Set({}, {"detection", "first_detection", "filter", "measurement", "first_lidar"})
    BY <1>3 DEF Set, TrackerOK, States
<1>4. QED
    BY <1>1, <1>2, <1>3 DEF EstimateTarget

LEMMA ResetStateOK ==
    ASSUME TrackerOK, NEW st \in States, NEW on \in SUBSET Flags, NEW off,
           ResetTrackingState(st, on, off)
    PROVE  TrackerOK' /\ state' = st
BY ZeroClocks DEF ResetTrackingState, Set, TrackerOK

LEMMA MeasuredOK ==
    ASSUME TrackerOK,
           \/ NoMeasurement \/ CameraMeasured
           \/ \E st \in {"LIDAR_ONLY_TRACKING", "FULL_TRACKING"}, id \in MarkerIds :
                 MarkerMeasured(st, id)
    PROVE  TrackerOK' /\ state' # "LOST"
<1>1. CASE NoMeasurement
    BY <1>1 DEF NoMeasurement, Set, TrackerOK, States, Active
<1>2. CASE CameraMeasured
    BY <1>2, ZeroClocks DEF CameraMeasured, Set, TrackerOK, States, Active, Flags
<1>3. ASSUME NEW st \in {"LIDAR_ONLY_TRACKING", "FULL_TRACKING"}, NEW id \in MarkerIds,
             MarkerMeasured(st, id)
      PROVE  TrackerOK' /\ state' # "LOST"
    BY <1>3, ZeroClocks DEF MarkerMeasured, Set, TrackerOK, States, Active, Flags
<1>4. QED
    BY <1>1, <1>2, <1>3

LEMMA TrackKeepsOK ==
    ASSUME TrackerOK, markers \subseteq MarkerIds, Track
    PROVE  TrackerOK' /\ (state' = "LOST" => state = "LOST")
<1>1. ASSUME TrackByLidar PROVE TrackerOK' /\ state' # "LOST"
    <2>1. CASE NoMeasurement
        BY <2>1, MeasuredOK
    <2>2. CASE \E id \in MarkerIds : MarkerMeasured("LIDAR_ONLY_TRACKING", id)
        BY <2>2, MeasuredOK
    <2>3. QED
        BY <1>1, <2>1, <2>2 DEF TrackByLidar
<1>2. ASSUME NEW d \in BOOLEAN, TrackBy(d) PROVE TrackerOK' /\ state' # "LOST"
    <2>1. CASE CameraMeasured
        BY <2>1, MeasuredOK
    <2>2. CASE \E id \in MarkerIds : MarkerMeasured("FULL_TRACKING", id)
        BY <2>2, MeasuredOK
    <2>3. QED
        BY <1>1, <1>2, <2>1, <2>2 DEF TrackBy
<1>3. CASE UNCHANGED trackerVars
    BY <1>3 DEF trackerVars, TrackerOK
<1>4. CASE state' = "INACTIVE" /\ flags' \subseteq flags /\ UNCHANGED <<tracked_id, clocks>>
    BY <1>4 DEF TrackerOK, States
<1>5. \A sel \in SelectDetection : sel \in BOOLEAN
    BY DEF SelectDetection
<1>6. QED
    BY <1>2, <1>3, <1>4, <1>5 DEF Track, Set

-----------------------------------------------------------------------------
(* Every step keeps the types, and the confirmation sound. *)
IInv == TypeOK /\ Confirming

LEMMA TypeParts ==
    TypeOK <=> /\ TrackerOK
               /\ monitor \in Monitors
               /\ camera_info \in BOOLEAN /\ has_markers \in BOOLEAN
               /\ markers \subseteq MarkerIds
               /\ reset_called \in BOOLEAN
               /\ due \subseteq Tasks
               /\ unseen \in Upto(TargetTimeout + MaxDetectionSkew + 1)
               /\ sighted \in BOOLEAN
BY DEF TypeOK, TrackerOK

LEMMA IInvInit == Init => IInv
<1> SUFFICES ASSUME Init PROVE IInv
    OBVIOUS
<1>1. TrackerOK
    BY ZeroClocks DEF Init, TrackerOK, States
<1>2. monitor \in Monitors
    BY InRange DEF Init, Monitors, Requests
<1>3. unseen \in Upto(TargetTimeout + MaxDetectionSkew + 1)
    BY ConstantsNat DEF Init, Upto
<1>4. Confirming
    BY DEF Init, Confirming, Sound, Quiet
<1>5. QED
    BY <1>1, <1>2, <1>3, <1>4, TypeParts DEF Init, IInv, Tasks

LEMMA MarkLostOK ==
    ASSUME TrackerOK, NEW m \in Monitors, Sound(m), MarkLost(m)
    PROVE  TrackerOK' /\ monitor' \in Monitors /\ Quiet(monitor') /\ sighted' \in BOOLEAN
<1>1. TrackerOK'
    BY DEF MarkLost, Set, TrackerOK, States
<1>2. QED
    BY <1>1, ResetWindowsQuiet DEF MarkLost

LEMMA WatchOK ==
    ASSUME TrackerOK, NEW m \in Monitors, Sound(m), state # "LOST", Watch(m),
           sighted \in BOOLEAN
    PROVE  TrackerOK' /\ monitor' \in Monitors /\ Confirming' /\ sighted' \in BOOLEAN
<1>1. CASE Starved(m) /\ MarkLost(AbortPendingConfirm([m EXCEPT !.attempts = @ + 1]))
    <2> DEFINE n == [m EXCEPT !.attempts = @ + 1]
    <2>1. m.attempts \in 0..MaxAttempts
        BY DEF Monitors
    <2>2. m.attempts + 1 \in 0..MaxAttempts
        BY <1>1, <2>1, ConstantsNat DEF Starved
    <2>3. n \in Monitors
        BY <2>2 DEF Monitors
    <2> HIDE DEF n
    <2>4. AbortPendingConfirm(n) \in Monitors /\ Sound(AbortPendingConfirm(n))
        BY <2>3, AbortConfirmQuiet, QuietSound
    <2>5. MarkLost(AbortPendingConfirm(n))
        BY <1>1 DEF n
    <2>6. QED
        BY <2>4, <2>5, MarkLostOK, QuietSound DEF Confirming
<1>2. CASE MarkLost(AbortPendingConfirm(Windows(m)))
    <2>1. AbortPendingConfirm(Windows(m)) \in Monitors /\ Sound(AbortPendingConfirm(Windows(m)))
        BY WindowsSound, AbortConfirmQuiet, QuietSound
    <2>2. QED
        BY <1>2, <2>1, MarkLostOK, QuietSound DEF Confirming
<1>3. CASE monitor' \in RunNoMovementCheck(Windows(m)) /\ EstimateTarget
    <2>1. monitor' \in Monitors /\ Sound(monitor')
        BY <1>3, WindowsSound, NoMovementSound
    <2>2. TrackerOK' /\ state' # "LOST"
        BY <1>3, EstimateKeepsOK
    <2>3. QED
        BY <1>3, <2>1, <2>2 DEF Confirming, EstimateTarget
<1>4. QED
    BY <1>1, <1>2, <1>3 DEF Watch

LEMMA HeardQuiet ==
    ASSUME NEW m \in Monitors, Sound(m)
    PROVE  /\ Heard(m) \in Monitors /\ Sound(Heard(m))
           /\ m.answer # "none" => Quiet(Heard(m))
           /\ Quiet(m) => Quiet(Heard(m))
<1>1. CASE m.answer = "none"
    BY <1>1 DEF Heard
<1>2. CASE m.answer # "none"
    <2> DEFINE bo == IF m.answer = "stationary" THEN BackoffTime ELSE m.confirm_backoff
               a == [m EXCEPT !.answer = "none", !.confirm = "IDLE"]
               b == [a EXCEPT !.confirm_age = 0, !.confirm_backoff = bo]
    <2>1. bo \in 0..(BackoffTime + RetryBackoff)
        BY InRange DEF Monitors
    <2> HIDE DEF bo
    <2>2. a \in Monitors /\ Quiet(a)
        BY <1>2 DEF Monitors, Requests, Sound, Quiet
    <2> HIDE DEF a
    <2>3. b \in Monitors /\ Quiet(b)
        BY <2>1, <2>2, InRange DEF Monitors, Quiet
    <2> HIDE DEF b
    <2>4. Heard(m) = b
        BY <1>2 DEF Heard, a, b, bo
    <2>5. QED
        BY <1>2, <2>3, <2>4, QuietSound
<1>3. QED
    BY <1>1, <1>2

LEMMA ApplyRecoveryOK ==
    ASSUME TrackerOK, monitor \in Monitors, Sound(monitor), sighted \in BOOLEAN,
           ApplyRecoveryOdometry
    PROVE  TrackerOK' /\ monitor' \in Monitors /\ Confirming' /\ sighted' \in BOOLEAN
<1> DEFINE r == ResetWindows(monitor)
           a == [r EXCEPT !.odom = "none", !.recovery = "IDLE", !.recovery_age = 0]
           b == [a EXCEPT !.confirm_backoff = BackoffTime, !.retry = BackoffTime]
<1>1. r \in Monitors /\ Quiet(r)
    BY ResetWindowsQuiet
<1> HIDE DEF r
<1>2. a \in Monitors /\ Quiet(a)
    BY <1>1, InRange DEF Monitors, Requests, Quiet
<1> HIDE DEF a
<1>3. b \in Monitors /\ Quiet(b)
    BY <1>2, InRange DEF Monitors, Quiet
<1> HIDE DEF b
<1>4. monitor' = b
    BY DEF ApplyRecoveryOdometry, r, a, b
<1>5. TrackerOK'
    BY ResetStateOK DEF ApplyRecoveryOdometry, States, Flags
<1>6. sighted' \in BOOLEAN
    BY DEF ApplyRecoveryOdometry
<1>7. QED
    BY <1>3, <1>4, <1>5, <1>6, QuietSound DEF Confirming

LEMMA EstimatorTickOK ==
    ASSUME TrackerOK, monitor \in Monitors, Confirming, sighted \in BOOLEAN, EstimatorTick
    PROVE  TrackerOK' /\ monitor' \in Monitors /\ Confirming' /\ sighted' \in BOOLEAN
<1>1. CASE ApplyRecoveryOdometry
    BY <1>1, ApplyRecoveryOK DEF Confirming
<1>2. CASE /\ monitor' = [monitor EXCEPT !.odom = "none", !.recovery = "IDLE",
                                         !.recovery_age = 0, !.retry = RetryBackoff]
           /\ IF state = "LOST" THEN UNCHANGED <<trackerVars, sighted>> ELSE EstimateTarget
    <2> DEFINE a == [monitor EXCEPT !.odom = "none", !.recovery = "IDLE"]
               b == [a EXCEPT !.recovery_age = 0, !.retry = RetryBackoff]
    <2>1. /\ a \in Monitors /\ a.checking = monitor.checking /\ a.answer = monitor.answer
          /\ a.confirm = monitor.confirm /\ a.speed = monitor.speed
        BY DEF Monitors, Requests
    <2> HIDE DEF a
    <2>2. /\ b \in Monitors /\ b.checking = a.checking /\ b.answer = a.answer
          /\ b.confirm = a.confirm /\ b.speed = a.speed
        BY <2>1, InRange DEF Monitors
    <2> HIDE DEF b
    <2>3. monitor' = b
        BY <1>2 DEF a, b
    <2>4. Sound(monitor') /\ (Quiet(monitor) => Quiet(monitor'))
        BY <2>1, <2>2, <2>3 DEF Confirming, Sound, Quiet
    <2>5. CASE state = "LOST"
        BY <1>2, <2>2, <2>3, <2>4, <2>5 DEF Confirming, TrackerOK, trackerVars
    <2>6. CASE state # "LOST"
        <3>1. EstimateTarget
            BY <1>2, <2>6
        <3>2. TrackerOK' /\ state' # "LOST"
            BY <2>6, <3>1, EstimateKeepsOK
        <3>3. sighted' = sighted
            BY <3>1 DEF EstimateTarget
        <3>4. QED
            BY <2>2, <2>3, <2>4, <3>2, <3>3 DEF Confirming
    <2>7. QED
        BY <2>5, <2>6
<1>3. CASE MarkLost(Heard(monitor))
    BY <1>3, HeardQuiet, MarkLostOK, QuietSound DEF Confirming
<1>4. CASE state = "LOST" /\ monitor' \in RunRecovery(Heard(monitor))
           /\ UNCHANGED <<trackerVars, sighted>>
    <2>1. Heard(monitor) \in Monitors /\ Quiet(Heard(monitor))
        BY <1>4, HeardQuiet DEF Confirming
    <2>2. monitor' \in Monitors /\ Quiet(monitor')
        BY <1>4, <2>1, RunRecoveryQuiet
    <2>3. QED
        BY <1>4, <2>2, QuietSound DEF Confirming, TrackerOK, trackerVars
<1>5. CASE state # "LOST" /\ Watch(Sustain(Heard(monitor)))
    <2>1. Sustain(Heard(monitor)) \in Monitors /\ Sound(Sustain(Heard(monitor)))
        BY HeardQuiet, SustainSound DEF Confirming
    <2>2. QED
        BY <1>5, <2>1, WatchOK
<1>6. QED
    BY <1>1, <1>2, <1>3, <1>4, <1>5 DEF EstimatorTick

LEMMA LaterBounded ==
    ASSUME NEW cap \in Nat, NEW n
    PROVE  /\ n \in 0..cap => Later(n, cap) \in 0..cap
           /\ n \in -1..cap => Started(n, cap) \in -1..cap
           /\ n \in 0..cap => Sooner(n) \in 0..cap
           /\ n = cap => Started(n, cap) = cap
BY DEF Later, Started, Sooner

LEMMA ElapseOK ==
    ASSUME TypeOK, Confirming, Elapse
    PROVE  TypeOK' /\ Confirming'
<1> DEFINE cage == IF monitor.confirm = "IDLE" THEN monitor.confirm_age
                   ELSE Later(monitor.confirm_age, ServiceResponseTimeout + 1)
           rage == IF monitor.recovery = "IDLE" THEN monitor.recovery_age
                   ELSE Later(monitor.recovery_age, ServiceResponseTimeout + 1)
           speed == Started(monitor.speed, WindowTime)
           uncertainty == Started(monitor.uncertainty, WindowTime)
           streak == Started(monitor.streak, SustainedTrackingTime)
           backoff == Sooner(monitor.confirm_backoff)
           retry == Sooner(monitor.retry)
           a == [monitor EXCEPT !.speed = speed, !.uncertainty = uncertainty]
           b == [a EXCEPT !.streak = streak, !.confirm_age = cage]
           c == [b EXCEPT !.recovery_age = rage, !.confirm_backoff = backoff, !.retry = retry]
<1>1. TypeOK' /\ monitor' = c
    <2>1. clocks' \in [target : Upto(TargetTimeout), detection : Upto(TargetTimeout),
                       lidar : 0..ReacquireTime]
        <3>1. /\ clocks.target \in 0..(TargetTimeout + 1)
              /\ clocks.detection \in 0..(TargetTimeout + 1)
              /\ clocks.lidar \in 0..ReacquireTime
            BY DEF TypeOK, Upto
        <3>2. /\ Later(clocks.target, TargetTimeout + 1) \in 0..(TargetTimeout + 1)
              /\ Later(clocks.detection, TargetTimeout + 1) \in 0..(TargetTimeout + 1)
              /\ Later(clocks.lidar, ReacquireTime) \in 0..ReacquireTime
            BY <3>1, LaterBounded, ConstantsNat
        <3>3. QED
            BY <3>2, ZeroClocks DEF Elapse, Upto
    <2>2. unseen' \in Upto(TargetTimeout + MaxDetectionSkew + 1)
        <3>1. TargetTimeout + MaxDetectionSkew + 2 \in Nat
              /\ unseen \in 0..(TargetTimeout + MaxDetectionSkew + 2)
            BY ConstantsNat DEF TypeOK, Upto
        <3>2. unseen' \in 0..(TargetTimeout + MaxDetectionSkew + 2)
            BY <3>1, LaterBounded DEF Elapse
        <3>3. QED
            BY <3>2, ConstantsNat DEF Upto
    <2>3. /\ monitor.speed \in -1..WindowTime /\ monitor.uncertainty \in -1..WindowTime
          /\ monitor.streak \in -1..SustainedTrackingTime
          /\ monitor.confirm_age \in 0..(ServiceResponseTimeout + 1)
          /\ monitor.recovery_age \in 0..(ServiceResponseTimeout + 1)
          /\ monitor.confirm_backoff \in 0..(BackoffTime + RetryBackoff)
          /\ monitor.retry \in 0..(BackoffTime + RetryBackoff)
        BY DEF TypeOK, Monitors, Upto
    <2>4. /\ speed \in -1..WindowTime /\ uncertainty \in -1..WindowTime
          /\ streak \in -1..SustainedTrackingTime
        BY <2>3, LaterBounded, ConstantsNat
    <2>5. /\ cage \in 0..(ServiceResponseTimeout + 1)
          /\ rage \in 0..(ServiceResponseTimeout + 1)
          /\ ServiceResponseTimeout + 1 \in Nat
        BY <2>3, LaterBounded, ConstantsNat
    <2>6. backoff \in 0..(BackoffTime + RetryBackoff) /\ retry \in 0..(BackoffTime + RetryBackoff)
        BY <2>3, LaterBounded, ConstantsNat
    <2> HIDE DEF speed, uncertainty, streak, cage, rage, backoff, retry
    <2>7. a \in Monitors
        BY <2>4 DEF TypeOK, Monitors
    <2> HIDE DEF a
    <2>8. b \in Monitors
        BY <2>4, <2>5, <2>7 DEF Monitors, Upto
    <2> HIDE DEF b
    <2>9. c \in Monitors
        BY <2>5, <2>6, <2>8 DEF Monitors, Upto
    <2>10. monitor' = c
        BY DEF Elapse, a, b, speed, uncertainty, streak, cage, rage, backoff, retry
    <2>11. QED
        BY <2>1, <2>2, <2>9, <2>10 DEF Elapse, TypeOK, sensorVars
<1>2. /\ c.checking = monitor.checking /\ c.answer = monitor.answer
      /\ c.confirm = monitor.confirm /\ c.speed = Started(monitor.speed, WindowTime)
    BY DEF TypeOK, Monitors
<1> HIDE DEF c
<1>3. monitor.speed = WindowTime => Started(monitor.speed, WindowTime) = WindowTime
    BY LaterBounded, ConstantsNat
<1>4. QED
    BY <1>1, <1>2, <1>3 DEF Elapse, Confirming, Sound, Quiet

LEMMA InputsOK ==
    ASSUME TypeOK, Confirming,
           \/ CameraInfo \/ AnswerLost \/ ResetCallback \/ UpdateSettings
           \/ \E r \in {"usable", "clipped", "missed"} : Detections(r)
           \/ \E ids \in Clouds : PointCloud(ids)
           \/ \E x \in {"moving", "stationary"} : CheckSpeedAnswer(x)
           \/ \E o \in {"empty", "valid"} : OdometryAnswer(o)
    PROVE  TypeOK' /\ Confirming'
<1> USE DEF sensorVars, trackerVars
<1>1. CASE CameraInfo
    BY <1>1 DEF CameraInfo, TypeOK, Confirming
<1>2. CASE ResetCallback
    BY <1>2 DEF ResetCallback, TypeOK, Confirming
<1>3. CASE UpdateSettings
    <2>1. monitor' \in Monitors /\ Quiet(monitor')
        BY <1>3, ResetWindowsQuiet DEF UpdateSettings, TypeOK, Confirming
    <2>2. QED
        BY <1>3, <2>1, QuietSound DEF UpdateSettings, TypeOK, Confirming
<1>4. ASSUME NEW r \in {"usable", "clipped", "missed"}, Detections(r)
      PROVE  TypeOK' /\ Confirming'
    <2>1. clocks' \in [target : Upto(TargetTimeout), detection : Upto(TargetTimeout),
                       lidar : 0..ReacquireTime]
        BY <1>4, ZeroClocks DEF Detections, TypeOK
    <2>2. unseen' \in Upto(TargetTimeout + MaxDetectionSkew + 1) /\ sighted' \in BOOLEAN
        <3>1. unseen' \in {0, unseen} /\ sighted' \in {TRUE, sighted}
            BY <1>4 DEF Detections
        <3>2. 0 \in Upto(TargetTimeout + MaxDetectionSkew + 1)
            BY ConstantsNat DEF Upto
        <3>3. QED
            BY <3>1, <3>2 DEF TypeOK
    <2>3. flags' \subseteq Flags
        BY <1>4 DEF Detections, Set, TypeOK, Flags
    <2>4. QED
        BY <1>4, <2>1, <2>2, <2>3 DEF Detections, TypeOK, Confirming
<1>5. ASSUME NEW ids \in Clouds, PointCloud(ids)
      PROVE  TypeOK' /\ Confirming'
    <2>1. markers' \subseteq MarkerIds /\ has_markers' \in BOOLEAN /\ due' \subseteq Tasks
        BY <1>5, TrackerAssumption DEF TrackerAssumption, PointCloud, TypeOK, Has
    <2>2. unseen' \in Upto(TargetTimeout + MaxDetectionSkew + 1)
        BY <1>5, ConstantsNat DEF PointCloud, TypeOK, Upto
    <2>3. QED
        BY <1>5, <2>1, <2>2 DEF PointCloud, TypeOK, Confirming
<1>6. ASSUME NEW x \in {"moving", "stationary"}, CheckSpeedAnswer(x)
      PROVE  TypeOK' /\ Confirming'
    BY <1>6 DEF CheckSpeedAnswer, TypeOK, Monitors, Confirming, Sound, Quiet
<1>7. ASSUME NEW o \in {"empty", "valid"}, OdometryAnswer(o)
      PROVE  TypeOK' /\ Confirming'
    BY <1>7 DEF OdometryAnswer, TypeOK, Monitors, Confirming, Sound, Quiet
<1>8. CASE AnswerLost
    <2>1. /\ monitor' \in Monitors /\ monitor'.answer = monitor.answer
          /\ monitor'.confirm = monitor.confirm /\ monitor'.speed = monitor.speed
          /\ monitor'.checking => monitor.checking
        BY ZenonT(40), <1>8 DEF AnswerLost, TypeOK, Monitors
    <2>2. QED
        BY <1>8, <2>1 DEF AnswerLost, TypeOK, Confirming, Sound, Quiet
<1>9. QED
    BY <1>1, <1>2, <1>3, <1>4, <1>5, <1>6, <1>7, <1>8

LEMMA IInvNext == IInv /\ [Next]_vars => IInv'
<1> SUFFICES ASSUME TypeOK, Confirming, [Next]_vars PROVE TypeOK' /\ Confirming'
    BY DEF IInv
<1>1. ASSUME Reset PROVE TrackerOK' /\ monitor' \in Monitors /\ Confirming'
    <2>1. TrackerOK'
        BY <1>1, TypeParts, ResetStateOK DEF Reset, States
    <2>2. monitor' \in Monitors /\ Quiet(monitor')
        BY <1>1, ResetMonitorQuiet DEF Reset, TypeOK, Confirming
    <2>3. QED
        BY <2>1, <2>2, QuietSound DEF Confirming
<1>2. CASE Retarget
    BY <1>1, <1>2 DEF Retarget, TypeOK, TrackerOK, sensorVars
<1>3. CASE TrackingTick
    <2>1. TrackerOK' /\ monitor' \in Monitors /\ Confirming'
        <3>1. CASE Reset
            BY <1>1, <3>1
        <3>2. CASE Track /\ UNCHANGED monitor
            BY <3>2, TypeParts, TrackKeepsOK DEF Confirming
        <3>3. QED
            BY <1>3, <3>1, <3>2 DEF TrackingTick
    <2>2. QED
        BY <1>3, <2>1 DEF TrackingTick, TypeOK, TrackerOK, sensorVars
<1>4. CASE EstimatorTick
    <2>1. TrackerOK' /\ monitor' \in Monitors /\ Confirming' /\ sighted' \in BOOLEAN
        BY <1>4, TypeParts, EstimatorTickOK
    <2>2. QED
        BY <1>4, <2>1 DEF EstimatorTick, TypeOK, TrackerOK, sensorVars
<1>5. CASE Elapse
    BY <1>5, ElapseOK
<1>6. CASE UNCHANGED vars
    BY <1>6 DEF vars, trackerVars, sensorVars, TypeOK, Confirming
<1>7. QED
    BY <1>2, <1>3, <1>4, <1>5, <1>6, InputsOK DEF Next

(* The tracker's and the monitor's variables keep their types and bounds:  *)
(* no more recoveries than allowed, no clock past its end.                 *)
THEOREM TypeCorrect == Spec => []TypeOK
<1>1. IInv => TypeOK
    BY DEF IInv
<1>2. QED
    BY <1>1, IInvInit, IInvNext, PTL DEF Spec

(* However resets, losses and settings changes fall between a request and  *)
(* its answer, an answer taken is about the window that is still open.     *)
THEOREM AnswersOfThisWindow == Spec => []ConfirmOfThisWindow
<1>1. IInv => ConfirmOfThisWindow
    BY DEF IInv, Confirming, Sound, Quiet, ConfirmOfThisWindow
<1>2. QED
    BY <1>1, IInvInit, IInvNext, PTL DEF Spec
-----------------------------------------------------------------------------
(* What was last seen, and how long ago.  The clocks of a tracker that may *)
(* still go on are not behind what the sensors have shown: the camera      *)
(* measures only a detection within the skew, and a marker stands only     *)
(* until the next cloud.                                                   *)
Idle == \/ state = "LOST" /\ "detection" \notin flags
        \/ state = "INACTIVE" /\ "first_detection" \notin flags

LastReported == TargetTimeout + MaxDetectionSkew + 1

ClocksFollow ==
    ~Idle => /\ clocks.detection <= TargetTimeout => unseen <= clocks.detection
             /\ clocks.target <= TargetTimeout => unseen <= clocks.target + MaxDetectionSkew

MarkersFresh == markers # {} => unseen = 0 \/ (unseen = 1 /\ "lidar" \in due)

\* In the last period the tick of the tracker finds nothing to measure.
LetGo == unseen > LastReported \/ (unseen = LastReported /\ "tracking" \notin due)
         => state \notin Active

SeenInv == ClocksFollow /\ MarkersFresh /\ LetGo

\* What the configuration has to grant: old detections are noticed, the LiDAR
\* misses no period, and the skew allowed is not below a period.
SensorsGranted == SyncByCallbackTime /\ CloudEachPeriod /\ MaxDetectionSkew >= 1

LEMMA SeenNat ==
    ASSUME TypeOK
    PROVE  /\ unseen \in Nat /\ unseen <= LastReported + 1 /\ LastReported \in Nat
           /\ clocks.detection \in Nat /\ clocks.target \in Nat
BY ConstantsNat DEF TypeOK, Upto, LastReported

LEMMA IdleNotActive == Idle => state \notin Active
BY DEF Idle, Active

LEMMA SeenInit == Init => SeenInv
BY ConstantsNat DEF Init, SeenInv, ClocksFollow, MarkersFresh, LetGo, Active, LastReported

\* A step that leaves the sensors alone, and the clocks or the tracker idle.
LEMMA SeenKept ==
    ASSUME SeenInv, TypeOK, UNCHANGED <<unseen, markers>>,
           "lidar" \in due => "lidar" \in due',
           Idle' \/ (UNCHANGED clocks /\ ~Idle),
           "tracking" \in due => "tracking" \in due',
           state' \in Active => state \in Active
    PROVE  SeenInv'
<1>1. ClocksFollow'
    BY DEF SeenInv, ClocksFollow
<1>2. MarkersFresh' /\ LetGo'
    BY DEF SeenInv, MarkersFresh, LetGo, LastReported
<1>3. QED
    BY <1>1, <1>2 DEF SeenInv

\* A step of the tracker that measures does so by something seen of late.
LEMMA MeasuredSeen ==
    ASSUME SensorsGranted, SeenInv, TypeOK, ~Idle,
           \/ NoMeasurement
           \/ markers # {} /\ \E st \in Active, id \in MarkerIds : MarkerMeasured(st, id)
           \/ ~Stale /\ CameraMeasured,
           UNCHANGED unseen
    PROVE  ClocksFollow' /\ (unseen >= LastReported => state' \notin Active)
<1>1. CASE NoMeasurement
    <2>1. UNCHANGED clocks
        BY <1>1 DEF NoMeasurement
    <2>2. ClocksFollow'
        BY <2>1 DEF SeenInv, ClocksFollow
    <2>3. unseen >= LastReported => clocks.target > TargetTimeout
        BY SeenNat, ConstantsNat DEF SeenInv, ClocksFollow, LastReported
    <2>4. clocks.target > TargetTimeout => state' = "NO_DETECTION"
        BY <1>1 DEF NoMeasurement, TimedOut
    <2>5. QED
        BY <2>2, <2>3, <2>4 DEF Active
<1>2. ASSUME markers # {}, NEW st \in Active, NEW id \in MarkerIds, MarkerMeasured(st, id)
      PROVE  ClocksFollow' /\ (unseen >= LastReported => state' \notin Active)
    <2>1. unseen <= 1
        BY <1>2, SeenNat DEF SeenInv, MarkersFresh
    <2>2. clocks'.detection = clocks.detection /\ clocks'.target = 0
        BY <1>2 DEF MarkerMeasured, TypeOK
    <2>3. ~(unseen >= LastReported)
        BY <2>1, SeenNat, ConstantsNat DEF LastReported, SensorsGranted
    <2>4. unseen <= 0 + MaxDetectionSkew
        BY <2>1, SeenNat, ConstantsNat DEF SensorsGranted
    <2>5. QED
        BY <2>2, <2>3, <2>4 DEF SeenInv, ClocksFollow
<1>3. CASE ~Stale /\ CameraMeasured
    <2>1. clocks'.detection = clocks.detection /\ clocks'.target = 0
        BY <1>3 DEF CameraMeasured, TypeOK
    <2>2. clocks.detection <= MaxDetectionSkew
        BY <1>3, SeenNat, ConstantsNat DEF Stale, SensorsGranted
    <2>3. unseen <= MaxDetectionSkew
        <3>1. clocks.detection <= TargetTimeout
            BY <2>2, SeenNat, ConstantsNat, TrackerAssumption DEF TrackerAssumption
        <3>2. unseen <= clocks.detection
            BY <3>1 DEF SeenInv, ClocksFollow
        <3>3. QED
            BY <2>2, <3>2, SeenNat, ConstantsNat
    <2>4. ~(unseen >= LastReported) /\ unseen <= 0 + MaxDetectionSkew
        BY <2>3, SeenNat, ConstantsNat DEF LastReported
    <2>5. QED
        BY <2>1, <2>4 DEF SeenInv, ClocksFollow
<1>4. QED
    BY <1>1, <1>2, <1>3

LEMMA TrackSeen ==
    ASSUME SensorsGranted, SeenInv, TypeOK, Track, UNCHANGED <<unseen, markers>>
    PROVE  ClocksFollow' /\ (unseen >= LastReported => state' \notin Active)
<1> DEFINE Goal == ClocksFollow' /\ (unseen >= LastReported => state' \notin Active)
<1>1. CASE Idle
    <2>1. Idle' 
        BY <1>1 DEF Track, StaysLost, Has, Idle, trackerVars
    <2>2. state' \notin Active
        BY <2>1 DEF Idle, Active
    <2>3. QED
        BY <2>1, <2>2 DEF ClocksFollow
<1>2. CASE ~Idle /\ state' = "INACTIVE" /\ UNCHANGED clocks
    BY <1>2 DEF SeenInv, ClocksFollow, Active
<1>3. ASSUME ~Idle, NEW d \in BOOLEAN, TrackBy(d) PROVE Goal
    <2>1. markers \subseteq MarkerIds
        BY DEF TypeOK
    <2>2. ASSUME TrackByLidar PROVE Goal
        <3>1. \/ NoMeasurement
              \/ \E id \in markers : MarkerMeasured("LIDAR_ONLY_TRACKING", id)
            BY <2>2 DEF TrackByLidar
        <3>2. QED
            BY <1>3, <2>1, <3>1, MeasuredSeen DEF Active
    <2>3. CASE ~Stale /\ CameraMeasured
        BY <1>3, <2>3, MeasuredSeen
    <2>4. CASE \E id \in markers : MarkerMeasured("FULL_TRACKING", id)
        BY <1>3, <2>1, <2>4, MeasuredSeen DEF Active
    <2>5. QED
        BY <1>3, <2>2, <2>3, <2>4 DEF TrackBy
<1>4. \A sel \in SelectDetection : sel \in BOOLEAN
    BY DEF SelectDetection
<1>5. CASE ~Idle /\ ~StaysLost
    BY <1>2, <1>3, <1>4, <1>5 DEF Track
<1>6. StaysLost => Idle
    BY DEF StaysLost, Idle, Has
<1>7. QED
    BY <1>1, <1>5, <1>6

LEMMA ResetIdle ==
    ASSUME Reset \/ ApplyRecoveryOdometry \/ (\E m : MarkLost(m))
    PROVE  Idle'
<1>1. CASE Reset
    BY <1>1 DEF Reset, ResetTrackingState, Set, Idle
<1>2. CASE ApplyRecoveryOdometry
    BY <1>2 DEF ApplyRecoveryOdometry, ResetTrackingState, Set, Idle
<1>3. ASSUME NEW m, MarkLost(m) PROVE Idle'
    BY <1>3 DEF MarkLost, Set, Idle
<1>4. QED
    BY <1>1, <1>2, <1>3

LEMMA EstimateSeen ==
    ASSUME EstimateTarget, state # "LOST"
    PROVE  /\ Idle' \/ (UNCHANGED clocks /\ ~Idle)
           /\ state' \in Active => state \in Active
<1>1. CASE ~Has("first_detection")
    BY <1>1 DEF EstimateTarget, Idle, Has
<1>2. CASE Has("first_detection")
    <2>1. ~Idle /\ UNCHANGED clocks
        BY <1>2 DEF Idle, Has, EstimateTarget
    <2>2. state' \in {state, "NO_DETECTION", "INACTIVE"}
        BY <1>2 DEF EstimateTarget, UpdateFilter
    <2>3. QED
        BY <2>1, <2>2 DEF Active
<1>3. QED
    BY <1>1, <1>2

LEMMA EstimatorSeen ==
    ASSUME SeenInv, TypeOK, EstimatorTick
    PROVE  SeenInv'
<1>1. /\ UNCHANGED <<unseen, markers>>
      /\ "lidar" \in due => "lidar" \in due'
      /\ "tracking" \in due => "tracking" \in due'
    BY DEF EstimatorTick, sensorVars
<1>2. CASE ApplyRecoveryOdometry \/ \E m : MarkLost(m)
    <2>1. Idle' /\ state' \notin Active
        BY <1>2, ResetIdle DEF Idle, Active
    <2>2. QED
        BY <1>1, <2>1, SeenKept
<1>3. CASE EstimateTarget /\ state # "LOST"
    BY <1>1, <1>3, EstimateSeen, SeenKept
<1>4. CASE UNCHANGED trackerVars
    BY <1>1, <1>4, SeenKept DEF trackerVars, Idle
<1>5. ASSUME NEW m, Watch(m), state # "LOST"
      PROVE  EstimateTarget \/ \E n : MarkLost(n)
    BY <1>5 DEF Watch
<1>6. QED
    BY <1>2, <1>3, <1>4, <1>5 DEF EstimatorTick

LEMMA TrackingSeen ==
    ASSUME SensorsGranted, SeenInv, TypeOK, TrackingTick
    PROVE  SeenInv'
<1>1. UNCHANGED <<unseen, markers>> /\ due' = due \ {"tracking"}
    BY DEF TrackingTick, sensorVars
<1>2. MarkersFresh'
    BY <1>1 DEF SeenInv, MarkersFresh
<1>3. ClocksFollow' /\ (unseen >= LastReported => state' \notin Active)
    <2>1. CASE Reset
        <3>1. Idle' /\ state' \notin Active
            BY <2>1, ResetIdle DEF Idle, Active
        <3>2. QED
            BY <3>1 DEF ClocksFollow
    <2>2. CASE Track
        BY <1>1, <2>2, TrackSeen
    <2>3. QED
        BY <2>1, <2>2 DEF TrackingTick
<1>4. LetGo'
    BY <1>1, <1>3, SeenNat DEF LetGo, LastReported
<1>5. QED
    BY <1>2, <1>3, <1>4 DEF SeenInv

LEMMA ElapseSeen ==
    ASSUME SensorsGranted, SeenInv, TypeOK, Elapse
    PROVE  SeenInv'
<1>1. /\ due = {} /\ due' = Tasks /\ UNCHANGED <<state, flags, markers>>
      /\ unseen' = Later(unseen, LastReported + 1)
      /\ clocks'.target = Later(clocks.target, TargetTimeout + 1)
      /\ clocks'.detection = Later(clocks.detection, TargetTimeout + 1)
    BY ConstantsNat DEF Elapse, SensorsGranted, sensorVars, LastReported
<1>2. unseen' <= unseen + 1 /\ unseen' \in Nat
    BY <1>1, SeenNat DEF Later
<1>3. /\ clocks'.target <= TargetTimeout => clocks'.target = clocks.target + 1
      /\ clocks'.detection <= TargetTimeout => clocks'.detection = clocks.detection + 1
      /\ clocks'.target \in Nat /\ clocks'.detection \in Nat
    <2>1. clocks.target <= TargetTimeout + 1 /\ clocks.detection <= TargetTimeout + 1
        BY DEF TypeOK, Upto
    <2>2. QED
        BY <1>1, <2>1, SeenNat, ConstantsNat DEF Later
<1>4. ClocksFollow'
    <2>1. SUFFICES ASSUME ~Idle
          PROVE /\ clocks'.detection <= TargetTimeout => unseen' <= clocks'.detection
                /\ clocks'.target <= TargetTimeout
                       => unseen' <= clocks'.target + MaxDetectionSkew
        BY <1>1 DEF ClocksFollow, Idle
    <2>2. /\ clocks.detection <= TargetTimeout => unseen <= clocks.detection
          /\ clocks.target <= TargetTimeout => unseen <= clocks.target + MaxDetectionSkew
        BY <2>1 DEF SeenInv, ClocksFollow
    <2>3. QED
        BY <1>2, <1>3, <2>2, SeenNat, ConstantsNat
<1>5. MarkersFresh'
    <2>1. markers # {} => unseen = 0
        BY <1>1 DEF SeenInv, MarkersFresh
    <2>2. unseen = 0 => unseen' = 0 \/ unseen' = 1
        BY <1>1 DEF Later
    <2>3. QED
        BY <1>1, <2>1, <2>2 DEF MarkersFresh, Tasks
<1>6. LetGo'
    <2>1. unseen' > LastReported => unseen >= LastReported
        BY <1>1, <1>2, SeenNat
    <2>2. unseen >= LastReported => state \notin Active
        BY <1>1, SeenNat DEF SeenInv, LetGo
    <2>3. "tracking" \in due'
        BY <1>1 DEF Tasks
    <2>4. QED
        BY <1>1, <2>1, <2>2, <2>3 DEF LetGo, LastReported
<1>7. QED
    BY <1>4, <1>5, <1>6 DEF SeenInv

LEMMA InputsSeen ==
    ASSUME SeenInv, TypeOK,
           \/ \E r \in {"usable", "clipped", "missed"} : Detections(r)
           \/ \E ids \in Clouds : PointCloud(ids)
    PROVE  SeenInv'
<1>1. ASSUME NEW r \in {"usable", "clipped", "missed"}, Detections(r), unseen' # 0
      PROVE  SeenInv'
    <2>1. /\ UNCHANGED <<unseen, markers, due, state, clocks>>
          /\ "first_detection" \in flags' <=> "first_detection" \in flags
          /\ "detection" \notin flags'
        BY <1>1 DEF Detections, Set, sensorVars
    <2>2. Idle' \/ (UNCHANGED clocks /\ ~Idle)
        BY <2>1 DEF Idle
    <2>3. QED
        BY <2>1, <2>2, SeenKept
<1>2. CASE unseen' = 0 /\ clocks' \in [target : Upto(TargetTimeout),
                                        detection : Upto(TargetTimeout), lidar : 0..ReacquireTime]
    <2>1. clocks'.detection \in Nat /\ clocks'.target \in Nat
        BY <1>2, ConstantsNat DEF Upto
    <2>2. ClocksFollow' 
        BY <1>2, <2>1, ConstantsNat DEF ClocksFollow
    <2>3. MarkersFresh' /\ LetGo'
        BY <1>2, ConstantsNat DEF MarkersFresh, LetGo, LastReported
    <2>4. QED
        BY <2>2, <2>3 DEF SeenInv
<1>3. ASSUME NEW r \in {"usable", "clipped", "missed"}, Detections(r)
      PROVE  clocks' \in [target : Upto(TargetTimeout), detection : Upto(TargetTimeout),
                          lidar : 0..ReacquireTime]
    BY <1>3, ZeroClocks DEF Detections, TypeOK
<1>4. ASSUME NEW ids \in Clouds, PointCloud(ids), unseen' # 0
      PROVE  SeenInv'
    <2>1. /\ markers' = {} /\ UNCHANGED <<unseen, state, flags, clocks>>
          /\ "tracking" \in due => "tracking" \in due'
        BY <1>4 DEF PointCloud, trackerVars
    <2>2. ClocksFollow' /\ MarkersFresh' /\ LetGo'
        BY <2>1 DEF SeenInv, ClocksFollow, MarkersFresh, LetGo, LastReported, Idle
    <2>3. QED
        BY <2>2 DEF SeenInv
<1>5. ASSUME NEW ids \in Clouds, PointCloud(ids)
      PROVE  clocks' = clocks
    BY <1>5 DEF PointCloud, trackerVars
<1>6. QED
    BY <1>1, <1>2, <1>3, <1>4, <1>5 DEF TypeOK

LEMMA SeenNext ==
    ASSUME SensorsGranted, SeenInv, TypeOK, [Next]_vars
    PROVE  SeenInv'
<1>1. CASE UNCHANGED <<trackerVars, markers, due, unseen>>
    BY <1>1, SeenKept DEF trackerVars, Idle
<1>2. CASE CameraInfo \/ AnswerLost \/ ResetCallback \/ UpdateSettings
           \/ (\E x \in {"moving", "stationary"} : CheckSpeedAnswer(x))
           \/ (\E o \in {"empty", "valid"} : OdometryAnswer(o)) \/ UNCHANGED vars
    BY <1>1, <1>2 DEF CameraInfo, AnswerLost, ResetCallback, UpdateSettings, CheckSpeedAnswer,
                      OdometryAnswer, vars, sensorVars
<1>3. CASE Retarget
    <2>1. Idle' /\ state' \notin Active
        BY <1>3, ResetIdle DEF Retarget, Idle, Active
    <2>2. UNCHANGED <<unseen, markers, due>>
        BY <1>3 DEF Retarget, sensorVars
    <2>3. QED
        BY <2>1, <2>2, SeenKept
<1>4. QED
    BY <1>2, <1>3, EstimatorSeen, TrackingSeen, ElapseSeen, InputsSeen DEF Next

(* A target that neither sensor has shown for the timeout and the skew is  *)
(* let go, whichever timer fires first in each period: given that the      *)
(* LiDAR misses no period and that the age of detections is looked at,     *)
(* with the skew not below a period.  Without the first two TLC finds the  *)
(* tracker going on for ever.                                              *)
THEOREM UnseenLetGo ==
    SensorsGranted => (Spec => []TimesOutUnseen)
<1> SUFFICES ASSUME SensorsGranted PROVE Spec => []TimesOutUnseen
    OBVIOUS
<1>1. IInv /\ SeenInv /\ [Next]_vars => (IInv /\ SeenInv)'
    BY IInvNext, SeenNext DEF IInv
<1>2. IInv /\ SeenInv => TimesOutUnseen
    BY DEF SeenInv, LetGo, TimesOutUnseen, LastReported
<1>3. QED
    BY <1>1, <1>2, IInvInit, SeenInit, PTL DEF Spec

-----------------------------------------------------------------------------
(* The tracker handles calls in their order, so what matters is the last   *)
(* call: with answers on their way the last of them names what the tracker *)
(* uses (Answered), and with calls on their way the last of them is what   *)
(* it will use in the end (Wanted).  A call is skipped on what the manager *)
(* believes, so Wanted needs Answered.                                     *)

Answered == /\ responses = <<>> => applied_toi_regex \in {NoRegex, toi_regex}
            /\ responses # <<>> => responses[Len(responses)] = toi_regex

OthersWait == \A i \in 2..Len(task_list) : ~task_list[i].init_done

Final == IF requests = <<>> THEN toi_regex ELSE requests[Len(requests)]

Wanted == excuse = "none" /\ ActiveRegex \notin Malformed \cup {NoRegex}
            => ActiveRegex = Final

ToiInv == ToiTypeOK /\ Answered /\ OthersWait /\ Wanted

\* A started task has the expression it had.
LEMMA StartedTask ==
  ASSUME NEW t \in ToiTasks, NEW started \in BOOLEAN
  PROVE  /\ [t EXCEPT !.init_done = started] \in ToiTasks
         /\ [t EXCEPT !.init_done = started].init_done = started
         /\ [t EXCEPT !.init_done = started].toi_regex = t.toi_regex
         /\ t.toi_regex \in Regexes \cup {NoRegex}
  BY DEF ToiTasks

\* The list after StartTask.
LEMMA StartedList ==
  ASSUME ToiTypeOK, StartTask
  PROVE  /\ task_list' \in Seq(ToiTasks) /\ task_list' # <<>>
         /\ Len(task_list') = Len(task_list)
         /\ task_list'[1] = [task_list[1] EXCEPT !.init_done = TRUE]
         /\ \A i \in 2..Len(task_list) : task_list'[i] = task_list[i]
         /\ task_list[1] \in ToiTasks /\ Head(task_list) = task_list[1]
<1> DEFINE u == [task_list[1] EXCEPT !.init_done = TRUE]
<1>1. task_list \in Seq(ToiTasks) /\ task_list # <<>>
  BY DEF ToiTypeOK, StartTask
<1>2. task_list[1] \in ToiTasks
  BY <1>1
<1>3. u \in ToiTasks
  BY <1>2, StartedTask
<1>4. task_list' = [task_list EXCEPT ![1] = u]
  BY DEF StartTask
<1> HIDE DEF u
<1>5. task_list' \in Seq(ToiTasks) /\ Len(task_list') = Len(task_list)
  BY <1>1, <1>3, <1>4
<1>6. task_list'[1] = u /\ \A i \in 2..Len(task_list) : task_list'[i] = task_list[i]
  BY <1>1, <1>4
<1> QED BY <1>1, <1>2, <1>5, <1>6 DEF u

\* The list after AddTask.
LEMMA AddedList ==
  ASSUME ToiTypeOK, NEW r \in Regexes \cup {NoRegex}, AddTask(r)
  PROVE  /\ task_list' \in Seq(ToiTasks) /\ Len(task_list') = Len(task_list) + 1
         /\ task_list'[1].init_done =>
               task_list # <<>> /\ task_list'[1] = task_list[1]
         /\ \A i \in 2..Len(task_list') : task_list'[i].init_done =>
               \/ i \in 2..Len(task_list) /\ task_list'[i] = task_list[i]
               \/ i - 1 \in 2..Len(task_list) /\ task_list'[i] = task_list[i - 1]
<1> DEFINE t == [toi_regex |-> r, init_done |-> FALSE]
           u(i) == IF i = 1 THEN [task_list[i] EXCEPT !.init_done = FALSE] ELSE task_list[i]
           pre == [i \in 1..Len(task_list) |-> u(i)]
<1>1. t \in ToiTasks /\ ~t.init_done
  BY DEF ToiTasks
<1>2. task_list \in Seq(ToiTasks) /\ Len(task_list) \in Nat
  BY DEF ToiTypeOK
<1>3. \A i \in 1..Len(task_list) : task_list[i] \in ToiTasks
  BY <1>2
<1>4. \A i \in 1..Len(task_list) : u(i) \in ToiTasks
  BY <1>3, StartedTask
<1>5. 1 \in 1..Len(task_list) => ~u(1).init_done
  BY <1>3, StartedTask
<1>6. task_list' \in {Append(task_list, t), <<t>> \o pre}
  BY DEF AddTask
<1> HIDE DEF t, u
<1>7. pre \in Seq(ToiTasks) /\ Len(pre) = Len(task_list)
  BY <1>2, <1>4, IsASeq
<1>8. CASE task_list' = Append(task_list, t)
  BY <1>1, <1>2, <1>8
<1>9. CASE task_list' = <<t>> \o pre
  <2>1. task_list' \in Seq(ToiTasks) /\ Len(task_list') = Len(task_list) + 1
    BY <1>1, <1>2, <1>7, <1>9
  <2>2. task_list'[1] = t
    BY <1>1, <1>2, <1>7, <1>9
  <2>3. \A i \in 2..Len(task_list') : task_list'[i] = pre[i - 1]
    BY <1>1, <1>2, <1>7, <1>9
  <2>4. \A i \in 2..Len(task_list') : i - 1 \in 1..Len(task_list) /\ task_list'[i] = u(i - 1)
    BY <1>2, <2>1, <2>3
  <2>5. \A i \in 2..Len(task_list) : u(i) = task_list[i]
    BY DEF u
  <2> QED BY <1>1, <1>2, <1>5, <2>1, <2>2, <2>4, <2>5
<1> QED BY <1>6, <1>8, <1>9

\* The list after EndTask.
LEMMA EndedList ==
  ASSUME ToiTypeOK, NEW i \in 1..Len(task_list), EndTask(i)
  PROVE  /\ task_list' \in Seq(ToiTasks) /\ Len(task_list') = Len(task_list) - 1
         /\ \A j \in 1..Len(task_list') :
               task_list'[j] = IF j < i THEN task_list[j] ELSE task_list[j + 1]
<1> DEFINE before == SubSeq(task_list, 1, i - 1)
           behind == SubSeq(task_list, i + 1, Len(task_list))
<1>1. task_list \in Seq(ToiTasks) /\ Len(task_list) \in Nat
  BY DEF ToiTypeOK
<1>2. before \in Seq(ToiTasks) /\ Len(before) = i - 1
      /\ \A j \in 1..(i - 1) : before[j] = task_list[j]
  BY <1>1
<1>3. behind \in Seq(ToiTasks) /\ Len(behind) = Len(task_list) - i
      /\ \A j \in 1..(Len(task_list) - i) : behind[j] = task_list[i + j]
  BY <1>1
<1>4. task_list' = before \o behind
  BY DEF EndTask
<1> HIDE DEF before, behind
<1>5. task_list' \in Seq(ToiTasks) /\ Len(task_list') = Len(task_list) - 1
  BY <1>1, <1>2, <1>3, <1>4
<1>6. ASSUME NEW j \in 1..Len(task_list')
      PROVE  task_list'[j] = IF j < i THEN task_list[j] ELSE task_list[j + 1]
  <2>1. CASE j < i
    BY <1>1, <1>2, <1>3, <1>4, <1>5, <2>1
  <2>2. CASE j >= i
    <3>1. task_list'[j] = behind[j - (i - 1)]
      BY <1>1, <1>2, <1>3, <1>4, <1>5, <2>2
    <3>2. j - (i - 1) \in 1..(Len(task_list) - i) /\ i + (j - (i - 1)) = j + 1
      BY <1>1, <1>5, <2>2
    <3>3. behind[j - (i - 1)] = task_list[j + 1]
      BY <1>3, <3>2
    <3> QED BY <2>2, <3>1, <3>3
  <2> QED BY <1>1, <1>5, <2>1, <2>2
<1> QED BY <1>5, <1>6

\* Every step keeps the types.
LEMMA ToiTypeKept == ToiTypeOK /\ [ToiNext]_toiVars => ToiTypeOK'
<1> SUFFICES ASSUME ToiTypeOK, [ToiNext]_toiVars PROVE ToiTypeOK'
  OBVIOUS
<1> USE RegexAssumption
<1>1. ASSUME NEW r \in Regexes \cup {NoRegex}, AddTask(r) PROVE ToiTypeOK'
  <2>1. task_list' \in Seq(ToiTasks)
    BY <1>1, AddedList
  <2>2. added' \in 0..MaxTasks
    BY <1>1 DEF AddTask, ToiTypeOK
  <2>3. UNCHANGED <<applied_toi_regex, service_is_ready, requests, responses,
                    toi_regex, excuse>>
    BY <1>1 DEF AddTask
  <2> QED BY <2>1, <2>2, <2>3 DEF ToiTypeOK
<1>2. CASE StartTask
  <2>1. task_list' \in Seq(ToiTasks) /\ Head(task_list).toi_regex \in Regexes \cup {NoRegex}
    BY <1>2, StartedList, StartedTask
  <2>2. requests' \in Seq(Regexes)
    <3>1. \/ requests' = requests
          \/ /\ Head(task_list).toi_regex # NoRegex
             /\ requests' = Append(requests, Head(task_list).toi_regex)
      BY <1>2 DEF StartTask, UpdateTrackerToiRegex, SetParameters
    <3>2. requests \in Seq(Regexes)
      BY DEF ToiTypeOK
    <3> QED BY <2>1, <3>1, <3>2
  <2>3. excuse' \in {"none", "not_ready", "in_flight"}
    BY <1>2 DEF StartTask, UpdateTrackerToiRegex, ToiTypeOK
  <2> QED BY <1>2, <2>1, <2>2, <2>3 DEF StartTask, UpdateTrackerToiRegex, ToiTypeOK
<1>3. ASSUME NEW i \in 1..Len(task_list), EndTask(i) PROVE ToiTypeOK'
  BY <1>3, EndedList DEF EndTask, ToiTypeOK
<1>4. CASE FindService
  BY <1>4 DEF FindService, ToiTypeOK
<1>5. CASE ApplyRuntimeParameters
  BY <1>5 DEF ApplyRuntimeParameters, ToiTypeOK
<1>6. CASE HearResponse
  BY <1>6 DEF HearResponse, ToiTypeOK
<1>7. CASE UNCHANGED toiVars
  BY <1>7 DEF toiVars, ToiTypeOK
<1> QED BY <1>1, <1>2, <1>3, <1>4, <1>5, <1>6, <1>7 DEF ToiNext

\* Only the tracker and the answers change what the last answer names.
LEMMA AnsweredKept == ToiTypeOK /\ Answered /\ [ToiNext]_toiVars => Answered'
<1> SUFFICES ASSUME ToiTypeOK, Answered, [ToiNext]_toiVars PROVE Answered'
  OBVIOUS
<1>1. CASE ApplyRuntimeParameters
  <2>1. responses \in Seq(Regexes) /\ Head(requests) \in Regexes
    BY <1>1 DEF ApplyRuntimeParameters, ToiTypeOK
  <2>2. responses' = Append(responses, Head(requests)) /\ toi_regex' = Head(requests)
    BY <1>1 DEF ApplyRuntimeParameters
  <2>3. responses' # <<>> /\ responses'[Len(responses')] = toi_regex'
    BY <2>1, <2>2
  <2> QED BY <2>3 DEF Answered
<1>2. CASE HearResponse
  <2>1. responses \in Seq(Regexes) /\ responses # <<>>
    BY <1>2 DEF HearResponse, ToiTypeOK
  <2>2. /\ applied_toi_regex' = responses[1] /\ responses' = Tail(responses)
        /\ toi_regex' = toi_regex
    BY <1>2, <2>1 DEF HearResponse
  <2>3. CASE Len(responses) = 1
    BY <2>1, <2>2, <2>3 DEF Answered
  <2>4. CASE Len(responses) # 1
    BY <2>1, <2>2, <2>4 DEF Answered
  <2> QED BY <2>3, <2>4
<1>3. CASE StartTask
  BY <1>3 DEF StartTask, UpdateTrackerToiRegex, Answered
<1>4. CASE UNCHANGED <<applied_toi_regex, responses, toi_regex>>
  BY <1>4 DEF Answered
<1> QED BY <1>1, <1>2, <1>3, <1>4 DEF ToiNext, AddTask, EndTask, FindService, toiVars

\* Only the task in front is ever started.
LEMMA OthersWaitKept == ToiTypeOK /\ OthersWait /\ [ToiNext]_toiVars => OthersWait'
<1> SUFFICES ASSUME ToiTypeOK, OthersWait, [ToiNext]_toiVars PROVE OthersWait'
  OBVIOUS
<1>1. ASSUME NEW r \in Regexes \cup {NoRegex}, AddTask(r) PROVE OthersWait'
  BY <1>1, AddedList DEF OthersWait
<1>2. CASE StartTask
  BY <1>2, StartedList DEF OthersWait
<1>3. ASSUME NEW i \in 1..Len(task_list), EndTask(i) PROVE OthersWait'
  <2>1. Len(task_list) \in Nat
    BY DEF ToiTypeOK
  <2> QED BY <1>3, <2>1, EndedList DEF OthersWait
<1>4. CASE UNCHANGED task_list
  BY <1>4 DEF OthersWait
<1> QED BY <1>1, <1>2, <1>3, <1>4
        DEF ToiNext, FindService, ApplyRuntimeParameters, HearResponse, toiVars

\* The last call stays what the active task wants: a task that starts makes it, finds
\* it remembered as applied, or is excused.
LEMMA WantedKept == ToiInv /\ [ToiNext]_toiVars => Wanted'
<1> SUFFICES ASSUME ToiInv, [ToiNext]_toiVars PROVE Wanted'
  OBVIOUS
<1> USE DEF ToiInv
<1>1. ASSUME NEW r \in Regexes \cup {NoRegex}, AddTask(r) PROVE Wanted'
  <2>1. ActiveRegex' \in {NoRegex, ActiveRegex}
    BY <1>1, AddedList DEF ActiveRegex
  <2> QED BY <1>1, <2>1 DEF AddTask, Wanted, Final
<1>2. CASE StartTask
  <2> DEFINE r == Head(task_list).toi_regex
  <2>1. ActiveRegex' = r
    <3>1. task_list' \in Seq(ToiTasks) /\ task_list' # <<>>
      BY <1>2, StartedList
    <3>2. Head(task_list') = task_list'[1]
      BY <3>1
    <3>3. task_list'[1].init_done /\ task_list'[1].toi_regex = r
      BY <1>2, StartedList, StartedTask
    <3> QED BY <3>1, <3>2, <3>3 DEF ActiveRegex
  <2>2. CASE r \in Malformed \cup {NoRegex}
    BY <2>1, <2>2 DEF Wanted
  <2>3. CASE r \notin Malformed \cup {NoRegex} /\ applied_toi_regex = r
    <3>1. excuse' = (IF InFlight THEN "in_flight" ELSE "none")
          /\ requests' = requests /\ toi_regex' = toi_regex
      <4>1. UpdateTrackerToiRegex(r) /\ toi_regex' = toi_regex
        BY <1>2, <2>3 DEF StartTask
      <4> HIDE DEF r
      <4> QED BY <2>3, <4>1 DEF UpdateTrackerToiRegex
    <3>2. ~InFlight => toi_regex = r /\ requests = <<>>
      BY <2>3 DEF InFlight, Answered
    <3> QED BY <2>1, <3>1, <3>2 DEF Wanted, Final
  <2>4. CASE r \notin Malformed \cup {NoRegex} /\ applied_toi_regex # r
    <3>1. CASE ~service_is_ready
      BY <1>2, <2>4, <3>1 DEF StartTask, UpdateTrackerToiRegex, Wanted
    <3>2. CASE service_is_ready
      <4>1. requests' = Append(requests, r)
        BY <1>2, <2>4, <3>2 DEF StartTask, UpdateTrackerToiRegex, SetParameters
      <4>2. requests' # <<>> /\ requests'[Len(requests')] = r
        BY <4>1 DEF ToiTypeOK
      <4> QED BY <2>1, <4>2 DEF Wanted, Final
    <3> QED BY <3>1, <3>2
  <2> QED BY <2>2, <2>3, <2>4
<1>3. ASSUME NEW i \in 1..Len(task_list), EndTask(i) PROVE Wanted'
  <2>1. ActiveRegex' \in {NoRegex, ActiveRegex}
    <3>1. Len(task_list) \in Nat /\ task_list \in Seq(ToiTasks)
      BY DEF ToiTypeOK
    <3>2. task_list' = <<>> => ActiveRegex' = NoRegex
      BY DEF ActiveRegex
    <3>3. CASE task_list' # <<>>
      <4>1. task_list' \in Seq(ToiTasks) /\ 1 \in 1..Len(task_list')
        BY <1>3, <3>3, EndedList
      <4>2. task_list'[1] = IF 1 < i THEN task_list[1] ELSE task_list[2]
        BY <1>3, <4>1, EndedList
      <4>3. i = 1 => ~task_list'[1].init_done
        BY <1>3, <3>1, <4>1, <4>2, EndedList DEF OthersWait
      <4>4. Head(task_list') = task_list'[1] /\ Head(task_list) = task_list[1]
            /\ task_list # <<>>
        BY <3>1, <4>1
      <4> QED BY <4>2, <4>3, <4>4 DEF ActiveRegex
    <3> QED BY <3>2, <3>3
  <2> QED BY <1>3, <2>1 DEF EndTask, Wanted, Final
<1>4. CASE ApplyRuntimeParameters
  <2>1. requests \in Seq(Regexes) /\ requests # <<>> /\ requests' = Tail(requests)
        /\ toi_regex' = requests[1]
    BY <1>4 DEF ApplyRuntimeParameters, ToiTypeOK
  <2>2. Len(requests) = 1 => Final' = Final
    BY <2>1 DEF Final
  <2>3. Len(requests) # 1 => Final' = Final
    <3> SUFFICES ASSUME Len(requests) # 1 PROVE Final' = Final
      OBVIOUS
    <3>1. Len(requests) \in Nat
      BY <2>1
    <3>2. Len(requests) # 0
      BY <2>1
    <3>3. requests' # <<>> /\ Len(requests') = Len(requests) - 1
      <4>1. Len(requests') = Len(requests) - 1
        BY <2>1, HeadTailProperties
      <4>2. Len(requests') # 0
        BY <3>1, <4>1
      <4> QED BY <4>1, <4>2
    <3>4. requests'[Len(requests')] = requests[Len(requests)]
      BY <2>1, <3>1, <3>2, <3>3
    <3> QED BY <2>1, <3>3, <3>4 DEF Final
  <2>4. Final' = Final
    BY <2>2, <2>3
  <2> QED BY <1>4, <2>4 DEF ApplyRuntimeParameters, Wanted, ActiveRegex
<1>5. CASE FindService \/ HearResponse \/ UNCHANGED toiVars
  BY <1>5 DEF FindService, HearResponse, toiVars, Wanted, Final, ActiveRegex
<1> QED BY <1>1, <1>2, <1>3, <1>4, <1>5 DEF ToiNext

\* The inductive invariant holds in every reachable state.
THEOREM ToiInvHolds == ToiSpec => []ToiInv
<1>1. ToiInit => ToiInv
  <2> SUFFICES ASSUME ToiInit PROVE ToiInv
    OBVIOUS
  <2>1. ToiTypeOK
    <3>1. task_list \in Seq(ToiTasks) /\ requests \in Seq(Regexes) /\ responses \in Seq(Regexes)
      BY DEF ToiInit
    <3>2. added \in 0..MaxTasks
      BY RegexAssumption DEF ToiInit
    <3> QED BY <3>1, <3>2, RegexAssumption DEF ToiInit, ToiTypeOK
  <2>2. Answered /\ Wanted
    BY DEF ToiInit, Answered, Wanted, ActiveRegex
  <2>3. OthersWait
    BY DEF ToiInit, OthersWait
  <2> QED BY <2>1, <2>2, <2>3 DEF ToiInv
<1>2. ToiInv /\ [ToiNext]_toiVars => ToiInv'
  BY ToiTypeKept, AnsweredKept, OthersWaitKept, WantedKept DEF ToiInv
<1> QED BY <1>1, <1>2, PTL DEF ToiSpec

\* Whenever no call and no answer is on its way, the expression remembered as
\* applied (applied_toi_regex) is the one the tracker uses.
THEOREM BeliefIsCurrent == ToiSpec => []BeliefCurrent
<1>1. ToiInv => BeliefCurrent
  BY DEF ToiInv, Answered, BeliefCurrent, InFlight
<1> QED BY <1>1, ToiInvHolds, PTL

\* Whenever no call is on its way, the tracker uses the expression of the active
\* task, unless its call was skipped or could not be made.
THEOREM RegexReachesTracker == ToiSpec => []RegexUnlessSkipped
<1>1. ToiInv => RegexUnlessSkipped
  BY DEF ToiInv, Wanted, Final, RegexUnlessSkipped, InFlight
<1> QED BY <1>1, ToiInvHolds, PTL
=============================================================================
