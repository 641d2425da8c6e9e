--------------------------- MODULE ObjectTracker ----------------------------
(***************************************************************************)
(* The tracker of a vehicle of one's own formation, by camera and LiDAR,   *)
(* and the monitor that decides that it is lost and asks that vehicle      *)
(* itself where it is.                                                     *)
(*                                                                         *)
(* One thread runs the callbacks, the tracking timer and the estimator     *)
(* timer of the node, in any order.  Time is counted in periods of the     *)
(* tracking timer: a period ends when both timers have fired in it, the    *)
(* estimator's maybe more than once.  A clock that matters no more stands  *)
(* still.  Where things are is left open: what a detection or a position   *)
(* is near to, whether a test of the filter passes, are choices.           *)
(***************************************************************************)
EXTENDS Integers

CONSTANTS
    MarkerIds,             \* obstacle ids of the LiDAR detector
    Clouds,                \* the sets of obstacles that a point cloud may show
    TargetTimeout,         \* tracking.target_timeout
    ReacquireTime,         \* tracking.lidar_reacquire_max_time
    SyncByCallbackTime,    \* sync.enabled and sync.use_callback_time
    CloudEachPeriod,       \* the LiDAR misses no period
    MaxDetectionSkew,      \* sync.max_detection_skew
    WindowTime,            \* recovery.no_movement_window_time, uncertainty_window_time
    BackoffTime,           \* recovery.no_movement_backoff_time
    AllowNeverTracked,     \* recovery.timeout_allow_never_tracked
    MaxAttempts,           \* recovery.timeout_max_attempts
    ServiceResponseTimeout, RetryBackoff, SustainedTrackingTime

ASSUME TrackerAssumption ==
    /\ {TargetTimeout, ReacquireTime, MaxDetectionSkew, WindowTime, BackoffTime, MaxAttempts,
        ServiceResponseTimeout, RetryBackoff, SustainedTrackingTime} \subseteq Nat
    /\ TargetTimeout >= 2 /\ MaxDetectionSkew <= TargetTimeout
    /\ {SyncByCallbackTime, CloudEachPeriod, AllowNeverTracked} \subseteq BOOLEAN
    /\ -1 \notin MarkerIds /\ Clouds \subseteq SUBSET MarkerIds

VARIABLES
    state,
    flags,         \* what the tracker remembers, below
    tracked_id,    \* tracked_obstacle_id_, -1 when there is none
    clocks,        \* periods since the last valid target, detection and LiDAR marker
    camera_info,   \* whether the intrinsics are known
    has_markers, markers,  \* of the latest obstacle markers
    monitor,       \* the TrackerRecoveryMonitor
    reset_called,  \* the node was told to reset
    due,           \* what has yet to happen in this period
    unseen,        \* periods since a detection, or a cloud with an obstacle, came
    sighted        \* a detection came since the tracker was last marked lost

trackerVars == <<state, flags, tracked_id, clocks>>
sensorVars == <<camera_info, has_markers, markers>>
vars == <<trackerVars, sensorVars, monitor, reset_called, due, unseen, sighted>>

Active == {"LIDAR_ONLY_TRACKING", "FULL_TRACKING", "CAMERA_ONLY_TRACKING"}
States == Active \cup {"UNINITIALIZED", "INACTIVE", "NO_DETECTION", "LOST"}
Flags == {"detection", "candidates", "first_detection", "filter", "target", "measurement",
          "first_lidar"}
Tasks == {"tracking", "estimator", "lidar"}

Upto(n) == 0..(n + 1)
Requests == {"IDLE", "WAITING"}
Monitors ==
    [speed : -1..WindowTime, uncertainty : -1..WindowTime, streak : -1..SustainedTrackingTime,
     been_active : BOOLEAN, attempts : 0..MaxAttempts,
     confirm : Requests, confirm_age : Upto(ServiceResponseTimeout),
     confirm_backoff : 0..(BackoffTime + RetryBackoff), checking : BOOLEAN,
     answer : {"none", "moving", "stationary"},
     recovery : Requests, recovery_age : Upto(ServiceResponseTimeout),
     retry : 0..(BackoffTime + RetryBackoff), fetching : BOOLEAN,
     odom : {"none", "empty", "valid"}]

TypeOK ==
    /\ state \in States
    /\ flags \subseteq Flags
    /\ tracked_id \in MarkerIds \cup {-1}
    /\ clocks \in [target : Upto(TargetTimeout), detection : Upto(TargetTimeout),
                   lidar : 0..ReacquireTime]
    /\ camera_info \in BOOLEAN /\ has_markers \in BOOLEAN /\ markers \subseteq MarkerIds
    /\ monitor \in Monitors
    /\ reset_called \in BOOLEAN
    /\ due \subseteq Tasks
    /\ unseen \in Upto(TargetTimeout + MaxDetectionSkew + 1)
    /\ sighted \in BOOLEAN

Init ==
    /\ state = "UNINITIALIZED"
    /\ flags = {}
    /\ tracked_id = -1
    /\ clocks = [target |-> 0, detection |-> 0, lidar |-> 0]
    /\ camera_info = FALSE /\ has_markers = FALSE /\ markers = {}
    /\ monitor = [speed |-> -1, uncertainty |-> -1, streak |-> -1, been_active |-> FALSE,
                  attempts |-> 0, confirm |-> "IDLE", confirm_age |-> 0,
                  confirm_backoff |-> 0, checking |-> FALSE, answer |-> "none",
                  recovery |-> "IDLE", recovery_age |-> 0, retry |-> 0,
                  fetching |-> FALSE, odom |-> "none"]
    /\ reset_called = FALSE
    /\ due = Tasks
    /\ unseen = 0
    /\ sighted = TRUE

Has(f) == f \in flags
Set(on, off) == flags' = (flags \ off) \cup on

-----------------------------------------------------------------------------
(* What comes in. *)

CameraInfo ==
    /\ ~camera_info
    /\ camera_info' = TRUE
    /\ UNCHANGED <<trackerVars, has_markers, markers, monitor, reset_called, due, unseen,
                   sighted>>

\* Detections of the target: a usable one, one that touches the edge of the
\* image, or none in this image.
Detections(result) ==
    /\ \/ /\ result = "usable"
          /\ Set({"candidates", "first_detection", "detection"}, {})
          /\ clocks' = [clocks EXCEPT !.detection = 0]
          /\ unseen' = 0 /\ sighted' = TRUE
       \/ /\ result = "clipped" /\ camera_info
          /\ Set({}, {"candidates", "detection"})
          /\ UNCHANGED <<clocks, unseen, sighted>>
       \/ /\ result = "missed"
          /\ Set({}, {"detection"})
          /\ UNCHANGED <<clocks, unseen, sighted>>
    /\ UNCHANGED <<state, tracked_id, sensorVars, monitor, reset_called, due>>

\* A point cloud: the obstacle detector runs only for a tracker that has had its
\* first detection, and the markers are taken back when there is none.
PointCloud(ids) ==
    /\ "lidar" \in due
    /\ has_markers' = Has("first_detection")
    /\ markers' = IF Has("first_detection") THEN ids ELSE {}
    /\ unseen' = IF markers' = {} THEN unseen ELSE 0
    /\ due' = due \ {"lidar"}
    /\ UNCHANGED <<trackerVars, camera_info, monitor, reset_called, sighted>>

\* The services of the target vehicle answer; an answer to a request that was
\* given up is dropped.
CheckSpeedAnswer(a) ==
    /\ monitor.checking
    /\ monitor' = [monitor EXCEPT !.checking = FALSE, !.answer = a]
    /\ UNCHANGED <<trackerVars, sensorVars, reset_called, due, unseen, sighted>>

OdometryAnswer(o) ==
    /\ monitor.fetching
    /\ monitor' = [monitor EXCEPT !.fetching = FALSE, !.odom = o]
    /\ UNCHANGED <<trackerVars, sensorVars, reset_called, due, unseen, sighted>>

\* The connection to the target vehicle is bad, and an answer is lost.
AnswerLost ==
    /\ monitor.checking \/ monitor.fetching
    /\ \/ monitor' = [monitor EXCEPT !.checking = FALSE]
       \/ monitor' = [monitor EXCEPT !.fetching = FALSE]
    /\ UNCHANGED <<trackerVars, sensorVars, reset_called, due, unseen, sighted>>

ResetCallback ==
    /\ reset_called' = TRUE
    /\ UNCHANGED <<trackerVars, sensorVars, monitor, due, unseen, sighted>>

-----------------------------------------------------------------------------
(* The monitor's bookkeeping. *)

AbortPendingConfirm(m) ==
    [m EXCEPT !.checking = FALSE, !.answer = "none", !.confirm = "IDLE", !.confirm_age = 0]
\* Fault: the state of the abandoned request is left as it was.
AbortLeavesWaiting(m) == [m EXCEPT !.fetching = FALSE, !.odom = "none"]
AbortPendingRecovery(m) ==
    [m EXCEPT !.fetching = FALSE, !.odom = "none", !.recovery = "IDLE", !.recovery_age = 0]
\* Fault: the confirmation of the dropped window goes on.
ResetWindowOnly(m) == [m EXCEPT !.speed = -1]
ResetSpeedWindow(m) ==
    IF m.speed = -1 /\ m.confirm = "IDLE" THEN m
    ELSE AbortPendingConfirm([m EXCEPT !.speed = -1])
ResetWindows(m) == [ResetSpeedWindow(m) EXCEPT !.uncertainty = -1]
ResetMonitor(m) ==
    [AbortPendingRecovery(ResetWindows(m)) EXCEPT
        !.confirm_backoff = 0, !.retry = 0, !.been_active = FALSE, !.streak = -1,
        !.attempts = 0]

UpdateSettings ==
    /\ monitor' = ResetWindows(monitor)
    /\ UNCHANGED <<trackerVars, sensorVars, reset_called, due, unseen, sighted>>

\* ResetTrackingState
ResetTrackingState(st, on, off) ==
    /\ state' = st
    /\ Set(on, off \cup {"target", "detection", "measurement", "first_lidar"})
    /\ tracked_id' = -1
    /\ clocks' = [target |-> 0, detection |-> 0, lidar |-> 0]

Reset ==
    /\ ResetTrackingState("INACTIVE", {}, {"filter", "first_detection"})
    /\ monitor' = ResetMonitor(monitor)

\* The mission manager names the same target again.
Retarget ==
    /\ Reset
    /\ UNCHANGED <<sensorVars, reset_called, due, unseen, sighted>>

-----------------------------------------------------------------------------
(* TrackingTick. *)

TimedOut == clocks.target > TargetTimeout

\* Nothing to measure: the target is given up after a while (CheckTargetTimeout).
NoMeasurement ==
    /\ state' = IF TimedOut THEN "NO_DETECTION" ELSE "LIDAR_ONLY_TRACKING"
    /\ Set({}, {"detection"} \cup (IF TimedOut THEN {"target"} ELSE {}))
    /\ UNCHANGED <<tracked_id, clocks>>

\* The filter starts anew from the first marker a detection is matched to.
MarkerMeasured(st, id) ==
    /\ state' = st
    /\ tracked_id' = id
    /\ Set({"measurement", "first_lidar", "target"},
           {"detection"} \cup (IF st = "FULL_TRACKING" /\ ~Has("first_lidar")
                               THEN {"filter"} ELSE {}))
    /\ clocks' = [clocks EXCEPT !.target = 0, !.lidar = 0]

CameraMeasured ==
    /\ state' = "CAMERA_ONLY_TRACKING"
    /\ Set({"measurement", "detection", "target"}, {})
    /\ clocks' = [clocks EXCEPT !.target = 0]
    /\ UNCHANGED tracked_id

\* The marker of the target is looked for under its id, and, for a short while
\* after it was last seen, under that of one near its last position.
TrackByLidar ==
    IF tracked_id = -1 \/ ~has_markers THEN NoMeasurement
    ELSE IF tracked_id \in markers THEN MarkerMeasured("LIDAR_ONLY_TRACKING", tracked_id)
    ELSE \/ NoMeasurement
         \/ /\ clocks.lidar < ReacquireTime
            /\ \E id \in markers : MarkerMeasured("LIDAR_ONLY_TRACKING", id)

\* Which detections there are is judged by SelectDetection: a track outside the
\* image has none, otherwise one of the candidates is taken.
SelectDetection ==
    IF ~Has("candidates") THEN {FALSE}
    ELSE IF Has("filter") /\ Has("target") THEN BOOLEAN ELSE {TRUE}

\* Fault: when a detection came is not looked at.
StaleNever == FALSE
Stale == SyncByCallbackTime /\ clocks.detection > MaxDetectionSkew

\* A detection without a marker near it does not replace a marker that is still
\* reported.
TrackBy(detected) ==
    IF Stale \/ (Has("target") /\ ~detected) THEN TrackByLidar
    ELSE \/ /\ tracked_id \in markers
            /\ TrackByLidar
         \/ /\ tracked_id \notin markers
            /\ CameraMeasured
         \/ \E id \in markers : MarkerMeasured("FULL_TRACKING", id)

\* Fault: a lost tracker goes on as any other does.
StaysLostNever == FALSE
StaysLost == state = "LOST" /\ ~Has("detection")

Track ==
    IF StaysLost THEN UNCHANGED trackerVars
    ELSE IF ~camera_info \/ ~Has("first_detection")
    THEN state' = "INACTIVE" /\ UNCHANGED <<flags, tracked_id, clocks>>
    ELSE IF ~Has("detection") THEN TrackBy(FALSE)
    ELSE \E selected \in SelectDetection :
            IF selected \/ Has("target") THEN TrackBy(selected)
            ELSE /\ state' = "INACTIVE"
                 /\ Set({}, {"detection", "first_detection"})
                 /\ UNCHANGED <<tracked_id, clocks>>

TrackingTick ==
    /\ "tracking" \in due
    /\ due' = due \ {"tracking"}
    /\ IF reset_called THEN Reset ELSE Track /\ UNCHANGED monitor
    /\ reset_called' = FALSE
    /\ UNCHANGED <<sensorVars, unseen, sighted>>

-----------------------------------------------------------------------------
(* The base class's EstimatorTick. *)

UpdateFilter ==
    LET frozen == state = "NO_DETECTION" \/ (Has("target") /\ clocks.target > 2)
    IN  IF ~Has("filter") /\ ~Has("measurement") THEN UNCHANGED <<state, flags>>
        ELSE IF frozen THEN Set({"filter"}, {}) /\ UNCHANGED state
        ELSE /\ Set({"filter"}, {"measurement"})
             /\ \/ UNCHANGED state
                \/ /\ {"filter", "measurement"} \subseteq flags
                   /\ state' = "NO_DETECTION"

EstimateTarget ==
    LET since == IF state = "LIDAR_ONLY_TRACKING" THEN clocks.target ELSE clocks.detection
    IN  /\ UNCHANGED <<clocks, sighted>>
        /\ IF ~Has("first_detection") THEN UNCHANGED <<state, flags, tracked_id>>
           ELSE IF since > TargetTimeout /\ state \in {"LIDAR_ONLY_TRACKING", "NO_DETECTION"}
           THEN /\ state' = "INACTIVE"
                /\ Set({}, {"detection", "first_detection", "filter", "measurement",
                            "first_lidar"})
                /\ tracked_id' = -1
           ELSE UpdateFilter /\ UNCHANGED tracked_id

-----------------------------------------------------------------------------
(* The monitor's Update, and what the tracker does about it. *)

MarkLost(m) ==
    /\ monitor' = ResetWindows(m)
    /\ state' = "LOST"
    /\ Set({}, {"target", "detection", "measurement"})
    /\ sighted' = FALSE
    /\ UNCHANGED <<tracked_id, clocks>>

ApplyRecoveryOdometry ==
    /\ monitor' = [ResetWindows(monitor) EXCEPT
                       !.odom = "none", !.recovery = "IDLE", !.recovery_age = 0,
                       !.confirm_backoff = BackoffTime, !.retry = BackoffTime]
    /\ ResetTrackingState("LOST", {"filter"}, {})
    /\ sighted' = IF state = "LOST" THEN sighted ELSE FALSE

\* Not every time a request may be sent is the service ready.
RunRecovery(m) ==
    IF m.recovery = "WAITING"
    THEN {IF m.recovery_age > ServiceResponseTimeout
          THEN [AbortPendingRecovery(m) EXCEPT !.retry = RetryBackoff] ELSE m}
    ELSE {m} \cup (IF m.retry > 0 THEN {}
                   ELSE {[m EXCEPT !.fetching = TRUE, !.recovery = "WAITING"]})

\* Sustained tracking arms the timeout and clears its attempts.
Sustain(m) ==
    IF ~({"filter", "target"} \subseteq flags /\ state \in Active)
    THEN [m EXCEPT !.streak = -1]
    ELSE LET s == IF m.streak = -1 THEN 0 ELSE m.streak
         IN  IF s < SustainedTrackingTime THEN [m EXCEPT !.streak = s]
             ELSE [m EXCEPT !.streak = s, !.been_active = TRUE, !.attempts = 0]

Starved(m) == (m.been_active \/ AllowNeverTracked) /\ TimedOut /\ m.attempts < MaxAttempts

\* Both windows run while the target is tracked actively.
Windows(m) ==
    IF ~(Has("filter") /\ state \in Active)
    THEN [ResetSpeedWindow(m) EXCEPT !.uncertainty = -1]
    ELSE [m EXCEPT !.speed = IF @ = -1 THEN 0 ELSE @,
                   !.uncertainty = IF @ = -1 THEN 0 ELSE @]

\* Whether the mean speed is low, and the service ready, is a choice.
RunNoMovementCheck(m) ==
    IF m.confirm = "WAITING"
    THEN {IF m.confirm_age > ServiceResponseTimeout
          THEN [AbortPendingConfirm(m) EXCEPT !.confirm_backoff = RetryBackoff] ELSE m}
    ELSE {m} \cup (IF m.confirm_backoff > 0 \/ m.speed < WindowTime THEN {}
                   ELSE {[m EXCEPT !.checking = TRUE, !.confirm = "WAITING"]})

\* The answer of the target vehicle is taken.
Heard(m) ==
    IF m.answer = "none" THEN m
    ELSE [m EXCEPT !.answer = "none", !.confirm = "IDLE", !.confirm_age = 0,
                   !.confirm_backoff = IF m.answer = "stationary" THEN BackoffTime ELSE @]

Watch(m) ==
    IF Starved(m) THEN MarkLost(AbortPendingConfirm([m EXCEPT !.attempts = @ + 1]))
    ELSE LET w == Windows(m)
         IN  \/ /\ w.uncertainty = WindowTime
                /\ MarkLost(AbortPendingConfirm(w))
             \/ /\ monitor' \in RunNoMovementCheck(w)
                /\ EstimateTarget

EstimatorTick ==
    /\ due' = due \ {"estimator"}
    /\ IF monitor.odom = "valid" THEN ApplyRecoveryOdometry
       ELSE IF monitor.odom = "empty"
       THEN /\ monitor' = [monitor EXCEPT !.odom = "none", !.recovery = "IDLE",
                                          !.recovery_age = 0, !.retry = RetryBackoff]
            /\ IF state = "LOST" THEN UNCHANGED <<trackerVars, sighted>>
               ELSE EstimateTarget
       ELSE IF monitor.answer = "moving" THEN MarkLost(Heard(monitor))
       ELSE IF state = "LOST"
       THEN /\ monitor' \in RunRecovery(Heard(monitor))
            /\ UNCHANGED <<trackerVars, sighted>>
       ELSE Watch(Sustain(Heard(monitor)))
    /\ UNCHANGED <<sensorVars, reset_called, unseen>>

-----------------------------------------------------------------------------
(* Time. *)

Later(n, cap) == IF n < cap THEN n + 1 ELSE n
Started(n, cap) == IF n = -1 THEN n ELSE Later(n, cap)
Sooner(n) == IF n > 0 THEN n - 1 ELSE 0

Elapse ==
    /\ due \subseteq (IF CloudEachPeriod THEN {} ELSE {"lidar"})
    /\ due' = Tasks
    /\ clocks' = [target |-> Later(clocks.target, TargetTimeout + 1),
                  detection |-> Later(clocks.detection, TargetTimeout + 1),
                  lidar |-> IF tracked_id = -1 THEN 0
                            ELSE Later(clocks.lidar, ReacquireTime)]
    /\ monitor' = [monitor EXCEPT
           !.speed = Started(@, WindowTime),
           !.uncertainty = Started(@, WindowTime),
           !.streak = Started(@, SustainedTrackingTime),
           !.confirm_age = IF monitor.confirm = "IDLE" THEN @
                           ELSE Later(@, ServiceResponseTimeout + 1),
           !.recovery_age = IF monitor.recovery = "IDLE" THEN @
                            ELSE Later(@, ServiceResponseTimeout + 1),
           !.confirm_backoff = Sooner(@), !.retry = Sooner(@)]
    /\ unseen' = Later(unseen, TargetTimeout + MaxDetectionSkew + 2)
    /\ UNCHANGED <<state, flags, tracked_id, sensorVars, reset_called, sighted>>

-----------------------------------------------------------------------------
Next ==
    \/ CameraInfo
    \/ \E r \in {"usable", "clipped", "missed"} : Detections(r)
    \/ \E ids \in Clouds : PointCloud(ids)
    \/ \E a \in {"moving", "stationary"} : CheckSpeedAnswer(a)
    \/ \E o \in {"empty", "valid"} : OdometryAnswer(o)
    \/ AnswerLost \/ ResetCallback \/ UpdateSettings \/ Retarget
    \/ TrackingTick \/ EstimatorTick \/ Elapse

Spec == Init /\ [][Next]_vars

\* The timers and the LiDAR go on, the services are ready and answer now and then.
Fairness ==
    /\ WF_vars(\/ TrackingTick \/ Elapse
               \/ "estimator" \in due /\ EstimatorTick
               \/ \E ids \in Clouds : PointCloud(ids))
    /\ SF_vars(EstimatorTick /\ monitor'.fetching /\ ~monitor.fetching)
    /\ SF_vars(OdometryAnswer("valid"))
FairSpec == Spec /\ Fairness

-----------------------------------------------------------------------------
(* Properties. *)

\* A tracker that was declared lost goes on tracking only after a new detection
\* of its target, unless it was reset: no marker, no old detection and no answer
\* of the target vehicle ends LOST (object_tracker.cpp:85).
LostUntilSighted == sighted \/ state \in {"LOST", "INACTIVE"}

\* An answer to "are you moving" is about the window it was asked for: it is never
\* left to be taken after the window was dropped or the target declared lost
\* (tracker_recovery_monitor.cpp:143).
ConfirmOfThisWindow ==
    monitor.checking \/ monitor.answer # "none" =>
        /\ monitor.confirm = "WAITING"
        /\ monitor.speed = WindowTime
        /\ state # "LOST"

\* A target that neither sensor has seen for longer than the timeout is no longer
\* reported as tracked (object_tracker.cpp:479).
TimesOutUnseen == unseen > TargetTimeout + MaxDetectionSkew + 1 => state \notin Active

\* A target that neither sensor sees any more is some time no longer reported as
\* tracked (object_tracker.cpp:479).
StarvedLetsGo == []<>(unseen <= TargetTimeout + MaxDetectionSkew + 1 \/ state \notin Active)

\* Odometry of the target vehicle is taken only while the tracker is lost
\* (formation_vehicle_tracker.cpp:103).
RecoversOnlyLost == [][monitor.odom = "valid" /\ monitor'.odom = "none" /\ state' = "LOST"
                       => state = "LOST"]_vars

\* As long as the tracker stays lost, odometry of the target vehicle comes in again
\* and again: no abandoned request blocks the next one
\* (tracker_recovery_monitor.cpp:225).
RecoveryGoesOn == []<>(state # "LOST" \/ monitor.odom = "valid")
=============================================================================
