--------------------------- MODULE GlobalPlanner ----------------------------
(***************************************************************************)
(* The global planner node: the loop that follows a list of goals, and the *)
(* thread that computes paths for it.                                      *)
(*                                                                         *)
(* The loop runs the callbacks of what has arrived (rclcpp::spin_some),    *)
(* then goes once through its body.  One plan is in flight at a time: the  *)
(* loop submits it, polls its future, asks it to stop when it takes too    *)
(* long or when the goals change, and waits for it where it drops it.  The *)
(* planner object is used by the thread, and by the service callback when  *)
(* no plan is in flight; it keeps the last path it found (path_world_).    *)
(*                                                                         *)
(* A goal is a point; the vehicle is at a goal when its position is that   *)
(* point.  A path is the points it leads to, in order: the one it was      *)
(* planned for, then the goals the loop appended.                          *)
(***************************************************************************)
EXTENDS Integers, Sequences

CONSTANTS Points,        \* where the vehicle and its goals may be
          NoPoint,
          GoalLists,     \* lists of goals it may be sent
          AutoActive,    \* parameter auto_active_on_new_waypoint
          Shutdown,      \* parameter shutdown_behavior
          MaxInputs      \* bound on the messages and requests received

NotInit == "NotInit"
Active == "Active"
RunStates == {NotInit, Active, Shutdown}

ASSUME PlannerAssumption ==
    /\ NoPoint \notin Points
    /\ GoalLists \subseteq Seq(Points)
    /\ AutoActive \in BOOLEAN
    /\ Shutdown \in {"InactiveCoast", "InactiveGradualStop", "InactiveHardStop"}
    /\ MaxInputs \in Nat

VARIABLES
    nav_goals, waypoints_rcvd, use_global_planner, reset_called,
    nav_command,         \* "GoActive", "GoInactive", or "none" when none was received
    odom,                \* position of the vehicle, NoPoint before odometry arrives
    run_state, current_waypoint,
    worker,              \* the goal the thread plans for, NoPoint when it is idle
    planning_future,     \* "none" (not valid), "pending" or "ready"
    result,              \* what a ready future holds
    overdue,             \* whether the plan has run for planning_timeout_ms
    cancel,              \* the planner's cancel_
    timeout_logged,
    path_world,          \* the planner's path_world_
    last_valid_path,     \* last_valid_ros_path
    at,                  \* where the loop is: "spin", "body", or "drop" while it waits
    inputs,
    announced            \* history: goals announced since the list or the state was set

received == <<nav_goals, waypoints_rcvd, use_global_planner, reset_called, nav_command,
              odom>>
state == <<run_state, current_waypoint, announced>>
thread == <<worker, planning_future, result, overdue>>
vars == <<received, state, thread, cancel, timeout_logged, path_world, last_valid_path, at,
          inputs>>

NoResult == [path |-> <<>>, solved |-> FALSE]
Results == [path : Seq(Points), solved : BOOLEAN]

TypeOK ==
    /\ nav_goals \in Seq(Points) /\ odom \in Points \cup {NoPoint}
    /\ {waypoints_rcvd, use_global_planner, reset_called, overdue, cancel,
        timeout_logged} \subseteq BOOLEAN
    /\ nav_command \in {"GoActive", "GoInactive", "none"}
    /\ run_state \in RunStates /\ current_waypoint \in Nat
    /\ worker \in Points \cup {NoPoint}
    /\ planning_future \in {"none", "pending", "ready"}
    /\ result \in Results
    /\ path_world \in Seq(Points) /\ last_valid_path \in Seq(Points)
    /\ at \in {"spin", "body", "drop"}
    /\ inputs \in 0..MaxInputs /\ announced \in Seq(Nat)

Init ==
    /\ nav_goals \in GoalLists \cup {<<>>}
    /\ run_state = IF nav_goals = <<>> THEN NotInit ELSE Active
    /\ waypoints_rcvd = FALSE /\ use_global_planner = TRUE /\ reset_called = FALSE
    /\ nav_command = "none" /\ odom = NoPoint
    /\ current_waypoint = 1 /\ announced = <<>>
    /\ worker = NoPoint /\ planning_future = "none" /\ result = NoResult
    /\ overdue = FALSE /\ cancel = FALSE /\ timeout_logged = FALSE
    /\ path_world = <<>> /\ last_valid_path = <<>>
    /\ at = "body" /\ inputs = 0

-----------------------------------------------------------------------------
(* The callbacks. *)

Receive ==
    /\ at = "spin" /\ inputs < MaxInputs
    /\ inputs' = inputs + 1
    /\ UNCHANGED <<state, thread, cancel, timeout_logged, last_valid_path, at>>

\* WaypointCallback, and GoalPoseCallback for a list of one.
NewGoals(goals) ==
    /\ Receive
    /\ nav_goals' = goals /\ waypoints_rcvd' = TRUE
    /\ UNCHANGED <<use_global_planner, reset_called, nav_command, odom, path_world>>

Toggle(on) ==
    /\ Receive
    /\ use_global_planner' = on
    /\ UNCHANGED <<nav_goals, waypoints_rcvd, reset_called, nav_command, odom, path_world>>

NavCommand(c) ==
    /\ Receive
    /\ nav_command' = c
    /\ UNCHANGED <<nav_goals, waypoints_rcvd, use_global_planner, reset_called, odom,
                   path_world>>

ResetCallback ==
    /\ Receive
    /\ reset_called' = TRUE
    /\ UNCHANGED <<nav_goals, waypoints_rcvd, use_global_planner, nav_command, odom,
                   path_world>>

\* Odometry comes all the time; the vehicle may have moved.
Odometry(p) ==
    /\ at = "spin"
    /\ odom' = p
    /\ UNCHANGED <<nav_goals, waypoints_rcvd, use_global_planner, reset_called, nav_command,
                   state, thread, cancel, timeout_logged, path_world, last_valid_path, at,
                   inputs>>

\* Solve() finds a path to goal (or a part of one), finds that the vehicle is
\* there, or gives up: no path, an empty map, or a cancel it has polled.  What
\* PlanPath returns is path_world_ in every case.
Outcomes(goal) ==
    {[path |-> <<goal>>, solved |-> TRUE], [path |-> <<>>, solved |-> TRUE],
     [path |-> path_world, solved |-> FALSE]}

\* The service plans from goal to goal on the loop's own thread, unless a plan
\* is in flight; the planner keeps the path of the last goal it solved.
ServicePlans == planning_future = "none"
ComputeGlobalPath(goals) ==
    /\ Receive
    /\ ServicePlans /\ goals # <<>>
    /\ path_world' \in {path_world, <<>>} \cup {<<goals[i]>> : i \in 1..Len(goals)}
    /\ UNCHANGED received

\* spin_some returns.
Loop ==
    /\ at = "spin"
    /\ at' = "body"
    /\ UNCHANGED <<received, state, thread, cancel, timeout_logged, path_world,
                   last_valid_path, inputs>>

-----------------------------------------------------------------------------
(* The planning thread. *)

Plan ==
    /\ worker # NoPoint
    /\ \E r \in Outcomes(worker) : result' = r /\ path_world' = r.path
    /\ worker' = NoPoint /\ planning_future' = "ready"
    /\ UNCHANGED <<received, state, overdue, cancel, timeout_logged, last_valid_path, at,
                   inputs>>

\* planning_timeout_ms have passed since the plan in flight was submitted.
TimePasses ==
    /\ worker # NoPoint /\ ~overdue
    /\ overdue' = TRUE
    /\ UNCHANGED <<received, state, worker, planning_future, result, cancel,
                   timeout_logged, path_world, last_valid_path, at, inputs>>

-----------------------------------------------------------------------------
(* The body of the loop. *)

SetRunState(s) ==
    /\ run_state' = s
    /\ announced' = IF s = Active THEN <<>> ELSE announced

\* planning_future.get() after RequestCancel: the loop waits for the thread.
DropPlan ==
    /\ at = "body"
    /\ reset_called \/ ~use_global_planner
    /\ planning_future # "none"
    /\ cancel' = TRUE /\ at' = "drop"
    /\ UNCHANGED <<received, state, thread, timeout_logged, path_world, last_valid_path,
                   inputs>>

\* Fault: the plan is dropped before the thread is done with it.
DroppedUnfinished ==
    \/ at = "body" /\ planning_future = "none" /\ UNCHANGED <<thread, cancel>>
    \/ /\ at = "drop" /\ planning_future' = "none" /\ cancel' = FALSE
       /\ UNCHANGED <<worker, result, overdue>>

\* Fault: the cancel is left for the next plan.
DroppedStillCancelled ==
    \/ at = "body" /\ planning_future = "none" /\ UNCHANGED <<thread, cancel>>
    \/ /\ at = "drop" /\ planning_future = "ready"
       /\ planning_future' = "none" /\ result' = NoResult
       /\ UNCHANGED <<worker, overdue, cancel>>

\* The plan is dropped, or there was none.
Dropped ==
    \/ at = "body" /\ planning_future = "none" /\ UNCHANGED <<thread, cancel>>
    \/ /\ at = "drop" /\ planning_future = "ready"
       /\ planning_future' = "none" /\ result' = NoResult
       /\ cancel' = FALSE                      \* ClearCancel
       /\ UNCHANGED <<worker, overdue>>

Reset ==
    /\ reset_called /\ Dropped
    /\ nav_goals' = <<>> /\ odom' = NoPoint
    /\ current_waypoint' = 1 /\ SetRunState(NotInit)
    /\ last_valid_path' = <<>>
    /\ reset_called' = FALSE /\ at' = "spin"
    /\ UNCHANGED <<waypoints_rcvd, use_global_planner, nav_command, timeout_logged,
                   path_world, inputs>>

\* Go command, in every iteration that does not reset.
CommandedState == IF nav_command = "GoActive" THEN Active ELSE run_state

\* Another node publishes the path.
SwitchedOff ==
    /\ ~reset_called /\ ~use_global_planner /\ Dropped
    /\ last_valid_path' = <<>>
    /\ SetRunState(Active)
    /\ nav_command' = "none" /\ at' = "spin"
    /\ UNCHANGED <<nav_goals, waypoints_rcvd, use_global_planner, reset_called, odom,
                   current_waypoint, timeout_logged, path_world, inputs>>

\* The state and the goal after the command and new goals were taken.
TakenState == IF waypoints_rcvd /\ AutoActive THEN Active ELSE CommandedState
TakenWaypoint == IF waypoints_rcvd THEN 1 ELSE current_waypoint
TakenAnnounced ==
    IF waypoints_rcvd \/ (TakenState = Active /\ run_state # Active) THEN <<>> ELSE announced

\* Fault: the first goal instead of the current one.
FirstGoal == nav_goals[1]

Goal == nav_goals[TakenWaypoint]
CanPlan == odom # NoPoint /\ TakenState # NotInit /\ nav_goals # <<>>

\* Asked to stop because its goals were replaced.
NewGoalsCancel == waypoints_rcvd /\ planning_future # "none"

Begin ==
    /\ at = "body" /\ ~reset_called /\ use_global_planner
    /\ waypoints_rcvd' = FALSE /\ nav_command' = "none" /\ at' = "spin"
    /\ UNCHANGED <<nav_goals, use_global_planner, reset_called, odom, path_world, inputs>>

Idle ==
    /\ Begin
    /\ ~CanPlan
    /\ run_state' = TakenState /\ current_waypoint' = TakenWaypoint
    /\ announced' = TakenAnnounced
    /\ cancel' = (cancel \/ NewGoalsCancel)
    /\ UNCHANGED <<thread, timeout_logged, last_valid_path>>

\* ClearCancel and Submit, for the goal of this iteration.
Submit ==
    /\ worker' = Goal /\ planning_future' = "pending" /\ result' = NoResult
    /\ overdue' = FALSE /\ cancel' = FALSE

\* The goals after the current one are appended to a path, unless it is a single
\* pose and the vehicle is on its way.
Remaining == SubSeq(nav_goals, TakenWaypoint + 1, Len(nav_goals))
Extended(path) ==
    IF path = <<>> THEN {last_valid_path}
    ELSE {path \o Remaining} \cup (IF TakenState = Active /\ odom # Goal THEN {path} ELSE {})

\* The goal is announced; after the last one the vehicle is stopped.
Announces == TakenState = Active /\ odom = Goal
IsLast == TakenWaypoint = Len(nav_goals)

\* Fault: the vehicle is not stopped at the last goal.
AnnounceNoStop ==
    IF Announces
    THEN /\ run_state' = TakenState
         /\ current_waypoint' = IF IsLast THEN TakenWaypoint ELSE TakenWaypoint + 1
         /\ announced' = Append(TakenAnnounced, TakenWaypoint)
    ELSE /\ run_state' = TakenState /\ current_waypoint' = TakenWaypoint
         /\ announced' = TakenAnnounced

Announce ==
    IF Announces
    THEN /\ run_state' = IF IsLast THEN Shutdown ELSE TakenState
         /\ current_waypoint' = IF IsLast THEN TakenWaypoint ELSE TakenWaypoint + 1
         /\ announced' = Append(TakenAnnounced, TakenWaypoint)
    ELSE /\ run_state' = TakenState /\ current_waypoint' = TakenWaypoint
         /\ announced' = TakenAnnounced

StartPlan ==
    /\ Begin
    /\ CanPlan /\ planning_future = "none"
    /\ Submit /\ Announce
    /\ UNCHANGED <<timeout_logged, last_valid_path>>

Collect ==
    /\ Begin
    /\ CanPlan /\ planning_future = "ready"
    /\ timeout_logged' = FALSE
    /\ last_valid_path' \in Extended(result.path)
    /\ Submit /\ Announce

TimesOut == overdue /\ ~timeout_logged
AwaitPlan ==
    /\ Begin
    /\ CanPlan /\ planning_future = "pending"
    /\ cancel' = (cancel \/ NewGoalsCancel \/ TimesOut)
    /\ timeout_logged' = (timeout_logged \/ TimesOut)
    /\ Announce
    /\ UNCHANGED <<thread, last_valid_path>>

Body == DropPlan \/ Reset \/ SwitchedOff \/ Idle \/ StartPlan \/ Collect \/ AwaitPlan

Next ==
    \/ \E goals \in GoalLists \cup {<<>>} : NewGoals(goals)
    \/ \E on \in BOOLEAN : Toggle(on)
    \/ \E c \in {"GoActive", "GoInactive"} : NavCommand(c)
    \/ ResetCallback
    \/ \E p \in Points : Odometry(p)
    \/ \E goals \in GoalLists : ComputeGlobalPath(goals)
    \/ Loop
    \/ Plan
    \/ TimePasses
    \/ Body

Spec == Init /\ [][Next]_vars

\* The loop runs for ever, and Solve() ends on any map.
Fairness == WF_vars(Loop) /\ WF_vars(Body) /\ WF_vars(Plan)
FairSpec == Spec /\ Fairness

-----------------------------------------------------------------------------
(* Properties. *)

\* The planner object goes from one user to the next: while the thread computes,
\* its future is held, so that neither the service nor another plan starts on
\* the same planner; and once it is let go, no cancel that was meant for it is
\* left to stop the next plan, or one of the service.
HandedOver ==
    /\ worker # NoPoint => planning_future = "pending"
    /\ planning_future = "none" => ~cancel

\* Goals are announced one after the other and each once, until the list is
\* replaced or the vehicle is set going again; after the last it is not going.
AnnouncedInOrder ==
    announced # <<>> =>
        /\ \A i \in 1..(Len(announced) - 1) : announced[i + 1] = announced[i] + 1
        /\ run_state = Active => current_waypoint = announced[Len(announced)] + 1

\* A list of goals the vehicle is to follow is planned for: a plan for the goal
\* it is at is in flight again and again, whatever became of those before it.
PlansForItsGoal ==
    []<>(\/ odom = NoPoint \/ run_state = NotInit \/ nav_goals = <<>> \/ waypoints_rcvd
         \/ ~use_global_planner \/ reset_called
         \/ current_waypoint \in 1..Len(nav_goals) /\ worker = nav_goals[current_waypoint])

\* A plan the loop has seen run past planning_timeout_ms was asked to stop.
TimeoutCancels ==
    [][/\ AwaitPlan /\ overdue => cancel']_vars

\* When a plan is cancelled or finds nothing, the path before it stays.
UnsolvedKeepsPath ==
    [][Collect /\ ~result.solved => UNCHANGED last_valid_path]_vars
=============================================================================
