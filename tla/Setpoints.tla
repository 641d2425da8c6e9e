----------------------------- MODULE Setpoints ------------------------------
(***************************************************************************)
(* What the mission manager tells the planner of the active task: a speed  *)
(* setpoint and the weight of the distance to the goal, both latched.      *)
(*                                                                         *)
(* The speed is that of the task, or the last one that was commanded, or   *)
(* the default; an encircle limits it.  A command or the zone that the     *)
(* vehicle enters sets the speed and that of the active task with it.  The *)
(* limits of the zones may be changed at any time.                         *)
(*                                                                         *)
(* Speeds and weights are natural numbers; 0 stands for every value that   *)
(* the code takes for "none" (0 and -1).  The position of the vehicle is   *)
(* the set of the zones it is in.                                          *)
(***************************************************************************)
EXTENDS TaskList

CONSTANTS Zones,      \* places in the zone file: 1, 2, ...
          Labels,     \* ids of zones
          Label,      \* the label of each zone
          FileSpeed,  \* its max_speed in the file
          MaxSpeed,   \* the default speed
          Speeds,     \* speeds in SET_SPEED commands
          TaskTypes,  \* the tasks that commands and contacts add
          Requests,   \* calls of the service set_speed_zone_values
          MaxInputs   \* bound on commands and calls

NoZone == 0
Updates == [id : Labels, max_speed : Int]
DriveTasks == [kind : TaskKinds, is_preemptable : BOOLEAN, init_done : BOOLEAN,
               task_speed : Nat, speed_limit : Nat, w_distance_to_goal : Nat]

ASSUME SetpointsAssumption ==
    /\ Zones \subseteq Nat \ {NoZone} /\ IsFiniteSet(Zones)
    /\ Label \in [Zones -> Labels]
    /\ FileSpeed \in [Zones -> Nat]
    /\ MaxSpeed \in Nat \ {0}
    /\ Speeds \subseteq Nat
    /\ TaskTypes \subseteq DriveTasks
    /\ \A t \in TaskTypes : ~t.init_done /\ (t.kind = "Encircle" => ~t.is_preemptable)
    /\ Requests \subseteq Seq(Updates)
    /\ MaxInputs \in Nat

VARIABLES task_list,
          speed_setpoint_state,  \* the last speed commanded
          speed_setpoint,        \* latched for the planner
          published_goal_weight, \* latched for the planner
          zone_speed,            \* max_speed of each zone
          last_zone,             \* the zone that was last entered, if inside
          odom,                  \* the zones at the last position received
          odom_rcvd,             \* it is new
          phase,                 \* place in the main loop
          inputs,                \* commands and calls so far
          zone_command           \* the speed last commanded by a zone

setpointsVars ==
    <<task_list, speed_setpoint_state, speed_setpoint, published_goal_weight,
      zone_speed, last_zone, odom, odom_rcvd, phase, inputs, zone_command>>

Phases == {"messages", "odometry", "update", "spin"}

SetpointsTypeOK ==
    /\ task_list \in Seq(DriveTasks)
    /\ speed_setpoint_state \in Nat /\ speed_setpoint \in Nat
    /\ published_goal_weight \in Nat /\ zone_command \in Nat
    /\ zone_speed \in [Zones -> Nat]
    /\ last_zone \in Zones \cup {NoZone}
    /\ odom \subseteq Zones /\ odom_rcvd \in BOOLEAN
    /\ phase \in Phases
    /\ inputs \in 0..MaxInputs

-----------------------------------------------------------------------------
\* resolveSpeedSetpoint of the task in front of tl.
Resolve(tl, state) ==
    LET default == IF state > 0 THEN state ELSE MaxSpeed
        own == IF tl # <<>> /\ Head(tl).task_speed > 0 THEN Head(tl).task_speed ELSE default
    IN  IF tl # <<>> /\ Head(tl).speed_limit > 0 /\ Head(tl).speed_limit < own
          THEN Head(tl).speed_limit ELSE own

\* z is the zone that counts at a position in the zones S: the last one in the file.
IsZoneAt(z, S) == IF S = {} THEN z = NoZone ELSE z \in S /\ \A y \in S : y <= z

SetpointsInit ==
    /\ task_list = <<>>
    /\ speed_setpoint_state = 0 /\ speed_setpoint = 0
    /\ published_goal_weight = 0 /\ zone_command = 0
    /\ zone_speed = FileSpeed
    /\ last_zone = NoZone
    /\ odom = {} /\ odom_rcvd = FALSE
    /\ phase = "messages"
    /\ inputs = 0

-----------------------------------------------------------------------------
Input == /\ phase = "messages"
         /\ inputs < MaxInputs /\ inputs' = inputs + 1
         /\ UNCHANGED <<zone_speed, last_zone, odom, odom_rcvd, phase, published_goal_weight>>

\* Fault: the setpoint is published before the task has the new speed.
SetSpeedPublishedFirst(s) ==
    /\ speed_setpoint_state' = s
    /\ task_list' = [i \in 1..Len(task_list) |->
                        IF i = 1 THEN [task_list[1] EXCEPT !.task_speed = s] ELSE task_list[i]]
    /\ speed_setpoint' = Resolve(task_list, s)

\* handleSetSpeedMsg.
SetSpeed(s) ==
    /\ speed_setpoint_state' = s
    /\ task_list' = [i \in 1..Len(task_list) |->
                        IF i = 1 THEN [task_list[1] EXCEPT !.task_speed = s] ELSE task_list[i]]
    /\ speed_setpoint' = Resolve(task_list', s)

SetSpeedCommand(s) == Input /\ SetSpeed(s) /\ UNCHANGED zone_command

\* addTask, for a command or a contact.
Add(t, prio) ==
    /\ Input
    /\ task_list' = AddTask(task_list, t, prio)
    /\ UNCHANGED <<speed_setpoint_state, speed_setpoint, zone_command>>

\* cancelTask, of the task at position i.
Cancel(i) ==
    /\ Input
    /\ task_list' = RemoveAt(task_list, i)
    /\ UNCHANGED <<speed_setpoint_state, speed_setpoint, zone_command>>

\* reset, at the top of the loop.
ResetSetpoints ==
    /\ phase = "spin" /\ phase' = "messages"
    /\ inputs < MaxInputs /\ inputs' = inputs + 1
    /\ task_list' = <<>>
    /\ speed_setpoint_state' = 0
    /\ UNCHANGED <<speed_setpoint, published_goal_weight, zone_speed, last_zone, odom,
                   odom_rcvd, zone_command>>

Advance ==
    /\ \/ phase = "messages" /\ phase' = "odometry"
       \/ phase = "odometry" /\ ~odom_rcvd /\ phase' = "update"
       \/ phase = "spin" /\ phase' = "messages"
    /\ UNCHANGED <<task_list, speed_setpoint_state, speed_setpoint, published_goal_weight,
                   zone_speed, last_zone, odom, odom_rcvd, inputs, zone_command>>

\* SpeedZoneMonitor::UpdateOdometry: entering a zone sets the speed, leaving does not.
UpdateOdometry ==
    /\ phase = "odometry" /\ odom_rcvd
    /\ phase' = "update" /\ odom_rcvd' = FALSE
    /\ \E z \in odom \cup {NoZone} :
          /\ IsZoneAt(z, odom)
          /\ last_zone' = z
          /\ IF z \in {last_zone, NoZone}
               THEN UNCHANGED <<task_list, speed_setpoint_state, speed_setpoint, zone_command>>
               ELSE SetSpeed(zone_speed[z]) /\ zone_command' = zone_speed[z]
    /\ UNCHANGED <<published_goal_weight, zone_speed, odom, inputs>>

\* publishGoalWeightOverride.
GoalWeight(tl) == IF tl = <<>> THEN 0 ELSE Head(tl).w_distance_to_goal

\* updateTasks: the active task is started if it is not, and may end.
UpdateTasks ==
    /\ phase = "update" /\ phase' = "spin"
    /\ published_goal_weight' = GoalWeight(task_list)
    /\ IF task_list = <<>> THEN UNCHANGED <<task_list, speed_setpoint>>
       ELSE /\ speed_setpoint' = IF Head(task_list).init_done THEN speed_setpoint
                                 ELSE Resolve(task_list, speed_setpoint_state)
            /\ task_list' \in {[task_list EXCEPT ![1].init_done = TRUE], Tail(task_list)}
    /\ UNCHANGED <<speed_setpoint_state, zone_speed, last_zone, odom, odom_rcvd, inputs,
                   zone_command>>

\* A position arrives.
EgoOdometry(S) ==
    /\ phase = "spin"
    /\ odom' = S /\ odom_rcvd' = TRUE
    /\ UNCHANGED <<task_list, speed_setpoint_state, speed_setpoint, published_goal_weight,
                   zone_speed, last_zone, phase, inputs, zone_command>>

IsValid(u) == u.id \in Range(Label) /\ u.max_speed >= 0

\* The zones that a request names, and their limits after it: a label may be that of
\* several zones, and of two values for a zone the later one counts.
Updated(r) == {z \in Zones : \E u \in Range(r) : u.id = Label[z]}
SpeedsAfter(r) ==
    [z \in Zones |->
        IF z \in Updated(r)
          THEN r[SelectLastInSeq(r, LAMBDA u : u.id = Label[z])].max_speed
          ELSE zone_speed[z]]

\* Fault: values are set until an invalid one is met.
ApplyUpdatesOneByOne(r) ==
    LET k == SelectInSeq(r, LAMBDA u : ~IsValid(u))
    IN  /\ zone_speed' = SpeedsAfter(IF k = 0 THEN r ELSE SubSeq(r, 1, k - 1))
        /\ last_zone' = IF k = 0 /\ last_zone \in Updated(r) THEN NoZone ELSE last_zone

\* A request with an invalid value is rejected.  Inside a zone that is changed,
\* the next position counts as entering it.
ApplyUpdates(r) ==
    IF \A u \in Range(r) : IsValid(u)
      THEN /\ zone_speed' = SpeedsAfter(r)
           /\ last_zone' = IF last_zone \in Updated(r) THEN NoZone ELSE last_zone
      ELSE UNCHANGED <<zone_speed, last_zone>>

\* SpeedZoneMonitor::SetZoneMaxSpeeds.
SetZoneMaxSpeeds(r) ==
    /\ phase = "spin"
    /\ inputs < MaxInputs /\ inputs' = inputs + 1
    /\ ApplyUpdates(r)
    /\ UNCHANGED <<task_list, speed_setpoint_state, speed_setpoint, published_goal_weight,
                   odom, odom_rcvd, phase, zone_command>>

SetpointsNext ==
    \/ \E s \in Speeds : SetSpeedCommand(s)
    \/ \E t \in TaskTypes, prio \in Priorities : Add(t, prio)
    \/ \E i \in 1..Len(task_list) : Cancel(i)
    \/ ResetSetpoints
    \/ Advance
    \/ UpdateOdometry
    \/ UpdateTasks
    \/ \E S \in SUBSET Zones : EgoOdometry(S)
    \/ \E r \in Requests : SetZoneMaxSpeeds(r)

SetpointsSpec == SetpointsInit /\ [][SetpointsNext]_setpointsVars

-----------------------------------------------------------------------------
IsDelay(t) == t.kind = "WaitForDuration"

\* The planner has the speed and the weight of the active task, as they are now,
\* whatever preempted, cancelled or sped it up.  (A delay that goes on after a
\* detour does not publish its speed again; the vehicle stands still.)
SettingsCurrent ==
    task_list # <<>> /\ Head(task_list).init_done /\ ~IsDelay(Head(task_list)) =>
        /\ speed_setpoint = Resolve(task_list, speed_setpoint_state)
        /\ published_goal_weight = Head(task_list).w_distance_to_goal

\* What the monitor last commanded is the limit, as it is now, of the zone it
\* believes the vehicle to be in.
ZoneCommandCurrent == last_zone # NoZone => zone_command = zone_speed[last_zone]

\* While the monitor believes the vehicle to be in a zone, the speed setpoint of
\* a task is that of the zone (mission_manager.yaml, use_speed_zones).
SetpointOfZone ==
    /\ last_zone # NoZone
    /\ task_list # <<>> /\ Head(task_list).init_done
    => speed_setpoint = zone_speed[last_zone]
=============================================================================
