----------------------------- MODULE Navigation -----------------------------
(***************************************************************************)
(* From a task to the wheels: the processes of one vehicle that carry out  *)
(* a MoveTo, and what happens when one of them dies, hangs or is reset.    *)
(*                                                                         *)
(* mission --goals, go--> planner --path--> processor --goal point-> local *)
(*      ^                  |  \--path (dwa)-----------------------> local  *)
(*      +--state, reached--+--state--> control <--speed and steering--+    *)
(*                                     control --cmd_vel--> the vehicle    *)
(*                                                                         *)
(* A process goes through the body of its loop, runs the callbacks of what *)
(* has arrived (rclcpp::spin_some) and sleeps; a step is one body and the  *)
(* spin after it.  What mission and planner send each other waits in mail  *)
(* for a later spin, each topic by itself, so that messages cross and what *)
(* one body publishes may arrive in different spins; the others only send  *)
(* onwards, and what they are sent is there for their next body.  What is  *)
(* sent to a process that is down is lost.                                 *)
(*                                                                         *)
(* A goal stands for the path to it, for a point on that path, and for a   *)
(* speed and steering that follow it.  The global planner is seen from     *)
(* outside: its list is one goal, and its plan is ready some day           *)
(* (GlobalPlanner has its loop and its thread).                            *)
(***************************************************************************)
EXTENDS Integers

CONSTANTS Goals,
          Nowhere,         \* no task, no path, no speed; a place that is no goal
          None,            \* nothing received
          Setups,          \* local planner and speed control the vehicle is launched
                           \* with, and the topics whose messages a spin may miss
          Shutdown,        \* parameter shutdown_behavior of the global planner
          Brakes,          \* steps from no brake to full brake (time_to_max_brake)
          OdomTimeout,     \* timeouts of the ATAT control, in iterations of its loop
          ControlTimeout,
          Mortal,          \* who may crash
          MaxEvents        \* bound on commands, resets, crashes and hangs

NotInit == "NotInit"
Active == "Active"
Coast == "InactiveCoast"
GradualStop == "InactiveGradualStop"
HardStop == "InactiveHardStop"
RunStates == {NotInit, Active, Shutdown}

Nodes == {"mission", "planner", "converter", "processor", "local", "control"}

ASSUME NavigationAssumption ==
    /\ Nowhere \notin Goals /\ None \notin Goals /\ None # Nowhere
    /\ Setups \subseteq [local : {"mpc", "dwa"}, control : {"default", "atat"},
                         late : SUBSET {"goals", "go", "state", "reached", "reset"}]
    /\ Shutdown \in {Coast, GradualStop, HardStop}
    /\ Brakes \in Nat \ {0}
    /\ OdomTimeout \in Nat \ {0} /\ ControlTimeout \in Nat \ {0}
    \* The mission manager has no copy of its tasks: it is taken to stay up.
    /\ Mortal \subseteq (Nodes \ {"mission"}) \cup {"odometry"}
    /\ MaxEvents \in Nat

VARIABLES
    setup,
    status,       \* of each node and of the odometry: "up", "hung" or "down"
    mail,         \* what waits for mission and planner
    mission,      \* the active task, the planner's goal, what has arrived
    planner,      \* nav_goals, state, last_valid_ros_path, the last odometry, and go:
                  \* a go command that the loop has not looked at (nav_command_rcvd)
    converter,    \* g_received_odometry
    processor,    \* global_path_input, and whether veh is new
    local,        \* what the local planner plans to, and recv_veh_input or rcvd_odom
    control,      \* the speed control
    vehicle,      \* the goal it is at, and the speed of the last cmd_vel
    events,
    calm          \* history: see CalmAfter

vars == <<setup, status, mail, mission, planner, converter, processor, local, control,
          vehicle, events, calm>>

MissionInit == [task |-> Nowhere, gp_goal |-> Nowhere, rcvd |-> None, reached |-> None,
                reset |-> FALSE]
PlannerInit == [goal |-> Nowhere, rcvd |-> FALSE, go |-> FALSE, run |-> NotInit,
                state_goal |-> Nowhere, path |-> Nowhere, odom |-> None, reset |-> FALSE]
ProcessorInit == [path |-> Nowhere, fresh |-> FALSE]
LocalInit == [goal |-> Nowhere, veh |-> FALSE]
\* The age of what was never received is above the timeout.
ControlInit == [heard |-> NotInit, speed |-> Nowhere, odom_age |-> OdomTimeout + 1,
                speed_age |-> ControlTimeout + 1, brake |-> 0, reset |-> FALSE]

Init ==
    /\ setup \in Setups
    /\ status = [n \in Nodes \cup {"odometry"} |-> "up"]
    /\ mail = {}
    /\ mission = MissionInit /\ planner = PlannerInit /\ converter = FALSE
    /\ processor = ProcessorInit /\ local = LocalInit /\ control = ControlInit
    /\ vehicle = [at |-> Nowhere, cmd |-> Nowhere]
    /\ events = 0
    /\ calm = 0

-----------------------------------------------------------------------------
(* Topics. *)

Msg(to, topic, data) == [to |-> to, topic |-> topic, data |-> data]
When(condition, m) == IF condition THEN {m} ELSE {}

MailOf(n) == {m \in mail : m.to = n}
\* What a spin of n may take of what waits for it.
Takes(n) ==
    {taken \in SUBSET MailOf(n) : \A m \in MailOf(n) \ taken : m.topic \in setup.late}
On(taken, topic) == {m \in taken : m.topic = topic}
Heard(taken, topic) == On(taken, topic) # {}
Latest(taken, topic, old) ==
    IF Heard(taken, topic) THEN (CHOOSE m \in On(taken, topic) : TRUE).data ELSE old

\* A body publishes ms, for mission and planner, and the spin after it takes some of what
\* waits; the rest comes later.  The newest of a topic counts.
PublishAndSpin(ms, taken) ==
    mail' = {m \in mail \ taken : \A s \in ms : s.to # m.to \/ s.topic # m.topic}
                \cup {s \in ms : status[s.to] # "down"}

\* n, which is not down, gets c where it had old.
Delivered(n, old, c) == IF status[n] = "down" THEN old ELSE c

Up(n) == status[n] = "up"
\* Odometry comes more often than anyone loops: a spin finds some if its source is up.
Odometry == Up("odometry")
\* veh, the converter's last odometry again and again.
VehFlows == Up("converter") /\ converter

-----------------------------------------------------------------------------
(* The mission manager, as far as one MoveTo goes. *)

\* A command replaces the task (CANCEL_ALL); "cancel" drops it.
Commands == Goals \cup {"cancel", None}

TaskAfter(command, task) ==
    CASE command = None -> task
      [] command = "cancel" -> Nowhere
      [] OTHER -> command

\* current_gp_goal: the goal the planner was last seen working on.
KnownGoal ==
    IF mission.reset THEN Nowhere
    ELSE IF mission.rcvd # None THEN mission.rcvd ELSE mission.gp_goal

\* Fault: the goal is published once.
PublishesGoalOnce(command, task) == task # Nowhere /\ command # None

\* MoveTo::init_ and MoveTo::run: the goal is published when the task starts and
\* as long as the planner works on another one.
PublishesGoal(command, task) == task # Nowhere /\ (command # None \/ KnownGoal # task)

\* MoveTo::init_ alone: the go command, once.
PublishesGo(command, task) == task # Nowhere /\ command # None

MissionCycle(command, taken) ==
    LET task == TaskAfter(command, IF mission.reset THEN Nowhere ELSE mission.task)
        arrived == command = None /\ ~mission.reset /\ mission.reached = task
    IN  /\ Up("mission")
        /\ mission' = [task |-> IF arrived THEN Nowhere ELSE task,
                       gp_goal |-> KnownGoal,
                       rcvd |-> Latest(taken, "state", None),
                       reached |-> Latest(taken, "reached", None),
                       reset |-> Heard(taken, "reset")]
        /\ PublishAndSpin(
               When(mission.reset, Msg("planner", "reset", "reset"))
                   \cup When(PublishesGoal(command, task), Msg("planner", "goals", task))
                   \cup When(PublishesGo(command, task), Msg("planner", "go", "go")),
               taken)
        /\ UNCHANGED <<setup, status, planner, converter, processor, local, control,
                       vehicle, calm>>

-----------------------------------------------------------------------------
(* The global planner, from outside. *)

\* The goal point processor follows the path, and DWA itself.
SendsPath(path) ==
    /\ processor' = Delivered("processor", processor, [processor EXCEPT !.path = path])
    /\ local' = IF setup.local = "dwa"
                THEN Delivered("local", local, [local EXCEPT !.goal = path])
                ELSE local
SendsState(run) == control' = Delivered("control", control, [control EXCEPT !.heard = run])

\* The callbacks, after a body that leaves p.
PlannerSpin(p, taken) ==
    [p EXCEPT !.goal = Latest(taken, "goals", p.goal),
              !.rcvd = p.rcvd \/ Heard(taken, "goals"),
              !.go = p.go \/ Heard(taken, "go"),
              !.odom = IF Odometry THEN vehicle.at ELSE p.odom,
              !.reset = Heard(taken, "reset")]

\* History: 1 when the planner p has handled a reset and neither goals nor a go command
\* wait for its loop, 2 when the control has gone round after that; 3 when only go
\* commands have come since, 0 when goals have.
CalmAfter(p, c) ==
    CASE p.rcvd -> 0
      [] p.go /\ ~p.rcvd /\ c # 0 -> 3
      [] OTHER -> c

\* What a reset leaves of the planner: goals and a go command that were received and not
\* looked at stay announced (waypoints_rcvd, nav_command_rcvd).
AfterReset == [PlannerInit EXCEPT !.rcvd = planner.rcvd, !.go = planner.go]

\* Fault: the run state stays.
PlannerResetRunning(taken) ==
    /\ Up("planner") /\ planner.reset
    /\ planner' = PlannerSpin([AfterReset EXCEPT !.run = planner.run], taken)
    /\ PublishAndSpin({}, taken)
    /\ SendsPath(Nowhere) /\ SendsState(planner.run)
    /\ calm' = CalmAfter(planner', 1)
    /\ UNCHANGED <<setup, status, mission, converter, vehicle, events>>

\* The branch of the loop for a reset: goals and path are dropped.
PlannerReset(taken) ==
    /\ Up("planner") /\ planner.reset
    /\ planner' = PlannerSpin(AfterReset, taken)
    /\ PublishAndSpin({}, taken)
    /\ SendsPath(Nowhere) /\ SendsState(NotInit)
    /\ calm' = CalmAfter(planner', 1)
    /\ UNCHANGED <<setup, status, mission, converter, vehicle, events>>

\* The rest of the loop; ready says that a plan for the goal is finished.  New goals make
\* the planner active (auto_active_on_new_waypoint), and so does a go command, whether
\* there are goals or not.  An iteration with a go command publishes the state only if
\* that changes it, or new goals or the end of the goals do.
PlannerCycle(ready, taken) ==
    LET run == IF planner.rcvd \/ planner.go THEN Active ELSE planner.run
        silent == planner.go /\ planner.run = Active /\ ~planner.rcvd
        plans == planner.odom # None /\ run # NotInit /\ planner.goal # Nowhere
        path == IF plans /\ ready THEN planner.goal ELSE planner.path
        state_goal == IF ~plans THEN planner.state_goal
                      ELSE IF run = Active THEN planner.goal ELSE Nowhere
        reached == plans /\ run = Active /\ planner.odom = planner.goal
        run_after == IF reached THEN Shutdown ELSE run
    IN  /\ Up("planner") /\ ~planner.reset
        /\ planner' = PlannerSpin(
               [planner EXCEPT !.rcvd = FALSE, !.go = FALSE, !.run = run_after,
                               !.state_goal = state_goal, !.path = path],
               taken)
        /\ PublishAndSpin(
               When(run = Active /\ ~silent, Msg("mission", "state", planner.state_goal))
                   \cup When(reached, Msg("mission", "reached", planner.goal)),
               taken)
        /\ IF plans THEN SendsPath(path) ELSE UNCHANGED <<processor, local>>
        /\ IF silent /\ ~reached THEN UNCHANGED control ELSE SendsState(run_after)
        /\ calm' = CalmAfter(planner', calm)
        /\ UNCHANGED <<setup, status, mission, converter, vehicle, events>>

-----------------------------------------------------------------------------
(* From the path to a speed. *)

ConverterCycle ==
    /\ Up("converter") /\ ~converter /\ Odometry
    /\ converter' = TRUE
    /\ UNCHANGED <<setup, status, mail, mission, planner, processor, local, control,
                   vehicle, events, calm>>

\* A goal point for each new veh, as long as there is a path.
ProcessorCycle ==
    LET sends == processor.fresh /\ processor.path # Nowhere
    IN  /\ Up("processor")
        /\ processor' = [processor EXCEPT !.fresh = (@ /\ ~sends) \/ VehFlows]
        /\ local' = IF sends /\ setup.local = "mpc"
                    THEN Delivered("local", local, [local EXCEPT !.goal = processor.path])
                    ELSE local
        /\ UNCHANGED <<setup, status, mail, mission, planner, converter, control, vehicle,
                       events, calm>>

\* MPC plans once it has had a vehicle state and a goal point; DWA needs odometry of
\* this very iteration and a path.  A reset changes nothing in either.
LocalCycle ==
    LET sends == local.veh /\ local.goal # Nowhere
    IN  /\ Up("local")
        /\ local' = [local EXCEPT
               !.veh = IF setup.local = "mpc" THEN @ \/ VehFlows ELSE Odometry]
        /\ control' = IF sends
                      THEN Delivered("control", control,
                               [control EXCEPT !.speed = local.goal, !.speed_age = 0])
                      ELSE control
        /\ UNCHANGED <<setup, status, mail, mission, planner, converter, processor, vehicle,
                       events, calm>>

-----------------------------------------------------------------------------
(* The speed control. *)

Older(age, limit) == IF age > limit THEN age ELSE age + 1

\* Fault: odometry may be as old as it likes.
DrivesAtatBlind(heard) == heard = Active /\ control.speed_age <= ControlTimeout

\* Whether ATAT drives.
DrivesAtat(heard) ==
    heard = Active /\ control.odom_age <= OdomTimeout /\ control.speed_age <= ControlTimeout

\* Fault: the brake of the last iteration is not remembered.
BrakeAfterForgetful(heard) ==
    CASE heard = GradualStop -> 1
      [] heard = HardStop -> Brakes
      [] OTHER -> 0

\* A stop with a gradual brake brakes a step harder each time (use_speed_controller).
BrakeAfter(heard) ==
    CASE heard = GradualStop -> IF control.brake < Brakes THEN control.brake + 1 ELSE Brakes
      [] heard = HardStop -> Brakes
      [] OTHER -> 0

\* Its reset forgets the run state and keeps the speed.
AtatCycle ==
    LET heard == IF control.reset THEN NotInit ELSE control.heard
    IN  /\ vehicle' = [vehicle EXCEPT
               !.cmd = IF DrivesAtat(heard) THEN control.speed ELSE Nowhere]
        /\ control' = [control EXCEPT
               !.heard = heard,
               !.odom_age = IF Odometry THEN 0 ELSE Older(@, OdomTimeout),
               !.speed_age = Older(@, ControlTimeout),
               !.reset = FALSE]

\* The default control looks at no age, and its reset forgets the speed.
DefaultCycle ==
    LET heard == IF control.reset THEN NotInit ELSE control.heard
        speed == IF control.reset THEN Nowhere ELSE control.speed
    IN  /\ vehicle' = [vehicle EXCEPT !.cmd = IF heard = Active THEN speed ELSE Nowhere]
        /\ control' = [control EXCEPT !.heard = heard, !.speed = speed,
                                      !.brake = BrakeAfter(heard), !.reset = FALSE]

ControlCycle ==
    /\ Up("control")
    /\ IF setup.control = "atat" THEN AtatCycle ELSE DefaultCycle
    /\ calm' = IF calm = 1 THEN 2 ELSE calm
    /\ UNCHANGED <<setup, status, mail, mission, planner, converter, processor, local, events>>

\* The vehicle gets to where the commands lead.
Arrive ==
    /\ vehicle.cmd # Nowhere /\ vehicle.at # vehicle.cmd
    /\ vehicle' = [vehicle EXCEPT !.at = vehicle.cmd]
    /\ UNCHANGED <<setup, status, mail, mission, planner, converter, processor, local,
                   control, events, calm>>

-----------------------------------------------------------------------------
(* The operator, and faults. *)

Command ==
    /\ events < MaxEvents /\ events' = events + 1
    /\ \E c \in Commands \ {None}, taken \in Takes("mission") :
           MissionCycle(c, taken)

\* reset names all nodes.
Reset ==
    /\ events < MaxEvents /\ events' = events + 1
    /\ mail' = mail \cup {Msg(n, "reset", "reset") :
                             n \in {m \in {"mission", "planner"} : status[m] # "down"}}
    /\ control' = Delivered("control", control, [control EXCEPT !.reset = TRUE])
    /\ UNCHANGED <<setup, status, mission, planner, converter, processor, local, vehicle, calm>>

\* A process dies with all it knows and all that waits for it.
Crash(n) ==
    /\ Up(n) /\ events < MaxEvents /\ events' = events + 1
    /\ status' = [status EXCEPT ![n] = "down"]
    /\ mail' = mail \ MailOf(n)
    /\ planner' = IF n = "planner" THEN PlannerInit ELSE planner
    /\ converter' = IF n = "converter" THEN FALSE ELSE converter
    /\ processor' = IF n = "processor" THEN ProcessorInit ELSE processor
    /\ local' = IF n = "local" THEN LocalInit ELSE local
    /\ control' = IF n = "control" THEN ControlInit ELSE control
    /\ UNCHANGED <<setup, mission, vehicle, calm>>

Restart(n) ==
    /\ status[n] = "down"
    /\ status' = [status EXCEPT ![n] = "up"]
    /\ UNCHANGED <<setup, mail, mission, planner, converter, processor, local, control,
                   vehicle, events, calm>>

\* A solve of the local planner takes its time, and its loop waits for it.
Hang ==
    /\ Up("local") /\ events < MaxEvents /\ events' = events + 1
    /\ status' = [status EXCEPT !["local"] = "hung"]
    /\ UNCHANGED <<setup, mail, mission, planner, converter, processor, local, control,
                   vehicle, calm>>

Resume ==
    /\ status["local"] = "hung"
    /\ status' = [status EXCEPT !["local"] = "up"]
    /\ UNCHANGED <<setup, mail, mission, planner, converter, processor, local, control,
                   vehicle, events, calm>>

MissionIdle(taken) == MissionCycle(None, taken) /\ UNCHANGED events

Next ==
    \/ Command
    \/ \E taken \in Takes("mission") : MissionIdle(taken)
    \/ \E taken \in Takes("planner") :
           \/ PlannerReset(taken)
           \/ \E ready \in BOOLEAN : PlannerCycle(ready, taken)
    \/ ConverterCycle \/ ProcessorCycle \/ LocalCycle
    \/ ControlCycle \/ Arrive
    \/ Reset
    \/ \E n \in Mortal : Crash(n) \/ Restart(n)
    \/ Hang \/ Resume

\* The loops go on, and what was published arrives: a spin that takes all that waits is
\* not put off for ever.
Fairness ==
    /\ WF_vars(MissionIdle(MailOf("mission")))
    /\ WF_vars(PlannerReset(MailOf("planner")))
    /\ WF_vars(PlannerCycle(TRUE, MailOf("planner")))
    /\ WF_vars(ConverterCycle) /\ WF_vars(ProcessorCycle) /\ WF_vars(LocalCycle)
    /\ WF_vars(ControlCycle) /\ WF_vars(Resume)
    /\ SF_vars(Arrive)

Spec == Init /\ [][Next]_vars /\ Fairness

-----------------------------------------------------------------------------
(* Properties. *)

Places == Goals \cup {Nowhere}
Ages(limit) == 0 .. limit + 1

Messages ==
    [to : {"planner"}, topic : {"goals"}, data : Goals]
        \cup [to : {"planner"}, topic : {"go"}, data : {"go"}]
        \cup [to : {"mission"}, topic : {"state", "reached"}, data : Places]
        \cup [to : {"mission", "planner"}, topic : {"reset"}, data : {"reset"}]

TypeOK ==
    /\ setup \in Setups
    /\ mail \subseteq Messages
    /\ status \in [Nodes \cup {"odometry"} -> {"up", "hung", "down"}]
    /\ mission \in [task : Places, gp_goal : Places, rcvd : Places \cup {None},
                    reached : Places \cup {None}, reset : BOOLEAN]
    /\ planner \in [goal : Places, rcvd : BOOLEAN, go : BOOLEAN, run : RunStates,
                    state_goal : Places, path : Places, odom : Places \cup {None},
                    reset : BOOLEAN]
    /\ converter \in BOOLEAN
    /\ processor \in [path : Places, fresh : BOOLEAN]
    /\ local \in [goal : Places, veh : BOOLEAN]
    /\ control \in [heard : RunStates, speed : Places, odom_age : Ages(OdomTimeout),
                    speed_age : Ages(ControlTimeout), brake : 0 .. Brakes, reset : BOOLEAN]
    /\ vehicle \in [at : Places, cmd : Places]
    /\ events \in 0 .. MaxEvents
    /\ calm \in 0 .. 3

\* Once the planner has handled a reset and the control has gone round after it, the
\* vehicle gets no speed before goals or a go command reach the planner: the local planner
\* and the processor know nothing of the reset and go on, and only the run state stops
\* them.  Goals and a go command that the planner had not looked at when it handled the
\* reset are among those that end the calm.
ResetStops == calm = 2 => vehicle.cmd = Nowhere

\* A task ends: the vehicle arrives or the task is dropped, whatever crashes but the
\* planner, if all are up again in the end.  Goals that cross with a reset, paths and
\* speeds that are lost have to be sent again.  A reset must not come late: see
\* TaskEndsAfterReset.
AllUp == \A n \in DOMAIN status : Up(n)
TaskEnds ==
    "reset" \notin setup.late /\ [](status["planner"] # "down") /\ <>[]AllUp
        => []<>(mission.task = Nowhere)

\* A vehicle without an active goal stops for good, and with a gradual stop its brake
\* gets to the full (speed_control_node.cpp:167-170), whatever dies on the way.
Stopped ==
    /\ vehicle.cmd = Nowhere
    /\ Shutdown = GradualStop /\ setup.control = "default" /\ planner.run = Shutdown
           => control.brake = Brakes
StopsForGood ==
    <>[](Up("planner") /\ Up("control") /\ planner.run # Active) => <>[]Stopped

\* With the ATAT control a vehicle stops for good when its odometry or its local planner
\* dies, although MPC and the converter go on with the last odometry: "the controller
\* halts" (atat_speed_control.yaml:89, 93).
SilenceStops ==
    setup.control = "atat" /\ <>[]Up("control")
        /\ <>[](~Up("odometry") \/ ~Up("local"))
    => <>[](vehicle.cmd = Nowhere)

-----------------------------------------------------------------------------
(* Not so: no run checks these, and TLC finds each violated with MCNavigation.cfg; *)
(* TaskEndsAfterReset needs "reset" among the late topics of MCSetups.             *)

\* After a reset that the planner has handled, only goals start the vehicle.  (A go command
\* that comes a spin after its goals and together with the reset is kept over it, makes the
\* planner active without a goal, and MPC drives on to its last goal point.)
GoalsAloneStart == [][calm = 3 /\ vehicle.cmd = Nowhere => vehicle'.cmd = Nowhere]_vars

\* A task survives a reset however late it comes to the planner.  (When the planner has
\* taken the new goal and the mission manager has heard so before the planner finds the
\* reset, the goal is dropped and nobody sends it again, as after a crash.)
TaskEndsAfterReset ==
    [](status["planner"] # "down") /\ <>[]AllUp => []<>(mission.task = Nowhere)

\* A task survives a crash of the planner.  (MoveTo::run publishes the goal again only
\* when the planner reports another one; a planner that has just started reports none,
\* and the mission manager goes by what it heard before the crash.)
TaskEndsAfterCrash == <>[]AllUp => []<>(mission.task = Nowhere)

\* A vehicle that has no task stops.  (A cancelled task leaves the planner its goal, and
\* the loop tells nobody; after a reset that meets goals or a go command in one spin the
\* planner is active without a goal, and MPC drives on to its last goal point.)
IdleStops ==
    <>[]AllUp /\ <>[](mission.task = Nowhere /\ planner.goal = Nowhere)
        => <>[](vehicle.cmd = Nowhere)

\* The same watchdog for the default control: it has none.
SilenceStopsDefault ==
    <>[]Up("control") /\ <>[](~Up("odometry") \/ ~Up("local"))
        => <>[](vehicle.cmd = Nowhere)
=============================================================================
