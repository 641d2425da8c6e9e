-------------------------- MODULE NavigationProofs --------------------------
(***************************************************************************)
(* What drives a vehicle: the processes of Navigation, and the settings    *)
(* that the mission manager gives the planner (Setpoints).                 *)
(*                                                                         *)
(* Navigation: type correctness, and that a reset of the planner stops the *)
(* vehicle (ResetStops), for all goals, setups, timeouts, delays, bounds.  *)
(*                                                                         *)
(* Setpoints: whatever is commanded, and however the limits of the zones   *)
(* are changed while the vehicle drives through them, the last speed that  *)
(* the zone monitor commanded is the present limit of the zone it is in;   *)
(* and the planner has the speed and the weight of the active task.  The   *)
(* second needs the marks of the tasks behind the active one: what comes   *)
(* to the front when the active task leaves has not been started, so it    *)
(* will publish its settings; a circle, which would go on without doing    *)
(* so, is never pushed back.                                               *)
(***************************************************************************)
EXTENDS Navigation, Setpoints, TaskListProofs

\* The planner's part of TypeOK.
PlannerStates ==
    [goal : Places, rcvd : BOOLEAN, go : BOOLEAN, run : RunStates, state_goal : Places,
     path : Places, odom : Places \cup {None}, reset : BOOLEAN]

-----------------------------------------------------------------------------
(* What is found in the mail. *)

\* What a callback takes is of the kind its topic carries, or what was there before.
LEMMA LatestType ==
    ASSUME NEW S, NEW topic, NEW old \in S, NEW taken,
           \A m \in taken : m.topic = topic => m.data \in S
    PROVE  Latest(taken, topic, old) \in S
BY DEF Latest, Heard, On

\* Mail stays of the known kinds when messages of these kinds are published.
LEMMA MailType ==
    ASSUME mail \subseteq Messages, NEW taken, NEW ms \in SUBSET Messages,
           PublishAndSpin(ms, taken)
    PROVE  mail' \subseteq Messages
BY DEF PublishAndSpin

LEMMA GoalsType ==
    ASSUME mail \subseteq Messages, NEW old \in Places, NEW taken \in SUBSET MailOf("planner")
    PROVE  Latest(taken, "goals", old) \in Places
<1>1. \A m \in taken : m.topic = "goals" => m.data \in Places
  BY DEF MailOf, Messages, Places
<1>2. QED BY <1>1, LatestType

LEMMA StateType ==
    ASSUME mail \subseteq Messages, NEW topic \in {"state", "reached"},
           NEW taken \in SUBSET MailOf("mission")
    PROVE  Latest(taken, topic, None) \in Places \cup {None}
<1>1. \A m \in taken : m.topic = topic => m.data \in Places \cup {None}
  BY DEF MailOf, Messages, Places
<1>2. QED BY <1>1, LatestType

-----------------------------------------------------------------------------
(* Types, action by action. *)

LEMMA InitType == Init => TypeOK
<1> SUFFICES ASSUME Init PROVE TypeOK
  OBVIOUS
<1> USE DEF Init
<1>1. status \in [Nodes \cup {"odometry"} -> {"up", "hung", "down"}]
  OBVIOUS
<1>2. mission \in [task : Places, gp_goal : Places, rcvd : Places \cup {None},
                   reached : Places \cup {None}, reset : BOOLEAN]
  BY DEF MissionInit, Places
<1>3. planner \in PlannerStates
  BY DEF PlannerStates, PlannerInit, Places, RunStates
<1>4. /\ processor \in [path : Places, fresh : BOOLEAN]
      /\ local \in [goal : Places, veh : BOOLEAN]
      /\ vehicle \in [at : Places, cmd : Places]
  BY DEF ProcessorInit, LocalInit, Places
<1>5. control \in [heard : RunStates, speed : Places, odom_age : Ages(OdomTimeout),
                   speed_age : Ages(ControlTimeout), brake : 0 .. Brakes, reset : BOOLEAN]
  BY NavigationAssumption DEF ControlInit, Places, RunStates, Ages
<1>6. setup \in Setups /\ mail \subseteq Messages /\ converter \in BOOLEAN
  OBVIOUS
<1>7. 0 \in 0 .. MaxEvents /\ 0 \in 0 .. 3
  BY NavigationAssumption
<1>8. QED BY <1>1, <1>2, <1>3, <1>4, <1>5, <1>6, <1>7 DEF TypeOK, PlannerStates

LEMMA MissionType ==
    ASSUME TypeOK, NEW c \in Commands, NEW taken \in SUBSET MailOf("mission"),
           MissionCycle(c, taken), events' \in 0 .. MaxEvents
    PROVE  TypeOK'
<1> DEFINE task == TaskAfter(c, IF mission.reset THEN Nowhere ELSE mission.task)
<1>1. task \in Places
  BY DEF TaskAfter, Commands, TypeOK, Places
<1>2. KnownGoal \in Places
  BY DEF KnownGoal, TypeOK, Places
<1>3. /\ Latest(taken, "state", None) \in Places \cup {None}
      /\ Latest(taken, "reached", None) \in Places \cup {None}
  BY StateType DEF TypeOK
<1>4. Heard(taken, "reset") \in BOOLEAN
  BY DEF Heard
<1>5. mission' \in [task : Places, gp_goal : Places, rcvd : Places \cup {None},
                    reached : Places \cup {None}, reset : BOOLEAN]
  BY <1>1, <1>2, <1>3, <1>4 DEF MissionCycle, Places
<1>6. mail' \subseteq Messages
  <2> DEFINE ms == When(mission.reset, Msg("planner", "reset", "reset"))
                       \cup When(PublishesGoal(c, task), Msg("planner", "goals", task))
                       \cup When(PublishesGo(c, task), Msg("planner", "go", "go"))
  <2>1. ms \subseteq Messages
    BY <1>1 DEF When, Msg, Messages, PublishesGoal, Places
  <2>2. QED BY <2>1, MailType DEF MissionCycle, TypeOK
<1>7. QED BY <1>5, <1>6 DEF MissionCycle, TypeOK

\* Callbacks keep the planner's type.
LEMMA PlannerSpinType ==
    ASSUME TypeOK, NEW p \in PlannerStates, NEW taken \in SUBSET MailOf("planner")
    PROVE  /\ PlannerSpin(p, taken) \in PlannerStates
           /\ PlannerSpin(p, taken).run = p.run
<1>1. Latest(taken, "goals", p.goal) \in Places
  BY GoalsType DEF TypeOK, PlannerStates
<1>2. \A topic : Heard(taken, topic) \in BOOLEAN
  BY DEF Heard
<1>3. QED BY <1>1, <1>2 DEF PlannerSpin, TypeOK, PlannerStates

\* What the calm after a step of the planner can be.
LEMMA CalmAfterType ==
    ASSUME NEW p \in PlannerStates, NEW c \in 0 .. 3
    PROVE  /\ CalmAfter(p, c) \in 0 .. 3
           /\ CalmAfter(p, c) \in {1, 2} => CalmAfter(p, c) = c /\ ~p.rcvd /\ ~p.go
BY DEF CalmAfter, PlannerStates

LEMMA SendsType ==
    ASSUME TypeOK, NEW path \in Places, SendsPath(path)
    PROVE  /\ processor' \in [path : Places, fresh : BOOLEAN]
           /\ local' \in [goal : Places, veh : BOOLEAN]
BY DEF SendsPath, Delivered, TypeOK

\* The control hears the run state, or is down and hears nothing.
LEMMA SendsStateType ==
    ASSUME TypeOK, NEW run \in RunStates, SendsState(run)
    PROVE  /\ control' \in [heard : RunStates, speed : Places, odom_age : Ages(OdomTimeout),
                            speed_age : Ages(ControlTimeout), brake : 0 .. Brakes,
                            reset : BOOLEAN]
           /\ control'.heard = IF status["control"] = "down" THEN control.heard ELSE run
BY DEF SendsState, Delivered, TypeOK

LEMMA PlannerResetType ==
    ASSUME TypeOK, NEW taken \in SUBSET MailOf("planner"), PlannerReset(taken)
    PROVE  TypeOK' /\ planner'.run = NotInit /\ planner' \in PlannerStates
<1>1. AfterReset \in PlannerStates /\ AfterReset.run = NotInit
  BY DEF AfterReset, PlannerInit, PlannerStates, TypeOK, Places, RunStates
<1>2. planner' \in PlannerStates /\ planner'.run = NotInit
  BY <1>1, PlannerSpinType DEF PlannerReset
<1>3. mail' \subseteq Messages
  BY MailType DEF PlannerReset, TypeOK
<1>4. /\ processor' \in [path : Places, fresh : BOOLEAN]
      /\ local' \in [goal : Places, veh : BOOLEAN]
  BY SendsType DEF PlannerReset, Places
<1>5. control' \in [heard : RunStates, speed : Places, odom_age : Ages(OdomTimeout),
                    speed_age : Ages(ControlTimeout), brake : 0 .. Brakes, reset : BOOLEAN]
  BY SendsStateType DEF PlannerReset, RunStates
<1>6. calm' \in 0 .. 3
  BY <1>2, CalmAfterType DEF PlannerReset
<1>7. QED BY <1>2, <1>3, <1>4, <1>5, <1>6 DEF PlannerReset, TypeOK, PlannerStates

LEMMA PlannerCycleType ==
    ASSUME TypeOK, NEW ready \in BOOLEAN, NEW taken \in SUBSET MailOf("planner"),
           PlannerCycle(ready, taken)
    PROVE  TypeOK' /\ planner' \in PlannerStates
<1> DEFINE run == IF planner.rcvd \/ planner.go THEN Active ELSE planner.run
           silent == planner.go /\ planner.run = Active /\ ~planner.rcvd
           plans == planner.odom # None /\ run # NotInit /\ planner.goal # Nowhere
           path == IF plans /\ ready THEN planner.goal ELSE planner.path
           state_goal == IF ~plans THEN planner.state_goal
                         ELSE IF run = Active THEN planner.goal ELSE Nowhere
           reached == plans /\ run = Active /\ planner.odom = planner.goal
           run_after == IF reached THEN Shutdown ELSE run
           p == [planner EXCEPT !.rcvd = FALSE, !.go = FALSE, !.run = run_after,
                                !.state_goal = state_goal, !.path = path]
<1>1. path \in Places /\ state_goal \in Places /\ run_after \in RunStates
  BY DEF TypeOK, Places, RunStates
<1>2. p \in PlannerStates
  BY <1>1 DEF TypeOK, PlannerStates
<1>3. planner' = PlannerSpin(p, taken)
  BY DEF PlannerCycle
<1>4. planner' \in PlannerStates
  BY ZenonT(40), <1>2, <1>3, PlannerSpinType
<1>5. mail' \subseteq Messages
  <2> DEFINE ms == When(run = Active /\ ~silent,
                        Msg("mission", "state", planner.state_goal))
                       \cup When(reached, Msg("mission", "reached", planner.goal))
  <2>1. ms \subseteq Messages
    BY DEF When, Msg, Messages, TypeOK
  <2>2. PublishAndSpin(ms, taken)
    BY DEF PlannerCycle
  <2>3. QED BY <2>1, <2>2, MailType DEF TypeOK
<1>6. /\ processor' \in [path : Places, fresh : BOOLEAN]
      /\ local' \in [goal : Places, veh : BOOLEAN]
  <2>1. CASE plans
    <3>1. SendsPath(path)
      BY <2>1 DEF PlannerCycle
    <3>2. QED BY <1>1, <3>1, SendsType
  <2>2. CASE ~plans
    BY <2>2 DEF PlannerCycle, TypeOK
  <2>3. QED BY <2>1, <2>2
<1>7. control' \in [heard : RunStates, speed : Places, odom_age : Ages(OdomTimeout),
                    speed_age : Ages(ControlTimeout), brake : 0 .. Brakes, reset : BOOLEAN]
  <2>1. SendsState(run_after) \/ UNCHANGED control
    BY DEF PlannerCycle
  <2>2. CASE SendsState(run_after)
    BY <1>1, <2>2, SendsStateType
  <2>3. CASE UNCHANGED control
    BY <2>3 DEF TypeOK
  <2>4. QED BY <2>1, <2>2, <2>3
<1>8. calm' \in 0 .. 3
  BY <1>4, CalmAfterType DEF PlannerCycle, TypeOK
<1>9. QED BY <1>4, <1>5, <1>6, <1>7, <1>8 DEF PlannerCycle, TypeOK, PlannerStates

LEMMA ProcessorType ==
    ASSUME TypeOK, ProcessorCycle
    PROVE  TypeOK'
<1>1. processor' \in [path : Places, fresh : BOOLEAN]
  BY DEF ProcessorCycle, VehFlows, Up, TypeOK
<1>2. local' \in [goal : Places, veh : BOOLEAN]
  BY DEF ProcessorCycle, Delivered, TypeOK
<1>3. QED BY <1>1, <1>2 DEF ProcessorCycle, TypeOK

LEMMA LocalType ==
    ASSUME TypeOK, LocalCycle
    PROVE  TypeOK' /\ control'.heard = control.heard
<1>1. local' \in [goal : Places, veh : BOOLEAN]
  BY DEF LocalCycle, VehFlows, Odometry, Up, TypeOK
<1>2. 0 \in Ages(ControlTimeout)
  BY NavigationAssumption DEF Ages
<1>3. /\ control' \in [heard : RunStates, speed : Places, odom_age : Ages(OdomTimeout),
                       speed_age : Ages(ControlTimeout), brake : 0 .. Brakes, reset : BOOLEAN]
      /\ control'.heard = control.heard
  BY <1>2 DEF LocalCycle, Delivered, TypeOK
<1>4. QED BY <1>1, <1>3 DEF LocalCycle, TypeOK

\* An age goes up to one more than its limit.
LEMMA OlderType ==
    ASSUME NEW limit \in Nat, NEW age \in Ages(limit)
    PROVE  Older(age, limit) \in Ages(limit)
BY DEF Older, Ages

LEMMA BrakeType ==
    ASSUME TypeOK, NEW heard \in RunStates
    PROVE  BrakeAfter(heard) \in 0 .. Brakes
<1>1. control.brake \in 0 .. Brakes
  BY DEF TypeOK
<1>2. QED BY <1>1, NavigationAssumption DEF BrakeAfter

\* The control goes on with the run state it heard, or with none after a reset, and
\* drives only when that is active.
LEMMA ControlType ==
    ASSUME TypeOK, ControlCycle
    PROVE  /\ TypeOK'
           /\ control'.heard = IF control.reset THEN NotInit ELSE control.heard
           /\ control'.heard # Active => vehicle'.cmd = Nowhere
<1> DEFINE heard == IF control.reset THEN NotInit ELSE control.heard
<1>1. heard \in RunStates /\ Nowhere \in Places
  BY DEF TypeOK, RunStates, Places
<1>2. CASE setup.control = "atat"
  <2>1. AtatCycle
    BY <1>2 DEF ControlCycle
  <2>2. /\ Older(control.odom_age, OdomTimeout) \in Ages(OdomTimeout)
        /\ Older(control.speed_age, ControlTimeout) \in Ages(ControlTimeout)
        /\ 0 \in Ages(OdomTimeout)
    <3>1. control.odom_age \in Ages(OdomTimeout) /\ control.speed_age \in Ages(ControlTimeout)
      BY DEF TypeOK
    <3>2. 0 \in Ages(OdomTimeout)
      BY NavigationAssumption DEF Ages
    <3>3. QED BY <3>1, <3>2, OlderType, NavigationAssumption
  <2>3. /\ control' \in [heard : RunStates, speed : Places, odom_age : Ages(OdomTimeout),
                         speed_age : Ages(ControlTimeout), brake : 0 .. Brakes,
                         reset : BOOLEAN]
        /\ control'.heard = heard
    BY <1>1, <2>1, <2>2 DEF AtatCycle, TypeOK
  <2>4. /\ vehicle' \in [at : Places, cmd : Places]
        /\ heard # Active => vehicle'.cmd = Nowhere
    BY <1>1, <2>1 DEF AtatCycle, DrivesAtat, TypeOK
  <2>5. QED BY <2>3, <2>4 DEF ControlCycle, TypeOK
<1>3. CASE setup.control # "atat"
  <2>1. DefaultCycle
    BY <1>3 DEF ControlCycle
  <2>2. BrakeAfter(heard) \in 0 .. Brakes
    BY <1>1, BrakeType
  <2>3. /\ control' \in [heard : RunStates, speed : Places, odom_age : Ages(OdomTimeout),
                         speed_age : Ages(ControlTimeout), brake : 0 .. Brakes,
                         reset : BOOLEAN]
        /\ control'.heard = heard
    BY <1>1, <2>1, <2>2 DEF DefaultCycle, TypeOK
  <2>4. /\ vehicle' \in [at : Places, cmd : Places]
        /\ heard # Active => vehicle'.cmd = Nowhere
    BY <1>1, <2>1 DEF DefaultCycle, TypeOK
  <2>5. QED BY <2>3, <2>4 DEF ControlCycle, TypeOK
<1>4. QED BY <1>2, <1>3

LEMMA ResetType ==
    ASSUME TypeOK, Reset
    PROVE  TypeOK' /\ control'.heard = control.heard
<1>1. mail' \subseteq Messages
  BY DEF Reset, Msg, Messages, TypeOK
<1>2. /\ control' \in [heard : RunStates, speed : Places, odom_age : Ages(OdomTimeout),
                       speed_age : Ages(ControlTimeout), brake : 0 .. Brakes, reset : BOOLEAN]
      /\ control'.heard = control.heard
  BY DEF Reset, Delivered, TypeOK
<1>3. events' \in 0 .. MaxEvents
  BY NavigationAssumption DEF Reset, TypeOK
<1>4. QED BY <1>1, <1>2, <1>3 DEF Reset, TypeOK

LEMMA CrashType ==
    ASSUME TypeOK, NEW n \in Mortal, Crash(n)
    PROVE  /\ TypeOK'
           /\ control'.heard = IF n = "control" THEN NotInit ELSE control.heard
           /\ n = "planner" => planner' = PlannerInit
           /\ n # "planner" => planner' = planner
<1>1. /\ PlannerInit \in PlannerStates
      /\ ProcessorInit \in [path : Places, fresh : BOOLEAN]
      /\ LocalInit \in [goal : Places, veh : BOOLEAN]
  BY DEF PlannerStates, PlannerInit, ProcessorInit, LocalInit, Places, RunStates
<1>2. /\ ControlInit \in [heard : RunStates, speed : Places, odom_age : Ages(OdomTimeout),
                          speed_age : Ages(ControlTimeout), brake : 0 .. Brakes,
                          reset : BOOLEAN]
      /\ ControlInit.heard = NotInit
  BY NavigationAssumption DEF ControlInit, Places, RunStates, Ages
<1>3. status' \in [Nodes \cup {"odometry"} -> {"up", "hung", "down"}]
  BY DEF Crash, TypeOK
<1>4. mail' \subseteq Messages /\ events' \in 0 .. MaxEvents
  BY NavigationAssumption DEF Crash, MailOf, TypeOK
<1>5. QED BY <1>1, <1>2, <1>3, <1>4 DEF Crash, TypeOK, PlannerStates

\* The steps that touch neither planner nor control.
LEMMA OtherType ==
    ASSUME TypeOK,
           \/ Command \/ ConverterCycle \/ Arrive \/ Hang \/ Resume
           \/ \E taken \in Takes("mission") : MissionIdle(taken)
           \/ \E n \in Mortal : Restart(n)
           \/ UNCHANGED vars
    PROVE  /\ TypeOK' /\ UNCHANGED <<planner, control, calm>>
           /\ vehicle'.cmd = vehicle.cmd
<1>1. CASE Command
  <2>1. events' \in 0 .. MaxEvents
    BY <1>1, NavigationAssumption DEF Command, TypeOK
  <2>2. PICK c \in Commands, taken \in SUBSET MailOf("mission") : MissionCycle(c, taken)
    BY <1>1 DEF Command, Takes
  <2>3. QED BY <2>1, <2>2, MissionType DEF MissionCycle
<1>2. CASE \E taken \in Takes("mission") : MissionIdle(taken)
  <2>1. PICK taken \in SUBSET MailOf("mission") : MissionIdle(taken)
    BY <1>2 DEF Takes
  <2>2. None \in Commands /\ events' \in 0 .. MaxEvents
    BY <2>1 DEF MissionIdle, Commands, TypeOK
  <2>3. QED BY <2>1, <2>2, MissionType DEF MissionIdle, MissionCycle
<1>3. CASE ConverterCycle
  BY <1>3 DEF ConverterCycle, TypeOK
<1>4. CASE Arrive
  BY <1>4 DEF Arrive, TypeOK
<1>5. CASE Hang
  <2>1. events' \in 0 .. MaxEvents
    BY <1>5, NavigationAssumption DEF Hang, TypeOK
  <2>2. QED BY <1>5, <2>1 DEF Hang, TypeOK
<1>6. CASE Resume
  BY <1>6 DEF Resume, TypeOK
<1>7. CASE \E n \in Mortal : Restart(n)
  BY ZenonT(40), <1>7 DEF Restart, TypeOK
<1>8. CASE UNCHANGED vars
  BY <1>8 DEF vars, TypeOK
<1>9. QED BY <1>1, <1>2, <1>3, <1>4, <1>5, <1>6, <1>7, <1>8

LEMMA NextType ==
    ASSUME TypeOK, [Next]_vars
    PROVE  TypeOK'
<1>1. CASE \E taken \in Takes("planner") : PlannerReset(taken)
  BY <1>1, PlannerResetType DEF Takes
<1>2. CASE \E taken \in Takes("planner"), ready \in BOOLEAN : PlannerCycle(ready, taken)
  BY <1>2, PlannerCycleType DEF Takes
<1>3. CASE ProcessorCycle
  BY <1>3, ProcessorType
<1>4. CASE LocalCycle
  BY <1>4, LocalType
<1>5. CASE ControlCycle
  BY <1>5, ControlType
<1>6. CASE Reset
  BY <1>6, ResetType
<1>7. CASE \E n \in Mortal : Crash(n)
  BY <1>7, CrashType
<1>8. QED BY <1>1, <1>2, <1>3, <1>4, <1>5, <1>6, <1>7, OtherType DEF Next

\* Every reachable state of the processes is well typed: what waits in the mail, the ages
\* of the control's inputs, the brake (Navigation's loops and callbacks).
THEOREM TypeCorrect == Spec => []TypeOK
<1>1. TypeOK /\ [Next]_vars => TypeOK'
  BY NextType
<1>2. QED BY InitType, <1>1, PTL DEF Spec

-----------------------------------------------------------------------------
(* A reset stops the vehicle. *)

\* While the planner has handled a reset and received neither goals nor a go command,
\* neither it nor the control is active; once the control has gone round it commands no
\* speed.
CalmInv ==
    /\ calm \in {1, 2} => /\ ~planner.rcvd /\ ~planner.go
                          /\ planner.run = NotInit /\ control.heard # Active
    /\ calm = 2 => vehicle.cmd = Nowhere

\* A control that is down has forgotten the run state.
DownForgets == status["control"] = "down" => control.heard = NotInit

LEMMA DownStep ==
    ASSUME TypeOK, DownForgets, [Next]_vars
    PROVE  DownForgets'
<1>1. CASE \E taken \in Takes("planner") : PlannerReset(taken)
  BY <1>1, SendsStateType DEF PlannerReset, DownForgets, RunStates
<1>2. CASE \E taken \in Takes("planner"), ready \in BOOLEAN : PlannerCycle(ready, taken)
  <2>1. UNCHANGED status /\ (status["control"] = "down" => control' = control)
    BY <1>2 DEF PlannerCycle, SendsState, Delivered
  <2>2. QED BY <2>1 DEF DownForgets
<1>3. CASE ProcessorCycle
  BY <1>3 DEF ProcessorCycle, DownForgets
<1>4. CASE LocalCycle
  BY <1>4, LocalType DEF LocalCycle, DownForgets
<1>5. CASE ControlCycle
  BY <1>5 DEF ControlCycle, Up, DownForgets
<1>6. CASE Reset
  BY <1>6, ResetType DEF Reset, DownForgets
<1>7. CASE \E n \in Mortal : Crash(n)
  <2>1. PICK n \in Mortal : Crash(n)
    BY <1>7
  <2>2. CASE n = "control"
    BY <2>1, <2>2, CrashType DEF DownForgets
  <2>3. CASE n # "control"
    BY <2>1, <2>3, CrashType DEF Crash, DownForgets, TypeOK
  <2>4. QED BY <2>2, <2>3
<1>8. CASE \/ Command \/ ConverterCycle \/ Arrive \/ UNCHANGED vars
           \/ \E taken \in Takes("mission") : MissionIdle(taken)
  BY <1>8, OtherType
  DEF Command, MissionIdle, MissionCycle, ConverterCycle, Arrive, vars, DownForgets
<1>9. CASE Hang \/ Resume \/ \E n \in Mortal : Restart(n)
  <2>1. UNCHANGED control
    BY <1>9, OtherType
  <2>2. status'["control"] = "down" => status["control"] = "down"
    <3>1. CASE Hang \/ Resume
      BY <3>1 DEF Hang, Resume, TypeOK, Nodes
    <3>2. CASE \E n \in Mortal : Restart(n)
      BY <3>2 DEF Restart, TypeOK
    <3>3. QED BY <1>9, <3>1, <3>2
  <2>3. QED BY <2>1, <2>2 DEF DownForgets
<1>10. QED BY <1>1, <1>2, <1>3, <1>4, <1>5, <1>6, <1>7, <1>8, <1>9 DEF Next

LEMMA CalmStep ==
    ASSUME TypeOK, DownForgets, CalmInv, [Next]_vars
    PROVE  CalmInv'
<1>1. CASE \E taken \in Takes("planner") : PlannerReset(taken)
  <2>1. PICK taken \in SUBSET MailOf("planner") : PlannerReset(taken)
    BY <1>1 DEF Takes
  <2>2. planner'.run = NotInit /\ planner' \in PlannerStates
    BY <2>1, PlannerResetType
  <2>3. calm' # 2 /\ (calm' = 1 => ~planner'.rcvd /\ ~planner'.go)
    BY <2>1, <2>2, CalmAfterType DEF PlannerReset
  <2>4. control'.heard = NotInit
    BY <2>1, SendsStateType DEF PlannerReset, DownForgets, RunStates
  <2>5. QED BY <2>2, <2>3, <2>4 DEF CalmInv, NotInit, Active
<1>2. CASE \E taken \in Takes("planner"), ready \in BOOLEAN : PlannerCycle(ready, taken)
  <2>1. PICK taken \in SUBSET MailOf("planner"), ready \in BOOLEAN :
                PlannerCycle(ready, taken)
    BY <1>2 DEF Takes
  <2>2. CASE calm' \notin {1, 2}
    BY <2>2 DEF CalmInv
  <2>3. CASE calm' \in {1, 2}
    <3>1. calm' = calm /\ ~planner'.rcvd /\ ~planner'.go /\ UNCHANGED vehicle
      <4>1. planner' \in PlannerStates /\ calm \in 0 .. 3
        BY <2>1, PlannerCycleType DEF TypeOK
      <4>2. calm' = CalmAfter(planner', calm) /\ UNCHANGED vehicle
        BY <2>1 DEF PlannerCycle
      <4>3. QED BY <2>3, <4>1, <4>2, CalmAfterType
    <3>2. /\ ~planner.rcvd /\ ~planner.go
          /\ planner.run = NotInit /\ control.heard # Active
      BY <2>3, <3>1 DEF CalmInv
    <3>3. SendsState(NotInit)
      BY <2>1, <3>2 DEF PlannerCycle, NotInit, Active
    <3>4. control'.heard # Active
      BY <3>2, <3>3, SendsStateType DEF RunStates, NotInit, Active
    <3>5. planner'.run = NotInit
      BY <2>1, <3>2 DEF PlannerCycle, PlannerSpin, TypeOK, NotInit, Active
    <3>6. QED BY <3>1, <3>4, <3>5 DEF CalmInv
  <2>4. QED BY <2>2, <2>3
<1>3. CASE ProcessorCycle
  BY <1>3 DEF ProcessorCycle, CalmInv
<1>4. CASE LocalCycle
  BY <1>4, LocalType DEF LocalCycle, CalmInv
<1>5. CASE ControlCycle
  <2>1. UNCHANGED planner /\ (calm' \in {1, 2} => calm \in {1, 2})
    BY <1>5 DEF ControlCycle
  <2>2. calm \in {1, 2} => control'.heard # Active
    BY <1>5, ControlType DEF CalmInv, NotInit, Active
  <2>3. QED BY <1>5, <2>1, <2>2, ControlType DEF CalmInv
<1>6. CASE Reset
  BY <1>6, ResetType DEF Reset, CalmInv
<1>7. CASE \E n \in Mortal : Crash(n)
  <2>1. PICK n \in Mortal : Crash(n)
    BY <1>7
  <2>2. UNCHANGED <<calm, vehicle>>
    BY <2>1 DEF Crash
  <2>3. control.heard # Active => control'.heard # Active
    BY <2>1, CrashType DEF NotInit, Active
  <2>4. ~planner.rcvd /\ ~planner.go /\ planner.run = NotInit
            => ~planner'.rcvd /\ ~planner'.go /\ planner'.run = NotInit
    BY <2>1, CrashType DEF PlannerInit
  <2>5. QED BY <2>2, <2>3, <2>4 DEF CalmInv
<1>8. CASE \/ Command \/ ConverterCycle \/ Arrive \/ Hang \/ Resume
           \/ \E taken \in Takes("mission") : MissionIdle(taken)
           \/ \E n \in Mortal : Restart(n)
           \/ UNCHANGED vars
  BY <1>8, OtherType DEF CalmInv
<1>9. QED BY <1>1, <1>2, <1>3, <1>4, <1>5, <1>6, <1>7, <1>8 DEF Next

\* Once the planner has handled a reset and the control has gone round, the vehicle gets
\* no speed before goals or a go command reach the planner, whatever the local planner
\* sends, and however late messages come (global_planner_node.cpp:557-590).
THEOREM PlannerResetStops == Spec => []ResetStops
<1>1. Init => DownForgets /\ CalmInv
  BY DEF Init, DownForgets, CalmInv, ControlInit, Nodes
<1>2. TypeOK /\ DownForgets /\ CalmInv /\ [Next]_vars => DownForgets' /\ CalmInv'
  BY DownStep, CalmStep
<1>3. CalmInv => ResetStops
  BY DEF CalmInv, ResetStops
<1>4. QED BY TypeCorrect, <1>1, <1>2, <1>3, PTL DEF Spec

-----------------------------------------------------------------------------
(* The speed zones. *)

\* What the argument needs of the types: which zone is the last one, and that
\* the limits are a function on the zones.
ZoneInv == /\ last_zone \in Zones \cup {NoZone}
           /\ odom \subseteq Zones
           /\ zone_speed = [z \in Zones |-> zone_speed[z]]
           /\ ZoneCommandCurrent

\* At the start no zone was entered.
LEMMA ZoneInit == SetpointsInit => ZoneInv
  BY SetpointsAssumption DEF SetpointsInit, ZoneInv, ZoneCommandCurrent

\* The monitor's own step: entering a zone commands its limit; staying in one
\* or leaving changes neither the limits nor what was commanded.
LEMMA ZoneUpdateOdometry == ZoneInv /\ UpdateOdometry => ZoneInv'
<1> SUFFICES ASSUME ZoneInv, UpdateOdometry PROVE ZoneInv'
  OBVIOUS
<1>1. PICK z \in odom \cup {NoZone} :
         /\ last_zone' = z
         /\ z \in {last_zone, NoZone} => zone_command' = zone_command
         /\ z \notin {last_zone, NoZone} => zone_command' = zone_speed[z]
  BY DEF UpdateOdometry
<1>2. zone_speed' = zone_speed /\ odom' = odom
  BY DEF UpdateOdometry
<1>3. last_zone' \in Zones \cup {NoZone}
  BY <1>1 DEF ZoneInv
<1>4. ZoneCommandCurrent'
  BY <1>1, <1>2 DEF ZoneInv, ZoneCommandCurrent
<1> QED
  BY <1>2, <1>3, <1>4 DEF ZoneInv

\* A request leaves the limit of the last zone alone, or makes the monitor
\* forget that zone, or is rejected.
LEMMA ZoneSetZoneMaxSpeeds ==
  ASSUME NEW r, ZoneInv, SetZoneMaxSpeeds(r) PROVE ZoneInv'
<1>1. zone_command' = zone_command /\ odom' = odom
  BY DEF SetZoneMaxSpeeds
<1>2. ApplyUpdates(r)
  BY DEF SetZoneMaxSpeeds
<1>3. CASE \A u \in Range(r) : IsValid(u)
  <2>1. /\ zone_speed' = SpeedsAfter(r)
        /\ last_zone' = IF last_zone \in Updated(r) THEN NoZone ELSE last_zone
    BY <1>2, <1>3 DEF ApplyUpdates
  <2>2. last_zone' # NoZone => /\ last_zone' = last_zone /\ last_zone \notin Updated(r)
                              /\ last_zone \in Zones
    BY <2>1 DEF ZoneInv
  <2>3. \A z \in Zones \ Updated(r) : SpeedsAfter(r)[z] = zone_speed[z]
    BY DEF SpeedsAfter
  <2>4. SpeedsAfter(r) = [z \in Zones |-> SpeedsAfter(r)[z]]
    BY DEF SpeedsAfter
  <2> QED
    BY <1>1, <2>1, <2>2, <2>3, <2>4 DEF ZoneInv, ZoneCommandCurrent
<1>4. CASE ~\A u \in Range(r) : IsValid(u)
  <2>1. zone_speed' = zone_speed /\ last_zone' = last_zone
    BY <1>2, <1>4 DEF ApplyUpdates
  <2> QED
    BY <1>1, <2>1 DEF ZoneInv, ZoneCommandCurrent
<1> QED
  BY <1>3, <1>4

\* No other step changes the limits, the last zone or what it commanded.
LEMMA ZoneOthers ==
  ASSUME ZoneInv,
         zone_speed' = zone_speed, last_zone' = last_zone, zone_command' = zone_command,
         odom' \subseteq Zones
  PROVE  ZoneInv'
  BY DEF ZoneInv, ZoneCommandCurrent

\* The invariant holds in every reachable state.
THEOREM ZoneInvHolds == SetpointsSpec => []ZoneInv
<1>1. ZoneInv /\ [SetpointsNext]_setpointsVars => ZoneInv'
  <2> SUFFICES ASSUME ZoneInv, [SetpointsNext]_setpointsVars PROVE ZoneInv'
    OBVIOUS
  <2>0. odom \subseteq Zones
    BY DEF ZoneInv
  <2>1. ASSUME NEW s \in Speeds, SetSpeedCommand(s) PROVE ZoneInv'
    BY <2>0, <2>1, ZoneOthers DEF SetSpeedCommand, Input
  <2>2. ASSUME NEW t \in TaskTypes, NEW prio \in Priorities, Add(t, prio) PROVE ZoneInv'
    BY <2>0, <2>2, ZoneOthers DEF Add, Input
  <2>3. ASSUME NEW i \in 1..Len(task_list), Cancel(i) PROVE ZoneInv'
    BY <2>0, <2>3, ZoneOthers DEF Cancel, Input
  <2>4. CASE ResetSetpoints
    BY <2>0, <2>4, ZoneOthers DEF ResetSetpoints
  <2>5. CASE Advance
    BY <2>0, <2>5, ZoneOthers DEF Advance
  <2>6. CASE UpdateOdometry
    BY <2>6, ZoneUpdateOdometry
  <2>7. CASE UpdateTasks
    BY <2>0, <2>7, ZoneOthers DEF UpdateTasks
  <2>8. ASSUME NEW S \in SUBSET Zones, EgoOdometry(S) PROVE ZoneInv'
    BY <2>8, ZoneOthers DEF EgoOdometry
  <2>9. ASSUME NEW r \in Requests, SetZoneMaxSpeeds(r) PROVE ZoneInv'
    BY <2>9, ZoneSetZoneMaxSpeeds
  <2>10. CASE UNCHANGED setpointsVars
    BY <2>0, <2>10, ZoneOthers DEF setpointsVars
  <2> QED
    BY <2>1, <2>2, <2>3, <2>4, <2>5, <2>6, <2>7, <2>8, <2>9, <2>10 DEF SetpointsNext
<1> QED
  BY <1>1, ZoneInit, PTL DEF SetpointsSpec

\* What the monitor last commanded is the present limit of the zone it believes
\* the vehicle to be in, for every zone file and every sequence of requests.
THEOREM ZoneCommandIsCurrent == SetpointsSpec => []ZoneCommandCurrent
<1>1. ZoneInv => ZoneCommandCurrent
  BY DEF ZoneInv
<1> QED
  BY <1>1, ZoneInvHolds, PTL

-----------------------------------------------------------------------------
(* The settings of the active task. *)

\* The fields of an update in a request that is not rejected.
LEMMA ValidSpeeds ==
    ASSUME NEW r \in Requests, \A u \in Range(r) : IsValid(u), SetpointsTypeOK
    PROVE  SpeedsAfter(r) \in [Zones -> Nat]
<1>1. r \in Seq(Updates)
  BY SetpointsAssumption
<1>2. \A k \in 1..Len(r) : r[k] \in Range(r) /\ r[k] \in Updates
  BY <1>1 DEF Range
<1>3. \A k \in 1..Len(r) : r[k].max_speed \in Nat
  BY <1>2 DEF IsValid, Updates
<1>4. ASSUME NEW z \in Zones PROVE SpeedsAfter(r)[z] \in Nat
  <2> DEFINE I == {i \in 1..Len(r) : r[i].id = Label[z]}
             k == SelectLastInSeq(r, LAMBDA u : u.id = Label[z])
  <2>1. SpeedsAfter(r)[z] = IF z \in Updated(r) THEN r[k].max_speed ELSE zone_speed[z]
    BY DEF SpeedsAfter
  <2>2. k = IF I # {} THEN Max(I) ELSE 0
    BY DEF SelectLastInSeq
  <2>3. z \in Updated(r) => I # {}
    BY <1>1 DEF Updated, Range
  <2>4. I \in SUBSET (1..Len(r)) /\ Len(r) \in Nat
    BY <1>1
  <2> HIDE DEF I, k
  <2>5. I # {} => Max(I) \in I
    BY <2>4, MaxProperties
  <2>6. z \in Updated(r) => k \in 1..Len(r)
    BY <2>2, <2>3, <2>4, <2>5
  <2> QED BY <1>3, <2>1, <2>6 DEF SetpointsTypeOK
<1>5. SpeedsAfter(r) = [z \in Zones |-> SpeedsAfter(r)[z]]
  BY DEF SpeedsAfter
<1> QED BY <1>4, <1>5

\* What the invariant says of the list: only the front is started, delays
\* excepted, and circles are committed.
DriveList(tl) == tl \in Seq(DriveTasks) /\ FirstStarted(tl) /\ EncirclesCommitted(tl)

\* Preempting a task of this module.
LEMMA OnPreemptDrive ==
    \A t \in DriveTasks :
       /\ OnPreempt(t) \in DriveTasks
       /\ OnPreempt(t).kind = t.kind
       /\ OnPreempt(t).is_preemptable = t.is_preemptable
       /\ OnPreempt(t).init_done => t.init_done /\ t.kind \in {"WaitForDuration", "Encircle"}
  BY DEF OnPreempt, DriveTasks

\* addTask keeps what is said of the list, and the front is the one it was or
\* a task that is not started.
LEMMA AddDrive ==
    ASSUME NEW tl, DriveList(tl), NEW t \in TaskTypes, NEW prio \in Priorities
    PROVE  LET new == AddTask(tl, t, prio)
           IN  /\ DriveList(new)
               /\ ~new[1].init_done \/ (tl # <<>> /\ new[1] = tl[1])
<1> DEFINE new == AddTask(tl, t, prio)
<1>1. /\ t \in DriveTasks /\ ~t.init_done /\ (t.kind = "Encircle" => ~t.is_preemptable)
      /\ tl \in Seq(DriveTasks)
  BY SetpointsAssumption DEF DriveList
<1>2. CASE prio = "CANCEL_ALL"
  <2>1. new = <<t>>
    BY <1>2 DEF AddTask
  <2> HIDE DEF new
  <2>2. new \in Seq(DriveTasks) /\ Len(new) = 1 /\ new[1] = t
    BY <1>1, <2>1
  <2> QED BY <1>1, <2>2 DEF DriveList, FirstStarted, EncirclesCommitted, new
<1>3. CASE prio = "PREEMPT"
  <2> DEFINE k == FirstPreemptable(tl)
  <2>1. new = PreemptInsert(tl, t)
    BY <1>3 DEF AddTask
  <2>2. /\ k \in 1..(Len(tl) + 1)
        /\ k <= Len(tl) => tl[k].is_preemptable
    BY <1>1, FirstPreemptableProperties
  <2>3. \A u \in DriveTasks : OnPreempt(u) \in DriveTasks
    BY OnPreemptDrive
  <2>4. /\ PreemptInsert(tl, t) \in Seq(DriveTasks)
        /\ Len(PreemptInsert(tl, t)) = Len(tl) + 1
        /\ \A i \in 1..Len(PreemptInsert(tl, t)) :
              PreemptInsert(tl, t)[i] =
                 IF i < k THEN tl[i] ELSE IF i = k THEN t
                 ELSE IF i = k + 1 THEN OnPreempt(tl[k]) ELSE tl[i - 1]
    BY <1>1, <2>3, PreemptInsertElementsOf
  <2> HIDE DEF new, k
  <2>5. \A i \in 1..Len(tl) : tl[i] \in DriveTasks
    BY <1>1
  <2>6. k <= Len(tl) => /\ OnPreempt(tl[k]).kind = tl[k].kind
                        /\ OnPreempt(tl[k]).is_preemptable
                        /\ tl[k].kind # "Encircle"
                        /\ OnPreempt(tl[k]).init_done => tl[k].kind = "WaitForDuration"
    BY <2>2, <2>5, OnPreemptDrive DEF DriveList, EncirclesCommitted
  <2>7. \A i \in 1..Len(new) :
            \/ i < k /\ new[i] = tl[i] /\ i \in 1..Len(tl)
            \/ i = k /\ new[i] = t
            \/ i = k + 1 /\ k \in 1..Len(tl) /\ new[i] = OnPreempt(tl[k])
            \/ i > k + 1 /\ new[i] = tl[i - 1] /\ i - 1 \in 2..Len(tl)
    BY <1>1, <2>1, <2>2, <2>4
  <2>8. FirstStarted(new)
    BY <1>1, <2>2, <2>6, <2>7 DEF DriveList, FirstStarted
  <2>9. EncirclesCommitted(new)
    BY <1>1, <2>2, <2>6, <2>7 DEF DriveList, EncirclesCommitted
  <2>10. ~new[1].init_done \/ (tl # <<>> /\ new[1] = tl[1])
    BY <1>1, <2>1, <2>2, <2>4, <2>7
  <2> QED BY <2>1, <2>4, <2>8, <2>9, <2>10 DEF DriveList, new
<1>4. CASE prio = "QUEUE"
  <2>1. new = Append(tl, t)
    BY <1>4 DEF AddTask
  <2> HIDE DEF new
  <2>2. /\ new \in Seq(DriveTasks) /\ Len(new) = Len(tl) + 1
        /\ \A i \in 1..(Len(tl) + 1) : new[i] = IF i = Len(tl) + 1 THEN t ELSE tl[i]
    BY <1>1, <2>1
  <2>3. FirstStarted(new)
    BY <1>1, <2>2 DEF DriveList, FirstStarted
  <2>4. EncirclesCommitted(new)
    BY <1>1, <2>2 DEF DriveList, EncirclesCommitted
  <2>5. ~new[1].init_done \/ (tl # <<>> /\ new[1] = tl[1])
    BY <1>1, <2>2
  <2> QED BY <2>2, <2>3, <2>4, <2>5 DEF DriveList, new
<1> QED BY <1>2, <1>3, <1>4 DEF Priorities

\* Removing a task keeps what is said of the list, and what is in front then was
\* in front before or is not on its way.
LEMMA RemoveDrive ==
    ASSUME NEW tl, DriveList(tl), NEW k \in 1..Len(tl)
    PROVE  LET new == RemoveAt(tl, k)
           IN  /\ DriveList(new)
               /\ new # <<>> => \/ new[1].init_done => IsDelay(new[1])
                                \/ tl # <<>> /\ new[1] = tl[1]
<1> DEFINE new == RemoveAt(tl, k)
<1>1. tl \in Seq(DriveTasks)
  BY DEF DriveList
<1>2. /\ RemoveAt(tl, k) \in Seq(DriveTasks) /\ Len(RemoveAt(tl, k)) = Len(tl) - 1
      /\ \A i \in 1..(Len(tl) - 1) :
            RemoveAt(tl, k)[i] = IF i < k THEN tl[i] ELSE tl[i + 1]
  BY <1>1, RemoveAtElements
<1>3. /\ new \in Seq(DriveTasks) /\ Len(new) = Len(tl) - 1
      /\ \A i \in 1..(Len(tl) - 1) : new[i] = IF i < k THEN tl[i] ELSE tl[i + 1]
  BY <1>2
<1> HIDE DEF new
<1>4. FirstStarted(new) /\ EncirclesCommitted(new)
  BY <1>1, <1>3 DEF DriveList, FirstStarted, EncirclesCommitted
<1>5. new # <<>> => \/ new[1].init_done => IsDelay(new[1])
                    \/ tl # <<>> /\ new[1] = tl[1]
  BY <1>1, <1>3 DEF DriveList, FirstStarted, IsDelay
<1> QED BY <1>3, <1>4, <1>5 DEF DriveList, new

-----------------------------------------------------------------------------
\* A list whose front is replaced.
LEMMA NewHeadElements ==
    ASSUME NEW tl \in Seq(DriveTasks), tl # <<>>, NEW t \in DriveTasks
    PROVE  /\ [tl EXCEPT ![1] = t] \in Seq(DriveTasks)
           /\ Len([tl EXCEPT ![1] = t]) = Len(tl)
           /\ \A i \in 1..Len(tl) : [tl EXCEPT ![1] = t][i] = IF i = 1 THEN t ELSE tl[i]
  OBVIOUS

\* The inductive invariant.
SettingsInv == SetpointsTypeOK /\ DriveList(task_list) /\ SettingsCurrent

\* A step that publishes nothing keeps the settings current if it leaves the
\* front alone or puts something in front that is not on its way.
LEMMA SettingsKept ==
    ASSUME SettingsInv, DriveList(task_list'),
           UNCHANGED <<speed_setpoint, published_goal_weight>>,
           task_list' # <<>> =>
              \/ task_list'[1].init_done => IsDelay(task_list'[1])
              \/ /\ task_list # <<>> /\ task_list'[1] = task_list[1]
                 /\ UNCHANGED speed_setpoint_state
    PROVE  SettingsCurrent'
<1>1. /\ task_list # <<>> => Head(task_list) = task_list[1]
      /\ task_list' # <<>> => Head(task_list') = task_list'[1]
  BY DEF SettingsInv, DriveList
<1> QED BY <1>1 DEF SettingsInv, SettingsCurrent, Resolve, IsDelay

\* Setting the speed, by a command or a zone, publishes what it sets.
LEMMA SetSpeedSettings ==
    ASSUME SettingsInv, NEW s \in Nat, SetSpeed(s), UNCHANGED published_goal_weight
    PROVE  DriveList(task_list') /\ speed_setpoint' \in Nat /\ SettingsCurrent'
<1>1. /\ task_list \in Seq(DriveTasks)
      /\ \A i \in 1..Len(task_list) : task_list[i] \in DriveTasks
  BY DEF SettingsInv, DriveList
<1> DEFINE u == [task_list[1] EXCEPT !.task_speed = s]
<1>2. task_list # <<>> =>
        /\ u \in DriveTasks /\ u.kind = task_list[1].kind
        /\ u.init_done = task_list[1].init_done
        /\ u.is_preemptable = task_list[1].is_preemptable
        /\ u.w_distance_to_goal = task_list[1].w_distance_to_goal
  <2>1. task_list # <<>> => task_list[1] \in DriveTasks
    BY <1>1
  <2> QED BY <2>1 DEF DriveTasks
<1>3. task_list' = [i \in 1..Len(task_list) |-> IF i = 1 THEN u ELSE task_list[i]]
  BY DEF SetSpeed
<1> HIDE DEF u
<1>4. /\ task_list' \in Seq(DriveTasks) /\ Len(task_list') = Len(task_list)
      /\ \A i \in 1..Len(task_list) : task_list'[i] = IF i = 1 THEN u ELSE task_list[i]
  BY <1>1, <1>2, <1>3
<1>5. DriveList(task_list')
  BY <1>1, <1>2, <1>4 DEF SettingsInv, DriveList, FirstStarted, EncirclesCommitted
<1>6. /\ task_list # <<>> => Head(task_list) = task_list[1]
      /\ task_list' # <<>> => Head(task_list') = u /\ task_list # <<>>
  BY <1>1, <1>4
<1>7. speed_setpoint_state' = s /\ speed_setpoint' = Resolve(task_list', speed_setpoint_state')
  BY DEF SetSpeed
<1>8. SettingsCurrent'
  BY <1>2, <1>6, <1>7 DEF SettingsInv, SettingsCurrent, IsDelay
<1>9. speed_setpoint' \in Nat
  <2>1. MaxSpeed \in Nat
    BY SetpointsAssumption
  <2>2. task_list' # <<>> => Head(task_list').task_speed \in Nat
                             /\ Head(task_list').speed_limit \in Nat
    BY <1>2, <1>6 DEF DriveTasks
  <2> QED BY <1>7, <2>1, <2>2 DEF Resolve
<1> QED BY <1>5, <1>8, <1>9

\* updateTasks: the active task is started with its settings, or leaves.
LEMMA UpdateTasksSettings ==
    ASSUME SettingsInv, UpdateTasks
    PROVE  /\ DriveList(task_list') /\ SettingsCurrent'
           /\ speed_setpoint' \in Nat /\ published_goal_weight' \in Nat
<1>1. /\ task_list \in Seq(DriveTasks) /\ DriveList(task_list)
      /\ \A i \in 1..Len(task_list) : task_list[i] \in DriveTasks
  BY DEF SettingsInv, DriveList
<1>2. CASE task_list = <<>>
  <2>1. task_list' = task_list /\ speed_setpoint' = speed_setpoint
        /\ published_goal_weight' = 0
    BY <1>2 DEF UpdateTasks, GoalWeight
  <2> QED BY <1>1, <1>2, <2>1 DEF SettingsInv, SettingsCurrent, SetpointsTypeOK
<1>3. CASE task_list # <<>>
  <2> DEFINE t == task_list[1]
             started == [task_list EXCEPT ![1].init_done = TRUE]
             u == [t EXCEPT !.init_done = TRUE]
  <2>1. Head(task_list) = t /\ t \in DriveTasks /\ 1 \in 1..Len(task_list)
    BY <1>1, <1>3
  <2>2. /\ published_goal_weight' = t.w_distance_to_goal
        /\ speed_setpoint' = IF t.init_done THEN speed_setpoint
                             ELSE Resolve(task_list, speed_setpoint_state)
        /\ task_list' \in {started, Tail(task_list)}
        /\ speed_setpoint_state' = speed_setpoint_state
    BY <1>3, <2>1 DEF UpdateTasks, GoalWeight
  <2>3. /\ speed_setpoint' \in Nat /\ published_goal_weight' \in Nat
    BY <2>1, <2>2, SetpointsAssumption DEF Resolve, DriveTasks, SettingsInv, SetpointsTypeOK
  <2>4. CASE task_list' = started
    <3>1. /\ u \in DriveTasks /\ u.kind = t.kind /\ u.init_done
          /\ u.is_preemptable = t.is_preemptable /\ u.task_speed = t.task_speed
          /\ u.speed_limit = t.speed_limit /\ u.w_distance_to_goal = t.w_distance_to_goal
      BY <2>1 DEF DriveTasks
    <3>2. task_list' = [task_list EXCEPT ![1] = u]
      BY <2>4
    <3> HIDE DEF u, started, t
    <3>3. /\ task_list' \in Seq(DriveTasks) /\ Len(task_list') = Len(task_list)
          /\ \A i \in 1..Len(task_list) : task_list'[i] = IF i = 1 THEN u ELSE task_list[i]
      BY <1>1, <1>3, <3>1, <3>2, NewHeadElements
    <3>4. DriveList(task_list')
      BY <1>1, <3>1, <3>3 DEF DriveList, FirstStarted, EncirclesCommitted, t
    <3>5. Head(task_list') = u /\ task_list' # <<>>
      BY <1>3, <3>3
    <3>6. Resolve(task_list', speed_setpoint_state) = Resolve(task_list, speed_setpoint_state)
      BY <1>3, <2>1, <3>1, <3>5 DEF Resolve
    <3>7. t.init_done /\ ~IsDelay(t) => speed_setpoint = Resolve(task_list, speed_setpoint_state)
      BY <1>3, <2>1 DEF SettingsInv, SettingsCurrent
    <3>8. SettingsCurrent'
      BY <2>1, <2>2, <3>1, <3>5, <3>6, <3>7 DEF SettingsCurrent, IsDelay
    <3> QED BY <2>3, <3>4, <3>8
  <2>5. CASE task_list' = Tail(task_list)
    <3>1. /\ task_list' \in Seq(DriveTasks) /\ Len(task_list') = Len(task_list) - 1
          /\ \A i \in 1..(Len(task_list) - 1) :
                task_list'[i] = task_list[i + 1] /\ i + 1 \in 2..Len(task_list)
      BY <1>1, <1>3, <2>5
    <3>2. DriveList(task_list')
      BY <1>1, <3>1 DEF DriveList, FirstStarted, EncirclesCommitted
    <3>3. task_list' # <<>> => /\ Head(task_list') = task_list'[1]
                               /\ task_list'[1].init_done => IsDelay(task_list'[1])
      BY <1>1, <3>1 DEF DriveList, FirstStarted, IsDelay
    <3>4. SettingsCurrent'
      BY <3>3 DEF SettingsCurrent, IsDelay
    <3> QED BY <2>3, <3>2, <3>4
  <2> QED BY <2>2, <2>4, <2>5
<1> QED BY <1>2, <1>3

-----------------------------------------------------------------------------
\* The invariant holds at the start.
LEMMA SettingsInit == SetpointsInit => SettingsInv
<1> SUFFICES ASSUME SetpointsInit PROVE SettingsInv
  OBVIOUS
<1>1. task_list = <<>> /\ inputs = 0 /\ MaxInputs \in Nat
  BY SetpointsAssumption DEF SetpointsInit
<1>2. DriveList(task_list) /\ SettingsCurrent
  BY <1>1 DEF DriveList, FirstStarted, EncirclesCommitted, SettingsCurrent
<1>3. SetpointsTypeOK
  <2>1. inputs \in 0..MaxInputs
    BY <1>1
  <2>2. zone_speed \in [Zones -> Nat]
    BY SetpointsAssumption DEF SetpointsInit
  <2>3. task_list \in Seq(DriveTasks)
    BY <1>1
  <2> QED BY <2>1, <2>2, <2>3 DEF SetpointsInit, SetpointsTypeOK, Phases
<1> QED BY <1>2, <1>3 DEF SettingsInv

\* What is left to show of a step that has done its part for the list: the types.
LEMMA SettingsStep ==
    ASSUME SettingsInv, DriveList(task_list'), SettingsCurrent',
           speed_setpoint_state' \in Nat, speed_setpoint' \in Nat,
           published_goal_weight' \in Nat, zone_command' \in Nat,
           zone_speed' \in [Zones -> Nat], last_zone' \in Zones \cup {NoZone},
           odom' \subseteq Zones, odom_rcvd' \in BOOLEAN, phase' \in Phases,
           inputs' = inputs \/ (inputs < MaxInputs /\ inputs' = inputs + 1)
    PROVE  SettingsInv'
<1>1. inputs' \in 0..MaxInputs
  BY SetpointsAssumption DEF SettingsInv, SetpointsTypeOK
<1>2. DriveList(task_list)'
  BY DEF DriveList, FirstStarted, EncirclesCommitted
<1> QED BY <1>1, <1>2 DEF SettingsInv, SetpointsTypeOK, DriveList

\* Every step keeps the invariant.
LEMMA SettingsNext == SettingsInv /\ [SetpointsNext]_setpointsVars => SettingsInv'
<1> SUFFICES ASSUME SettingsInv, [SetpointsNext]_setpointsVars PROVE SettingsInv'
  OBVIOUS
<1>0. SetpointsTypeOK /\ DriveList(task_list) /\ 0 \in Nat
  BY DEF SettingsInv
<1>1. ASSUME NEW s \in Speeds, SetSpeedCommand(s) PROVE SettingsInv'
  <2>1. s \in Nat /\ SetSpeed(s) /\ Input /\ zone_command' = zone_command
    BY <1>1, SetpointsAssumption DEF SetSpeedCommand
  <2>2. /\ speed_setpoint_state' = s
        /\ UNCHANGED <<zone_speed, last_zone, odom, odom_rcvd, phase, published_goal_weight>>
        /\ inputs < MaxInputs /\ inputs' = inputs + 1
    BY <2>1 DEF SetSpeed, Input
  <2>3. DriveList(task_list') /\ speed_setpoint' \in Nat /\ SettingsCurrent'
    BY <2>1, <2>2, SetSpeedSettings
  <2> QED BY <1>0, <2>1, <2>2, <2>3, SettingsStep DEF SetpointsTypeOK
<1>2. ASSUME NEW t \in TaskTypes, NEW prio \in Priorities, Add(t, prio) PROVE SettingsInv'
  <2>1. /\ task_list' = AddTask(task_list, t, prio)
        /\ UNCHANGED <<speed_setpoint_state, speed_setpoint, zone_command, zone_speed,
                      last_zone, odom, odom_rcvd, phase, published_goal_weight>>
        /\ inputs < MaxInputs /\ inputs' = inputs + 1
    BY <1>2 DEF Add, Input
  <2>2. /\ DriveList(task_list')
        /\ ~task_list'[1].init_done \/ (task_list # <<>> /\ task_list'[1] = task_list[1])
    BY <1>0, <2>1, AddDrive
  <2>3. SettingsCurrent'
    BY <2>1, <2>2, SettingsKept
  <2> QED BY <1>0, <2>1, <2>2, <2>3, SettingsStep DEF SetpointsTypeOK
<1>3. ASSUME NEW i \in 1..Len(task_list), Cancel(i) PROVE SettingsInv'
  <2>1. /\ task_list' = RemoveAt(task_list, i)
        /\ UNCHANGED <<speed_setpoint_state, speed_setpoint, zone_command, zone_speed,
                      last_zone, odom, odom_rcvd, phase, published_goal_weight>>
        /\ inputs < MaxInputs /\ inputs' = inputs + 1
    BY <1>3 DEF Cancel, Input
  <2>2. /\ DriveList(task_list')
        /\ task_list' # <<>> => \/ task_list'[1].init_done => IsDelay(task_list'[1])
                                \/ task_list # <<>> /\ task_list'[1] = task_list[1]
    BY <1>0, <2>1, RemoveDrive
  <2>3. SettingsCurrent'
    BY <2>1, <2>2, SettingsKept
  <2> QED BY <1>0, <2>1, <2>2, <2>3, SettingsStep DEF SetpointsTypeOK
<1>4. CASE ResetSetpoints
  <2>1. /\ task_list' = <<>> /\ speed_setpoint_state' = 0 /\ phase' \in Phases
        /\ UNCHANGED <<speed_setpoint, zone_command, zone_speed,
                      last_zone, odom, odom_rcvd, published_goal_weight>>
        /\ inputs < MaxInputs /\ inputs' = inputs + 1
    BY <1>4 DEF ResetSetpoints, Phases
  <2>2. DriveList(task_list') /\ SettingsCurrent'
    BY <2>1 DEF DriveList, FirstStarted, EncirclesCommitted, SettingsCurrent
  <2> QED BY <1>0, <2>1, <2>2, SettingsStep DEF SetpointsTypeOK
<1>5. CASE Advance
  <2>1. /\ phase' \in Phases
        /\ UNCHANGED <<task_list, speed_setpoint_state, speed_setpoint, zone_command,
                      zone_speed, last_zone, odom, odom_rcvd, published_goal_weight, inputs>>
    BY <1>5 DEF Advance, Phases
  <2>2. DriveList(task_list') /\ SettingsCurrent'
    BY <1>0, <2>1, SettingsKept
  <2> QED BY <1>0, <2>1, <2>2, SettingsStep DEF SetpointsTypeOK
<1>6. CASE UpdateOdometry
  <2>1. PICK z \in odom \cup {NoZone} :
           /\ last_zone' = z
           /\ IF z \in {last_zone, NoZone}
                THEN UNCHANGED <<task_list, speed_setpoint_state, speed_setpoint, zone_command>>
                ELSE SetSpeed(zone_speed[z]) /\ zone_command' = zone_speed[z]
    BY <1>6 DEF UpdateOdometry
  <2>2. /\ phase' \in Phases /\ odom_rcvd' \in BOOLEAN
        /\ UNCHANGED <<zone_speed, odom, published_goal_weight, inputs>>
    BY <1>6 DEF UpdateOdometry, Phases
  <2>3. z \in Zones \cup {NoZone}
    BY <1>0 DEF SetpointsTypeOK
  <2>4. CASE z \in {last_zone, NoZone}
    <3>1. UNCHANGED <<task_list, speed_setpoint_state, speed_setpoint, zone_command>>
      BY <2>1, <2>4
    <3>2. DriveList(task_list') /\ SettingsCurrent'
      BY <1>0, <2>2, <3>1, SettingsKept
    <3> QED BY <1>0, <2>1, <2>2, <2>3, <3>1, <3>2, SettingsStep DEF SetpointsTypeOK
  <2>5. CASE z \notin {last_zone, NoZone}
    <3>1. SetSpeed(zone_speed[z]) /\ zone_command' = zone_speed[z] /\ zone_speed[z] \in Nat
      BY <1>0, <2>1, <2>3, <2>5 DEF SetpointsTypeOK
    <3>2. DriveList(task_list') /\ speed_setpoint' \in Nat /\ SettingsCurrent'
      BY <2>2, <3>1, SetSpeedSettings
    <3>3. speed_setpoint_state' \in Nat
      BY <3>1 DEF SetSpeed
    <3> QED BY <1>0, <2>1, <2>2, <2>3, <3>1, <3>2, <3>3, SettingsStep DEF SetpointsTypeOK
  <2> QED BY <2>4, <2>5
<1>7. CASE UpdateTasks
  <2>1. /\ phase' \in Phases
        /\ UNCHANGED <<speed_setpoint_state, zone_speed, last_zone, odom, odom_rcvd,
                      inputs, zone_command>>
    BY <1>7 DEF UpdateTasks, Phases
  <2>2. /\ DriveList(task_list') /\ SettingsCurrent'
        /\ speed_setpoint' \in Nat /\ published_goal_weight' \in Nat
    BY <1>7, UpdateTasksSettings
  <2> QED BY <1>0, <2>1, <2>2, SettingsStep DEF SetpointsTypeOK
<1>8. ASSUME NEW S \in SUBSET Zones, EgoOdometry(S) PROVE SettingsInv'
  <2>1. /\ odom' \subseteq Zones /\ odom_rcvd' \in BOOLEAN
        /\ UNCHANGED <<task_list, speed_setpoint_state, speed_setpoint, zone_command, phase,
                      zone_speed, last_zone, published_goal_weight, inputs>>
    BY <1>8 DEF EgoOdometry
  <2>2. DriveList(task_list') /\ SettingsCurrent'
    BY <1>0, <2>1, SettingsKept
  <2> QED BY <1>0, <2>1, <2>2, SettingsStep DEF SetpointsTypeOK
<1>9. ASSUME NEW r \in Requests, SetZoneMaxSpeeds(r) PROVE SettingsInv'
  <2>1. /\ ApplyUpdates(r)
        /\ UNCHANGED <<task_list, speed_setpoint_state, speed_setpoint, zone_command, phase,
                      odom, odom_rcvd, published_goal_weight>>
        /\ inputs < MaxInputs /\ inputs' = inputs + 1
    BY <1>9 DEF SetZoneMaxSpeeds
  <2>2. DriveList(task_list') /\ SettingsCurrent'
    BY <1>0, <2>1, SettingsKept
  <2>3. zone_speed' \in [Zones -> Nat] /\ last_zone' \in Zones \cup {NoZone}
    BY <1>0, <2>1, ValidSpeeds DEF ApplyUpdates, SetpointsTypeOK
  <2> QED BY <1>0, <2>1, <2>2, <2>3, SettingsStep DEF SetpointsTypeOK
<1>10. CASE UNCHANGED setpointsVars
  <2>1. UNCHANGED <<task_list, speed_setpoint_state, speed_setpoint, zone_command, phase,
                   zone_speed, last_zone, odom, odom_rcvd, published_goal_weight, inputs>>
    BY <1>10 DEF setpointsVars
  <2>2. DriveList(task_list') /\ SettingsCurrent'
    BY <1>0, <2>1, SettingsKept
  <2> QED BY <1>0, <2>1, <2>2, SettingsStep DEF SetpointsTypeOK
<1> QED
  BY <1>1, <1>2, <1>3, <1>4, <1>5, <1>6, <1>7, <1>8, <1>9, <1>10 DEF SetpointsNext

\* The invariant holds in every reachable state.
THEOREM SettingsInvHolds == SetpointsSpec => []SettingsInv
  BY SettingsInit, SettingsNext, PTL DEF SetpointsSpec

\* The state keeps its types: in particular no request that is applied leaves a
\* zone with a negative limit (SetZoneMaxSpeeds rejects it).
THEOREM SetpointsTypeCorrect == SetpointsSpec => []SetpointsTypeOK
<1>1. SettingsInv => SetpointsTypeOK
  BY DEF SettingsInv
<1> QED BY <1>1, SettingsInvHolds, PTL

\* The planner has the speed and the weight of the active task as they are now
\* (resolveSpeedSetpoint, publishGoalWeightOverride), whatever was preempted,
\* cancelled, reset or sped up, and whatever zones were entered or changed.
THEOREM SettingsAreCurrent == SetpointsSpec => []SettingsCurrent
<1>1. SettingsInv => SettingsCurrent
  BY DEF SettingsInv
<1> QED BY <1>1, SettingsInvHolds, PTL
=============================================================================
