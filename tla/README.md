# A TLA+ model of the NATO AVT-341 autonomy stack

The stack drives a team of autonomous ground vehicles. Each vehicle runs its own
perception, planning and control. What makes the vehicles a team is the **mission layer**:
one mission manager per vehicle, which keeps a list of tasks, takes commands from an
operator and from other vehicles, interrupts its tasks to investigate contacts, and tells
the team what it has finished. Around it, the **bridge** carries messages between the
vehicles, the **tracker** follows the other vehicles of a formation, the **global
planner** turns the active task's goal into a path, the **costmap** tells it where the
obstacles are, and a **navigation pipeline** of small nodes takes the path to the wheels. This
project specifies these parts in TLA+, checks them with TLC and proves part of them with TLAPS.

Paths below are under `src/avt_341_nav/`; `MM` is
`src/mission/mission_manager/mission_manager.cpp` and `NODE` is `mission_manager_node.cpp`
beside it.

## 1. Inventory

| Component | State | Operations | Interaction | What is hard | What makes it correct |
|---|---|---|---|---|---|
| **Task list** (`mission_manager/task*.cpp`, `MM` 231-267, 599-665, 921-947) | `std::deque<Task*>`; per task: started, arrived, preemptable, target | add (queue, preempt, cancel-all), cancel by id, insert a delay, run and finish the front | used by every handler of the node | long sequences of preempts and cancels; two-task units that must stay together | committed work first; approach and encircle together; a preempted task starts over |
| **Mission manager node** (`MM`, `NODE`) | task list, contacts, arrivals and completions heard, last command, latched samples | main loop: reset, goals, messages, contacts, pending contacts, active task; callbacks that queue | messages on `avt_341/comm_messages`, contact reports, reached goals, goals to the planner, latched `task_change` and `investigated_contacts` | state shared by many handlers; delayed confirmation; stale latched samples | contact life cycle; samples current; everything that leaves is announced; pending contacts are confirmed |
| **Team protocol** (`MM` 717, 814-849, 1083-1089) | who stands by for whom, waits, completions on their way | OVERWATCH, WAIT_UNTIL_COMPLETE, CANCEL, CANCEL_ALL, TASK_COMPLETE | between vehicles and operator | messages of different publishers cross; waits that are never released; circular waits | a stand-by lasts as long as its encircle, and ends |
| **Formations** (`src/mission/formation_*.cpp`, `task_follow.cpp`) | roles, offsets, arrivals heard | roles in a shape, path and speed of a follower, ends of a member's part | FORM commands, ARRIVE messages | termination across vehicles | all members end, and none too early |
| **Speed setpoint and zones** (`MM` 866-885, 1002-1016, `speed_zone_monitor.cpp`) | commanded speed, limits of the zones, last zone, latched speed and goal weight | set speed, enter a zone, change limits | task list, SET_SPEED, service `set_speed_zone_values`, planner | limits change while one is in force; tasks come and go | the planner has the settings of the active task; an encircle keeps its limit |
| **TOI expression** (`NODE` 52-98, `src/perception/tracking/tracker_params.cpp` 32-71) | expression remembered as applied, calls on their way | set the tracker's parameter when a task starts | asynchronous parameter service of the tracker | tasks that start between a call and its answer | the tracker uses what the active task asked for |
| **TCP bridge** (`src/communication`) | messages heard and not yet looked at, connection, frame buffer | frame and write own messages, read, publish | topic to TCP and back | partial reads, failed writes, its own publications come back to it | each message once, in order, or dropped; who stays connected hears all |
| **Message codec** (`mission_manager_parser.cpp`, `_dto.cpp`) | none | parse, format | node | malformed input | round trip |
| **Goal filtering** (`src/mission/goal_filtering`) | grid | move a blocked goal | node, costmap | geometry | goal is free |
| **Global planner node** (`src/planning/global/global_path/global_planner_node.cpp`) | goals, run state, the plan in flight, its cancel and timeout flags, last path | callbacks, loop, worker thread, service | goals from the mission manager, reached goals back, path to the local planner | one planner object used by a thread, a service and the loop; flags that outlive a plan | one user; no plan starts cancelled; goals announced once and in order; every goal planned for |
| **Grid searches** (`astar.cpp`, `d_star_lite.cpp`, `fastmarching.cpp` beside it) | grid, costs, queue, parent links, distance transform, path | A*, D* Lite, fast marching, path extraction, smoothing | called by the node, cancelled from outside | one object plans again and again; equal queue entries; re-insertion | cheapest path, margins kept, exact clearance, termination |
| **Navigation pipeline** (`src/planning/local`: vehicle converter, goal point processor, MPC, DWA; `src/control`: default and ATAT speed control) | the last path, goal point, speed, run state, odometry each node has heard, and their ages; the brake | loops at rates of their own; reset; a solve that takes its time | run state and path of the global planner in, `cmd_vel` out | nodes die, hang and restart alone; old inputs are used again; a reset reaches nodes in any order | the vehicle stops after a reset, without a goal, and when its inputs fall silent; a task ends |
| **RCC, potential field, KRC control, trajectory search, PID** (the same directories) | trajectory, setpoints | periodic | odometry, path | numerical | numerical |
| **Vehicle tracker** (`src/perception/tracking/object_tracker.cpp`, `formation_vehicle_tracker.cpp`, `tracker_recovery_monitor.cpp`, `object_tracker_node.cpp`) | tracking state, remembered detections and markers, clocks, windows and requests of the monitor | tracking tick, estimator tick, detections, clouds, answers of the target vehicle | camera and LiDAR in; services of the target vehicle; parameters | stalled inputs, late answers, retries | lost until sighted; answers belong to their question; unseen targets time out; recovery goes on |
| **Detection, targets of interest** (`src/perception/detection`, `toi_tracker.cpp`) | tracks | associate, report | contact reports to the mission manager | association | numerical |
| **Costmap** (`src/perception/perception`, `src/node/occupancy_grid_subscriber.cpp`) | heights and ages of the cells of each layer, dilation, voxels, thresholds, update region, cycles since the last full grid; a subscriber's copy | point clouds, clearing methods, thresholds, reset, publishing in full and in updates | clouds in; grids and updates on two topics to the planners | incremental dilation and its removal; clearing methods that must hear of each other; updates lost or out of order; late subscribers | dilation and voxels follow the cells; no obstacle is missed; copies catch up |
| **Segmentation, terrain perception, SLAM** (`src/perception`) | grids, poses | periodic | grids | numerical | numerical |
| **Core, simulation, recording, image analysis** (`src/core`, `simulation`, `daq`, `ia`) | - | - | - | - | - |
| **Bring-up, messages, parameter library, RViz plugins, tools, system tests** (other packages) | configuration and user interface | - | the operator's messages | - | - |

`PROJECT.json` lists each with its status and its hazards with their lines.

## 2. Modules

| Module | Models |
|---|---|
| `TaskList` | Tasks as records and the list as a sequence: pure operators, one per way the code changes the deque. |
| `MissionManager` | One vehicle's mission manager, one action per stage and handler of its cycle. |
| `TwoBandQueue` | The abstract specification of the list: committed work before open work. |
| `Fleet` | Several vehicles and the operator, with a FIFO channel per pair of agents: investigations, waits and formations. |
| `CommBridge` | The comm nodes of a team: loop, framer, connections with reads of any size, over ROS or over TCP. |
| `LossyFifo` | The abstract specification of the bridge: FIFO channels that may lose messages. |
| `GlobalPlanner` | The global planner node: callbacks, loop, worker thread, service. |
| `PlannerGrid` | The grid of the searches: neighbours, heuristic, distance transform, lines of sight, smoothing. Pure operators. |
| `GridPlanners` | The searches themselves, A*, D* Lite and fast marching: one pass of a search loop is one step. |
| `ObjectTracker` | The tracker of a formation vehicle with its recovery monitor. |
| `Costmap` | The costmap of the perception node, its publication in updates, and a subscriber's copy. |
| `Navigation` | The nodes of one vehicle that carry out a MoveTo, from the mission manager to the wheels, with crashes, restarts, hung solves and resets. |
| `Setpoints` | The speed setpoint, the goal weight and the speed zone monitor. |
| `ToiRegex` | The TOI expression on its way from a task to the tracker. |
| `MCMissionManager`, `MCFleet`, `MCSetpoints`, `MCToiRegex`, `MCCommBridge`, `MCGlobalPlanner`, `MCGridPlanners`, `MCCostmap`, `MCNavigation` | Instances for TLC (`ObjectTracker` needs none but its `.cfg`). |
| `TaskListProofs` | Lemmas: what each list operation does to the invariant of the list. |
| `MissionManagerProofs` | The inductive invariants of `MissionManager`, the theorems, and the refinement of `TwoBandQueue`. |
| `FleetProofs`, `GlobalPlannerProofs`, `ObjectTrackerProofs`, `CostmapProofs`, `NavigationProofs` | The same for `Fleet`, `GlobalPlanner`, `ObjectTracker` with `ToiRegex`, `Costmap`, and `Navigation` with `Setpoints`. |
| `CommBridgeProofs` | The refinement of `LossyFifo` by `CommBridge`. |

### How `MissionManager` corresponds to the code

The node is single threaded: callbacks append to queues while `spin_all` runs (`NODE` 533),
and each pass of the loop (`NODE` 441-535) empties them in a fixed order. The variable
`phase` is the place in the pass. What is in a queue is chosen when it is handled, which
allows every content: nothing reads a queue except the loop that empties it.

| Code | Model |
|---|---|
| `task_list` | `task_list`, front at position 1 |
| `mission_contacts`, `contact_count_` | `contacts`, a function from the contact's number, and `contact_count` |
| `obj_detection_cnt` | the same; the id of the next encircle, counting down |
| `task_completions_`, `arrivals_` | a sequence and a set |
| `last_command_signature_` | `signature`, the type and shape of the last command |
| samples latched on two topics | `task_change`, `investigated_contacts` |
| messages sent | `published` |
| `reset()` and the loop's reset branch | `Reset` |
| `onGoalReached` | `GoalReached` |
| `handleCommand` and the handlers it calls | `Command(m)`, `SetSpeed`, `Shutdown`, `OwnMessage` |
| `handleContacts`, `addContact`, `updateExistingContact`, `maybeCreateToiTasks` | `ReportNew`, `ReportKnown`, `RefineContact` |
| `confirmPendingContacts` | `ConfirmPending(c)`, one contact per step in the list's order |
| `updateTasks` with each task's `init`, `run`, `is_done`, `on_done` | `UpdateTasks`: `ContinueTask` or `FinishTask` |
| `addTask`, `cancelTask`, `resetTaskList`, `insertFormationChangeDelay` | `AddTask`, `CancelTask`, `AllCompletions`, `AddPosition` of `TaskList` and their effects in `MissionManager` |

Abstractions: positions are two values, *first* and *refined*, because the code only
distinguishes whether tasks and samples follow a contact that moved. Whether a goal is
reached, a circle swept, a duration over, a report near a known contact is a choice.
Formations keep their members, leader, followed vehicle and way of ending. Parameters that
change control flow (`check_goal_arrival`, the confirmation delay, the formation delay, the
overwatch point) are constants. A reported pose that matches a settled contact changes
nothing and has no action. The vehicle's own completions are not fed back: no wait and no
follower looks for them.

### How `Fleet` corresponds to the code

Every agent publishes on and subscribes to one reliable topic; the order of one
publisher's messages at one subscriber is kept, and nothing else. A step of a vehicle is a
message handled, an investigation begun or the active task finished. The list operations
are those of `TaskList`. The completions of tasks nobody can wait for are left out of the
channels (`Heeded` keeps, of what a vehicle says, what the subscriber can wait for). Who is
nearest (`getClosestOverwatch`) is a choice. A wait for a completion that was heard already is
refused (`Rejects`, `MM` 837-847), and then supersedes nothing, whatever its priority.

A *mission* is what the operator sends each vehicle and when, whom an investigator may ask to
stand by, and how many investigations there are; `mission` is chosen at the start and does not
change. `ScriptAssumption` says of the scripts that the operator sends commands, not the messages
of vehicles, under ids that are not those of investigations. The code relies on the same: the ids
of encircles count down from 9999 (`MM` 615, 684, with the comment that this is a hack), and
nothing keeps the operator from using one.

`Finish` does not split a task into start and end: what is started matters to one vehicle
(`MissionManager`) and to nobody else. A vehicle's own waits use the mark taken when the
wait message is handled, as in the code.

A formation command makes a `Follow` or a `MoveTo` task (`FormationTask`). `Arrive` is the
moment a vehicle is in place and says so; it hears its own arrival too, on the channel to
itself, as with the topic. `Finish` then needs what the command asks for: the leader's
arrival or completion, or everyone's arrival (`FormationDone`). The delay before a
formation is in `MissionManager` only.

### How `Setpoints` corresponds to the code

One vehicle again, with the phases in which the code reads what other phases wrote:
messages (`NODE` 469), odometry (`NODE` 504), tasks (`NODE` 518) and `spin_all`, in which a
position and calls of the service arrive. A task has only its settings. `AddTask`,
`OnPreempt` and the list are those of `TaskList`. Not-positive settings are all 0.

| Code | Model |
|---|---|
| `getSpeedSetpoint`, `resolveSpeedSetpoint` | `Resolve` |
| `handleSetSpeedMsg`, `publishSpeedSetPoint` | `SetSpeed` |
| `publishGoalWeightOverride` | `GoalWeight`, in `UpdateTasks` |
| `SpeedZoneMonitor::UpdateOdometry` | `UpdateOdometry`, `IsZoneAt` |
| `SpeedZoneMonitor::SetZoneMaxSpeeds` | `SetZoneMaxSpeeds`, `ApplyUpdates` |

`zone_command` is a history variable: the speed the monitor last commanded. The module's
specification is `SetpointsSpec`, its reset `ResetSetpoints`: `Navigation` has operators of the
shorter names, and the proofs extend both.

### How `ToiRegex` corresponds to the code

The task list is reduced to expressions and whether a task was started. A call of
`set_parameters` goes into `requests`, the tracker's answer into `responses`, both in order.
`excuse` is a history variable: why the last task with an expression sent none. Its names
start with `Toi` where `ObjectTracker`, at the other end of the call, has the same ones: the
proofs extend both.

### How `CommBridge` corresponds to the code

A comm node is one loop (`src/communication/comm_node.cpp` 91-146): it takes what it heard
on its vehicle's topic (`Skip`, `Publish`, `Write`), then reads once (`Read`) and publishes
what came out of the framer (`PublishRead`). What it publishes it hears again itself; only
the look at the sender (`IsOwn`) keeps it from sending it on. With `broadcast_over_ros` it
publishes on the topics of the others instead. A message is two pieces and its frame those
and a delimiter, so a read can end inside a message, at its end, or after several; `Feed` and
`Split` are `SocketMessageFramer::Feed`. A connection is made once and may fail
(`Init`) or break (`Disconnect`); a write on a broken one loses the message and is not
repeated. A text that is not a whole message is rejected or taken for a message that was not sent,
both of which `Parsed` allows (`parseSerializedMsg`); what a whole message becomes is left out,
numbers rounded to six digits among it, and messages that cannot be parsed again are not
considered: the mission manager refuses them also when they come over ROS (`MM` 1026). The server that passes frames on is not in the repository and is external: it
passes each frame to the other clients in the order it came.

Seen as `LossyFifo`, the channel from one vehicle to another holds what the receiver can still
read, then what the sender has yet to write. `Readable` is the texts of the last read and those
that the framer would give of all that has arrived, read from delimiter to delimiter; `Picked`
with `TextsOf` takes the whole messages of the sender out of it, and with `OwnOf` out of its
`pending_msgs`. What is heard is what was heard whole (`Whole`). A read that cuts a message before
the first delimiter, a write that fails and a connection that breaks lose messages in these terms
(`Lose`), on any of the links at once.

### How `GlobalPlanner` corresponds to the code

`at` is where the node's thread is: in `spin_some`, where callbacks run (`NewGoals`,
`Toggle`, `NavCommand`, `ResetCallback`, `Odometry`, and the service `ComputeGlobalPath`), in
the body of the loop, or waiting in `planning_future.get()` for a plan it has asked to stop.
The worker thread (`Plan`) and the timeout (`TimePasses`) interleave with all of it.

| Code (`global_planner_node.cpp`) | Model |
|---|---|
| 557-579, reset | `DropPlan`, then `Reset` |
| 581-610, go command, new goals | `CommandedState`, `TakenState`, `TakenWaypoint`, `NewGoalsCancel` |
| 612-688, a result came | `Collect`, `Extended` |
| 690-698, plan still running | `AwaitPlan`, `TimesOut` |
| 701-725, `Submit` | `StartPlan`, `Submit` |
| 198-219 and 743-752, a goal is reached | `Announce` |
| 754-763, global planner off | `DropPlan`, then `SwitchedOff` |
| `Astar::PlanPath` | `Outcomes`: a path, an empty path, or `path_world_` as an earlier search left it |

A path is the sequence of goals it leads to, a position a goal it is at. `announced` is a
history variable.

### How `PlannerGrid` and `GridPlanners` correspond to the code

One object of class `Astar`, `DStarLite` or `FastMarching` makes one plan after another.
`PlanPath` takes grid, start and goal and prepares the search, which is what `PlanPath` of the
class does up to its loop; then each pass of the loop is a step, and the last pass extracts
the path.

| Code | Model |
|---|---|
| `Astar::Solve` 217-261 | `AStarVisit`, `AStarFound` |
| `DStarLite::ComputeShortestPath`, `UpdateVertex`, `ExtractPath` | `ComputeShortestPath`, `UpdateVertices`, `DStarDone` |
| `FastMarching::Solve`, `ExtractPathDiscrete` | `MarchVisit`, `March`, `ArrivalTime`; `MarchFound`, `MarchFailed`, `MarchCancelled` |
| `FastMarching::ComputeEDT` | `ComputeEDT`, from `ColumnDistance` and `LowerEnvelope` |
| `LineOfSight` of `Astar` and of `FastMarching`, `PostSmoothing` | `LineOfSight`, `MarchLineOfSight`, `PostSmoothing` |

Equal entries of a `std::priority_queue` come off in an order the model leaves open (`Tops`);
D* Lite's list is a `std::set`, ordered to the last entry. Costs are integers: fifths of a
free cell, so a diagonal step is 7/5 for the square root of 2; fast marching in tenths, its
square roots rounded down. The weights of distance and occupancy are 1, and there is no
segmentation grid. A* gives no cell an infinite cost, so its queue never runs empty before
the goal and its failing return has no action. Its `LineOfSight` reads the row and the column
before a cell; beyond the border that is outside the array, and the value is a choice.

### How `ObjectTracker` corresponds to the code

One thread runs all callbacks and both timers. Time is counted in periods of the tracking
timer (`Elapse`), in each of which both timers fire and a cloud arrives; a clock that is past
every limit stands still.

| Code | Model |
|---|---|
| `TrackingTick` (`object_tracker.cpp`) | `TrackingTick`, by `Track`, `TrackBy`, `TrackByLidar`, `Stale`, `StaysLost` |
| estimator timer, `TrackerRecoveryMonitor::Update` and its helpers | `EstimatorTick`, `Watch`, `Windows`, `RunNoMovementCheck`, `RunRecovery`, `MarkLost` |
| answers of the target vehicle's services | `CheckSpeedAnswer`, `OdometryAnswer`, `AnswerLost` |
| detections, obstacle markers, camera info | `Detections`, `PointCloud`, `CameraInfo` |
| reset, new settings, new target | `ResetCallback`, `UpdateSettings`, `Retarget` |

Where things are is left open: which marker a detection is near, whether the filter's tests
pass, whether the mean speed is low are choices. `unseen` and `sighted` are history variables.

### How `Costmap` corresponds to the code

The perception node is single threaded: callbacks run in the `spin_all` of its loop
(`perception_node.cpp` 172-223), and the end of an iteration publishes and resets. Below,
`layers/` and `clearing_methods/` are those of `src/perception/perception`.

| Code | Model |
|---|---|
| `PointCloudLayer::PointCloudCallback`, `ProcessPoints` | `PointCloud(scan, dt)` |
| `ClearOnlyPointsCallback` | `ClearOnlyPoints(scan)`; the cloud waits for the next one |
| the clearing methods in the order of their list | `ClearOccupancy`: `ClearByTime`, `ClearByChannel`, `ClearByRays` |
| `RaytraceLine`, `ClearVoxelAt` | the same |
| `BroadcastClearToSiblings`, `ResetInternalCellState` | `ClearCells` also clears the voxels |
| `AddOccupancy`, `DilateCell` | `AddOccupancy`, `Dilate` |
| `RemoveDilationAtCell`, `RecomputeGridDilation` | `RemoveDilation`, `RecomputeGridDilation` |
| `UpdateThresholds` of the settings, the costmap and each layer | `UpdateThresholds(t)` |
| `PublishGrid`, `GetGrid`, `GetGridUpdate`, the combination of layers | `PublishGrid`, `Grid`, `GridUpdate`, `CombineLayerValues` |
| the loop of `main`, reset | `Cycle`, `Reset` |
| `OccupancyGridSubscriber` and its two callbacks | `Join`, `OccupancyGridCallback`, `OccupancyGridUpdateCallback` |

Heights count half voxels and every cell has one size, so a slope is a difference of
heights. A region is its set of cells. A cell that is lowered or raised by several points of
one cloud is changed once, to the same effect. Both topics keep one message; the last full grid
is kept for a subscriber that is not there yet. A *scenario*, chosen at the start, has the
clouds and thresholds there may be; in a *prompt* one the subscriber handles each message before
anything else happens (`Handled`). `retuned` is auxiliary: the thresholds moved since the last
full grid.

### How `Navigation` corresponds to the code

Six processes, each with a loop of its own that runs for ever: a body, then `spin_some`, then
sleep. A step of the model is one body and the spin after it. What mission manager and global
planner send each other waits in `mail` until a spin of the receiver takes it, so their messages
cross. A spin may miss any message on a topic in `setup.late` (`Takes`): then what one body
publishes on two topics, as `MoveTo::init_` does with the goals and the go command, may arrive in
two spins, and with both topics late in either order. Of a topic the newest message counts. The
others only send onwards, and what they are sent is there when their next body runs.

| Code | Model |
|---|---|
| `NODE` 441-535, `MoveTo::init_`, `run`, `onGoalReached` | `MissionCycle`, `PublishesGoal`, `PublishesGo`, `KnownGoal` |
| `global_planner_node.cpp` 557-579 and 581-753 | `PlannerReset`, `AfterReset`, `PlannerCycle` |
| its callbacks | `PlannerSpin` |
| `veh_converter_node.cpp`: odometry in, `veh` out at 100 Hz | `ConverterCycle`; afterwards `VehFlows` |
| `goal_point_processor_node.cpp`, `new_input_available` | `ProcessorCycle` |
| loops of `mpc_planner_node.cpp` and `dwa_planner_node.cpp` | `LocalCycle`, by `setup.local` |
| `speed_control_node.cpp` | `DefaultCycle`, `BrakeAfter` |
| `atat_speed_control_node.cpp` | `AtatCycle`, `DrivesAtat` |

A goal stands for the path to it, for a goal point on the path, and for a speed and steering
that follow it; `Nowhere` is no path, no speed. Ages count iterations of the control, up to one
past the timeout. New goals make the planner active, as `auto_active_on_new_waypoint` does by
default, and so does a go command, `planner.go`, of its own: it is latched
(`nav_command_rcvd`, 163-167) until the loop handles it (582-588), a reset does not clear it, and
an iteration that handles one while the planner is active publishes no state (589). The brake is
that of `use_speed_controller`; ATAT's constant `brake_drag` is not in the model. The planner is
seen from outside, with a list of one goal and a plan that is ready some day; its loop and thread are `GlobalPlanner`'s. DWA is taken to have its grids.

A process that crashes loses its state and what waits for it, and starts again as at launch; a
solve of the local planner may take long (`Hang`), while its loop waits. The mission manager
keeps no copy of its tasks anywhere and is taken to stay up. Losing odometry is a crash of its
source. `calm` is a history variable (`CalmAfter`): 1 from the planner's handling of a reset, 2
once the control has gone round after it, 3 when a go command reaches the planner or was
waiting for its loop, 0 again when goals do.

## 3. What is checked

| Run | Instance | States | What it shows |
|---|---|---|---|
| `mission_manager` | one vehicle of two, three inputs; two contacts with five commands, and formations with ten | 287,925 | list, contacts and samples agree at every stage; the list implements `TwoBandQueue`; delays stay with their formations; contacts are confirmed; the active task ends |
| `fleet` | three vehicles, two missions: investigations with five operator messages; two columns in turn, the leader cancelled at any time | 203,245 | a stand-by lasts until its encircle ends, no longer and no shorter; the first column ends everywhere; nobody leaves the second before all are in place |
| `reuse` | two vehicles, a task id used twice | violation | a delayed completion releases a new wait |
| `toi_regex` | four commands, two expressions and a malformed one | 35,138 | the manager is right about the tracker; when an expression is missed |
| `setpoints` | two zones, four kinds of tasks, four inputs | 1,759,027 | speed and weight are the active task's; the zone's command is its limit |
| `global_planner` | two goals, three inputs | 252,560 | one user of the planner; goals in order and once; every goal is planned for |
| `planner_timeout` | the same | violation | a timeout that was logged for a dropped plan leaves the next without one |
| `comm_bridge` | three vehicles | 59,148 | the bridge is a lossy FIFO channel; who stays connected hears all but the first message |
| `object_tracker` | two markers, windows of one period, one attempt | 1,163,532 | lost until sighted; answers for their window; unseen targets time out; recovery goes on |
| `costmap` | three cells, a wall before another, three clearing methods, three scenarios | 64,292 | dilation and voxels follow the cells; a prompt subscriber misses no obstacle; every copy catches up |
| `navigation` | two goals, both local planners with both controls, two commands, resets, crashes or hung solves, go commands that come late with MPC and the default control | 575,980 | a reset stops the vehicle; a task ends; a vehicle without a goal brakes fully and stays; ATAT halts on silence |
| `grid_planners` | 4 x 3 cells, 216 grids after a first one, three goals, three searches | 34,282 | cheapest paths, margins kept, exact clearance, every search ends |

Properties:

- *The list.* `NonPreemptableFirst`, `OnlyActiveStarted`,
  `ApproachThenEncircle`, `DelayKeepsItsFormation`, and `ImplementsTwoBands`: split at its
  first preemptable task, the list is the queue of `TwoBandQueue`.
- *Contacts.* `InvestigationHasItsTask`, `PendingConfirmed`.
- *What others see.* `LatchedSamplesCurrent`, `LeavingIsAnnounced`.
- *The team.* `OverwatchCovered` (a stand-by, or a request for one that is still on its
  way, has an encircle or a completion that will end it), `StandByUntilDone` (nothing ends
  it before), `StandByEnds` (so investigators do not wait for each
  other in a circle).
- *Formations.* `EndsTogether` (with ALL_ARRIVED nobody's part ends before everyone is in
  place), `FormationEnds` (every member's part ends, also when the leader is cancelled). One
  case is excepted, `Abandoned`: an ALL_ARRIVED formation in which a member's part was
  cancelled never ends for the others, since only arrivals count (`task_follow.cpp` 68-72).
- *Settings.* `SettingsCurrent` (the latched speed and weight are those of the active task
  after any preempt, cancel, command or zone), `ZoneCommandCurrent`.
- *The TOI expression.* `BeliefCurrent`, `RegexUnlessSkipped`.
- *The bridge.* `ImplementsLossyFifo` (a refinement of `LossyFifo`), `Delivered` (who stays
  connected hears every message, except that the first of a connection may be heard in pieces:
  up to the first delimiter the framer takes each read for a message).
- *The planner node.* `HandedOver` (one user of the planner object at a time, and no plan that
  starts with the cancel meant for another), `AnnouncedInOrder`, `PlansForItsGoal`.
- *Navigation.* `ResetStops` (once planner and control have gone round after a reset, the
  vehicle gets no speed until goals or a go command reach the planner, although the local planner
  goes on; those that were waiting for its loop when it handled the reset count too, so a go
  command from before the reset ends the stop, see `GoalsAloneStart` below),
  `TaskEnds` (the vehicle arrives or the task is dropped, whatever crashes but the planner, if
  all are up in the end and no reset comes late), `StopsForGood` (a planner that is not active brings the vehicle to a
  stop, fully braked after a gradual stop), `SilenceStops` (ATAT halts when odometry or the local
  planner dies or hangs, although converter and MPC go on with what they have).
- *The searches.* `CheapestPath` against least costs computed by relaxation, whatever earlier
  plans left behind and in whatever order equal entries come; `MarchAvoidsObstacles`,
  `ClearanceExact` against the definition of the distance, `SearchEnds`.
- *The tracker.* `LostUntilSighted`, `ConfirmOfThisWindow`, `TimesOutUnseen`,
  `RecoveryGoesOn`.
- *The costmap.* `DilationFollowsObstacles` (whatever order raised, lowered and cleared cells,
  and with thresholds that move), `VoxelsMatchCells` (what rays clear down to is what was seen,
  also after another method emptied the cell), `NoObstacleMissed` (an update brings everything
  that became an obstacle since the last one), `CopyCatchesUp` (a subscriber who joins late,
  loses updates or takes them out of order ends with the costmap). `NoObstacleMissed` leaves out
  a change of thresholds (`retuned`), which only a full grid brings, and `CopyCatchesUp` needs
  `force_full_every > 0`: without it a copy may stay wrong for ever.
- *Progress.* `ListWorkedOff`, `PendingConfirmed`, `StandByEnds`, `FormationEnds`,
  `Delivered`, `PlansForItsGoal`, `RecoveryGoesOn`, `SearchEnds`, `CopyCatchesUp`,
  `TaskEnds`, `StopsForGood`, `SilenceStops`.

Some properties are **stated and not run**, because TLC finds each violated by what the code
does; the definitions say where the expectation comes from:

| Property | Module | What TLC finds |
|---|---|---|
| `LatchedTargetsCurrent` | `MissionManager` | refining a contact moves its queued tasks and does not publish `task_change`, which the comment on `publishTaskChange` asks for |
| `RegexOfActiveTask` | `ToiRegex` | a task whose expression equals the remembered one sends no call although a call with another one is on its way |
| `SetpointOfZone` | `Setpoints` | a reset drops the setpoint and not the zone monitor's last zone: the next task in the zone runs at the default speed |
| `UnsolvedKeepsPath` | `GlobalPlanner` | a search that finds nothing leaves `path_world_` as it was, and the node takes this path to an earlier goal for one to the present goal |
| `RecoversOnlyLost` | `ObjectTracker` | odometry asked for while lost arrives after a detection ended LOST and marks the tracker lost again |
| `StarvedLetsGo` | `ObjectTracker` | with the default `sync.use_callback_time = false`, a target last seen by the camera is reported as tracked for ever when detections stop coming |
| `SmoothedStaysClear` | `GridPlanners` | A*'s line of sight looks at both sides of a line along a row as if cells were corners: a smoothed path runs through an impassable cell whose neighbour is free |
| `TaskEndsAfterCrash` | `Navigation` | a planner that starts again reports no goal, the mission manager goes by the one it heard before, and nobody sends the goal again |
| `GoalsAloneStart` | `Navigation` | a go command that comes a spin after its goals and together with a reset is kept over the reset; the next iteration makes the planner active without a goal, and MPC drives on to its last goal point |
| `TaskEndsAfterReset` | `Navigation` | with `"reset"` late: a reset that reaches the planner after the mission manager has heard the new goal confirmed drops that goal, and nobody sends it again |
| `IdleStops` | `Navigation` | goals, or a go command, and a reset in one spin leave the planner active without a goal, and MPC drives on to its last goal point |
| `SilenceStopsDefault` | `Navigation` | the default speed control drives on with the last speed it heard, however old |
| `NoObstacleMissed` with `Combination = "last"`, the default | `Costmap` | a cell of the point cloud layer that becomes unknown lets the higher value of the static layer through, and lies outside the update region |

**Bounds.** `MaxInputs` bounds commands, reports and resets together. Two contacts suffice for a
second investigation to be queued behind a first one and for the first to be cancelled while the
second goes on; a third behaves as the second, since no handler looks at more than one contact
besides the front of the list. Three inputs in `mission_manager` allow two contacts, or a contact
and a task, and the command or reset that hits them at each point of the cycle, and a formation,
the one that follows it and what interrupts them. In `fleet`, two vehicles can investigate, or
one twice, which makes the smallest circle of waits; in the columns a vehicle follows a follower,
and a second formation must not be ended by messages of the first. In `setpoints` two zones that
may overlap give every way of entering and leaving, and four inputs a task, what preempts it, a
command and a change of limits; the path through the zones is not bounded. In `toi_regex` four
commands allow a call, a second that it hides, and two preempts. In `comm_bridge` a message is
two pieces, so that it can be split and so that a read can hold the end of one and the beginning
of the next. In `global_planner`, three inputs allow new goals, a reset or toggle while the plan
for them is in flight, and one more. In `object_tracker` the timeout is two periods, the least
the code's comparisons tell apart, and windows, backoffs and attempts are one, so every limit is
reached. In `grid_planners` the first plan leaves its costs, links and path behind for every grid
whose second column is free or impassable and whose third is free, rough or impassable; a margin
of more than one cell closes cells beside obstacles. A grid of four columns is the least in which
a parabola of the distance transform is hidden. In `navigation` two events allow a task and a
reset, a crash, a hung solve or a second task that crosses it, and two faults before any task.
Timeouts of one iteration tell fresh from stale, and a brake of two steps has a partial value. Late
messages multiply the states, so only the go command is late, and only with MPC, which keeps its
goal point, and the default control; two events are the command whose goals and go command part
and the reset between them. (With goals and planner states late too TLC finds 977,782 states and
no violation.) In `costmap` a wall, the ground seen through it and another wall seen over it give every way a ray
ends in a cell, and the dilation of the outer cells shares the middle one; with `ForceEvery` one,
full grids and updates take turns; ages run one past their limit.

The runs of `Fleet`, `ToiRegex`, `CommBridge` and `GridPlanners`
switch off the deadlock check because commands, messages or plans end; the loops of
`MissionManager`, `Setpoints`, `GlobalPlanner`, `ObjectTracker`, `Costmap` and `Navigation` never
stop, and deadlock is checked.

**Fairness.** A timer drives the loop, so `Advance`, `Spin` and `UpdateTasks` are weakly
fair. `ConfirmPending(c)` is strongly fair: the delay is tested in every pass and, since
it counts from the first report, is over from some pass on. `Finish` and `FinishLast` are
strongly fair: of the passes in which the active task can end on its own, one does end it.
This is an assumption about driving: that the vehicle gets to its goal in the end. The
code supports it where it can (an encircle without progress is given up after
`toi.stall_time`; a duration passes); a goal that cannot be reached is the planner's
matter. Tasks that wait for others are excepted, and get no fairness of their own. In
`Fleet`, `Finish(v)` and the arrival of messages are weakly fair for each vehicle.
`GlobalPlanner`: the loop is driven by a rate and the worker thread runs, so `Loop`, `Body` and
`Plan` are weakly fair; that `Plan` ends is what `SearchEnds` shows of the searches.
`CommBridge`: the parts of a comm node's loop are weakly fair. `ObjectTracker`: timers and LiDAR
together are weakly fair; that the target vehicle's service is now and then ready when a
request is due, and now and then answers, is assumed by strong fairness, without which
nothing could end a recovery. `GridPlanners`: `Search`, a loop that runs by itself, is weakly
fair. `Costmap`: the node's loop (`Cycle`), the end of its warm-up and the subscriber, who comes
and spins, are weakly fair; clouds, thresholds and resets are not. `Navigation`: the loop of each
node that is up, a plan that gets ready and the end of a solve are weakly fair, the loops of mission
manager and planner in the form in which the spin takes all that waits: what was published
arrives in the end, and no spin misses it for ever. `Arrive` is strongly
fair, the assumption about driving again: a vehicle that is commanded to a goal again and again gets
there. Nothing makes a node start again; `TaskEnds` assumes that all are up in the end.

**Findings.** `reuse`: the documentation of WAIT_UNTIL_COMPLETE says that a reused task id
does not release a new wait; it does if the first task's completion is overtaken by the new
wait. `planner_timeout`: `timeout_logged` is cleared where a result is collected
(`global_planner_node.cpp` 624) and not where a plan is dropped (557-561, 756-760), so after a
plan that timed out and was dropped the next is not cancelled at `planning_timeout_ms`,
although `parameters/global_planner.yaml` 168 says so of every `PlanPath` call.

## 4. What is proved

For every team, every set of commands, all parameters and all bounds
(`MissionManagerProofs`, from the assumptions `NamesAssumption` and `ManagerAssumption`):

- `TypeCorrect`: `Spec => []TypeOK`
- `CommittedTasksFirst`: `Spec => []NonPreemptableFirst`
- `OthersNotStarted`: `Spec => []OnlyActiveStarted`
- `MarksMatchTasks`: `Spec => []InvestigationHasItsTask`
- `ApproachesCircle`: `Spec => []ApproachThenEncircle`
- `SamplesCurrent`: `Spec => []LatchedSamplesCurrent`
- `LeavingAnnounced`: `Spec => LeavingIsAnnounced`
- `DelayStaysInFront`: `~DelaysNamed => (Spec => DelayKeepsItsFormation)`
- `ListIsTwoBands`: `Spec => ImplementsTwoBands`

The first three follow from `InvariantHolds`: `Spec => []IInv`, where `IInv` is `TypeOK` and
`WellFormed(task_list)`:

1. `TwoBands`: up to some position nothing is preemptable, and behind it everything is;
2. `FirstStarted`: only the front is started, formation delays excepted;
3. `EncirclesCommitted`: encircle tasks may not be preempted.

`NonPreemptableFirst` alone is the first part. `OnlyActiveStarted` is not inductive alone:
preempting pushes the front back, and `onPreempt` makes it start over for every kind of
task but delays and encircles. That an *encircle* is never pushed back needs the third
part: a preempting task is inserted in front of the first preemptable task, which is no
encircle. `TaskListProofs` has one lemma per list operation (preempt, queue, cancel with
approach, insert a delay, take the front): it keeps `WellFormed`. `MissionManagerProofs`
has one lemma per handler, and the step of each action cites its lemma.

The others need `MissionInv` besides (`MissionInvHolds`): an approach is committed and directly followed
by the encircle of its contact, and there is one encircle for a contact at most (`Paired`); a contact
is marked exactly while its one encircle is in the list, and is then neither new nor settled
(`ContactsMatch`); delays may be preempted and have the id -1 (`DelaysOpen`); and the samples show
the present (`Shows`, which leaves open where the tasks go: see `LatchedTargetsCurrent` in §3).
`InvestigationHasItsTask` alone is not inductive, since a cancelled encircle is looked up by its
neighbours, and a contact that is refined by its flags.

For the action properties and the refinement, each action is reduced to one of four shapes of a
step of the list: a block of committed or of open tasks is put in (`Grows`), some are taken out and
announced (`Shrinks`), all are and make place for a command (`Superseded`), or a reset drops them.
`LeavingIsAnnounced`, `DelayKeepsItsFormation` and each step of `TwoBandQueue` follow from the
shapes. `~DelaysNamed` says that no command cancels the id -1, which every delay has: such a
command takes the delay away from its formation, as asked. In `TwoBandQueue`, what is left of the
queues is given by an increasing embedding (`Remains`).

`FleetProofs`, for any number of vehicles, any scripts and investigations (from `FleetAssumption`
and `ScriptAssumption`):

- `OverwatchIsCovered`: `Spec => []OverwatchCovered`
- `StandsByUntilDone`: `Spec => []StandByUntilDone`
- `FleetTypeCorrect`: `Spec => [](FleetTypes /\ Counted)`, the types, and how many ids are used
- `FormationsEndTogether`: `FormedOnce => (Spec => EndsTogether)`

The first three follow from `FleetInv` (`FleetInvHolds`):

1. `Carried`: on a link of an investigator are only completions of what is over, arrivals, and
   requests for ids that were handed out; on the operator's, commands under other ids;
2. `HeardWhenOver`: what was heard to be complete is over: no task has its id any more and,
   among the ids of investigations, it was handed out before;
3. `WaitsCovered`, `RequestsCovered`: whoever stands by, or is asked to, has the encircle in the
   investigator's list, or its completion behind the request on the same link, or written down
   after the wait's mark.

`OverwatchCovered` alone is not inductive: that a completion heard *before* the mark is not the one
waited for takes 2, and that an id is not handed out again takes the count. Every action is shown
to be a `TeamStep`, which says what one step may take from the links, add to them, write down, end
and start waiting for; `TeamKeeps` shows once that such a step keeps the invariant.

`EndsTogether` takes `FormInv` besides (`FormationsKept`). A vehicle handles its script in order
(`FollowsScript`); its list has a formation once at most, and one that it was sent (`FromScript`);
whoever is said to have arrived, on a link or in somebody's notes, was sent the formation and is in
its place as long as that is in its list (`WhoIsThere`). The lemmas on what insertions and
deletions do to formations (`PartsBut`) carry it through every operation of the list. `FormedOnce` says that no
vehicle is sent two formations under one id. Without it `EndsTogether` does not hold: arrivals are kept
until a reset (`MM` 624), so those of the first formation would let the members of the second go at once.
An operator who uses `set_formation_tool.cpp` twice without a reset in between is in that
case, since the tool sends every formation under the id -1 (line 279).

`GlobalPlannerProofs` (from `PlannerAssumption`):

- `PlannerHandedOver`: `Spec => []HandedOver`
- `GoalsAnnouncedInOrder`: `Spec => []AnnouncedInOrder`

The first follows from `HandsOff`: the thread computes exactly while a plan is pending, the loop
waits only for a plan there is, and without a plan there is no cancel. `HandedOver` alone does not
say that a plan which is dropped has ended. The second follows from `InOrder` and `AtAGoal`,
which keep the current goal within the list unless new goals are about to be taken.

`ObjectTrackerProofs` (from `TrackerAssumption`):

- `TypeCorrect`: `Spec => []TypeOK`
- `AnswersOfThisWindow`: `Spec => []ConfirmOfThisWindow`
- `LostTillSighted`: `Spec => []LostUntilSighted`
- `UnseenLetGo`: `SensorsGranted => (Spec => []TimesOutUnseen)`

The first two follow from `IInv`, which is `TypeOK` and `Confirming`: a question is only
waiting while its window is full and the tracker is not lost. The third needs `UnsightedIdle`:
without a sighting no detection is remembered, and the tracker is lost, or inactive and has never
had its first detection. The fourth needs `SeenInv`: the clocks of a tracker that may go on are not
behind what the sensors have shown (`ClocksFollow`), a marker stands until the next cloud
(`MarkersFresh`), and the tick of the last period lets go (`LetGo`). `SensorsGranted` is what the
run's constants grant: old detections are noticed (`sync.use_callback_time`; with its default, see
`StarvedLetsGo`), a cloud comes in every period, and the skew allowed is a period or more.

The second part of `ObjectTrackerProofs` is about the expression the tracker is given (from
`RegexAssumption`):

- `BeliefIsCurrent`: `ToiSpec => []BeliefCurrent`
- `RegexReachesTracker`: `ToiSpec => []RegexUnlessSkipped`

Both follow from an invariant about the *last* call: with answers on their way, the last
of them names what the tracker uses (`Answered`); the last call, or the tracker if there is
none, has what the active task wants unless it was excused (`Wanted`). A call is skipped on
the strength of what the manager remembers, so `Wanted` is not inductive without `Answered`.

`CostmapProofs` (from `CostmapAssumption`), for every grid and dilation, any clearing methods, and
clouds of any length:

- `DilationIsCurrent`: `Spec => []DilationFollowsObstacles`
- `VoxelsAreSeen`: `RaysLast /\ PointsInColumns => (Spec => []VoxelsMatchCells)`
- `ObstaclesReachTheCopy`: `NothingShowsThrough => (Spec => []NoObstacleMissed)`

A cloud is handled by folds within folds: the clearing methods in their order, the rays of a
scan, the voxels of a ray, each changing what the last one left. Two lemmas deal with all of them.
`FoldExists`: the function by which the community modules define a fold exists, since the least
length without one would have one. `FoldStays`: a set that no step leads out of is not left by the
fold. What is shown for each voxel, method and cloud is then that it keeps a set of grids:

1. `FollowingGrids`, where the dilation follows the obstacles. Whatever clears a cell first lowers
   it and then calls `RemoveDilation` with the cells that it lowered; `Lowered` says what must be
   among these, and `LoweredFollows` that the dilation then follows. The invariant alone would not
   do: in between, cells are dilated without an obstacle.
2. `MatchingGrids`, where cells and voxels match besides. It says more than `VoxelsMatchCells`: no
   voxel is *below* the lowest point either, without which a ray that cuts off the top could leave
   a cell whose lowest voxel is gone (`CutMatches`). `RaysLast` says that the rays are the last of
   the methods and come once: a method behind them could empty a cell whose voxels stay.
   The default is `raytrace` alone. `PointsInColumns` says that what falls into the grid is
   within the voxels' heights and not on the border of two; the code lets such points change
   the cell and no voxel (`raytrace_clearing_method.cpp` 158).
3. `AtMostGrids`, where each cell shows at most what it showed: clearing raises nothing
   (`OccupancyAtMost`), so a cloud raises the costmap only around the cells it hit
   (`CloudRaisesAround`), which is what the next update holds.

For the copy, `CopyHolds` says what one message on its way makes of it: a full grid that waits is
the costmap's, and without one only cells of the region of the next update are higher than what
the copy shows or will show once the update that waits is there. `NothingShowsThrough` says that
layers are combined by their maximum, or that the last layer wins, as is the default, and there is
no static layer. With `last` and a static layer the property does not hold (§3).
`FollowInv`, `MatchInv` and `CopyInv` were checked by TLC on the instance of `costmap` before they were
proved.

`NavigationProofs` (from `NavigationAssumption`), with crashes, restarts and hung solves without
limit, and whatever topics are late:

- `TypeCorrect`: `Spec => []TypeOK`
- `PlannerResetStops`: `Spec => []ResetStops`

`ResetStops` speaks of the last node only, and what it has heard comes from the first. The
invariant `CalmInv` adds that while `calm` is 1 or 2 the planner is not active and has neither
goals nor a go command to look at and the control has heard so, and that at `calm = 2` the last
command was none; it was checked by TLC on the instance before it was proved (`DownForgets`: a node that is down knows nothing, so a control that starts
again has heard of no active planner either).

The second part of `NavigationProofs` is about the settings the planner is told (from
`SetpointsAssumption`):

- `ZoneCommandIsCurrent`: `SetpointsSpec => []ZoneCommandCurrent`, for every zone file and every
  sequence of requests. The invariant adds the little typing that it takes: the last zone
  is one of the zones, and the limits are a function on them.
- `SettingsAreCurrent`: `SetpointsSpec => []SettingsCurrent`
- `SetpointsTypeCorrect`: `SetpointsSpec => []SetpointsTypeOK`

The last two follow from `SettingsInv`, which adds `DriveList`: only the front is started, delays
excepted, and encircles are committed. A task that comes to the front without being started
publishes its settings when it is; one that comes back started would not.

`CommBridgeProofs` (from `BridgeAssumption` and `DelimiterAssumption`), for every team, any numbers
of messages, and reads of any size:

- `BridgeInvHolds`: `Spec => []BridgeInv`
- `BridgeIsLossyFifo`: `Spec => ImplementsLossyFifo`

`DelimiterAssumption` says that no piece of a message is the delimiter. A text is the fields of a
message with commas between them (`rosToSerializedMsg`, `mission_manager_parser.cpp` 292-357), which
are numbers, names and a target expression; nothing in the comm node escapes a line feed, but the
operator enters the expression in a field of one line (`mission_command_panel.cpp` 33).

The framer is a fold over what a read returns, and the channels are folds over what the framer
would give. The proof has three parts.

1. *The folds.* `SplitStep` and `PickedStep` say what one more entry does, and from them
   `SplitConcat` and `PickedConcat` what a fold gives for two sequences one after the other, by
   induction on the length of the least counterexample. `SplitConcat` is what makes reads of any
   size the same in the end: splitting what was kept and what comes is splitting all of it.
2. *The invariant.* `BridgeInv` is `TypeOK` and `Framed` for each vehicle: what it reads are pieces
   of others' messages; between two delimiters stand two pieces at most; and on a connection that
   stands what is to come completes what the framer keeps. The second part is needed because
   up to the first delimiter every read is taken for a message: what is left of it afterwards
   must not join another message and pass for a whole one. The third is needed because a frame that
   is written behind an unfinished one would not be read as itself.
3. *The steps.* Each action is one of four shapes of a step of the channels, for which the
   facts about links are collected once: `SaysWhen`, `HearsWhen`, `LosesWhen`, `StaysWhen`. `Say`
   and `Publish` are the first two; `Skip` takes away what is on no channel; `Write` moves a message
   from one end of a channel to the other, or loses it; `Read` thins the channel where it cuts
   the first message and changes nothing otherwise (`ReadThins`); `PublishRead` lets others hear
   or changes nothing; `Disconnect` loses what was on its way.

`TypeOK` itself is in the theorems and not in the runs, which check what follows from it and
from the rest of `IInv`.

`FleetInv`, `FormInv` and `SeenInv` were checked by TLC on the instances of their runs before they were proved.
Attempts at proofs corrected the models in two places. A wait that `Fleet` refuses announced, with
the priority of CANCEL_ALL, tasks that stay in the list: nothing held `StandByUntilDone` up there,
and the instance did not have such a wait (the code returns before it adds anything, `MM` 837-847).
And where guards of a `CASE` overlapped, the value was not determined, although TLC takes the first
that holds; these are `IF`s now.

What a recursive function computes is proved for every input in three places, `HeededTaken` and the
folds of `CostmapProofs` and `CommBridgeProofs` (by a least counterexample over the naturals or over
the sets of indices, which takes no operator as a parameter).

Where a goal joins an equality of sets with something else, the equality is a step of its own: the
Zenon that comes with TLAPS 1.4.5 closes such a conjunction from the equality alone.

Only model-checked:

- `CheapestPath`, `MarchAvoidsObstacles`, `ClearanceExact`: what a whole search or distance
  transform computes, against a reference definition; that they are right takes an induction
  over paths, and over the parabolas of a column, which is left to TLC;
- `Delivered`, `StopsForGood`, `SilenceStops` and the other liveness properties under *Progress*: liveness
  under fairness is out of the reach of the prover.

## 5. Not modelled

- *Geometry and numbers*: positions, paths, thresholds, the circle of an encircle, formation
  shapes, goal filtering, the choice of trajectory, PID, filters and association in the tracker.
  Where a decision hangs on them it is a choice in the models.
- *Of the planners*: extraction by gradient descent, clearance penalties and shifts inside
  cells, fill-in, clipping, dilation, the segmentation layer, the weights of fast marching
  square, `pf_global_path`.
- *Of the mission layer*: parsing and formatting, path following and encircling as the planner
  sees them (`Navigation` has `MoveTo` only), a reset in the middle of another vehicle's
  stand-by. `SHUTDOWN` only ends the handling of messages in a pass, as in the code (`MM`
  1032-1035).
- *Of the bridge*: the subscription's queue of ten messages (a slower loop loses more), a `send`
  that takes only part of a frame (`tcp_socket_proxy.cpp` 47-50; the rest is not sent again), the
  server.
- *Of the tracker*: targets of interest (their reports are the contact inputs of
  `MissionManager`), the set of trackers of one node, a LiDAR that dies: `TimesOutUnseen` is
  stated for clouds that keep coming (`CloudEachPeriod`) and fails without.
- *Of the costmap*: segmentation, the camera and polygon layers, the window that moves with the
  vehicle, slope and roughness of the terrain, the point cloud filter, the clearing methods
  `no_obs_time` and `raytrace_obs_filter`, dilation that is not cleared at once, rays without
  voxels.
- *SLAM*: reference code that the present build does not include, as the `CMakeLists.txt` in
  `src/perception/slam` says (lines 1-5), and numerical optimisation apart from that.
- *Of the navigation pipeline*: the optimisation MPC calls, turn-around and headings of the goal
  point processor, obstacles and grids (DWA's loop ends when segmentation is wanted and not there
  yet, `dwa_planner_node.cpp` 406), speed factors, throttle and lateral limits, the RCC and
  potential field planners, the pure pursuit and KRC controls, a mission manager that dies.
- *Segmentation, image analysis, recording, simulation, RViz plugins, launch files
  and tools*: numerical processing, user interface or configuration, without a protocol
  between components that these models do not already have as input.

## 6. Plan

Done: `TaskList`, `MissionManager`, `TwoBandQueue`, `Fleet` with its formations, `Setpoints`,
`ToiRegex`, `CommBridge` over `LossyFifo`, `GlobalPlanner`, `PlannerGrid` and `GridPlanners`,
`ObjectTracker`, `Costmap`, `Navigation`, and theorems about all of them
but `PlannerGrid` and `GridPlanners`.

1. *Extend the model.*
   - `PathFollow` and `Encircle` in `Navigation`, with the global planner switched off, and the RCC
     planner.
   - The node's set of trackers, and targets of interest up to the contact report.
   - `Fleet` over lossy channels, and with resets of one vehicle.
   - Goal filtering over `PlannerGrid`.
   - The clearing methods and layers that `Costmap` leaves out.
2. *Prove more.*
   - The invariants of `GridPlanners` that no fold is needed for (closed cells, keys of the list).
   - `VoxelsMatchCells` for points on the border of two voxels, which takes a weaker statement.
