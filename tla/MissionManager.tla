--------------------------- MODULE MissionManager ---------------------------
(***************************************************************************)
(* The mission manager of one vehicle (class MissionManager and the main   *)
(* loop of mission_manager_node.cpp): its task list, the contacts it       *)
(* investigates, what it has heard from other vehicles, and the two latched*)
(* topics it keeps up to date.                                             *)
(*                                                                         *)
(* The node is single threaded.  Callbacks only queue data while the loop  *)
(* spins; each cycle then handles, in a fixed order, a reset, the reached  *)
(* goals, the messages, the contact reports, the pending contacts, and     *)
(* the active task.  `phase' is the place in the cycle.  What the queues   *)
(* hold is the environment's choice, taken when it is handled: nothing in  *)
(* between depends on a queue's content.                                   *)
(***************************************************************************)
EXTENDS TaskList

CONSTANTS Me,               \* this vehicle
          Commands,         \* messages that other vehicles and the operator may send
          FirstToiId,       \* initial obj_detection_cnt, 9999 in the code
          CheckGoalArrival, \* parameter check_goal_arrival
          ConfirmDelay,     \* whether toi.contact_trigger_delay is positive
          FormationDelay,   \* parameter formation_change_delay.is_enabled
          HasOverwatchPoint,\* whether the mission has an SP_ point
          MaxContacts,      \* bound on the contacts named between two resets
          MaxInputs         \* bound on the commands, reports and resets handled

ContactIds == 1..MaxContacts

\* Messages the node handles.  A FORM command carries the formation as this
\* vehicle's FormationDefinition reads it; shape stands for its type and order.
FormCommands ==
    [type : {"FORM"}, sender : Agents, id : Int, prio : Priorities,
     formation : Formations, at_goal : BOOLEAN, shape : Nat]
MoveCommands ==
    [type : {"MOVETO", "PATH_FOLLOW"}, sender : Agents, id : Int, prio : Priorities]
WaitCommands ==
    [type : {"WAIT_UNTIL_COMPLETE"}, sender : Agents, id : Int, prio : Priorities,
     target : Targets]
CancelCommands == [type : {"CANCEL"}, sender : Agents, id : Int, target_msg_id : Int]
CancelAllCommands == [type : {"CANCEL_ALL"}, sender : Agents, id : Int]
OverwatchCommands == [type : {"OVERWATCH"}, sender : Vehicles, wait_for_msg_id : Int]
Notices == [type : {"ARRIVE", "TASK_COMPLETE"}, sender : Vehicles, id : Int]

CommandTypes ==
    FormCommands \cup MoveCommands \cup WaitCommands \cup CancelCommands
    \cup CancelAllCommands \cup OverwatchCommands \cup Notices

ASSUME ManagerAssumption ==
    /\ Me \in Vehicles
    /\ Commands \subseteq CommandTypes
    /\ FirstToiId \in Nat
    /\ {CheckGoalArrival, ConfirmDelay, FormationDelay, HasOverwatchPoint} \subseteq BOOLEAN
    /\ MaxContacts \in Nat
    /\ MaxInputs \in Nat

Others == Vehicles \ {Me}

VARIABLES
    phase,              \* place in the node's cycle
    scan,               \* last contact looked at by confirmPendingContacts
    task_list,          \* std::deque<Task*>
    contacts,           \* mission_contacts, by the number in their names
    contact_count,      \* contact_count_
    obj_detection_cnt,  \* id of the next encircle task
    task_completions,   \* task_completions_, in the order received
    arrivals,           \* arrivals_
    signature,          \* last_command_signature_
    autonomy_enabled,   \* autonomy_enabled_
    completed,          \* number of completed_tasks_
    task_change,        \* latched sample on avt_341/task_change
    investigated_contacts, \* latched sample on avt_341/investigated_contacts
    published,          \* own ARRIVE not yet heard, TASK_COMPLETE of this cycle
    inputs              \* commands, reports and resets handled so far

queueVars == <<task_list, task_change, completed>>
contactVars == <<contacts, contact_count, obj_detection_cnt, investigated_contacts>>
heardVars == <<task_completions, arrivals>>
vars == <<phase, scan, queueVars, contactVars, heardVars, signature,
          autonomy_enabled, published, inputs>>

Phases == {"reset", "goals", "comms", "contacts", "confirm", "update", "spin"}

\* An entry of mission_contacts, and the absence of one.
ContactStates == [known : BOOLEAN, is_new : BOOLEAN, investigating : BOOLEAN,
                  investigated : BOOLEAN, dismissed : BOOLEAN,
                  reported_while_allowed : BOOLEAN, pose : Poses]
NoEntry == [known |-> FALSE, is_new |-> FALSE, investigating |-> FALSE,
            investigated |-> FALSE, dismissed |-> FALSE,
            reported_while_allowed |-> FALSE, pose |-> "first"]
NewEntry(allowed) ==
    [NoEntry EXCEPT !.known = TRUE, !.is_new = TRUE,
                    !.reported_while_allowed = allowed]

\* What a status sample shows of a task: its description names kind and id, and
\* gives the coordinates it moves to or circles.
Description(t) ==
    [kind |-> t.kind, id |-> t.id, contact |-> t.contact, pose |-> t.pose]
ModuleStatus(tl, n) ==
    [tasks |-> [i \in 1..Len(tl) |-> Description(tl[i])], completed |-> n]

\* The contacts that must not be reported again, and publishInvestigatedContacts,
\* which shows where they are.
Settled(cs) == {c \in ContactIds : cs[c].investigated \/ cs[c].dismissed}
InvestigatedSample(cs) == {[contact |-> c, pose |-> cs[c].pose] : c \in Settled(cs)}

Completion(sender, id) == [type |-> "TASK_COMPLETE", to |-> sender, id |-> id]
CompletionOf(t) == Completion(t.sender, t.id)
Arrival(id) == [type |-> "ARRIVE", to |-> NoVehicle, id |-> id]
Publications == [type : {"ARRIVE", "TASK_COMPLETE"}, to : Agents \cup {NoVehicle},
                 id : Int]

HasArrival(veh, id) == [sender |-> veh, id |-> id] \in arrivals

\* Fault: the search starts one completion too late.
HasCompletedTaskLate(veh, id, since) ==
    \E i \in (since + 2)..Len(task_completions) :
        task_completions[i] = [sender |-> veh, id |-> id]

HasCompletedTask(veh, id, since) ==
    \E i \in (since + 1)..Len(task_completions) :
        task_completions[i] = [sender |-> veh, id |-> id]

\* investigationBlockedReason: a task is under way and autonomy is enabled.
InvestigationAllowed(tl) == tl # <<>> /\ autonomy_enabled

-----------------------------------------------------------------------------
Init ==
    /\ phase = "reset" /\ scan = 0
    /\ task_list = <<>> /\ completed = 0
    /\ contacts = [c \in ContactIds |-> NoEntry]
    /\ contact_count = 0 /\ obj_detection_cnt = FirstToiId
    /\ task_completions = <<>> /\ arrivals = {}
    /\ signature = [type |-> "", shape |-> 0]
    /\ autonomy_enabled = TRUE
    /\ task_change = ModuleStatus(<<>>, 0)
    /\ investigated_contacts = {}
    /\ published = {} /\ inputs = 0

TakeInput == inputs < MaxInputs /\ inputs' = inputs + 1

\* The loop goes on to its next stage.
Advance ==
    /\ \/ phase = "reset" /\ phase' = "goals"
       \/ phase = "goals" /\ phase' = "comms"
       \/ phase = "comms" /\ phase' = "contacts"
       \/ phase = "contacts" /\ phase' = "confirm"
       \/ phase = "confirm" /\ phase' = "update"
       \/ phase = "update" /\ task_list = <<>> /\ phase' = "spin"
    /\ scan' = 0
    /\ UNCHANGED <<queueVars, contactVars, heardVars, signature,
                   autonomy_enabled, published, inputs>>

\* The callbacks run.  All but the autonomy flag only queue data.  An own
\* completion is not kept for the next cycle: in the log it would be an entry
\* that neither a wait (never on Me) nor a follower (never led by Me) looks for.
Spin ==
    /\ phase = "spin" /\ phase' = "reset"
    /\ autonomy_enabled' \in BOOLEAN
    /\ published' = {p \in published : p.type = "ARRIVE"}
    /\ UNCHANGED <<scan, queueVars, contactVars, heardVars, signature, inputs>>

\* MissionManager::reset and the task-change sample the node publishes after
\* it.  No completion is sent for the dropped tasks, and messages on their way
\* (published, or queued in comm_msgs) are not dropped.
Reset ==
    /\ phase = "reset" /\ phase' = "goals"
    /\ TakeInput
    /\ task_list' = <<>> /\ completed' = 0
    /\ contacts' = [c \in ContactIds |-> NoEntry]
    /\ contact_count' = 0 /\ obj_detection_cnt' = FirstToiId
    /\ task_completions' = <<>> /\ arrivals' = {}
    /\ signature' = [type |-> "", shape |-> 0]
    /\ task_change' = ModuleStatus(<<>>, 0)
    /\ investigated_contacts' = {}
    /\ UNCHANGED <<scan, autonomy_enabled, published>>

\* A reached goal is compared with the target of whatever task is in front,
\* started or not; the comparison succeeds here.
GoalReached ==
    /\ phase = "goals"
    /\ task_list # <<>>
    /\ task_list[1].kind \in {"MoveTo", "PathFollow"} /\ ~task_list[1].arrived
    /\ task_list' = [task_list EXCEPT ![1].arrived = TRUE]
    /\ published' = published \cup {Arrival(task_list[1].id)}
    /\ UNCHANGED <<phase, scan, task_change, completed, contactVars, heardVars,
                   signature, autonomy_enabled, inputs>>

-----------------------------------------------------------------------------
\* handleCancelledContact, for every investigation in a list that is dropped.
Forget(cs, tl) ==
    [c \in ContactIds |->
        IF c \in EncircledContacts(tl) /\ ~cs[c].investigated THEN NoEntry ELSE cs[c]]

Dismiss(cs, dropped) ==
    [c \in ContactIds |->
        IF c \in dropped /\ cs[c].known /\ ~cs[c].investigated
          THEN [cs[c] EXCEPT !.investigating = FALSE, !.dismissed = TRUE]
          ELSE cs[c]]

\* Fault: only the active task is announced.
AllCompletionsActiveOnly(tl) == {CompletionOf(tl[i]) : i \in {1} \cap 1..Len(tl)}

AllCompletions(tl) == {CompletionOf(tl[i]) : i \in 1..Len(tl)}

\* The sample on investigated_contacts after contacts were marked or not.
\* Fault: published before the mark is set.
SampleAfterTooEarly(cs) == InvestigatedSample(contacts)

SampleAfter(cs) ==
    IF cs # contacts THEN InvestigatedSample(cs) ELSE investigated_contacts

\* addTask: what CANCEL_ALL drops is announced as complete and forgotten.
AddEffects(prio, new_list) ==
    /\ task_list' = new_list
    /\ task_change' = ModuleStatus(new_list, completed)
    /\ IF prio = "CANCEL_ALL"
         THEN /\ contacts' = Forget(contacts, task_list)
              /\ published' = published \cup AllCompletions(task_list)
         ELSE UNCHANGED <<contacts, published>>
    /\ UNCHANGED <<completed, contact_count, obj_detection_cnt, investigated_contacts>>

\* handleFormationRequest: the leader, and everyone in a formation taken at
\* the goal, moves to the objective; the others follow.
FormationTask(m) ==
    [NewTask(IF m.formation.leader = Me \/ m.at_goal THEN "MoveTo" ELSE "Follow",
             m.sender, m.id)
       EXCEPT !.formation = m.formation]

\* insertFormationChangeDelay: everyone but the first in the order waits.
NeedsDelay(m) ==
    /\ FormationDelay
    /\ signature # [type |-> "FORM", shape |-> m.shape]
    /\ Me \in m.formation.members /\ Me # m.formation.leader

\* Fault: the delay may not be preempted.
DelayTaskCommitted(m) ==
    [NewTask("WaitForDuration", m.sender, -1) EXCEPT !.is_preemptable = FALSE]

DelayTask(m) == NewTask("WaitForDuration", m.sender, -1)

HandleForm(m) ==
    LET added == AddTask(task_list, FormationTask(m), m.prio)
    IN  /\ AddEffects(m.prio,
                      IF NeedsDelay(m)
                        THEN InsertAt(added, AddPosition(task_list, m.prio), DelayTask(m))
                        ELSE added)
        /\ signature' = [type |-> "FORM", shape |-> m.shape]
        /\ UNCHANGED heardVars

HandleMove(m) ==
    LET kind == IF m.type = "MOVETO" THEN "MoveTo" ELSE "PathFollow"
    IN  /\ AddEffects(m.prio, AddTask(task_list, NewTask(kind, m.sender, m.id), m.prio))
        /\ signature' = [type |-> m.type, shape |-> 0]
        /\ UNCHANGED heardVars

\* handleWaitUntilComplete rejects a wait without a target or on itself.  Only
\* completions received from now on will count.
HandleWait(m) ==
    /\ m.target.veh \notin {NoVehicle, Me}
    /\ AddEffects(m.prio,
                  AddTask(task_list,
                          WaitTask(m.sender, m.id, m.target, Len(task_completions)),
                          m.prio))
    /\ UNCHANGED <<signature, heardVars>>

\* handleOverwatch: stand by at the overwatch point until the sender's encircle
\* is complete.
HandleOverwatch(m) ==
    LET target == [veh |-> m.sender, id |-> m.wait_for_msg_id]
        wait == OverwatchWait(Me, target, Len(task_completions))
    IN  /\ HasOverwatchPoint
        /\ AddEffects("PREEMPT",
                      PreemptInsert(PreemptInsert(task_list, OverwatchMove(Me)), wait))
        /\ signature' = [type |-> "OVERWATCH", shape |-> 0]
        /\ UNCHANGED heardVars

\* Fault: the contact is not dismissed with its encircle.
CancelledContactsNone(id) == {}

\* The contact that cancelling id dismisses.
CancelledContacts(id) == EncircledContacts(CancelledTasks(task_list, id))

\* Effects of dropping tasks on an operator's cancel; the cancel message itself
\* is announced as complete too.
CancelEffects(m, new_list, tasks, dropped) ==
    /\ task_list' = new_list
    /\ task_change' = ModuleStatus(new_list, completed)
    /\ published' = published \cup AllCompletions(tasks) \cup {Completion(m.sender, m.id)}
    /\ contacts' = Dismiss(contacts, dropped)
    /\ investigated_contacts' = SampleAfter(contacts')
    /\ UNCHANGED <<completed, contact_count, obj_detection_cnt, signature, heardVars>>

HandleCancel(m) ==
    CancelEffects(m, CancelTask(task_list, m.target_msg_id),
                  CancelledTasks(task_list, m.target_msg_id),
                  CancelledContacts(m.target_msg_id))

HandleCancelAll(m) ==
    CancelEffects(m, <<>>, task_list, EncircledContacts(task_list))

\* handleArrive and handleTaskComplete.
Hear(type, veh, id) ==
    /\ IF type = "ARRIVE"
         THEN /\ arrivals' = arrivals \cup {[sender |-> veh, id |-> id]}
              /\ UNCHANGED task_completions
         ELSE /\ task_completions' =
                    Append(task_completions, [sender |-> veh, id |-> id])
              /\ UNCHANGED arrivals
    /\ UNCHANGED <<queueVars, contactVars, signature>>

\* A SHUTDOWN command ends the handling of messages in this cycle, no more: the
\* node keeps running and the rest of the queue is handled in the next one.
Shutdown ==
    /\ phase = "comms" /\ phase' = "contacts"
    /\ TakeInput
    /\ UNCHANGED <<scan, queueVars, contactVars, heardVars, signature,
                   autonomy_enabled, published>>

\* handleSetSpeedMsg.  The speeds are left out; the task-change sample, which
\* shows the speed of the active task, is published again.
SetSpeed ==
    /\ phase = "comms" /\ TakeInput
    /\ task_change' = ModuleStatus(task_list, completed)
    /\ UNCHANGED <<phase, scan, task_list, completed, contactVars, heardVars, signature,
                   autonomy_enabled, published>>

\* A message of another agent (handleCommand).
Command(m) ==
    /\ phase = "comms" /\ TakeInput
    /\ \/ m.type = "FORM" /\ HandleForm(m)
       \/ m.type \in {"MOVETO", "PATH_FOLLOW"} /\ HandleMove(m)
       \/ m.type = "WAIT_UNTIL_COMPLETE" /\ HandleWait(m)
       \/ m.type = "OVERWATCH" /\ HandleOverwatch(m)
       \/ m.type = "CANCEL" /\ HandleCancel(m)
       \/ m.type = "CANCEL_ALL" /\ HandleCancelAll(m)
       \/ m.type \in {"ARRIVE", "TASK_COMPLETE"} /\ Hear(m.type, m.sender, m.id)
                                                 /\ UNCHANGED published
    /\ UNCHANGED <<phase, scan, autonomy_enabled>>

\* The node subscribes to the topic it publishes on, so its own arrivals reach
\* it as messages, some cycles later.
OwnMessage(p) ==
    /\ phase = "comms" /\ p.type = "ARRIVE"
    /\ Hear(p.type, Me, p.id)
    /\ published' = published \ {p}
    /\ UNCHANGED <<phase, scan, autonomy_enabled, inputs>>

-----------------------------------------------------------------------------
\* createToiTasks: approach the contact and encircle it, in front of everything
\* that may be preempted.  (The OVERWATCH request is in module Fleet.)
InvestigationList(cs, c) ==
    LET approach == ApproachTask(Me, c, cs[c].pose)
        encircle == EncircleTask(Me, obj_detection_cnt, c, cs[c].pose)
    IN  PreemptInsert(PreemptInsert(task_list, approach), encircle)

CreateToiTasks(cs, c) ==
    /\ contacts' = [cs EXCEPT ![c].is_new = FALSE, ![c].investigating = TRUE]
    /\ obj_detection_cnt' = obj_detection_cnt - 1
    /\ task_list' = InvestigationList(cs, c)
    /\ task_change' = ModuleStatus(task_list', completed)

KeepContact(cs) ==
    /\ contacts' = cs
    /\ UNCHANGED <<obj_detection_cnt, task_list, task_change>>

\* handleContacts, a pose that matches no contact: addContact, and without a
\* confirmation delay its investigation at once.
ReportNew ==
    LET c == contact_count + 1
        allowed == InvestigationAllowed(task_list)
        cs == [contacts EXCEPT ![c] = NewEntry(allowed)]
    IN  /\ phase = "contacts" /\ TakeInput
        /\ contact_count < MaxContacts
        /\ contact_count' = c
        /\ IF ~ConfirmDelay /\ allowed THEN CreateToiTasks(cs, c) ELSE KeepContact(cs)
        /\ UNCHANGED <<phase, scan, completed, investigated_contacts, heardVars,
                       signature, autonomy_enabled, published>>

\* handleContacts, a pose that matches contact c before it has tasks.  The pose
\* moves the contact, unless a sighting follows a track; the delay since it was
\* first seen may or may not be over.
ReportKnown(c) ==
    /\ phase = "contacts" /\ TakeInput
    /\ contacts[c].is_new /\ ~contacts[c].investigated /\ ~contacts[c].dismissed
    /\ \E pose \in {contacts[c].pose, "refined"} :
          LET allowed == InvestigationAllowed(task_list)
              cs == [contacts EXCEPT ![c].reported_while_allowed = allowed,
                                     ![c].pose = pose]
          IN  \/ allowed /\ CreateToiTasks(cs, c)
              \/ (ConfirmDelay \/ ~allowed) /\ KeepContact(cs)
    /\ UNCHANGED <<phase, scan, contact_count, completed, investigated_contacts,
                   heardVars, signature, autonomy_enabled, published>>

\* updateExistingContact, for a contact that has its tasks: they go where it is
\* now.  A circle under way is only planned again for a shift that is far enough.
Refined(t, c, far) ==
    IF IsApproachOf(t, c) \/ (IsEncircleOf(t, c) /\ (far \/ ~t.init_done))
      THEN [t EXCEPT !.pose = "refined"] ELSE t

RefineContact(c) ==
    /\ phase = "contacts" /\ TakeInput
    /\ contacts[c].known /\ ~contacts[c].is_new
    /\ ~contacts[c].investigated /\ ~contacts[c].dismissed
    /\ contacts' = [contacts EXCEPT ![c].pose = "refined"]
    /\ \E far \in BOOLEAN :
          task_list' = [i \in 1..Len(task_list) |-> Refined(task_list[i], c, far)]
    /\ UNCHANGED <<phase, scan, contact_count, obj_detection_cnt, completed,
                   task_change, investigated_contacts, heardVars, signature,
                   autonomy_enabled, published>>

IsPending(c) ==
    /\ contacts[c].is_new /\ contacts[c].reported_while_allowed
    /\ ~contacts[c].investigated /\ ~contacts[c].dismissed

\* Fault: the loop stops before the last contact.
ConfirmPendingButLast(c) ==
    /\ phase = "confirm"
    /\ c > scan /\ IsPending(c) /\ InvestigationAllowed(task_list)
    /\ c < contact_count
    /\ CreateToiTasks(contacts, c)
    /\ scan' = c
    /\ UNCHANGED <<phase, contact_count, completed, investigated_contacts, heardVars,
                   signature, autonomy_enabled, published, inputs>>

\* confirmPendingContacts, one contact after the other in the order of the
\* list: c's delay is over, and those passed over have not waited long enough.
ConfirmPending(c) ==
    /\ phase = "confirm"
    /\ c > scan /\ IsPending(c) /\ InvestigationAllowed(task_list)
    /\ CreateToiTasks(contacts, c)
    /\ scan' = c
    /\ UNCHANGED <<phase, contact_count, completed, investigated_contacts, heardVars,
                   signature, autonomy_enabled, published, inputs>>

-----------------------------------------------------------------------------
\* Whether this cycle's run() or arrival check can finish the task's own work:
\* the goal is reached, the circle swept or given up, the duration over.
MayProgress(t) ==
    CASE t.kind \in {"MoveTo", "PathFollow"} -> CheckGoalArrival
      [] t.kind = "Follow" -> /\ t.formation.term = "ALL_ARRIVED"
                              /\ HasArrival(t.formation.followed, t.id)
      [] t.kind = "WaitUntilComplete" -> FALSE
      [] OTHER -> TRUE

\* The active task after init() and run() in this cycle.
Run(t, progress) ==
    [t EXCEPT !.init_done = TRUE, !.arrived = @ \/ (progress /\ MayProgress(t))]

AllArrived(t) == \A v \in t.formation.members : HasArrival(v, t.id)

\* is_done of each kind of task.
IsDone(t) ==
    CASE t.kind \in {"MoveTo", "PathFollow"} ->
            IF t.formation.term = "ALL_ARRIVED" THEN AllArrived(t) ELSE t.arrived
      [] t.kind = "Follow" ->
            \/ /\ t.formation.term = "LEADER_ARRIVED"
               /\ \/ HasArrival(t.formation.leader, t.id)
                  \/ HasCompletedTask(t.formation.leader, t.id, 0)
            \/ t.formation.term = "ALL_ARRIVED" /\ AllArrived(t)
      [] t.kind = "WaitUntilComplete" ->
            HasCompletedTask(t.target.veh, t.target.id, t.since)
      [] OTHER -> t.arrived

\* The arrival a task announces the first time it gets there.
ArrivalsSaid(before, after) ==
    IF /\ after.kind \in {"MoveTo", "PathFollow", "Follow"}
       /\ after.arrived /\ ~before.arrived
      THEN {Arrival(after.id)} ELSE {}

\* markContactInvestigated, called by Encircle::on_done.
MarkInvestigated(cs, c) ==
    IF c \in ContactIds /\ cs[c].known
      THEN [cs EXCEPT ![c].investigating = FALSE, ![c].investigated = TRUE]
      ELSE cs

\* The active task is started if it has not been, runs, and goes on.
ContinueTask(before, after) ==
    /\ ~IsDone(after)
    /\ task_list' = [task_list EXCEPT ![1] = after]
    /\ task_change' = IF before.init_done THEN task_change
                      ELSE ModuleStatus(task_list', completed)
    /\ published' = published \cup ArrivalsSaid(before, after)
    /\ UNCHANGED <<completed, contacts, investigated_contacts>>

\* The active task is done: it is announced and leaves the list.
FinishTask(before, after) ==
    /\ IsDone(after)
    /\ task_list' = Tail(task_list)
    /\ completed' = completed + 1
    /\ task_change' = ModuleStatus(task_list', completed')
    /\ published' = published \cup ArrivalsSaid(before, after) \cup {CompletionOf(after)}
    /\ contacts' = IF after.kind = "Encircle" THEN MarkInvestigated(contacts, after.contact)
                   ELSE contacts
    /\ investigated_contacts' = SampleAfter(contacts')

UpdateTasks ==
    /\ phase = "update" /\ phase' = "spin"
    /\ task_list # <<>>
    /\ \E progress \in BOOLEAN :
          LET before == task_list[1]
              after == Run(before, progress)
          IN  ContinueTask(before, after) \/ FinishTask(before, after)
    /\ UNCHANGED <<scan, contact_count, obj_detection_cnt, heardVars, signature,
                   autonomy_enabled, inputs>>

Next ==
    \/ Advance
    \/ Spin
    \/ Reset
    \/ GoalReached
    \/ \E m \in Commands : Command(m)
    \/ SetSpeed
    \/ Shutdown
    \/ \E p \in published : OwnMessage(p)
    \/ ReportNew
    \/ \E c \in ContactIds : ReportKnown(c)
    \/ \E c \in ContactIds : RefineContact(c)
    \/ \E c \in ContactIds : ConfirmPending(c)
    \/ UpdateTasks

Spec == Init /\ [][Next]_vars

\* The timer drives the loop through its stages for ever.  The delay after which
\* a contact is confirmed is tested in every cycle and is over some day.  A task
\* of the vehicle's own ends some day: it drives until it is there, an encircle
\* without progress is given up, a duration passes.
Finish == UpdateTasks /\ task_list' # <<>> /\ Len(task_list') < Len(task_list)
FinishLast == UpdateTasks /\ task_list' = <<>>
Fairness ==
    /\ WF_vars(Advance) /\ WF_vars(Spin) /\ WF_vars(UpdateTasks)
    /\ SF_vars(Finish) /\ SF_vars(FinishLast)
    /\ \A c \in ContactIds : SF_vars(ConfirmPending(c))

FairSpec == Spec /\ Fairness

-----------------------------------------------------------------------------
TypeOK ==
    /\ phase \in Phases /\ scan \in Nat
    /\ task_list \in Seq(Tasks) /\ completed \in Nat
    /\ contacts \in [ContactIds -> ContactStates]
    /\ contact_count \in 0..MaxContacts /\ obj_detection_cnt \in Int
    /\ task_completions \in Seq([sender : Vehicles, id : Int])
    /\ arrivals \in SUBSET [sender : Vehicles, id : Int]
    /\ autonomy_enabled \in BOOLEAN
    /\ investigated_contacts \in SUBSET [contact : ContactIds, pose : Poses]
    /\ published \in SUBSET Publications
    /\ inputs \in 0..MaxInputs

-----------------------------------------------------------------------------
\* Tasks that may not be preempted are all in front of those that may: an
\* investigation or an overwatch, once taken on, is worked off before anything
\* the operator preempts or queues.
NonPreemptableFirst ==
    \A i, j \in 1..Len(task_list) :
        i < j /\ ~task_list[j].is_preemptable => ~task_list[i].is_preemptable

\* Only the active task is started; a task that lost its turn starts over.  (A
\* formation change delay keeps its clock, see OnPreempt.)
OnlyActiveStarted ==
    \A i \in 2..Len(task_list) :
        task_list[i].init_done => task_list[i].kind = "WaitForDuration"

\* A contact is marked as being investigated exactly while an encircle task of
\* it is in the list, and there is only one.
InvestigationHasItsTask ==
    /\ \A c \in ContactIds :
          contacts[c].investigating <=>
             \E i \in 1..Len(task_list) : IsEncircleOf(task_list[i], c)
    /\ \A i, j \in 1..Len(task_list) :
          task_list[i].kind = "Encircle" /\ task_list[j].kind = "Encircle"
             /\ task_list[i].contact = task_list[j].contact => i = j

\* An approach to a contact is followed at once by the encircle it is for.
ApproachThenEncircle ==
    \A i \in 1..Len(task_list) :
        task_list[i].kind = "MoveTo" /\ task_list[i].contact # NoContact =>
            i < Len(task_list) /\ IsEncircleOf(task_list[i + 1], task_list[i].contact)

\* The latched topics show the present: a subscriber that joins late is served
\* the tasks there are, in their order, and where the settled contacts are.
LatchedSamplesCurrent ==
    /\ task_change.completed = completed
    /\ Len(task_change.tasks) = Len(task_list)
    /\ \A i \in 1..Len(task_list) :
          [task_change.tasks[i] EXCEPT !.pose = task_list[i].pose]
             = Description(task_list[i])
    /\ investigated_contacts = InvestigatedSample(contacts)

\* The sample on task_change also shows where the tasks go, as the comment on
\* publishTaskChange asks of every operation that changes the tasks.  (It does
\* not: updateExistingContact moves them and publishes nothing.)
LatchedTargetsCurrent ==
    \A i \in 1..Len(task_list) : task_change.tasks[i].pose = task_list[i].pose

IsReset == phase = "reset" /\ contact_count' = 0 /\ task_list' = <<>>

SameTask(t, u) ==
    t.kind = u.kind /\ t.sender = u.sender /\ t.id = u.id /\ t.contact = u.contact

\* No task leaves the list in silence: other vehicles may be waiting on it.
\* (Only a reset drops tasks without announcing them.)
LeavingIsAnnounced ==
    [][\A i \in 1..Len(task_list) :
          \/ \E j \in 1..Len(task_list') : SameTask(task_list[i], task_list'[j])
          \/ CompletionOf(task_list[i]) \in published'
          \/ IsReset]_vars

\* A formation change delay and the formation it delays stay together: whatever
\* preempts or joins the list does not come between them, until the formation
\* itself is cancelled.
IsDelay(t) == t.kind = "WaitForDuration"
DelayKeepsItsFormation ==
    [][\A i \in 1..(Len(task_list) - 1) :
          IsDelay(task_list[i]) =>
             LET formation == task_list[i + 1]
             IN  \/ CompletionOf(formation) \in published' \/ IsReset
                 \/ \E j \in 1..Len(task_list') :
                       /\ SameTask(task_list'[j], formation)
                       /\ IF j = 1 THEN i = 1 ELSE IsDelay(task_list'[j - 1])]_vars

\* A contact that was reported while an investigation was allowed does not wait
\* for one for ever: seen once is enough.
PendingConfirmed ==
    \A c \in ContactIds :
        []<>~(/\ contacts[c].is_new /\ contacts[c].reported_while_allowed
              /\ task_list # <<>> /\ autonomy_enabled)

\* The vehicle works its list off: the active task leaves, unless it waits for
\* others and nothing it waits for has been heard since it was added.
WaitsForOthers(t) ==
    \/ t.formation.term # ""
    \/ /\ t.kind = "WaitUntilComplete"
       /\ \A i \in 1..Len(task_completions) :
             task_completions[i] = [sender |-> t.target.veh, id |-> t.target.id]
                => i <= t.since
ListWorkedOff == []<>(task_list = <<>> \/ WaitsForOthers(task_list[1]))

\* The list is a queue of two bands (module TwoBandQueue), split at the first
\* preemptable task.
Entry(t) == [kind |-> t.kind, sender |-> t.sender, id |-> t.id, contact |-> t.contact]
Split == FirstPreemptable(task_list)
Bands == INSTANCE TwoBandQueue
    WITH committed <- [i \in 1..(Split - 1) |-> Entry(task_list[i])],
         open <- [i \in 1..(Len(task_list) - Split + 1) |-> Entry(task_list[Split + i - 1])]
ImplementsTwoBands == Bands!Spec
=============================================================================
