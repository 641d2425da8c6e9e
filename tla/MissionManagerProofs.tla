------------------------- MODULE MissionManagerProofs -------------------------
(***************************************************************************)
(* Proofs about MissionManager: its types; the order and the marks of the  *)
(* tasks in the list; the contacts and the latched samples that go with    *)
(* them; what leaves the list; and that the list is a queue of two bands.  *)
(*                                                                         *)
(* IInv is the inductive invariant: the types, and a well formed list,     *)
(* which adds to NonPreemptableFirst and OnlyActiveStarted that circles    *)
(* are committed: a preempted circle would keep its start, so if one could *)
(* be preempted the second of the two would not be preserved.              *)
(***************************************************************************)
EXTENDS MissionManager, TaskListProofs

IInv == TypeOK /\ WellFormed(task_list)

\* What the assumption on the constants says of the bounds.
LEMMA BoundTypes == FirstToiId \in Nat /\ MaxContacts \in Nat /\ MaxInputs \in Nat
  BY ManagerAssumption

\* The fields a message has, by its type.
LEMMA CommandFields ==
    ASSUME NEW m \in Commands
    PROVE  /\ m.type \in {"FORM", "MOVETO", "PATH_FOLLOW", "WAIT_UNTIL_COMPLETE",
                          "CANCEL", "CANCEL_ALL"} => m.sender \in Agents /\ m.id \in Int
           /\ m.type \in {"FORM", "MOVETO", "PATH_FOLLOW", "WAIT_UNTIL_COMPLETE"} =>
                m.prio \in Priorities
           /\ m.type = "FORM" => m.formation \in Formations
           /\ m.type = "WAIT_UNTIL_COMPLETE" => m.target \in Targets
           /\ m.type = "OVERWATCH" => m.sender \in Vehicles /\ m.wait_for_msg_id \in Int
           /\ m.type \in {"ARRIVE", "TASK_COMPLETE"} => m.sender \in Vehicles /\ m.id \in Int
<1>1. m \in CommandTypes
  BY ManagerAssumption
<1>2. CASE m \in FormCommands
  BY <1>2 DEF FormCommands
<1>3. CASE m \in MoveCommands
  BY <1>3 DEF MoveCommands
<1>4. CASE m \in WaitCommands
  BY <1>4 DEF WaitCommands
<1>5. CASE m \in CancelCommands
  BY <1>5 DEF CancelCommands
<1>6. CASE m \in CancelAllCommands
  BY <1>6 DEF CancelAllCommands
<1>7. CASE m \in OverwatchCommands
  BY <1>7 DEF OverwatchCommands
<1>8. CASE m \in Notices
  BY <1>8 DEF Notices
<1> QED BY <1>1, <1>2, <1>3, <1>4, <1>5, <1>6, <1>7, <1>8 DEF CommandTypes

\* A new task is a task, not started, and may be preempted.
LEMMA NewTaskType ==
    \A kind \in TaskKinds, sender \in Agents, id \in Int :
        /\ NewTask(kind, sender, id) \in Tasks
        /\ NewTask(kind, sender, id).kind = kind
        /\ NewTask(kind, sender, id).is_preemptable
        /\ ~NewTask(kind, sender, id).init_done
  BY DEF NewTask, Tasks, NoContact, Poses, NoTarget, Targets, NoFormation, Formations

\* The tasks of an investigation and of an overwatch.
LEMMA CommittedTaskTypes ==
    ASSUME NEW c \in Nat, NEW id \in Int, NEW pose \in Poses,
           NEW target \in Targets, NEW since \in Nat
    PROVE  /\ ApproachTask(Me, c, pose) \in Tasks /\ Fresh(ApproachTask(Me, c, pose))
           /\ EncircleTask(Me, id, c, pose) \in Tasks /\ Fresh(EncircleTask(Me, id, c, pose))
           /\ OverwatchMove(Me) \in Tasks /\ Fresh(OverwatchMove(Me))
           /\ OverwatchWait(Me, target, since) \in Tasks
           /\ Fresh(OverwatchWait(Me, target, since))
<1>1. Me \in Agents
  BY ManagerAssumption DEF Agents
<1>2. /\ NewTask("MoveTo", Me, -1) \in Tasks
      /\ NewTask("Encircle", Me, id) \in Tasks
      /\ NewTask("WaitUntilComplete", Me, -1) \in Tasks
  <2>1. {"MoveTo", "Encircle", "WaitUntilComplete"} \subseteq TaskKinds /\ -1 \in Int
    BY DEF TaskKinds
  <2> QED BY <1>1, <2>1, NewTaskType
<1>3. ApproachTask(Me, c, pose) \in Tasks /\ Fresh(ApproachTask(Me, c, pose))
  BY <1>2 DEF ApproachTask, NewTask, Tasks, Fresh
<1>4. EncircleTask(Me, id, c, pose) \in Tasks /\ Fresh(EncircleTask(Me, id, c, pose))
  BY <1>2 DEF EncircleTask, NewTask, Tasks, Fresh
<1>5. OverwatchMove(Me) \in Tasks /\ Fresh(OverwatchMove(Me))
  BY <1>2 DEF OverwatchMove, NewTask, Tasks, Fresh
<1>6. /\ OverwatchWait(Me, target, since) \in Tasks
      /\ Fresh(OverwatchWait(Me, target, since))
  BY <1>2 DEF OverwatchWait, WaitTask, NewTask, Tasks, Fresh
<1> QED BY <1>3, <1>4, <1>5, <1>6

\* The operators on the contacts keep their type.
LEMMA ContactTypes ==
    ASSUME NEW cs \in [ContactIds -> ContactStates]
    PROVE  /\ \A tl : Forget(cs, tl) \in [ContactIds -> ContactStates]
           /\ \A dropped : Dismiss(cs, dropped) \in [ContactIds -> ContactStates]
           /\ \A c : MarkInvestigated(cs, c) \in [ContactIds -> ContactStates]
           /\ InvestigatedSample(cs) \in SUBSET [contact : ContactIds, pose : Poses]
<1>1. NoEntry \in ContactStates
  BY DEF NoEntry, ContactStates, Poses
<1>2. \A tl : Forget(cs, tl) \in [ContactIds -> ContactStates]
  BY <1>1 DEF Forget
<1>3. \A dropped : Dismiss(cs, dropped) \in [ContactIds -> ContactStates]
  BY DEF Dismiss, ContactStates
<1>4. \A c : MarkInvestigated(cs, c) \in [ContactIds -> ContactStates]
  BY DEF MarkInvestigated, ContactStates
<1>5. InvestigatedSample(cs) \in SUBSET [contact : ContactIds, pose : Poses]
  BY DEF InvestigatedSample, Settled, ContactStates
<1> QED BY <1>2, <1>3, <1>4, <1>5

\* What a list announces when it is dropped.
LEMMA PublicationTypes ==
    /\ \A s \in Agents, id \in Int : Completion(s, id) \in Publications
    /\ \A t \in Tasks : CompletionOf(t) \in Publications
    /\ \A tl \in Seq(Tasks) : AllCompletions(tl) \subseteq Publications
    /\ \A id \in Int : Arrival(id) \in Publications
    /\ \A t, u \in Tasks : ArrivalsSaid(t, u) \subseteq Publications
<1>1. \A s \in Agents, id \in Int : Completion(s, id) \in Publications
  BY DEF Completion, Publications
<1>2. \A t \in Tasks : t.sender \in Agents /\ t.id \in Int
  BY DEF Tasks
<1>3. \A t \in Tasks : CompletionOf(t) \in Publications
  BY <1>1, <1>2 DEF CompletionOf
<1>4. \A tl \in Seq(Tasks) : AllCompletions(tl) \subseteq Publications
  BY <1>3 DEF AllCompletions
<1>5. \A id \in Int : Arrival(id) \in Publications
  BY DEF Arrival, Publications
<1>6. \A t, u \in Tasks : ArrivalsSaid(t, u) \subseteq Publications
  BY <1>2, <1>5 DEF ArrivalsSaid
<1> QED BY <1>1, <1>3, <1>4, <1>5, <1>6

-----------------------------------------------------------------------------
\* The part of IInv' that the handlers of messages and contacts are about.
ListStep ==
    /\ task_list' \in Seq(Tasks) /\ WellFormed(task_list') /\ completed' \in Nat
    /\ contacts' \in [ContactIds -> ContactStates]
    /\ contact_count' \in 0..MaxContacts /\ obj_detection_cnt' \in Int
    /\ task_completions' \in Seq([sender : Vehicles, id : Int])
    /\ arrivals' \in SUBSET [sender : Vehicles, id : Int]
    /\ investigated_contacts' \in SUBSET [contact : ContactIds, pose : Poses]
    /\ published' \in SUBSET Publications

\* addTask gives the list it is asked for, and what it announces has its type.
LEMMA AddEffectsStep ==
    ASSUME IInv, NEW prio, NEW new_list \in Seq(Tasks), WellFormed(new_list),
           AddEffects(prio, new_list), UNCHANGED heardVars
    PROVE  ListStep
<1>1. /\ task_list' = new_list /\ task_list \in Seq(Tasks)
      /\ UNCHANGED <<completed, contact_count, obj_detection_cnt, investigated_contacts,
                    task_completions, arrivals>>
  BY DEF AddEffects, IInv, TypeOK, heardVars
<1>2. contacts' \in [ContactIds -> ContactStates]
  BY ContactTypes DEF AddEffects, IInv, TypeOK
<1>3. published' \in SUBSET Publications
  BY <1>1, PublicationTypes DEF AddEffects, IInv, TypeOK
<1> QED BY <1>1, <1>2, <1>3 DEF ListStep, IInv, TypeOK

\* handleFormationRequest, with the delay it may insert.
LEMMA HandleFormStep ==
    ASSUME IInv, NEW m \in Commands, m.type = "FORM", HandleForm(m)
    PROVE  ListStep
<1>1. m.sender \in Agents /\ m.id \in Int /\ m.prio \in Priorities /\ m.formation \in Formations
  BY CommandFields
<1>2. /\ FormationTask(m) \in Tasks /\ Fresh(FormationTask(m))
      /\ FormationTask(m).is_preemptable
  BY ZenonT(40), <1>1, NewTaskType DEF FormationTask, NewTask, Tasks, TaskKinds, Fresh
<1>3. DelayTask(m) \in Tasks /\ Fresh(DelayTask(m)) /\ DelayTask(m).is_preemptable
  <2>1. "WaitForDuration" \in TaskKinds /\ -1 \in Int
    BY DEF TaskKinds
  <2> QED BY <1>1, <2>1, NewTaskType DEF DelayTask, Fresh, NewTask
<1> DEFINE added == AddTask(task_list, FormationTask(m), m.prio)
           p == AddPosition(task_list, m.prio)
<1>4. task_list \in Seq(Tasks) /\ WellFormed(task_list)
  BY DEF IInv, TypeOK
<1>5. /\ added \in Seq(Tasks) /\ WellFormed(added)
      /\ p \in 1..Len(added) /\ added[p] = FormationTask(m)
  BY <1>1, <1>2, <1>4, AddTaskWellFormed
<1> HIDE DEF added, p
<1>6. InsertAt(added, p, DelayTask(m)) \in Seq(Tasks) /\ WellFormed(InsertAt(added, p, DelayTask(m)))
  BY <1>2, <1>3, <1>5, InsertBeforeOpenWellFormed
<1>7. AddEffects(m.prio, IF NeedsDelay(m) THEN InsertAt(added, p, DelayTask(m)) ELSE added)
      /\ UNCHANGED heardVars
  BY DEF HandleForm, added, p
<1> QED BY <1>5, <1>6, <1>7, AddEffectsStep

\* handleMoveTo and handlePathFollow.
LEMMA HandleMoveStep ==
    ASSUME IInv, NEW m \in Commands, m.type \in {"MOVETO", "PATH_FOLLOW"}, HandleMove(m)
    PROVE  ListStep
<1> DEFINE t == NewTask(IF m.type = "MOVETO" THEN "MoveTo" ELSE "PathFollow", m.sender, m.id)
           new == AddTask(task_list, t, m.prio)
<1>1. m.sender \in Agents /\ m.id \in Int /\ m.prio \in Priorities
  BY CommandFields
<1>2. t \in Tasks /\ Fresh(t) /\ t.is_preemptable
  <2>1. (IF m.type = "MOVETO" THEN "MoveTo" ELSE "PathFollow") \in TaskKinds
    BY DEF TaskKinds
  <2> QED BY <1>1, <2>1, NewTaskType DEF Fresh, NewTask
<1>3. task_list \in Seq(Tasks) /\ WellFormed(task_list)
  BY DEF IInv, TypeOK
<1> HIDE DEF t
<1>4. new \in Seq(Tasks) /\ WellFormed(new)
  BY <1>1, <1>2, <1>3, AddTaskWellFormed
<1>5. AddEffects(m.prio, new) /\ UNCHANGED heardVars
  BY DEF HandleMove, t
<1> HIDE DEF new
<1> QED BY <1>4, <1>5, AddEffectsStep

\* handleWaitUntilComplete.
LEMMA HandleWaitStep ==
    ASSUME IInv, NEW m \in Commands, m.type = "WAIT_UNTIL_COMPLETE", HandleWait(m)
    PROVE  ListStep
<1> DEFINE t == WaitTask(m.sender, m.id, m.target, Len(task_completions))
           new == AddTask(task_list, t, m.prio)
<1>1. m.sender \in Agents /\ m.id \in Int /\ m.prio \in Priorities /\ m.target \in Targets
  BY CommandFields
<1>2. t \in Tasks /\ Fresh(t) /\ t.is_preemptable
  <2>1. "WaitUntilComplete" \in TaskKinds /\ Len(task_completions) \in Nat
    BY DEF TaskKinds, IInv, TypeOK
  <2>2. NewTask("WaitUntilComplete", m.sender, m.id) \in Tasks
    BY <1>1, <2>1, NewTaskType
  <2> QED BY <1>1, <2>1, <2>2 DEF WaitTask, NewTask, Tasks, Fresh
<1>3. task_list \in Seq(Tasks) /\ WellFormed(task_list)
  BY DEF IInv, TypeOK
<1> HIDE DEF t
<1>4. new \in Seq(Tasks) /\ WellFormed(new)
  BY <1>1, <1>2, <1>3, AddTaskWellFormed
<1>5. AddEffects(m.prio, new) /\ UNCHANGED heardVars
  BY DEF HandleWait, t
<1> HIDE DEF new
<1> QED BY <1>4, <1>5, AddEffectsStep

\* handleOverwatch.
LEMMA HandleOverwatchStep ==
    ASSUME IInv, NEW m \in Commands, m.type = "OVERWATCH", HandleOverwatch(m)
    PROVE  ListStep
<1> DEFINE target == [veh |-> m.sender, id |-> m.wait_for_msg_id]
           move == OverwatchMove(Me)
           wait == OverwatchWait(Me, target, Len(task_completions))
           one == PreemptInsert(task_list, move)
           two == PreemptInsert(one, wait)
<1>1. target \in Targets /\ Len(task_completions) \in Nat
  BY CommandFields DEF Targets, IInv, TypeOK
<1> HIDE DEF target
<1>2. move \in Tasks /\ Fresh(move) /\ wait \in Tasks /\ Fresh(wait)
  <2>1. 0 \in Nat /\ 0 \in Int /\ "first" \in Poses
    BY DEF Poses
  <2> QED BY <1>1, <2>1, CommittedTaskTypes
<1>3. task_list \in Seq(Tasks) /\ WellFormed(task_list)
  BY DEF IInv, TypeOK
<1> HIDE DEF move, wait
<1>4. one \in Seq(Tasks) /\ WellFormed(one)
  BY <1>2, <1>3, PreemptInsertElements, PreemptInsertWellFormed
<1> HIDE DEF one
<1>5. two \in Seq(Tasks) /\ WellFormed(two)
  BY <1>2, <1>4, PreemptInsertElements, PreemptInsertWellFormed
<1>6. AddEffects("PREEMPT", two) /\ UNCHANGED heardVars
  BY DEF HandleOverwatch, one, move, wait, target
<1> HIDE DEF two
<1> QED BY <1>5, <1>6, AddEffectsStep

\* The tasks that a cancel announces are tasks of the list.
LEMMA CancelledTasksType ==
    ASSUME NEW tl \in Seq(Tasks), NEW id
    PROVE  CancelledTasks(tl, id) \in Seq(Tasks)
<1> DEFINE k == FindTask(tl, id)
           a == FindApproach(tl, tl[k].contact)
<1>1. k \in 0..Len(tl) /\ a \in 0..Len(tl)
  BY FindTaskRange, FindApproachRange
<1>2. CancelledTasks(tl, id) =
        IF k = 0 THEN <<>>
        ELSE IF tl[k].kind = "Encircle" /\ tl[k].contact # NoContact /\ a # 0
          THEN <<tl[k], tl[a]>> ELSE <<tl[k]>>
  BY DEF CancelledTasks
<1> HIDE DEF k, a
<1>3. k # 0 => tl[k] \in Tasks
  BY <1>1
<1>4. a # 0 => tl[a] \in Tasks
  BY <1>1
<1> QED BY <1>2, <1>3, <1>4

\* What cancelling has in common: the list it leaves, and what it announces.
LEMMA CancelEffectsStep ==
    ASSUME IInv, NEW m \in Commands, m.type \in {"CANCEL", "CANCEL_ALL"},
           NEW new_list \in Seq(Tasks), WellFormed(new_list),
           NEW tasks \in Seq(Tasks), NEW dropped,
           CancelEffects(m, new_list, tasks, dropped)
    PROVE  ListStep
<1>1. m.sender \in Agents /\ m.id \in Int
  BY CommandFields
<1>2. published' \in SUBSET Publications
  BY <1>1, PublicationTypes DEF CancelEffects, IInv, TypeOK
<1>3. contacts' \in [ContactIds -> ContactStates]
  BY ContactTypes DEF CancelEffects, IInv, TypeOK
<1>4. investigated_contacts' \in SUBSET [contact : ContactIds, pose : Poses]
  BY <1>3, ContactTypes DEF CancelEffects, SampleAfter, IInv, TypeOK
<1> QED BY <1>2, <1>3, <1>4 DEF CancelEffects, ListStep, IInv, TypeOK, heardVars

\* handleCancelTask.
LEMMA HandleCancelStep ==
    ASSUME IInv, NEW m \in Commands, m.type = "CANCEL", HandleCancel(m)
    PROVE  ListStep
<1>1. task_list \in Seq(Tasks) /\ WellFormed(task_list)
  BY DEF IInv, TypeOK
<1>2. /\ CancelTask(task_list, m.target_msg_id) \in Seq(Tasks)
      /\ WellFormed(CancelTask(task_list, m.target_msg_id))
      /\ CancelledTasks(task_list, m.target_msg_id) \in Seq(Tasks)
  BY <1>1, CancelTaskWellFormed, CancelledTasksType
<1> QED BY <1>2, CancelEffectsStep DEF HandleCancel

\* handleCancelAllTask.
LEMMA HandleCancelAllStep ==
    ASSUME IInv, NEW m \in Commands, m.type = "CANCEL_ALL", HandleCancelAll(m)
    PROVE  ListStep
<1>1. task_list \in Seq(Tasks) /\ <<>> \in Seq(Tasks)
  BY DEF IInv, TypeOK
<1>2. WellFormed(<<>>)
  BY DEF WellFormed, TwoBands, FirstStarted, EncirclesCommitted
<1> QED BY <1>1, <1>2, CancelEffectsStep DEF HandleCancelAll

\* What is heard from other vehicles only extends the logs.
LEMMA HearStep ==
    ASSUME IInv, NEW veh \in Vehicles, NEW id \in Int, NEW type, Hear(type, veh, id),
           published' \in SUBSET published
    PROVE  ListStep
<1>1. [sender |-> veh, id |-> id] \in [sender : Vehicles, id : Int]
  OBVIOUS
<1> DEFINE notice == [sender |-> veh, id |-> id]
           S == [sender : Vehicles, id : Int]
<1>3. /\ notice \in S /\ task_completions \in Seq(S) /\ arrivals \in SUBSET S
      /\ \/ arrivals' = arrivals \cup {notice} /\ task_completions' = task_completions
         \/ task_completions' = Append(task_completions, notice) /\ arrivals' = arrivals
  BY <1>1 DEF Hear, IInv, TypeOK
<1> HIDE DEF notice, S
<1>4. task_completions' \in Seq(S) /\ arrivals' \in SUBSET S
  BY <1>3
<1>2. /\ task_completions' \in Seq([sender : Vehicles, id : Int])
      /\ arrivals' \in SUBSET [sender : Vehicles, id : Int]
  BY <1>4 DEF S
<1> QED BY <1>2 DEF Hear, ListStep, IInv, TypeOK, queueVars, contactVars

\* createToiTasks.
LEMMA CreateToiTasksStep ==
    ASSUME IInv, NEW cs \in [ContactIds -> ContactStates], NEW c \in ContactIds,
           CreateToiTasks(cs, c)
    PROVE  /\ task_list' \in Seq(Tasks) /\ WellFormed(task_list')
           /\ contacts' \in [ContactIds -> ContactStates]
           /\ obj_detection_cnt' \in Int
<1> DEFINE approach == ApproachTask(Me, c, cs[c].pose)
           encircle == EncircleTask(Me, obj_detection_cnt, c, cs[c].pose)
           one == PreemptInsert(task_list, approach)
           two == PreemptInsert(one, encircle)
<1>1. c \in Nat /\ cs[c].pose \in Poses /\ obj_detection_cnt \in Int
  BY ManagerAssumption DEF ContactIds, ContactStates, IInv, TypeOK
<1>2. approach \in Tasks /\ Fresh(approach) /\ encircle \in Tasks /\ Fresh(encircle)
  <2>1. NoTarget \in Targets /\ 0 \in Nat
    BY DEF NoTarget, Targets
  <2> QED BY <1>1, <2>1, CommittedTaskTypes
<1>3. task_list \in Seq(Tasks) /\ WellFormed(task_list)
  BY DEF IInv, TypeOK
<1> HIDE DEF approach, encircle
<1>4. one \in Seq(Tasks) /\ WellFormed(one)
  BY <1>2, <1>3, PreemptInsertElements, PreemptInsertWellFormed
<1> HIDE DEF one
<1>5. two \in Seq(Tasks) /\ WellFormed(two)
  BY <1>2, <1>4, PreemptInsertElements, PreemptInsertWellFormed
<1>6. task_list' = two
  BY DEF CreateToiTasks, InvestigationList, one, approach, encircle
<1>7. contacts' \in [ContactIds -> ContactStates]
  <2> DEFINE tasked == [cs[c] EXCEPT !.is_new = FALSE, !.investigating = TRUE]
  <2>1. tasked \in ContactStates
    BY DEF ContactStates
  <2>2. contacts' = [cs EXCEPT ![c] = tasked]
    BY DEF CreateToiTasks
  <2> HIDE DEF tasked
  <2> QED BY <2>1, <2>2
<1>8. obj_detection_cnt' \in Int
  BY <1>1 DEF CreateToiTasks
<1> QED BY <1>5, <1>6, <1>7, <1>8

\* handleContacts, a new contact.
LEMMA ReportNewStep ==
    ASSUME IInv, ReportNew PROVE ListStep
<1> DEFINE c == contact_count + 1
           allowed == InvestigationAllowed(task_list)
           cs == [contacts EXCEPT ![c] = NewEntry(allowed)]
<1>1. /\ c \in 1..MaxContacts /\ contact_count' = c
      /\ CreateToiTasks(cs, c) \/ KeepContact(cs)
      /\ UNCHANGED <<completed, investigated_contacts, heardVars, published>>
  BY ManagerAssumption DEF ReportNew, IInv, TypeOK
<1>2. allowed \in BOOLEAN
  BY DEF InvestigationAllowed, IInv, TypeOK
<1>3. cs \in [ContactIds -> ContactStates]
  <2>1. NewEntry(allowed) \in ContactStates
    BY <1>2 DEF NewEntry, NoEntry, ContactStates, Poses
  <2> QED BY <2>1 DEF IInv, TypeOK
<1>4. c \in ContactIds
  BY <1>1 DEF ContactIds
<1> HIDE DEF cs, c
<1>5. /\ task_list' \in Seq(Tasks) /\ WellFormed(task_list')
      /\ contacts' \in [ContactIds -> ContactStates]
      /\ obj_detection_cnt' \in Int
  BY <1>1, <1>3, <1>4, CreateToiTasksStep DEF KeepContact, IInv, TypeOK
<1> QED BY <1>1, <1>5, ManagerAssumption DEF ListStep, IInv, TypeOK, heardVars

\* handleContacts, a contact that has no tasks yet.
LEMMA ReportKnownStep ==
    ASSUME IInv, NEW c \in ContactIds, ReportKnown(c) PROVE ListStep
<1> DEFINE allowed == InvestigationAllowed(task_list)
           cs(pose) == [contacts EXCEPT ![c].reported_while_allowed = allowed,
                                        ![c].pose = pose]
<1>1. PICK pose \in {contacts[c].pose, "refined"} : CreateToiTasks(cs(pose), c) \/ KeepContact(cs(pose))
  BY DEF ReportKnown
<1>2. UNCHANGED <<contact_count, completed, investigated_contacts, heardVars, published>>
  BY DEF ReportKnown
<1>3. cs(pose) \in [ContactIds -> ContactStates]
  <2>1. allowed \in BOOLEAN
    BY DEF InvestigationAllowed, IInv, TypeOK
  <2>2. pose \in Poses /\ contacts \in [ContactIds -> ContactStates]
    BY DEF Poses, ContactStates, IInv, TypeOK
  <2> HIDE DEF allowed
  <2> QED BY <2>1, <2>2 DEF ContactStates
<1> HIDE DEF cs
<1>4. /\ task_list' \in Seq(Tasks) /\ WellFormed(task_list')
      /\ contacts' \in [ContactIds -> ContactStates]
      /\ obj_detection_cnt' \in Int
  BY <1>1, <1>3, CreateToiTasksStep DEF KeepContact, IInv, TypeOK
<1> QED BY <1>2, <1>4 DEF ListStep, IInv, TypeOK, heardVars

\* confirmPendingContacts.
LEMMA ConfirmPendingStep ==
    ASSUME IInv, NEW c \in ContactIds, ConfirmPending(c) PROVE ListStep
<1>1. /\ CreateToiTasks(contacts, c)
      /\ UNCHANGED <<contact_count, completed, investigated_contacts, heardVars, published>>
  BY DEF ConfirmPending
<1>2. contacts \in [ContactIds -> ContactStates]
  BY DEF IInv, TypeOK
<1>3. /\ task_list' \in Seq(Tasks) /\ WellFormed(task_list')
      /\ contacts' \in [ContactIds -> ContactStates]
      /\ obj_detection_cnt' \in Int
  BY <1>1, <1>2, CreateToiTasksStep
<1> QED BY <1>1, <1>3 DEF ListStep, IInv, TypeOK, heardVars

\* Changing the active task's data, but not its kind or its mark.
LEMMA NewHeadWellFormed ==
    ASSUME NEW tl \in Seq(Tasks), tl # <<>>, NEW t \in Tasks,
           t.kind = tl[1].kind, t.is_preemptable = tl[1].is_preemptable
    PROVE  /\ [tl EXCEPT ![1] = t] \in Seq(Tasks)
           /\ WellFormed(tl) => WellFormed([tl EXCEPT ![1] = t])
<1> DEFINE new == [tl EXCEPT ![1] = t]
<1>1. /\ new \in Seq(Tasks) /\ Len(new) = Len(tl)
      /\ \A i \in 1..Len(tl) : new[i] = IF i = 1 THEN t ELSE tl[i]
  OBVIOUS
<1> HIDE DEF new
<1>2. \A i \in 1..Len(tl) : /\ new[i].kind = tl[i].kind
                            /\ new[i].is_preemptable = tl[i].is_preemptable
                            /\ i # 1 => new[i].init_done = tl[i].init_done
  BY <1>1
<1>3. WellFormed(tl) => WellFormed(new)
  BY <1>1, <1>2, SameMarksWellFormed
<1> QED BY <1>1, <1>3 DEF new

\* onGoalReached.
LEMMA GoalReachedStep ==
    ASSUME IInv, GoalReached PROVE ListStep
<1> DEFINE t == [task_list[1] EXCEPT !.arrived = TRUE]
<1>1. task_list \in Seq(Tasks) /\ task_list # <<>> /\ WellFormed(task_list)
  BY DEF GoalReached, IInv, TypeOK
<1>2. task_list[1] \in Tasks
  BY <1>1
<1>3. /\ t \in Tasks /\ t.kind = task_list[1].kind
      /\ t.is_preemptable = task_list[1].is_preemptable /\ task_list[1].id \in Int
  BY <1>2 DEF Tasks
<1>4. task_list' = [task_list EXCEPT ![1] = t]
  BY DEF GoalReached
<1> HIDE DEF t
<1>5. task_list' \in Seq(Tasks) /\ WellFormed(task_list')
  BY <1>1, <1>3, <1>4, NewHeadWellFormed
<1>6. published' \in SUBSET Publications
  BY <1>3, PublicationTypes DEF GoalReached, IInv, TypeOK
<1> QED BY <1>5, <1>6 DEF GoalReached, ListStep, IInv, TypeOK, contactVars, heardVars

\* updateExistingContact.
LEMMA RefineContactStep ==
    ASSUME IInv, NEW c \in ContactIds, RefineContact(c) PROVE ListStep
<1>1. task_list \in Seq(Tasks) /\ WellFormed(task_list)
  BY DEF IInv, TypeOK
<1>2. PICK far \in BOOLEAN :
         task_list' = [i \in 1..Len(task_list) |-> Refined(task_list[i], c, far)]
  BY DEF RefineContact
<1>3. \A t \in Tasks : /\ Refined(t, c, far) \in Tasks
                       /\ Refined(t, c, far).kind = t.kind
                       /\ Refined(t, c, far).is_preemptable = t.is_preemptable
                       /\ Refined(t, c, far).init_done = t.init_done
  BY DEF Refined, Tasks, Poses
<1>4. \A i \in 1..Len(task_list) : task_list[i] \in Tasks
  BY <1>1
<1>5. /\ task_list' \in Seq(Tasks) /\ Len(task_list') = Len(task_list)
      /\ \A i \in 1..Len(task_list) :
            /\ task_list'[i].kind = task_list[i].kind
            /\ task_list'[i].is_preemptable = task_list[i].is_preemptable
            /\ i # 1 => task_list'[i].init_done = task_list[i].init_done
  BY <1>1, <1>2, <1>3, <1>4
<1>6. WellFormed(task_list')
  BY <1>1, <1>5, SameMarksWellFormed
<1>7. contacts' \in [ContactIds -> ContactStates]
  <2> DEFINE moved == [contacts[c] EXCEPT !.pose = "refined"]
  <2>1. moved \in ContactStates /\ contacts \in [ContactIds -> ContactStates]
    BY DEF ContactStates, Poses, IInv, TypeOK
  <2>2. contacts' = [contacts EXCEPT ![c] = moved]
    BY DEF RefineContact
  <2> HIDE DEF moved
  <2> QED BY <2>1, <2>2
<1> QED BY <1>5, <1>6, <1>7 DEF RefineContact, ListStep, IInv, TypeOK, heardVars

\* updateTasks.
LEMMA UpdateTasksStep ==
    ASSUME IInv, UpdateTasks PROVE ListStep
<1> DEFINE before == task_list[1]
<1>1. PICK progress \in BOOLEAN : \/ ContinueTask(before, Run(before, progress))
                                 \/ FinishTask(before, Run(before, progress))
  BY DEF UpdateTasks
<1> DEFINE after == Run(before, progress)
<1>2. /\ task_list \in Seq(Tasks) /\ task_list # <<>> /\ WellFormed(task_list)
      /\ contacts \in [ContactIds -> ContactStates]
      /\ UNCHANGED <<contact_count, obj_detection_cnt, heardVars>>
  BY DEF UpdateTasks, IInv, TypeOK
<1>3. before \in Tasks
  BY <1>2
<1>4. after \in Tasks /\ after.kind = before.kind /\ after.is_preemptable = before.is_preemptable
  BY <1>3 DEF Run, Tasks
<1>5. ArrivalsSaid(before, after) \subseteq Publications /\ CompletionOf(after) \in Publications
  BY <1>3, <1>4, PublicationTypes
<1>6. CASE ContinueTask(before, after)
  <2>1. task_list' \in Seq(Tasks) /\ WellFormed(task_list')
    <3> HIDE DEF after
    <3>1. task_list' = [task_list EXCEPT ![1] = after]
      BY <1>6 DEF ContinueTask
    <3> QED BY <1>2, <1>4, <3>1, NewHeadWellFormed
  <2> HIDE DEF after, before
  <2> QED BY <1>2, <1>5, <1>6, <2>1 DEF ContinueTask, ListStep, IInv, TypeOK, heardVars
<1>7. CASE FinishTask(before, after)
  <2> HIDE DEF after, before
  <2>1. task_list' \in Seq(Tasks) /\ WellFormed(task_list')
    BY <1>2, <1>7, TailWellFormed DEF FinishTask
  <2>2. contacts' \in [ContactIds -> ContactStates]
    BY <1>2, <1>7, ContactTypes DEF FinishTask
  <2>3. investigated_contacts' \in SUBSET [contact : ContactIds, pose : Poses]
    BY <1>7, <2>2, ContactTypes DEF FinishTask, SampleAfter, IInv, TypeOK
  <2> QED BY <1>2, <1>5, <1>7, <2>1, <2>2, <2>3
          DEF FinishTask, ListStep, IInv, TypeOK, heardVars
<1> QED BY <1>1, <1>6, <1>7

\* A message of another agent, whatever it is.
LEMMA CommandStep ==
    ASSUME IInv, NEW m \in Commands, Command(m) PROVE ListStep
<1>1. CASE m.type = "FORM" /\ HandleForm(m)
  BY <1>1, HandleFormStep
<1>2. CASE m.type \in {"MOVETO", "PATH_FOLLOW"} /\ HandleMove(m)
  BY <1>2, HandleMoveStep
<1>3. CASE m.type = "WAIT_UNTIL_COMPLETE" /\ HandleWait(m)
  BY <1>3, HandleWaitStep
<1>4. CASE m.type = "OVERWATCH" /\ HandleOverwatch(m)
  BY <1>4, HandleOverwatchStep
<1>5. CASE m.type = "CANCEL" /\ HandleCancel(m)
  BY <1>5, HandleCancelStep
<1>6. CASE m.type = "CANCEL_ALL" /\ HandleCancelAll(m)
  BY <1>6, HandleCancelAllStep
<1>7. CASE /\ m.type \in {"ARRIVE", "TASK_COMPLETE"}
           /\ Hear(m.type, m.sender, m.id) /\ UNCHANGED published
  <2>1. m.sender \in Vehicles /\ m.id \in Int
    BY <1>7, CommandFields
  <2> QED BY <1>7, <2>1, HearStep
<1> QED BY <1>1, <1>2, <1>3, <1>4, <1>5, <1>6, <1>7 DEF Command

-----------------------------------------------------------------------------
\* The invariant holds at the start.
LEMMA InitInvariant == Init => IInv
<1> SUFFICES ASSUME Init PROVE IInv
  OBVIOUS
<1>1. task_list = <<>> /\ task_completions = <<>> /\ arrivals = {}
  BY DEF Init
<1>2. WellFormed(task_list)
  BY <1>1 DEF WellFormed, TwoBands, FirstStarted, EncirclesCommitted
<1>3. contacts \in [ContactIds -> ContactStates]
  BY DEF Init, NoEntry, ContactStates, Poses
<1>4. task_list \in Seq(Tasks) /\ task_completions \in Seq([sender : Vehicles, id : Int])
  BY <1>1
<1>5. /\ phase \in Phases /\ scan \in Nat /\ completed \in Nat /\ autonomy_enabled \in BOOLEAN
      /\ contact_count \in 0..MaxContacts /\ obj_detection_cnt \in Int /\ inputs \in 0..MaxInputs
  <2>1. /\ phase = "reset" /\ scan = 0 /\ completed = 0 /\ autonomy_enabled = TRUE
        /\ contact_count = 0 /\ obj_detection_cnt = FirstToiId /\ inputs = 0
    BY DEF Init
  <2> QED BY <2>1, BoundTypes DEF Phases
<1>6. investigated_contacts = {} /\ published = {}
  BY DEF Init
<1> QED BY <1>1, <1>2, <1>3, <1>4, <1>5, <1>6 DEF IInv, TypeOK

\* What a step leaves of the invariant when it has done its part for the lists.
LEMMA StepInvariant ==
    ASSUME ListStep, phase' \in Phases, scan' \in Nat, autonomy_enabled' \in BOOLEAN,
           inputs' \in 0..MaxInputs
    PROVE  IInv'
<1>1. WellFormed(task_list)'
  BY DEF ListStep, WellFormed, TwoBands, FirstStarted, EncirclesCommitted
<1> QED BY <1>1 DEF ListStep, IInv, TypeOK

\* A step that leaves the lists and what is published alone, but for a loss.
LEMMA UnchangedStep ==
    ASSUME IInv, UNCHANGED <<queueVars, contactVars, heardVars>>,
           published' \subseteq published
    PROVE  ListStep
<1>1. /\ task_list' = task_list /\ completed' = completed
      /\ contacts' = contacts /\ contact_count' = contact_count
      /\ obj_detection_cnt' = obj_detection_cnt
      /\ investigated_contacts' = investigated_contacts
      /\ task_completions' = task_completions /\ arrivals' = arrivals
  BY DEF queueVars, contactVars, heardVars
<1> QED BY <1>1 DEF IInv, TypeOK, ListStep

\* Every step keeps the invariant.
LEMMA NextInvariant == IInv /\ [Next]_vars => IInv'
<1> SUFFICES ASSUME IInv, [Next]_vars PROVE IInv'
  OBVIOUS
<1>0. /\ phase \in Phases /\ scan \in Nat /\ autonomy_enabled \in BOOLEAN
      /\ inputs \in 0..MaxInputs /\ MaxInputs \in Nat
  BY ManagerAssumption DEF IInv, TypeOK
<1>1. CASE Advance
  <2>1. ListStep
    BY <1>1, UnchangedStep DEF Advance
  <2> QED BY <1>0, <1>1, <2>1, StepInvariant DEF Advance, Phases
<1>2. CASE Spin
  <2>1. ListStep
    BY <1>2, UnchangedStep DEF Spin
  <2> QED BY <1>0, <1>2, <2>1, StepInvariant DEF Spin, Phases
<1>3. CASE Reset
  <2>1. task_list' = <<>> /\ task_completions' = <<>> /\ arrivals' = {}
    BY <1>3 DEF Reset
  <2>2. WellFormed(task_list')
    BY <2>1 DEF WellFormed, TwoBands, FirstStarted, EncirclesCommitted
  <2>3. contacts' \in [ContactIds -> ContactStates]
    BY <1>3 DEF Reset, NoEntry, ContactStates, Poses
  <2>4. task_list' \in Seq(Tasks) /\ task_completions' \in Seq([sender : Vehicles, id : Int])
    BY <2>1
  <2>5. completed' \in Nat /\ contact_count' \in 0..MaxContacts /\ obj_detection_cnt' \in Int
    <3>1. completed' = 0 /\ contact_count' = 0 /\ obj_detection_cnt' = FirstToiId
      BY <1>3 DEF Reset
    <3> QED BY <3>1, BoundTypes
  <2>6. investigated_contacts' = {} /\ published' \in SUBSET Publications
    BY <1>3 DEF Reset, IInv, TypeOK
  <2>7. ListStep
    BY <2>1, <2>2, <2>3, <2>4, <2>5, <2>6 DEF ListStep
  <2>8. /\ phase' \in Phases /\ scan' = scan /\ autonomy_enabled' = autonomy_enabled
        /\ TakeInput
    BY <1>3 DEF Reset, Phases
  <2> QED BY <1>0, <2>7, <2>8, StepInvariant DEF TakeInput
<1>4. CASE GoalReached
  BY <1>0, <1>4, GoalReachedStep, StepInvariant DEF GoalReached
<1>5. ASSUME NEW m \in Commands, Command(m) PROVE IInv'
  BY <1>0, <1>5, CommandStep, StepInvariant DEF Command, TakeInput
<1>6. CASE Shutdown
  <2>1. ListStep
    BY <1>6, UnchangedStep DEF Shutdown
  <2> QED BY <1>0, <1>6, <2>1, StepInvariant DEF Shutdown, TakeInput, Phases
<1>14. CASE SetSpeed
  <2>1. ListStep
    BY <1>14 DEF SetSpeed, IInv, TypeOK, ListStep, contactVars, heardVars
  <2> QED BY <1>0, <1>14, <2>1, StepInvariant DEF SetSpeed, TakeInput
<1>7. ASSUME NEW p \in published, OwnMessage(p) PROVE IInv'
  <2>1. p.id \in Int /\ Me \in Vehicles
    <3>1. p \in Publications
      BY DEF IInv, TypeOK
    <3> QED BY <3>1, ManagerAssumption DEF Publications
  <2>2. ListStep
    <3>1. Hear(p.type, Me, p.id) /\ published' \in SUBSET published
      BY <1>7 DEF OwnMessage
    <3> QED BY <2>1, <3>1, HearStep
  <2> QED BY <1>0, <1>7, <2>2, StepInvariant DEF OwnMessage
<1>8. CASE ReportNew
  BY <1>0, <1>8, ReportNewStep, StepInvariant DEF ReportNew, TakeInput
<1>9. ASSUME NEW c \in ContactIds, ReportKnown(c) PROVE IInv'
  <2>1. ListStep
    BY <1>9, ReportKnownStep
  <2>2. phase' = phase /\ scan' = scan /\ autonomy_enabled' = autonomy_enabled /\ TakeInput
    BY <1>9 DEF ReportKnown
  <2> QED BY <1>0, <2>1, <2>2, StepInvariant DEF TakeInput
<1>10. ASSUME NEW c \in ContactIds, RefineContact(c) PROVE IInv'
  <2>1. ListStep
    BY <1>10, RefineContactStep
  <2>2. phase' = phase /\ scan' = scan /\ autonomy_enabled' = autonomy_enabled /\ TakeInput
    BY <1>10 DEF RefineContact
  <2> QED BY <1>0, <2>1, <2>2, StepInvariant DEF TakeInput
<1>11. ASSUME NEW c \in ContactIds, ConfirmPending(c) PROVE IInv'
  <2>1. c \in Nat
    BY DEF ContactIds
  <2> QED BY <1>0, <1>11, <2>1, ConfirmPendingStep, StepInvariant DEF ConfirmPending
<1>12. CASE UpdateTasks
  BY <1>0, <1>12, UpdateTasksStep, StepInvariant DEF UpdateTasks, Phases
<1>13. CASE UNCHANGED vars
  <2>1. ListStep
    BY <1>13, UnchangedStep DEF vars
  <2> QED BY <1>0, <1>13, <2>1, StepInvariant DEF vars
<1> QED BY <1>1, <1>2, <1>3, <1>4, <1>5, <1>6, <1>7, <1>8, <1>9, <1>10, <1>11, <1>12,
           <1>13, <1>14 DEF Next

\* Every reachable state satisfies the inductive invariant.
THEOREM InvariantHolds == Spec => []IInv
  BY InitInvariant, NextInvariant, PTL DEF Spec

\* The node's state keeps its types, whatever commands, contacts and resets come
\* in whatever order.
THEOREM TypeCorrect == Spec => []TypeOK
<1>1. IInv => TypeOK
  BY DEF IInv
<1> QED BY <1>1, InvariantHolds, PTL

\* addTask, cancelTask, the formation delay and everything else that changes the
\* list keep the tasks that may not be preempted in front of those that may.
THEOREM CommittedTasksFirst == Spec => []NonPreemptableFirst
<1>1. IInv => NonPreemptableFirst
  BY DEF IInv, WellFormed, TwoBands, NonPreemptableFirst
<1> QED BY <1>1, InvariantHolds, PTL

\* A task behind the active one is not started: what was preempted starts over
\* (onPreempt), so no task goes on with what it knew before it lost its turn.
THEOREM OthersNotStarted == Spec => []OnlyActiveStarted
<1>1. IInv => OnlyActiveStarted
  BY DEF IInv, WellFormed, FirstStarted, OnlyActiveStarted
<1> QED BY <1>1, InvariantHolds, PTL

-----------------------------------------------------------------------------
(***************************************************************************)
(* Investigations, the latched samples and what leaves the list.           *)
(*                                                                         *)
(* MissionInv is inductive together with IInv.  It ties the marks of the   *)
(* contacts to the circles in the list: a contact is marked exactly while  *)
(* its only circle is there, and then it is neither new nor settled.  That *)
(* a cancelled circle takes its own approach with it, that CANCEL_ALL      *)
(* forgets what it drops and nothing else, and that the samples need not   *)
(* be published again where the code does not, all rests on this.          *)
(***************************************************************************)
EntryOK(e) == /\ e.investigating => e.known /\ ~e.is_new /\ ~e.investigated /\ ~e.dismissed
              /\ e.is_new => e.known

ContactsMatch(cs, n, tl) ==
    /\ \A c \in ContactIds : EntryOK(cs[c])
    /\ \A c \in ContactIds : cs[c].investigating <=> c \in EncircledContacts(tl)
    /\ EncircledContacts(tl) \subseteq ContactIds
    /\ \A c \in ContactIds : c > n => cs[c] = NoEntry

\* A status sample that shows the tasks, but perhaps not where they are now.
Shows(sample, tl, n) ==
    /\ sample.completed = n
    /\ Len(sample.tasks) = Len(tl)
    /\ \A i \in 1..Len(tl) :
          \E q \in Poses : sample.tasks[i] = [Description(tl[i]) EXCEPT !.pose = q]

\* Formation delays may be preempted, and have the id -1.
DelaysOpen(tl) ==
    \A i \in 1..Len(tl) : IsDelay(tl[i]) => tl[i].is_preemptable /\ tl[i].id = -1

MissionInv ==
    /\ Paired(task_list) /\ DelaysOpen(task_list)
    /\ ContactsMatch(contacts, contact_count, task_list)
    /\ Shows(task_change, task_list, completed)
    /\ investigated_contacts = InvestigatedSample(contacts)

\* A task that a command adds.
Ordinary(t) == Plain(t) /\ (IsDelay(t) => t.is_preemptable /\ t.id = -1)

-----------------------------------------------------------------------------
\* What MissionInv is to be after a step, in terms of the new values.
MissionStep ==
    /\ Paired(task_list') /\ DelaysOpen(task_list')
    /\ ContactsMatch(contacts', contact_count', task_list')
    /\ Shows(task_change', task_list', completed')
    /\ investigated_contacts' = InvestigatedSample(contacts')

LEMMA MissionStepInvariant == MissionStep => MissionInv'
  BY DEF MissionStep, MissionInv

\* What a step may do to the list, with what it announces (see LeavingIsAnnounced
\* and module TwoBandQueue): a block of committed or of open tasks is put in; tasks
\* are taken out and announced; everything is, and makes place for a command; or a
\* reset drops the list.  A delay only leaves from the front, unless a command
\* names its id.
DelaysNamed == \E m \in Commands : m.type = "CANCEL" /\ m.target_msg_id = -1

Grows(p, b) ==
    /\ b \in Seq(Tasks) /\ Inserted(task_list', task_list, p, b)
    /\ \/ \A i \in 1..Len(b) : b[i].is_preemptable
       \/ /\ p = FirstPreemptable(task_list)
          /\ \A i \in 1..Len(b) : ~b[i].is_preemptable

Shrinks(p, n) ==
    /\ Deleted(task_list', task_list, p, n)
    /\ \A i \in p..(p + n - 1) :
          /\ CompletionOf(task_list[i]) \in published'
          /\ IsDelay(task_list[i]) => (p = 1 /\ n = 1) \/ DelaysNamed

Superseded ==
    /\ AllCompletions(task_list) \subseteq published'
    /\ Len(task_list') \in 0..2
    /\ \A i \in 1..Len(task_list') : task_list'[i].is_preemptable

ListEffect ==
    \/ \E p, b : Grows(p, b)
    \/ \E p, n : Shrinks(p, n)
    \/ Superseded
    \/ IsReset /\ task_list' = <<>>

-----------------------------------------------------------------------------
\* A sample that has just been made shows its list.
LEMMA StatusShows ==
    ASSUME NEW tl \in Seq(Tasks), NEW n
    PROVE  Shows(ModuleStatus(tl, n), tl, n)
<1> DEFINE sample == ModuleStatus(tl, n)
<1>1. /\ sample.completed = n
      /\ sample.tasks = [i \in 1..Len(tl) |-> Description(tl[i])]
  BY DEF ModuleStatus
<1>2. Len(tl) \in Nat
  OBVIOUS
<1> HIDE DEF sample
<1>3. Len(sample.tasks) = Len(tl)
  BY <1>1, <1>2
<1>4. ASSUME NEW i \in 1..Len(tl)
      PROVE  \E q \in Poses : sample.tasks[i] = [Description(tl[i]) EXCEPT !.pose = q]
  <2>1. tl[i] \in Tasks
    OBVIOUS
  <2>2. tl[i].pose \in Poses
    BY <2>1 DEF Tasks
  <2>3. [Description(tl[i]) EXCEPT !.pose = tl[i].pose] = Description(tl[i])
    BY DEF Description
  <2>4. sample.tasks[i] = Description(tl[i])
    BY <1>1
  <2> QED BY <2>2, <2>3, <2>4
<1> QED BY <1>1, <1>3, <1>4 DEF Shows, sample

\* It goes on to show a list whose tasks are alike, wherever they are.
LEMMA AlikeShows ==
    ASSUME NEW tl \in Seq(Tasks), NEW new \in Seq(Tasks), NEW sample, NEW n,
           Shows(sample, tl, n), Len(new) = Len(tl),
           \A i \in 1..Len(tl) : Alike(new[i], tl[i])
    PROVE  Shows(sample, new, n)
<1>1. sample.completed = n /\ Len(sample.tasks) = Len(new)
  BY DEF Shows
<1>2. ASSUME NEW i \in 1..Len(new)
      PROVE  \E q \in Poses : sample.tasks[i] = [Description(new[i]) EXCEPT !.pose = q]
  <2>1. i \in 1..Len(tl) /\ Alike(new[i], tl[i])
    BY <1>2
  <2>2. PICK q \in Poses : sample.tasks[i] = [Description(tl[i]) EXCEPT !.pose = q]
    BY <2>1 DEF Shows
  <2>3. [Description(tl[i]) EXCEPT !.pose = q] = [Description(new[i]) EXCEPT !.pose = q]
    BY <2>1 DEF Description, Alike
  <2> QED BY <2>2, <2>3
<1> QED BY <1>1, <1>2 DEF Shows

\* The sample of settled contacts only depends on which they are and where.
LEMMA SameSettled ==
    ASSUME NEW cs, NEW ds,
           \A c \in ContactIds :
              /\ c \in Settled(cs) <=> c \in Settled(ds)
              /\ c \in Settled(cs) => cs[c].pose = ds[c].pose
    PROVE  InvestigatedSample(cs) = InvestigatedSample(ds)
  BY DEF InvestigatedSample, Settled

\* Putting in tasks without a part in investigations, or nothing.
LEMMA PlainInserted ==
    ASSUME IInv, MissionInv, NEW new \in Seq(Tasks), NEW b \in Seq(Tasks), NEW p,
           Inserted(new, task_list, p, b), \A i \in 1..Len(b) : Ordinary(b[i])
    PROVE  /\ Paired(new) /\ DelaysOpen(new)
           /\ EncircledContacts(new) = EncircledContacts(task_list)
<1>1. task_list \in Seq(Tasks) /\ EncirclesCommitted(task_list) /\ Paired(task_list)
  BY DEF IInv, TypeOK, WellFormed, MissionInv
<1>2. \A i \in 1..Len(b) : Plain(b[i])
  BY DEF Ordinary
<1>3. Paired(new) /\ EncircledContacts(new) = EncircledContacts(task_list)
  BY <1>1, <1>2, InsertPlain
<1>4. \A i \in 1..Len(new) :
         \/ i \in 1..Len(task_list) /\ Alike(new[i], task_list[i])
         \/ i - p + 1 \in 1..Len(b) /\ new[i] = b[i - p + 1]
         \/ i - Len(b) \in 1..Len(task_list) /\ Alike(new[i], task_list[i - Len(b)])
  BY <1>1, InsertedElements
<1>5. DelaysOpen(new)
  BY SMTT(40), <1>4 DEF DelaysOpen, MissionInv, Ordinary, Alike, IsDelay
<1> QED BY <1>3, <1>5

\* Taking tasks out.
LEMMA DelaysDeleted ==
    ASSUME NEW tl \in Seq(Tasks), NEW new \in Seq(Tasks), NEW p, NEW n,
           Deleted(new, tl, p, n), DelaysOpen(tl)
    PROVE  DelaysOpen(new)
<1>1. \A i \in 1..Len(new) : \E j \in 1..Len(tl) : new[i] = tl[j]
  <2> TAKE i \in 1..Len(new)
  <2>1. CASE i < p
    BY <2>1 DEF Deleted
  <2>2. CASE i >= p
    <3>1. i + n \in (p + n)..Len(tl) /\ (i + n) - n = i
      BY <2>2 DEF Deleted
    <3> QED BY <3>1 DEF Deleted
  <2> QED BY <2>1, <2>2 DEF Deleted
<1> QED BY <1>1 DEF DelaysOpen

-----------------------------------------------------------------------------
\* A list of tasks that commands added.
LEMMA OrdinaryList ==
    ASSUME NEW new \in Seq(Tasks), \A i \in 1..Len(new) : Ordinary(new[i])
    PROVE  Paired(new) /\ DelaysOpen(new) /\ EncircledContacts(new) = {}
<1>1. \A i \in 1..Len(new) : new[i].kind # "Encircle" /\ ~IsApproach(new[i])
  BY DEF Ordinary, Plain
<1>2. Paired(new)
  BY <1>1 DEF Paired, CirclesHaveContacts, ApproachesCommitted, OneCircle, ApproachFollowed
<1>3. EncircledContacts(new) = {}
  BY <1>1 DEF EncircledContacts
<1> QED BY <1>2, <1>3 DEF DelaysOpen, Ordinary

\* CANCEL_ALL forgets the contacts it drops the circles of, and no others; these
\* were not settled, so the sample of settled contacts stays right.
LEMMA ForgetContacts ==
    ASSUME IInv, MissionInv, NEW new, EncircledContacts(new) = {}
    PROVE  /\ ContactsMatch(Forget(contacts, task_list), contact_count, new)
           /\ InvestigatedSample(Forget(contacts, task_list)) = InvestigatedSample(contacts)
<1> DEFINE cs == Forget(contacts, task_list)
<1>1. ASSUME NEW c \in ContactIds
      PROVE  cs[c] = IF contacts[c].investigating THEN NoEntry ELSE contacts[c]
  BY DEF Forget, MissionInv, ContactsMatch, EntryOK
<1> HIDE DEF cs
<1>2. ContactsMatch(cs, contact_count, new)
  BY <1>1 DEF MissionInv, ContactsMatch, EntryOK, NoEntry
<1>3. \A c \in ContactIds : /\ c \in Settled(cs) <=> c \in Settled(contacts)
                            /\ c \in Settled(cs) => cs[c].pose = contacts[c].pose
  BY <1>1 DEF Settled, NoEntry, MissionInv, ContactsMatch, EntryOK
<1>4. InvestigatedSample(cs) = InvestigatedSample(contacts)
  BY <1>3, SameSettled
<1> QED BY <1>2, <1>4 DEF cs

\* The list that a command asks addTask for.
Addition(prio, new) ==
    IF prio = "CANCEL_ALL"
      THEN /\ Len(new) \in 1..2
           /\ \A i \in 1..Len(new) : Ordinary(new[i]) /\ new[i].is_preemptable
      ELSE \E b \in Seq(Tasks) : \E p :
              /\ Inserted(new, task_list, p, b)
              /\ \A i \in 1..Len(b) : Ordinary(b[i])
              /\ \/ \A i \in 1..Len(b) : b[i].is_preemptable
                 \/ /\ p = FirstPreemptable(task_list)
                    /\ \A i \in 1..Len(b) : ~b[i].is_preemptable

LEMMA AddEffectsMission ==
    ASSUME IInv, MissionInv, NEW prio, NEW new \in Seq(Tasks), Addition(prio, new),
           AddEffects(prio, new)
    PROVE  MissionStep /\ ListEffect
<1>1. /\ task_list' = new /\ completed' = completed /\ contact_count' = contact_count
      /\ investigated_contacts' = investigated_contacts
      /\ task_change' = ModuleStatus(new, completed)
  BY DEF AddEffects
<1>2. Shows(task_change', task_list', completed')
  BY <1>1, StatusShows
<1>3. CASE prio = "CANCEL_ALL"
  <2>1. /\ contacts' = Forget(contacts, task_list)
        /\ AllCompletions(task_list) \subseteq published'
    BY <1>3 DEF AddEffects
  <2>2. /\ Len(new) \in 1..2
        /\ \A i \in 1..Len(new) : Ordinary(new[i]) /\ new[i].is_preemptable
    BY <1>3 DEF Addition
  <2>3. Paired(new) /\ DelaysOpen(new) /\ EncircledContacts(new) = {}
    BY <2>2, OrdinaryList
  <2>4. /\ ContactsMatch(contacts', contact_count', new)
        /\ investigated_contacts' = InvestigatedSample(contacts')
    BY <1>1, <2>1, <2>3, ForgetContacts DEF MissionInv
  <2>5. Superseded
    BY <1>1, <2>1, <2>2 DEF Superseded
  <2> QED BY <1>1, <1>2, <2>3, <2>4, <2>5 DEF MissionStep, ListEffect
<1>4. CASE prio # "CANCEL_ALL"
  <2>1. contacts' = contacts
    BY <1>4 DEF AddEffects
  <2>2. PICK b \in Seq(Tasks) : \E p :
              /\ Inserted(new, task_list, p, b)
              /\ \A i \in 1..Len(b) : Ordinary(b[i])
              /\ \/ \A i \in 1..Len(b) : b[i].is_preemptable
                 \/ /\ p = FirstPreemptable(task_list)
                    /\ \A i \in 1..Len(b) : ~b[i].is_preemptable
    BY <1>4 DEF Addition
  <2>3. PICK p :
              /\ Inserted(new, task_list, p, b)
              /\ \A i \in 1..Len(b) : Ordinary(b[i])
              /\ \/ \A i \in 1..Len(b) : b[i].is_preemptable
                 \/ /\ p = FirstPreemptable(task_list)
                    /\ \A i \in 1..Len(b) : ~b[i].is_preemptable
    BY <2>2
  <2>4. /\ Paired(new) /\ DelaysOpen(new)
        /\ EncircledContacts(new) = EncircledContacts(task_list)
    BY <2>3, PlainInserted
  <2>5. ContactsMatch(contacts', contact_count', new)
    BY <1>1, <2>1, <2>4 DEF MissionInv, ContactsMatch
  <2>6. Grows(p, b)
    BY <1>1, <2>3 DEF Grows
  <2> QED BY <1>1, <1>2, <2>1, <2>4, <2>5, <2>6 DEF MissionStep, ListEffect, MissionInv
<1> QED BY <1>3, <1>4

\* One or two tasks that may be preempted, as addTask leaves them.
LEMMA TaskAddition ==
    ASSUME NEW t \in Tasks, Ordinary(t), t.is_preemptable, NEW prio \in Priorities,
           task_list \in Seq(Tasks)
    PROVE  Addition(prio, AddTask(task_list, t, prio))
<1>1. /\ <<t>> \in Seq(Tasks) /\ Len(<<t>>) = 1
      /\ \A i \in 1..Len(<<t>>) : Ordinary(<<t>>[i]) /\ <<t>>[i].is_preemptable
  OBVIOUS
<1>2. CASE prio = "CANCEL_ALL"
  BY <1>1, <1>2 DEF AddTask, Addition
<1>3. CASE prio # "CANCEL_ALL"
  BY <1>1, <1>3, AddInserted DEF Addition
<1> QED BY <1>2, <1>3

LEMMA DelayedAddition ==
    ASSUME NEW t \in Tasks, Ordinary(t), t.is_preemptable, NEW prio \in Priorities,
           NEW d \in Tasks, Ordinary(d), d.is_preemptable, task_list \in Seq(Tasks)
    PROVE  Addition(prio, InsertAt(AddTask(task_list, t, prio),
                                   AddPosition(task_list, prio), d))
<1>1. /\ <<d, t>> \in Seq(Tasks) /\ Len(<<d, t>>) = 2
      /\ \A i \in 1..Len(<<d, t>>) : Ordinary(<<d, t>>[i]) /\ <<d, t>>[i].is_preemptable
  OBVIOUS
<1>2. CASE prio = "CANCEL_ALL"
  <2> DEFINE one == <<t>>
             new == InsertAt(one, 1, d)
  <2>1. InsertAt(AddTask(task_list, t, prio), AddPosition(task_list, prio), d) = new
    BY <1>2 DEF AddTask, AddPosition
  <2>2. one \in Seq(Tasks) /\ Len(one) = 1 /\ one[1] = t
    OBVIOUS
  <2> HIDE DEF one
  <2>3. /\ Len(new) = 2
        /\ \A i \in 1..2 : new[i] = IF i = 1 THEN d ELSE one[i - 1]
    <3>1. one \in Seq(Tasks) /\ d \in Tasks /\ Len(one) + 1 = 2
      BY <2>2
    <3>2. /\ Len(new) = Len(one) + 1
          /\ \A i \in 1..(Len(one) + 1) : new[i] = IF i = 1 THEN d ELSE one[i - 1]
      BY <3>1, InsertInFront
    <3> HIDE DEF new
    <3> QED BY <3>1, <3>2
  <2> HIDE DEF new
  <2>4. new[1] = d /\ new[2] = t
    BY <2>2, <2>3
  <2>5. \A i \in 1..Len(new) : Ordinary(new[i]) /\ new[i].is_preemptable
    BY <2>3, <2>4
  <2> QED BY <1>2, <2>1, <2>3, <2>5 DEF Addition
<1>3. CASE prio # "CANCEL_ALL"
  BY <1>1, <1>3, DelayInserted DEF Addition
<1> QED BY <1>2, <1>3

\* handleFormationRequest.
LEMMA HandleFormMission ==
    ASSUME IInv, MissionInv, NEW m \in Commands, m.type = "FORM", HandleForm(m),
           task_list' \in Seq(Tasks)
    PROVE  MissionStep /\ ListEffect
<1>1. m.sender \in Agents /\ m.id \in Int /\ m.prio \in Priorities /\ m.formation \in Formations
  BY CommandFields
<1>2. /\ FormationTask(m) \in Tasks /\ FormationTask(m).is_preemptable
      /\ Ordinary(FormationTask(m))
  BY ZenonT(40), <1>1, NewTaskType
     DEF FormationTask, NewTask, Tasks, TaskKinds, Ordinary, Plain, IsApproach, IsDelay
<1>3. DelayTask(m) \in Tasks /\ DelayTask(m).is_preemptable /\ Ordinary(DelayTask(m))
  <2>1. "WaitForDuration" \in TaskKinds /\ -1 \in Int
    BY DEF TaskKinds
  <2>2. DelayTask(m) \in Tasks /\ DelayTask(m).is_preemptable
    BY <1>1, <2>1, NewTaskType DEF DelayTask
  <2> QED BY <2>2 DEF DelayTask, NewTask, Ordinary, Plain, IsApproach
<1>4. task_list \in Seq(Tasks)
  BY DEF IInv, TypeOK
<1> DEFINE added == AddTask(task_list, FormationTask(m), m.prio)
           new == IF NeedsDelay(m)
                    THEN InsertAt(added, AddPosition(task_list, m.prio), DelayTask(m))
                    ELSE added
<1>5. Addition(m.prio, new)
  BY <1>1, <1>2, <1>3, <1>4, TaskAddition, DelayedAddition
<1>6. AddEffects(m.prio, new)
  BY DEF HandleForm
<1> HIDE DEF new
<1>7. new \in Seq(Tasks)
  BY <1>6 DEF AddEffects
<1> QED BY <1>5, <1>6, <1>7, AddEffectsMission

\* handleMoveTo and handlePathFollow.
LEMMA HandleMoveMission ==
    ASSUME IInv, MissionInv, NEW m \in Commands, m.type \in {"MOVETO", "PATH_FOLLOW"},
           HandleMove(m), task_list' \in Seq(Tasks)
    PROVE  MissionStep /\ ListEffect
<1> DEFINE t == NewTask(IF m.type = "MOVETO" THEN "MoveTo" ELSE "PathFollow", m.sender, m.id)
           new == AddTask(task_list, t, m.prio)
<1>1. m.sender \in Agents /\ m.id \in Int /\ m.prio \in Priorities
  BY CommandFields
<1>2. t \in Tasks /\ t.is_preemptable /\ Ordinary(t)
  <2>1. (IF m.type = "MOVETO" THEN "MoveTo" ELSE "PathFollow") \in TaskKinds
    BY DEF TaskKinds
  <2>2. t \in Tasks /\ t.is_preemptable
    BY <1>1, <2>1, NewTaskType
  <2> QED BY <2>2 DEF NewTask, Ordinary, Plain, IsApproach, IsDelay
<1>3. task_list \in Seq(Tasks)
  BY DEF IInv, TypeOK
<1>4. AddEffects(m.prio, new)
  BY DEF HandleMove
<1> HIDE DEF t
<1>5. Addition(m.prio, new)
  BY <1>1, <1>2, <1>3, TaskAddition
<1> HIDE DEF new
<1>6. new \in Seq(Tasks)
  BY <1>4 DEF AddEffects
<1> QED BY <1>4, <1>5, <1>6, AddEffectsMission

\* handleWaitUntilComplete.
LEMMA HandleWaitMission ==
    ASSUME IInv, MissionInv, NEW m \in Commands, m.type = "WAIT_UNTIL_COMPLETE",
           HandleWait(m), task_list' \in Seq(Tasks)
    PROVE  MissionStep /\ ListEffect
<1> DEFINE t == WaitTask(m.sender, m.id, m.target, Len(task_completions))
           new == AddTask(task_list, t, m.prio)
<1>1. m.sender \in Agents /\ m.id \in Int /\ m.prio \in Priorities /\ m.target \in Targets
  BY CommandFields
<1>2. t \in Tasks /\ t.is_preemptable /\ Ordinary(t)
  <2>1. "WaitUntilComplete" \in TaskKinds /\ Len(task_completions) \in Nat
    BY DEF TaskKinds, IInv, TypeOK
  <2>2. NewTask("WaitUntilComplete", m.sender, m.id) \in Tasks
    BY <1>1, <2>1, NewTaskType
  <2> QED BY <1>1, <2>1, <2>2
        DEF WaitTask, NewTask, Tasks, Ordinary, Plain, IsApproach, IsDelay
<1>3. task_list \in Seq(Tasks)
  BY DEF IInv, TypeOK
<1>4. AddEffects(m.prio, new)
  BY DEF HandleWait
<1> HIDE DEF t
<1>5. Addition(m.prio, new)
  BY <1>1, <1>2, <1>3, TaskAddition
<1> HIDE DEF new
<1>6. new \in Seq(Tasks)
  BY <1>4 DEF AddEffects
<1> QED BY <1>4, <1>5, <1>6, AddEffectsMission

\* handleOverwatch.
LEMMA HandleOverwatchMission ==
    ASSUME IInv, MissionInv, NEW m \in Commands, m.type = "OVERWATCH",
           HandleOverwatch(m), task_list' \in Seq(Tasks)
    PROVE  MissionStep /\ ListEffect
<1> DEFINE target == [veh |-> m.sender, id |-> m.wait_for_msg_id]
           move == OverwatchMove(Me)
           wait == OverwatchWait(Me, target, Len(task_completions))
           new == PreemptInsert(PreemptInsert(task_list, move), wait)
<1>1. target \in Targets /\ Len(task_completions) \in Nat
  BY CommandFields DEF Targets, IInv, TypeOK
<1>2. AddEffects("PREEMPT", new)
  BY DEF HandleOverwatch
<1> HIDE DEF target
<1>3. move \in Tasks /\ wait \in Tasks
  <2>1. 0 \in Nat /\ 0 \in Int /\ "first" \in Poses
    BY DEF Poses
  <2> QED BY <1>1, <2>1, CommittedTaskTypes
<1>4. /\ ~move.is_preemptable /\ Ordinary(move)
      /\ ~wait.is_preemptable /\ Ordinary(wait)
  BY DEF OverwatchMove, OverwatchWait, WaitTask, NewTask, Ordinary, Plain, IsApproach,
         NoContact, IsDelay
<1>5. task_list \in Seq(Tasks)
  BY DEF IInv, TypeOK
<1> HIDE DEF move, wait
<1>6. Addition("PREEMPT", new)
  <2>1. Inserted(new, task_list, FirstPreemptable(task_list), <<move, wait>>)
    BY <1>3, <1>4, <1>5, PreemptTwiceInserted
  <2> HIDE DEF new
  <2>2. /\ <<move, wait>> \in Seq(Tasks)
        /\ \A i \in 1..Len(<<move, wait>>) :
              Ordinary(<<move, wait>>[i]) /\ ~<<move, wait>>[i].is_preemptable
    BY <1>3, <1>4
  <2> QED BY <2>1, <2>2 DEF Addition
<1> HIDE DEF new
<1>7. new \in Seq(Tasks)
  BY <1>2 DEF AddEffects
<1> QED BY <1>2, <1>6, <1>7, AddEffectsMission

-----------------------------------------------------------------------------
\* The contacts of circles that are cancelled are dismissed, and no others.
LEMMA DismissContacts ==
    ASSUME IInv, MissionInv, NEW new, NEW dropped,
           EncircledContacts(new) \subseteq EncircledContacts(task_list),
           dropped = EncircledContacts(task_list) \ EncircledContacts(new)
    PROVE  ContactsMatch(Dismiss(contacts, dropped), contact_count, new)
<1> DEFINE cs == Dismiss(contacts, dropped)
<1>1. ASSUME NEW c \in ContactIds
      PROVE  cs[c] = IF contacts[c].investigating /\ c \notin EncircledContacts(new)
                       THEN [contacts[c] EXCEPT !.investigating = FALSE, !.dismissed = TRUE]
                       ELSE contacts[c]
  BY DEF Dismiss, MissionInv, ContactsMatch, EntryOK
<1>2. \A c \in ContactIds : contacts[c] \in ContactStates
  BY DEF IInv, TypeOK
<1> HIDE DEF cs
<1>3. \A c \in ContactIds : EntryOK(cs[c])
  <2> TAKE c \in ContactIds
  <2>1. EntryOK(contacts[c])
    BY DEF MissionInv, ContactsMatch
  <2> QED BY <1>1, <1>2, <2>1 DEF EntryOK, ContactStates
<1>4. \A c \in ContactIds : cs[c].investigating <=> c \in EncircledContacts(new)
  <2> TAKE c \in ContactIds
  <2>1. contacts[c].investigating <=> c \in EncircledContacts(task_list)
    BY DEF MissionInv, ContactsMatch
  <2> QED BY <1>1, <1>2, <2>1 DEF ContactStates
<1>5. EncircledContacts(new) \subseteq ContactIds
  BY DEF MissionInv, ContactsMatch
<1>6. \A c \in ContactIds : c > contact_count => cs[c] = NoEntry
  <2> TAKE c \in ContactIds
  <2>1. c > contact_count => contacts[c] = NoEntry
    BY DEF MissionInv, ContactsMatch
  <2>2. ~NoEntry.investigating
    BY DEF NoEntry
  <2> QED BY <1>1, <2>1, <2>2
<1> QED BY <1>3, <1>4, <1>5, <1>6 DEF ContactsMatch, cs

\* What cancelling does to the contacts and the samples.
LEMMA CancelEffectsMission ==
    ASSUME IInv, MissionInv, NEW m, NEW new \in Seq(Tasks), NEW tasks, NEW dropped,
           Paired(new), DelaysOpen(new),
           EncircledContacts(new) \subseteq EncircledContacts(task_list),
           dropped = EncircledContacts(task_list) \ EncircledContacts(new),
           CancelEffects(m, new, tasks, dropped)
    PROVE  MissionStep
<1>1. /\ task_list' = new /\ completed' = completed /\ contact_count' = contact_count
      /\ task_change' = ModuleStatus(new, completed)
      /\ contacts' = Dismiss(contacts, dropped)
      /\ investigated_contacts' = SampleAfter(contacts')
  BY DEF CancelEffects
<1>2. Shows(task_change', task_list', completed')
  BY <1>1, StatusShows
<1>3. ContactsMatch(contacts', contact_count', task_list')
  BY <1>1, DismissContacts
<1>4. investigated_contacts' = InvestigatedSample(contacts')
  BY <1>1 DEF SampleAfter, MissionInv
<1> QED BY <1>1, <1>2, <1>3, <1>4 DEF MissionStep

\* handleCancelTask.
LEMMA HandleCancelMission ==
    ASSUME IInv, MissionInv, NEW m \in Commands, m.type = "CANCEL", HandleCancel(m)
    PROVE  MissionStep /\ ListEffect
<1> DEFINE id == m.target_msg_id
           new == CancelTask(task_list, id)
           tasks == CancelledTasks(task_list, id)
<1>1. /\ task_list \in Seq(Tasks) /\ WellFormed(task_list)
      /\ Paired(task_list) /\ DelaysOpen(task_list)
  BY DEF IInv, TypeOK, MissionInv
<1>2. CancelEffects(m, new, tasks, EncircledContacts(tasks))
  BY DEF HandleCancel, CancelledContacts
<1>3. new \in Seq(Tasks)
  BY <1>1, CancelTaskWellFormed
<1> HIDE DEF id
<1>4. PICK p, n : CancelBlock(task_list, id, p, n)
  BY <1>1, CancelDeleted
<1>11. /\ Deleted(new, task_list, p, n)
       /\ n # 0 /\ p > 1 => ~IsApproach(task_list[p - 1])
       /\ \A i \in p..(p + n - 1) : task_list[i].id = id \/ IsApproach(task_list[i])
       /\ \A i \in p..(p + n - 1) : \E j \in 1..Len(tasks) : tasks[j] = task_list[i]
       /\ \A j \in 1..Len(tasks) : \E i \in p..(p + n - 1) : tasks[j] = task_list[i]
  BY <1>4 DEF CancelBlock
<1> HIDE DEF new, tasks
<1>5. Paired(new) /\ DelaysOpen(new)
  BY <1>1, <1>3, <1>11, DeletePaired, DelaysDeleted
<1>6. \A c : c \in EncircledContacts(new) <=>
                /\ c \in EncircledContacts(task_list)
                /\ \A i \in p..(p + n - 1) : ~IsEncircleOf(task_list[i], c)
  BY <1>1, <1>3, <1>11, DeletePaired
<1>7. \A c : c \in EncircledContacts(tasks) <=>
                /\ c \in EncircledContacts(task_list)
                /\ \E i \in p..(p + n - 1) : IsEncircleOf(task_list[i], c)
  <2> TAKE c
  <2>1. c \in EncircledContacts(tasks) <=>
           c # NoContact /\ \E i \in p..(p + n - 1) : IsEncircleOf(task_list[i], c)
    BY <1>11, EncircledMember DEF IsEncircleOf
  <2>2. ASSUME NEW i \in p..(p + n - 1), IsEncircleOf(task_list[i], c), c # NoContact
        PROVE  c \in EncircledContacts(task_list)
    <3>1. i \in 1..Len(task_list)
      BY <1>1, <1>11 DEF Deleted
    <3> QED BY <2>2, <3>1, EncircledMember DEF IsEncircleOf
  <2>3. c \in EncircledContacts(task_list) => c # NoContact
    BY EncircledMember
  <2> QED BY <2>1, <2>2, <2>3
<1>8. /\ EncircledContacts(new) \subseteq EncircledContacts(task_list)
      /\ EncircledContacts(tasks) = EncircledContacts(task_list) \ EncircledContacts(new)
  BY <1>6, <1>7
<1>9. MissionStep
  BY <1>2, <1>3, <1>5, <1>8, CancelEffectsMission
<1>10. Shrinks(p, n)
  <2>1. task_list' = new /\ AllCompletions(tasks) \subseteq published'
    BY <1>2 DEF CancelEffects
  <2>2. \A i \in p..(p + n - 1) : CompletionOf(task_list[i]) \in published'
    BY <1>11, <2>1 DEF AllCompletions
  <2>3. ASSUME NEW i \in p..(p + n - 1), IsDelay(task_list[i])
        PROVE  DelaysNamed
    <3>1. i \in 1..Len(task_list)
      BY <1>1, <1>11 DEF Deleted
    <3>2. task_list[i].id = -1
      BY <1>1, <2>3, <3>1 DEF DelaysOpen
    <3>3. task_list[i].id = id
      BY <1>11, <2>3 DEF IsDelay, IsApproach
    <3> QED BY <3>2, <3>3 DEF DelaysNamed, id
  <2> QED BY <1>11, <2>1, <2>2, <2>3 DEF Shrinks
<1> QED BY <1>9, <1>10 DEF ListEffect

\* handleCancelAllTask.
LEMMA HandleCancelAllMission ==
    ASSUME IInv, MissionInv, NEW m, HandleCancelAll(m)
    PROVE  MissionStep /\ ListEffect
<1>1. CancelEffects(m, <<>>, task_list, EncircledContacts(task_list))
  BY DEF HandleCancelAll
<1>2. /\ <<>> \in Seq(Tasks)
      /\ Paired(<<>>) /\ DelaysOpen(<<>>) /\ EncircledContacts(<<>>) = {}
  <2>1. <<>> \in Seq(Tasks) /\ \A i \in 1..Len(<<>>) : Ordinary(<<>>[i])
    OBVIOUS
  <2> QED BY <2>1, OrdinaryList
<1>3. MissionStep
  BY <1>1, <1>2, CancelEffectsMission
<1>4. Superseded
  BY <1>1 DEF CancelEffects, Superseded
<1> QED BY <1>3, <1>4 DEF ListEffect

-----------------------------------------------------------------------------
\* The contacts with a report of c, which is neither investigated nor dismissed,
\* nor being investigated, n of them.
Reported(cs, c, n) ==
    /\ cs \in [ContactIds -> ContactStates]
    /\ \A d \in ContactIds \ {c} : cs[d] = contacts[d]
    /\ cs[c].is_new /\ cs[c].known
    /\ ~cs[c].investigating /\ ~cs[c].investigated /\ ~cs[c].dismissed
    /\ ~contacts[c].investigating /\ ~contacts[c].investigated /\ ~contacts[c].dismissed
    /\ n \in Nat /\ c <= n /\ contact_count <= n

LEMMA KeepContactMission ==
    ASSUME IInv, MissionInv, NEW c \in ContactIds, NEW cs, Reported(cs, c, contact_count'),
           KeepContact(cs), UNCHANGED <<completed, investigated_contacts>>
    PROVE  MissionStep /\ ListEffect
<1>1. /\ contacts' = cs /\ task_list' = task_list /\ task_change' = task_change
      /\ completed' = completed /\ investigated_contacts' = investigated_contacts
      /\ task_list \in Seq(Tasks)
  BY DEF KeepContact, IInv, TypeOK
<1>2. /\ \A d \in ContactIds : EntryOK(cs[d])
      /\ \A d \in ContactIds : cs[d].investigating <=> contacts[d].investigating
      /\ \A d \in ContactIds : /\ d \in Settled(cs) <=> d \in Settled(contacts)
                               /\ d \in Settled(cs) => cs[d].pose = contacts[d].pose
  BY DEF Reported, MissionInv, ContactsMatch, EntryOK, Settled
<1>3. \A d \in ContactIds : d > contact_count' => cs[d] = NoEntry
  <2> TAKE d \in ContactIds
  <2>1. d \in Nat /\ contact_count \in Nat /\ c \in Nat
    BY BoundTypes DEF ContactIds, IInv, TypeOK
  <2>2. d > contact_count' => d # c /\ d > contact_count
    BY <2>1 DEF Reported
  <2> QED BY <2>2 DEF Reported, MissionInv, ContactsMatch
<1>4. ContactsMatch(cs, contact_count', task_list)
  BY <1>2, <1>3 DEF MissionInv, ContactsMatch
<1>5. InvestigatedSample(cs) = InvestigatedSample(contacts)
  BY <1>2, SameSettled
<1>6. Grows(Len(task_list) + 1, <<>>)
  <2>1. Inserted(task_list', task_list, Len(task_list) + 1, <<>>)
    BY <1>1, AlikeInserted DEF Alike
  <2> QED BY <2>1 DEF Grows
<1> QED BY <1>1, <1>4, <1>5, <1>6 DEF MissionStep, ListEffect, MissionInv

\* createToiTasks: the contact is marked and gets its circle in one step.
LEMMA CreateToiTasksMission ==
    ASSUME IInv, MissionInv, NEW c \in ContactIds, NEW cs, Reported(cs, c, contact_count'),
           CreateToiTasks(cs, c), UNCHANGED <<completed, investigated_contacts>>,
           task_list' \in Seq(Tasks)
    PROVE  MissionStep /\ ListEffect
<1> DEFINE approach == ApproachTask(Me, c, cs[c].pose)
           encircle == EncircleTask(Me, obj_detection_cnt, c, cs[c].pose)
           new == PreemptInsert(PreemptInsert(task_list, approach), encircle)
<1>1. /\ task_list' = new /\ completed' = completed
      /\ task_change' = ModuleStatus(task_list', completed)
      /\ contacts' = [cs EXCEPT ![c].is_new = FALSE, ![c].investigating = TRUE]
      /\ investigated_contacts' = investigated_contacts
  BY DEF CreateToiTasks, InvestigationList
<1>2. /\ task_list \in Seq(Tasks) /\ EncirclesCommitted(task_list)
      /\ Paired(task_list) /\ DelaysOpen(task_list)
  BY DEF IInv, TypeOK, WellFormed, MissionInv
<1>3. c \in Nat /\ c # NoContact /\ cs[c].pose \in Poses /\ obj_detection_cnt \in Int
  BY BoundTypes DEF ContactIds, NoContact, Reported, ContactStates, IInv, TypeOK
<1>4. approach \in Tasks /\ encircle \in Tasks
  <2>1. NoTarget \in Targets /\ 0 \in Nat
    BY DEF NoTarget, Targets
  <2> QED BY <1>3, <2>1, CommittedTaskTypes
<1>5. /\ IsApproachOf(approach, c) /\ ~approach.is_preemptable
      /\ IsEncircleOf(encircle, c) /\ ~encircle.is_preemptable
  BY DEF ApproachTask, EncircleTask, NewTask, IsApproachOf, IsEncircleOf
<1> HIDE DEF approach, encircle
<1> DEFINE b == <<approach, encircle>>
<1>6. b \in Seq(Tasks) /\ Len(b) = 2 /\ b[1] = approach /\ b[2] = encircle
  BY <1>4
<1>7. Inserted(new, task_list, FirstPreemptable(task_list), b)
  BY <1>2, <1>4, <1>5, PreemptTwiceInserted
<1> HIDE DEF new, b
<1>8. c \notin EncircledContacts(task_list)
  BY DEF Reported, MissionInv, ContactsMatch
<1>9. Paired(new) /\ EncircledContacts(new) = EncircledContacts(task_list) \cup {c}
  <2>1. IsInvestigation(b, c)
    BY <1>3, <1>5, <1>6 DEF IsInvestigation
  <2> QED BY <1>1, <1>2, <1>6, <1>7, <1>8, <2>1, InsertInvestigation
<1>10. DelaysOpen(new)
  <2>1. \A i \in 1..Len(new) :
           \/ i \in 1..Len(task_list) /\ Alike(new[i], task_list[i])
           \/ \E k \in 1..2 : new[i] = b[k]
           \/ i - 2 \in 1..Len(task_list) /\ Alike(new[i], task_list[i - 2])
    <3>1. \A i \in 1..Len(new) :
             \/ i \in 1..Len(task_list) /\ Alike(new[i], task_list[i])
             \/ i - FirstPreemptable(task_list) + 1 \in 1..Len(b)
                /\ new[i] = b[i - FirstPreemptable(task_list) + 1]
             \/ i - Len(b) \in 1..Len(task_list) /\ Alike(new[i], task_list[i - Len(b)])
      BY ZenonT(40), <1>1, <1>2, <1>6, <1>7, InsertedElements
    <3> QED BY <1>6, <3>1
  <2>2. \A k \in 1..2 : ~IsDelay(b[k])
    BY <1>5, <1>6 DEF IsDelay, IsApproachOf, IsEncircleOf
  <2> QED BY <1>2, <2>1, <2>2 DEF DelaysOpen, Alike, IsDelay
<1>11. \A d \in ContactIds :
          contacts'[d] = IF d = c
                           THEN [cs[c] EXCEPT !.is_new = FALSE, !.investigating = TRUE]
                           ELSE contacts[d]
  BY <1>1 DEF Reported
<1>12. cs[c] \in ContactStates
  BY DEF Reported
<1>13. \A d \in ContactIds : EntryOK(contacts'[d])
  <2> TAKE d \in ContactIds
  <2>1. CASE d = c
    BY <1>11, <1>12, <2>1 DEF Reported, EntryOK, ContactStates
  <2>2. CASE d # c
    BY <1>11, <2>2 DEF MissionInv, ContactsMatch
  <2> QED BY <2>1, <2>2
<1>14. \A d \in ContactIds : contacts'[d].investigating <=> d \in EncircledContacts(new)
  BY <1>9, <1>11, <1>12 DEF ContactStates, MissionInv, ContactsMatch
<1>15. \A d \in ContactIds : /\ d \in Settled(contacts') <=> d \in Settled(contacts)
                             /\ d \in Settled(contacts') => contacts'[d].pose = contacts[d].pose
  BY <1>11, <1>12 DEF Reported, ContactStates, Settled
<1>16. \A d \in ContactIds : d > contact_count' => contacts'[d] = NoEntry
  <2> TAKE d \in ContactIds
  <2>1. d \in Nat /\ contact_count \in Nat /\ c \in Nat
    BY BoundTypes DEF ContactIds, IInv, TypeOK
  <2>2. d > contact_count' => d # c /\ d > contact_count
    BY <2>1 DEF Reported
  <2> QED BY <1>11, <2>2 DEF MissionInv, ContactsMatch
<1>17. ContactsMatch(contacts', contact_count', new)
  BY <1>9, <1>13, <1>14, <1>16 DEF MissionInv, ContactsMatch
<1>18. investigated_contacts' = InvestigatedSample(contacts')
  BY <1>1, <1>15, SameSettled DEF MissionInv
<1>19. Shows(task_change', task_list', completed')
  BY <1>1, StatusShows
<1>20. Grows(FirstPreemptable(task_list), b)
  BY <1>1, <1>5, <1>6, <1>7 DEF Grows
<1> QED BY <1>1, <1>9, <1>10, <1>17, <1>18, <1>19, <1>20 DEF MissionStep, ListEffect

\* handleContacts, a new contact.
LEMMA ReportNewMission ==
    ASSUME IInv, MissionInv, ReportNew, task_list' \in Seq(Tasks)
    PROVE  MissionStep /\ ListEffect
<1> DEFINE c == contact_count + 1
           allowed == InvestigationAllowed(task_list)
           cs == [contacts EXCEPT ![c] = NewEntry(allowed)]
<1>1. /\ c \in ContactIds /\ contact_count \in Nat /\ contact_count' = c
      /\ CreateToiTasks(cs, c) \/ KeepContact(cs)
      /\ UNCHANGED <<completed, investigated_contacts>>
  BY BoundTypes DEF ReportNew, ContactIds, IInv, TypeOK
<1>2. contacts \in [ContactIds -> ContactStates] /\ allowed \in BOOLEAN
  BY DEF InvestigationAllowed, IInv, TypeOK
<1> HIDE DEF allowed
<1>3. NewEntry(allowed) \in ContactStates
  BY <1>2 DEF NewEntry, NoEntry, ContactStates, Poses
<1>4. cs \in [ContactIds -> ContactStates] /\ cs[c] = NewEntry(allowed)
  BY <1>1, <1>2, <1>3
<1>5. contacts[c] = NoEntry
  <2>1. c > contact_count
    BY <1>1
  <2> QED BY <1>1, <2>1 DEF MissionInv, ContactsMatch
<1>6. Reported(cs, c, c)
  <2>1. \A d \in ContactIds \ {c} : cs[d] = contacts[d]
    BY <1>2
  <2>2. c \in Nat /\ c <= c /\ contact_count <= c
    BY <1>1
  <2> HIDE DEF c, cs
  <2> QED BY <1>4, <1>5, <2>1, <2>2 DEF Reported, NewEntry, NoEntry
<1> HIDE DEF c, cs
<1> QED BY <1>1, <1>6, KeepContactMission, CreateToiTasksMission

\* handleContacts, a contact that has no tasks yet.
LEMMA ReportKnownMission ==
    ASSUME IInv, MissionInv, NEW c \in ContactIds, ReportKnown(c), task_list' \in Seq(Tasks)
    PROVE  MissionStep /\ ListEffect
<1> DEFINE allowed == InvestigationAllowed(task_list)
           cs(pose) == [contacts EXCEPT ![c].reported_while_allowed = allowed,
                                        ![c].pose = pose]
<1>1. PICK pose \in {contacts[c].pose, "refined"} :
         CreateToiTasks(cs(pose), c) \/ KeepContact(cs(pose))
  BY DEF ReportKnown
<1>2. UNCHANGED <<contact_count, completed, investigated_contacts>>
  BY DEF ReportKnown
<1>3. allowed \in BOOLEAN /\ pose \in Poses /\ contacts \in [ContactIds -> ContactStates]
      /\ contacts[c] \in ContactStates
  BY DEF InvestigationAllowed, Poses, ContactStates, IInv, TypeOK
<1> HIDE DEF allowed
<1> DEFINE entry == [contacts[c] EXCEPT !.reported_while_allowed = allowed, !.pose = pose]
<1>4. cs(pose) = [contacts EXCEPT ![c] = entry]
  BY <1>3
<1>5. /\ entry \in ContactStates
      /\ (entry.known <=> contacts[c].known) /\ (entry.is_new <=> contacts[c].is_new)
      /\ (entry.investigating <=> contacts[c].investigating)
      /\ (entry.investigated <=> contacts[c].investigated)
      /\ (entry.dismissed <=> contacts[c].dismissed)
  BY <1>3 DEF ContactStates
<1> HIDE DEF entry
<1> DEFINE after == cs(pose)
<1>10. CreateToiTasks(after, c) \/ KeepContact(after)
  BY <1>1
<1>6. /\ after \in [ContactIds -> ContactStates] /\ after[c] = entry
      /\ \A d \in ContactIds \ {c} : after[d] = contacts[d]
  BY <1>3, <1>4, <1>5
<1> HIDE DEF after
<1>7. /\ contacts[c].is_new /\ contacts[c].known /\ ~contacts[c].investigating
      /\ ~contacts[c].investigated /\ ~contacts[c].dismissed
  BY DEF ReportKnown, MissionInv, ContactsMatch, EntryOK
<1>8. contact_count \in Nat /\ c <= contact_count
  <2>1. c \in Nat /\ contact_count \in Nat
    BY BoundTypes DEF ContactIds, IInv, TypeOK
  <2>2. ~(c > contact_count)
    BY <1>7 DEF MissionInv, ContactsMatch, NoEntry
  <2> QED BY <2>1, <2>2
<1>9. Reported(after, c, contact_count')
  BY <1>2, <1>5, <1>6, <1>7, <1>8 DEF Reported
<1> QED BY <1>2, <1>9, <1>10, KeepContactMission, CreateToiTasksMission

\* confirmPendingContacts.
LEMMA ConfirmPendingMission ==
    ASSUME IInv, MissionInv, NEW c \in ContactIds, ConfirmPending(c),
           task_list' \in Seq(Tasks)
    PROVE  MissionStep /\ ListEffect
<1>1. /\ CreateToiTasks(contacts, c)
      /\ UNCHANGED <<contact_count, completed, investigated_contacts>>
  BY DEF ConfirmPending
<1>2. /\ contacts[c].is_new /\ contacts[c].known /\ ~contacts[c].investigating
      /\ ~contacts[c].investigated /\ ~contacts[c].dismissed
  BY DEF ConfirmPending, IsPending, MissionInv, ContactsMatch, EntryOK
<1>3. contact_count \in Nat /\ c <= contact_count
  <2>1. c \in Nat /\ contact_count \in Nat
    BY BoundTypes DEF ContactIds, IInv, TypeOK
  <2>2. ~(c > contact_count)
    BY <1>2 DEF MissionInv, ContactsMatch, NoEntry
  <2> QED BY <2>1, <2>2
<1>4. Reported(contacts, c, contact_count')
  BY <1>1, <1>2, <1>3 DEF Reported, IInv, TypeOK
<1> QED BY <1>1, <1>4, CreateToiTasksMission

-----------------------------------------------------------------------------
\* A step that changes no more of the tasks than what tells none apart.
LEMMA AlikeStep ==
    ASSUME IInv, MissionInv, task_list' \in Seq(Tasks), Len(task_list') = Len(task_list),
           \A i \in 1..Len(task_list) : Alike(task_list'[i], task_list[i])
    PROVE  /\ Paired(task_list') /\ DelaysOpen(task_list')
           /\ EncircledContacts(task_list') = EncircledContacts(task_list)
           /\ \A n : Shows(task_change, task_list, n) => Shows(task_change, task_list', n)
           /\ ListEffect
<1>1. task_list \in Seq(Tasks)
  BY DEF IInv, TypeOK
<1>2. Inserted(task_list', task_list, Len(task_list) + 1, <<>>)
  BY <1>1, AlikeInserted
<1>3. /\ <<>> \in Seq(Tasks) /\ Len(<<>>) = 0
      /\ \A i \in 1..Len(<<>>) : Ordinary(<<>>[i])
  OBVIOUS
<1>4. /\ Paired(task_list') /\ DelaysOpen(task_list')
      /\ EncircledContacts(task_list') = EncircledContacts(task_list)
  <2> DEFINE new == task_list'
             b == <<>>
  <2>1. Inserted(new, task_list, Len(task_list) + 1, b) /\ new \in Seq(Tasks)
    BY <1>2
  <2>2. b \in Seq(Tasks) /\ \A i \in 1..Len(b) : Ordinary(b[i])
    BY <1>3
  <2> HIDE DEF new, b
  <2>3. /\ Paired(new) /\ DelaysOpen(new)
        /\ EncircledContacts(new) = EncircledContacts(task_list)
    BY <2>1, <2>2, PlainInserted
  <2> QED BY <2>3 DEF new
<1>5. Grows(Len(task_list) + 1, <<>>)
  BY <1>2, <1>3 DEF Grows
<1>6. \A n : Shows(task_change, task_list, n) => Shows(task_change, task_list', n)
  BY <1>1, AlikeShows
<1> QED BY <1>4, <1>5, <1>6 DEF ListEffect

\* A step that touches neither the tasks nor the contacts.
LEMMA QuietMission ==
    ASSUME IInv, MissionInv,
           UNCHANGED <<task_list, task_change, completed, contacts, contact_count,
                       investigated_contacts>>
    PROVE  MissionStep /\ ListEffect
<1>1. task_list' = task_list /\ task_list \in Seq(Tasks)
  BY DEF IInv, TypeOK
<1>2. ListEffect
  <2>1. \A i \in 1..Len(task_list) : Alike(task_list'[i], task_list[i])
    BY <1>1 DEF Alike
  <2>2. task_list' \in Seq(Tasks) /\ Len(task_list') = Len(task_list)
    BY <1>1
  <2> QED BY <2>1, <2>2, AlikeStep
<1> QED BY <1>2 DEF MissionStep, MissionInv

\* onGoalReached.
LEMMA GoalReachedMission ==
    ASSUME IInv, MissionInv, GoalReached, task_list' \in Seq(Tasks)
    PROVE  MissionStep /\ ListEffect
<1> DEFINE t == [task_list[1] EXCEPT !.arrived = TRUE]
<1>1. task_list \in Seq(Tasks) /\ task_list[1] \in Tasks /\ Len(task_list) \in Nat
  BY DEF GoalReached, IInv, TypeOK
<1>2. /\ task_list' = [task_list EXCEPT ![1] = t]
      /\ UNCHANGED <<task_change, completed, contacts, contact_count, investigated_contacts>>
  BY DEF GoalReached, contactVars
<1>3. Alike(t, task_list[1])
  BY <1>1 DEF Alike, Tasks
<1> HIDE DEF t
<1>4. /\ Len(task_list') = Len(task_list)
      /\ \A i \in 1..Len(task_list) : Alike(task_list'[i], task_list[i])
  BY <1>1, <1>2, <1>3 DEF Alike
<1> QED BY <1>2, <1>4, AlikeStep DEF MissionStep, MissionInv, ContactsMatch

\* updateExistingContact moves the contact and its tasks, and publishes neither:
\* no settled contact moves.
LEMMA RefineContactMission ==
    ASSUME IInv, MissionInv, NEW c \in ContactIds, RefineContact(c),
           task_list' \in Seq(Tasks)
    PROVE  MissionStep /\ ListEffect
<1>1. PICK far \in BOOLEAN :
         task_list' = [i \in 1..Len(task_list) |-> Refined(task_list[i], c, far)]
  BY DEF RefineContact
<1>2. /\ UNCHANGED <<task_change, completed, contact_count, investigated_contacts>>
      /\ contacts' = [contacts EXCEPT ![c].pose = "refined"]
      /\ contacts[c].known /\ ~contacts[c].investigated /\ ~contacts[c].dismissed
  BY DEF RefineContact
<1>3. /\ task_list \in Seq(Tasks) /\ Len(task_list) \in Nat
      /\ \A i \in 1..Len(task_list) : task_list[i] \in Tasks
      /\ contacts \in [ContactIds -> ContactStates] /\ contacts[c] \in ContactStates
  BY DEF IInv, TypeOK
<1>4. \A t \in Tasks : Alike(Refined(t, c, far), t)
  BY DEF Refined, Tasks, Alike
<1>5. /\ Len(task_list') = Len(task_list)
      /\ \A i \in 1..Len(task_list) : Alike(task_list'[i], task_list[i])
  BY <1>1, <1>3, <1>4
<1>6. \A d \in ContactIds :
         contacts'[d] = IF d = c THEN [contacts[c] EXCEPT !.pose = "refined"]
                        ELSE contacts[d]
  BY <1>2, <1>3
<1>7. \A d \in ContactIds : /\ EntryOK(contacts'[d]) <=> EntryOK(contacts[d])
                            /\ contacts'[d].investigating <=> contacts[d].investigating
                            /\ d \in Settled(contacts') <=> d \in Settled(contacts)
                            /\ d \in Settled(contacts') => contacts'[d].pose = contacts[d].pose
  BY <1>2, <1>3, <1>6 DEF EntryOK, Settled, ContactStates
<1>8. \A d \in ContactIds : d > contact_count => contacts'[d] = NoEntry
  <2> TAKE d \in ContactIds
  <2>1. d > contact_count => contacts[d] = NoEntry
    BY DEF MissionInv, ContactsMatch
  <2>2. contacts[d] = NoEntry => d # c
    BY <1>2 DEF NoEntry
  <2> QED BY <1>6, <2>1, <2>2
<1>9. ContactsMatch(contacts', contact_count', task_list')
  BY <1>2, <1>5, <1>7, <1>8, AlikeStep DEF MissionInv, ContactsMatch
<1>10. investigated_contacts' = InvestigatedSample(contacts')
  BY <1>2, <1>7, SameSettled DEF MissionInv
<1> QED BY <1>2, <1>5, <1>9, <1>10, AlikeStep DEF MissionStep, MissionInv

-----------------------------------------------------------------------------
\* The active task goes on: perhaps it is started, and perhaps it arrives.
LEMMA ContinueMission ==
    ASSUME IInv, MissionInv, NEW after, ContinueTask(task_list[1], after),
           Alike(after, task_list[1]), task_list # <<>>, task_list' \in Seq(Tasks),
           contact_count' = contact_count
    PROVE  MissionStep /\ ListEffect
<1>1. /\ task_list' = [task_list EXCEPT ![1] = after]
      /\ UNCHANGED <<completed, contacts, investigated_contacts>>
      /\ task_change' = task_change \/ task_change' = ModuleStatus(task_list', completed)
  BY DEF ContinueTask
<1>2. task_list \in Seq(Tasks) /\ Len(task_list) \in Nat
  BY DEF IInv, TypeOK
<1>3. /\ Len(task_list') = Len(task_list)
      /\ \A i \in 1..Len(task_list) : Alike(task_list'[i], task_list[i])
  BY <1>1, <1>2 DEF Alike
<1>4. /\ Paired(task_list') /\ DelaysOpen(task_list')
      /\ EncircledContacts(task_list') = EncircledContacts(task_list)
      /\ Shows(task_change, task_list', completed)
      /\ ListEffect
  BY <1>3, AlikeStep DEF MissionInv
<1>5. Shows(task_change', task_list', completed')
  BY <1>1, <1>4, StatusShows
<1> QED BY <1>1, <1>4, <1>5 DEF MissionStep, MissionInv, ContactsMatch

\* The active task is done.  When it is a circle its contact is investigated from
\* then on, and no longer being investigated.
LEMMA FinishMission ==
    ASSUME IInv, MissionInv, NEW after, FinishTask(task_list[1], after),
           Alike(after, task_list[1]), task_list # <<>>, task_list' \in Seq(Tasks),
           contact_count' = contact_count
    PROVE  MissionStep /\ ListEffect
<1> DEFINE c == after.contact
           new == Tail(task_list)
<1>1. /\ task_list' = new /\ task_change' = ModuleStatus(task_list', completed')
      /\ CompletionOf(after) \in published'
      /\ contacts' = IF after.kind = "Encircle" THEN MarkInvestigated(contacts, c) ELSE contacts
      /\ investigated_contacts' = SampleAfter(contacts')
  BY DEF FinishTask
<1>2. /\ task_list \in Seq(Tasks) /\ Paired(task_list) /\ DelaysOpen(task_list)
      /\ new \in Seq(Tasks)
      /\ contacts \in [ContactIds -> ContactStates]
  BY <1>1 DEF IInv, TypeOK, MissionInv
<1>3. Deleted(new, task_list, 1, 1) /\ 1..(1 + 1 - 1) = {1}
  BY <1>2, TailDeleted
<1>4. 1 \in 1..Len(task_list)
  BY <1>2
<1> HIDE DEF new
<1>5. /\ Paired(new) /\ DelaysOpen(new)
      /\ \A d : d \in EncircledContacts(new) <=>
                   d \in EncircledContacts(task_list) /\ ~IsEncircleOf(task_list[1], d)
  <2>1. Paired(new) /\ DelaysOpen(new)
    BY <1>2, <1>3, DeletePaired, DelaysDeleted
  <2>2. \A d : d \in EncircledContacts(new) <=>
                  /\ d \in EncircledContacts(task_list)
                  /\ \A i \in 1..(1 + 1 - 1) : ~IsEncircleOf(task_list[i], d)
    BY <1>2, <1>3, DeletePaired
  <2> QED BY <1>3, <2>1, <2>2
<1>6. investigated_contacts' = InvestigatedSample(contacts')
  BY <1>1 DEF SampleAfter, MissionInv
<1>7. Shows(task_change', task_list', completed')
  BY <1>1, <1>2, StatusShows
<1>8. ContactsMatch(contacts', contact_count', new)
  <2>1. CASE after.kind # "Encircle"
    <3>1. \A d : d \in EncircledContacts(new) <=> d \in EncircledContacts(task_list)
      BY <1>1, <1>5, <2>1 DEF IsEncircleOf, Alike
    <3>2. EncircledContacts(new) = EncircledContacts(task_list)
      BY <3>1
    <3>3. contacts' = contacts
      BY <1>1, <2>1
    <3> QED BY <3>2, <3>3 DEF MissionInv, ContactsMatch
  <2>2. CASE after.kind = "Encircle"
    <3>1. task_list[1].kind = "Encircle" /\ task_list[1].contact = c
      BY <2>2 DEF Alike
    <3>2. c \in EncircledContacts(task_list)
      BY <1>2, <1>4, <3>1, EncircledMember DEF Paired, CirclesHaveContacts
    <3>3. c \in ContactIds /\ contacts[c].investigating /\ contacts[c].known
      BY <3>2 DEF MissionInv, ContactsMatch, EntryOK
    <3> HIDE DEF c
    <3>4. \A d \in ContactIds :
             contacts'[d] = IF d = c
                              THEN [contacts[c] EXCEPT !.investigating = FALSE,
                                                       !.investigated = TRUE]
                              ELSE contacts[d]
      BY <1>1, <1>2, <2>2, <3>3 DEF MarkInvestigated
    <3>5. \A d \in ContactIds : EntryOK(contacts'[d])
      <4> TAKE d \in ContactIds
      <4>1. EntryOK(contacts[d]) /\ contacts[d] \in ContactStates
        BY <1>2 DEF MissionInv, ContactsMatch
      <4> QED BY <3>3, <3>4, <4>1 DEF EntryOK, ContactStates
    <3>6. \A d \in ContactIds : contacts'[d].investigating <=> d \in EncircledContacts(new)
      <4> TAKE d \in ContactIds
      <4>1. contacts[d].investigating <=> d \in EncircledContacts(task_list)
        BY DEF MissionInv, ContactsMatch
      <4>2. d \in EncircledContacts(new) <=> d \in EncircledContacts(task_list) /\ d # c
        BY <1>5, <3>1 DEF IsEncircleOf
      <4>3. contacts[c] \in ContactStates
        BY <1>2, <3>3
      <4> QED BY <3>4, <4>1, <4>2, <4>3 DEF ContactStates
    <3>7. \A d \in ContactIds : d > contact_count => contacts'[d] = NoEntry
      <4> TAKE d \in ContactIds
      <4>1. d > contact_count => contacts[d] = NoEntry
        BY DEF MissionInv, ContactsMatch
      <4>2. contacts[d] = NoEntry => d # c
        BY <3>3 DEF NoEntry
      <4> QED BY <3>4, <4>1, <4>2
    <3>8. EncircledContacts(new) \subseteq ContactIds
      BY <1>5 DEF MissionInv, ContactsMatch
    <3> QED BY <3>5, <3>6, <3>7, <3>8 DEF ContactsMatch
  <2> QED BY <2>1, <2>2
<1>9. Shrinks(1, 1)
  <2>1. CompletionOf(task_list[1]) = CompletionOf(after)
    BY DEF CompletionOf, Alike
  <2> QED BY <1>1, <1>3, <2>1 DEF Shrinks
<1> QED BY <1>1, <1>5, <1>6, <1>7, <1>8, <1>9 DEF MissionStep, ListEffect

\* updateTasks.
LEMMA UpdateTasksMission ==
    ASSUME IInv, MissionInv, UpdateTasks, task_list' \in Seq(Tasks)
    PROVE  MissionStep /\ ListEffect
<1>1. PICK progress \in BOOLEAN :
         \/ ContinueTask(task_list[1], Run(task_list[1], progress))
         \/ FinishTask(task_list[1], Run(task_list[1], progress))
  BY DEF UpdateTasks
<1>2. task_list # <<>> /\ contact_count' = contact_count
  BY DEF UpdateTasks
<1>3. Alike(Run(task_list[1], progress), task_list[1])
  <2>1. task_list[1] \in Tasks
    BY <1>2 DEF IInv, TypeOK
  <2> QED BY <2>1 DEF Run, Tasks, Alike
<1> QED BY <1>1, <1>2, <1>3, ContinueMission, FinishMission

\* MissionManager::reset.
LEMMA ResetMission ==
    ASSUME Reset
    PROVE  MissionStep /\ ListEffect
<1>1. /\ task_list' = <<>> /\ completed' = 0 /\ contact_count' = 0
      /\ contacts' = [c \in ContactIds |-> NoEntry]
      /\ task_change' = ModuleStatus(<<>>, 0) /\ investigated_contacts' = {}
      /\ phase = "reset"
  BY DEF Reset
<1>2. <<>> \in Seq(Tasks) /\ \A i \in 1..Len(<<>>) : Ordinary(<<>>[i])
  OBVIOUS
<1>3. Paired(<<>>) /\ DelaysOpen(<<>>) /\ EncircledContacts(<<>>) = {}
  BY <1>2, OrdinaryList
<1>4. ContactsMatch(contacts', contact_count', <<>>)
  BY <1>1, <1>3 DEF ContactsMatch, EntryOK, NoEntry
<1>5. InvestigatedSample(contacts') = {}
  BY <1>1 DEF InvestigatedSample, Settled, NoEntry
<1>6. Shows(task_change', <<>>, completed')
  BY <1>1, <1>2, StatusShows
<1>7. ListEffect
  BY <1>1 DEF ListEffect, IsReset
<1> QED BY <1>1, <1>3, <1>4, <1>5, <1>6, <1>7 DEF MissionStep

\* handleSetSpeedMsg.
LEMMA SetSpeedMission ==
    ASSUME IInv, MissionInv, SetSpeed
    PROVE  MissionStep /\ ListEffect
<1>1. /\ UNCHANGED <<task_list, completed, contacts, contact_count, investigated_contacts>>
      /\ task_change' = ModuleStatus(task_list, completed)
      /\ task_list \in Seq(Tasks)
  BY DEF SetSpeed, contactVars, IInv, TypeOK
<1>2. Shows(task_change', task_list', completed')
  BY <1>1, StatusShows
<1>3. \A i \in 1..Len(task_list) : Alike(task_list'[i], task_list[i])
  BY <1>1 DEF Alike
<1>4. ListEffect
  <2>1. task_list' \in Seq(Tasks) /\ Len(task_list') = Len(task_list)
    BY <1>1
  <2> QED BY <1>3, <2>1, AlikeStep
<1> QED BY <1>1, <1>2, <1>4 DEF MissionStep, MissionInv

\* A message of another agent, whatever it is.
LEMMA CommandMission ==
    ASSUME IInv, MissionInv, NEW m \in Commands, Command(m), task_list' \in Seq(Tasks)
    PROVE  MissionStep /\ ListEffect
<1>1. CASE m.type = "FORM" /\ HandleForm(m)
  BY <1>1, HandleFormMission
<1>2. CASE m.type \in {"MOVETO", "PATH_FOLLOW"} /\ HandleMove(m)
  BY <1>2, HandleMoveMission
<1>3. CASE m.type = "WAIT_UNTIL_COMPLETE" /\ HandleWait(m)
  BY <1>3, HandleWaitMission
<1>4. CASE m.type = "OVERWATCH" /\ HandleOverwatch(m)
  BY <1>4, HandleOverwatchMission
<1>5. CASE m.type = "CANCEL" /\ HandleCancel(m)
  BY <1>5, HandleCancelMission
<1>6. CASE m.type = "CANCEL_ALL" /\ HandleCancelAll(m)
  BY <1>6, HandleCancelAllMission
<1>7. CASE Hear(m.type, m.sender, m.id)
  BY <1>7, QuietMission DEF Hear, queueVars, contactVars
<1> QED BY <1>1, <1>2, <1>3, <1>4, <1>5, <1>6, <1>7 DEF Command

\* Every step.
LEMMA MissionNext ==
    ASSUME IInv, MissionInv, [Next]_vars
    PROVE  MissionStep /\ ListEffect
<1>0. task_list' \in Seq(Tasks)
  BY NextInvariant DEF IInv, TypeOK
<1>1. CASE Advance \/ Spin \/ Shutdown \/ UNCHANGED vars
  BY <1>1, QuietMission DEF Advance, Spin, Shutdown, vars, queueVars, contactVars
<1>2. CASE Reset
  BY <1>2, ResetMission
<1>3. CASE GoalReached
  BY <1>0, <1>3, GoalReachedMission
<1>4. ASSUME NEW m \in Commands, Command(m) PROVE MissionStep /\ ListEffect
  BY <1>0, <1>4, CommandMission
<1>5. CASE SetSpeed
  BY <1>5, SetSpeedMission
<1>6. ASSUME NEW p \in published, OwnMessage(p) PROVE MissionStep /\ ListEffect
  BY <1>6, QuietMission DEF OwnMessage, Hear, queueVars, contactVars
<1>7. CASE ReportNew
  BY <1>0, <1>7, ReportNewMission
<1>8. ASSUME NEW c \in ContactIds, ReportKnown(c) PROVE MissionStep /\ ListEffect
  BY <1>0, <1>8, ReportKnownMission
<1>9. ASSUME NEW c \in ContactIds, RefineContact(c) PROVE MissionStep /\ ListEffect
  BY <1>0, <1>9, RefineContactMission
<1>10. ASSUME NEW c \in ContactIds, ConfirmPending(c) PROVE MissionStep /\ ListEffect
  BY <1>0, <1>10, ConfirmPendingMission
<1>11. CASE UpdateTasks
  BY <1>0, <1>11, UpdateTasksMission
<1> QED BY <1>1, <1>2, <1>3, <1>4, <1>5, <1>6, <1>7, <1>8, <1>9, <1>10, <1>11 DEF Next

LEMMA MissionInit == Init => MissionInv
<1> SUFFICES ASSUME Init PROVE MissionInv
  OBVIOUS
<1>1. /\ task_list = <<>> /\ completed = 0 /\ contact_count = 0
      /\ contacts = [c \in ContactIds |-> NoEntry]
      /\ task_change = ModuleStatus(<<>>, 0) /\ investigated_contacts = {}
  BY DEF Init
<1>2. <<>> \in Seq(Tasks) /\ \A i \in 1..Len(<<>>) : Ordinary(<<>>[i])
  OBVIOUS
<1>3. Paired(<<>>) /\ DelaysOpen(<<>>) /\ EncircledContacts(<<>>) = {}
  BY <1>2, OrdinaryList
<1>4. ContactsMatch(contacts, contact_count, <<>>)
  BY <1>1, <1>3 DEF ContactsMatch, EntryOK, NoEntry
<1>5. InvestigatedSample(contacts) = {}
  BY <1>1 DEF InvestigatedSample, Settled, NoEntry
<1>6. Shows(task_change, <<>>, completed)
  BY <1>1, <1>2, StatusShows
<1> QED BY <1>1, <1>3, <1>4, <1>5, <1>6 DEF MissionInv

\* Every reachable state satisfies both invariants.
THEOREM MissionInvHolds == Spec => [](IInv /\ MissionInv)
<1>1. Init => IInv /\ MissionInv
  BY InitInvariant, MissionInit
<1>2. IInv /\ MissionInv /\ [Next]_vars => (IInv /\ MissionInv)'
  <2> SUFFICES ASSUME IInv, MissionInv, [Next]_vars PROVE IInv' /\ MissionInv'
    OBVIOUS
  <2> QED BY NextInvariant, MissionNext, MissionStepInvariant
<1> QED BY <1>1, <1>2, PTL DEF Spec

\* A contact is marked as being investigated exactly while its circle is in the
\* list, whatever cancels, preempts, finishes or resets it: createToiTasks,
\* handleCancelledContact and markContactInvestigated agree with the list.
THEOREM MarksMatchTasks == Spec => []InvestigationHasItsTask
<1>1. IInv /\ MissionInv => InvestigationHasItsTask
  <2> SUFFICES ASSUME IInv, MissionInv PROVE InvestigationHasItsTask
    OBVIOUS
  <2>1. ASSUME NEW c \in ContactIds
        PROVE  contacts[c].investigating <=>
                  \E i \in 1..Len(task_list) : IsEncircleOf(task_list[i], c)
    <3>1. c # NoContact
      BY BoundTypes DEF ContactIds, NoContact
    <3>2. contacts[c].investigating <=> c \in EncircledContacts(task_list)
      BY DEF MissionInv, ContactsMatch
    <3> QED BY <3>1, <3>2, EncircledMember DEF IsEncircleOf
  <2>2. OneCircle(task_list)
    BY DEF MissionInv, Paired
  <2> QED BY <2>1, <2>2 DEF InvestigationHasItsTask, OneCircle
<1> QED BY <1>1, MissionInvHolds, PTL

\* The vehicle never drives to a contact without circling it next: preempting,
\* queueing and cancelling keep an approach and its circle together.
THEOREM ApproachesCircle == Spec => []ApproachThenEncircle
<1>1. IInv /\ MissionInv => ApproachThenEncircle
  BY DEF MissionInv, Paired, ApproachFollowed, IsApproach, ApproachThenEncircle
<1> QED BY <1>1, MissionInvHolds, PTL

\* publishTaskChange and publishInvestigatedContacts are called wherever they have
\* to be: the latched samples always show the tasks and the settled contacts.
THEOREM SamplesCurrent == Spec => []LatchedSamplesCurrent
<1>1. IInv /\ MissionInv => LatchedSamplesCurrent
  <2> SUFFICES ASSUME IInv, MissionInv PROVE LatchedSamplesCurrent
    OBVIOUS
  <2>1. Shows(task_change, task_list, completed)
    BY DEF MissionInv
  <2>2. ASSUME NEW i \in 1..Len(task_list)
        PROVE  [task_change.tasks[i] EXCEPT !.pose = task_list[i].pose]
                  = Description(task_list[i])
    <3>1. PICK q \in Poses :
             task_change.tasks[i] = [Description(task_list[i]) EXCEPT !.pose = q]
      BY <2>1 DEF Shows
    <3> DEFINE t == task_list[i]
               shown == [kind |-> t.kind, id |-> t.id, contact |-> t.contact, pose |-> q]
    <3>2. task_change.tasks[i] = shown
      BY <3>1 DEF Description
    <3>3. [shown EXCEPT !.pose = t.pose] = Description(t)
      BY DEF Description
    <3> HIDE DEF shown
    <3> QED BY <3>2, <3>3
  <2> QED BY <2>1, <2>2 DEF LatchedSamplesCurrent, Shows, MissionInv
<1> QED BY <1>1, MissionInvHolds, PTL

-----------------------------------------------------------------------------
\* Nothing leaves the list in silence but by a reset.
LEMMA NoSilentStep ==
    ASSUME task_list \in Seq(Tasks), task_list' \in Seq(Tasks), ListEffect,
           NEW i \in 1..Len(task_list)
    PROVE  \/ \E j \in 1..Len(task_list') : SameTask(task_list[i], task_list'[j])
           \/ CompletionOf(task_list[i]) \in published'
           \/ IsReset
<1>1. ASSUME NEW p, NEW b, Grows(p, b)
      PROVE  \E j \in 1..Len(task_list') : SameTask(task_list[i], task_list'[j])
  <2>1. Len(b) \in Nat /\ Len(task_list) \in Nat /\ p \in 1..(Len(task_list) + 1)
        /\ Len(task_list') = Len(task_list) + Len(b)
    BY <1>1 DEF Grows, Inserted
  <2>2. CASE i < p
    <3>1. Alike(task_list'[i], task_list[i]) /\ i \in 1..Len(task_list')
      BY <1>1, <2>1, <2>2 DEF Grows, Inserted
    <3> QED BY <3>1 DEF Alike, SameTask
  <2>3. CASE i >= p
    <3>1. /\ Alike(task_list'[i + Len(b)], task_list[i])
          /\ i + Len(b) \in 1..Len(task_list')
      BY <1>1, <2>1, <2>3 DEF Grows, Inserted
    <3> QED BY <3>1 DEF Alike, SameTask
  <2> QED BY <2>1, <2>2, <2>3
<1>2. ASSUME NEW p, NEW n, Shrinks(p, n)
      PROVE  \/ \E j \in 1..Len(task_list') : SameTask(task_list[i], task_list'[j])
             \/ CompletionOf(task_list[i]) \in published'
  <2>1. n \in Nat /\ Len(task_list) \in Nat /\ p \in 1..(Len(task_list) + 1)
        /\ p + n <= Len(task_list) + 1 /\ Len(task_list') = Len(task_list) - n
    BY <1>2 DEF Shrinks, Deleted
  <2>2. CASE i < p
    <3>1. task_list'[i] = task_list[i] /\ i \in 1..Len(task_list')
      BY <1>2, <2>1, <2>2 DEF Shrinks, Deleted
    <3> QED BY <3>1 DEF SameTask
  <2>3. CASE i \in p..(p + n - 1)
    BY <1>2, <2>3 DEF Shrinks
  <2>4. CASE i >= p + n
    <3>1. task_list'[i - n] = task_list[i] /\ i - n \in 1..Len(task_list')
      BY <1>2, <2>1, <2>4 DEF Shrinks, Deleted
    <3> QED BY <3>1 DEF SameTask
  <2> QED BY <2>1, <2>2, <2>3, <2>4
<1>3. CASE Superseded
  BY <1>3 DEF Superseded, AllCompletions
<1> QED BY <1>1, <1>2, <1>3 DEF ListEffect

\* No task leaves the list without its completion being published, except in a
\* reset: whoever waits for the task hears of it (updateTasks, cancelTask,
\* handleCancelAllTask, addTask with CANCEL_ALL).
THEOREM LeavingAnnounced == Spec => LeavingIsAnnounced
<1>1. /\ IInv /\ MissionInv /\ [Next]_vars
      => [\A i \in 1..Len(task_list) :
             \/ \E j \in 1..Len(task_list') : SameTask(task_list[i], task_list'[j])
             \/ CompletionOf(task_list[i]) \in published'
             \/ IsReset]_vars
  <2> SUFFICES ASSUME IInv, MissionInv, [Next]_vars
               PROVE  \A i \in 1..Len(task_list) :
                         \/ \E j \in 1..Len(task_list') : SameTask(task_list[i], task_list'[j])
                         \/ CompletionOf(task_list[i]) \in published'
                         \/ IsReset
    OBVIOUS
  <2>1. task_list \in Seq(Tasks) /\ task_list' \in Seq(Tasks)
    BY NextInvariant DEF IInv, TypeOK
  <2>2. ListEffect
    BY MissionNext
  <2> QED BY <2>1, <2>2, NoSilentStep
<1> QED BY <1>1, MissionInvHolds, PTL DEF Spec, LeavingIsAnnounced

\* A delay and the formation behind it, when no command names the delay's id.
FormationStays(i) ==
    LET formation == task_list[i + 1]
    IN  \/ CompletionOf(formation) \in published' \/ IsReset
        \/ \E j \in 1..Len(task_list') :
              /\ SameTask(task_list'[j], formation)
              /\ IF j = 1 THEN i = 1 ELSE IsDelay(task_list'[j - 1])

LEMMA FormationStep ==
    ASSUME ~DelaysNamed, task_list \in Seq(Tasks), task_list' \in Seq(Tasks),
           DelaysOpen(task_list), ListEffect,
           NEW i \in 1..(Len(task_list) - 1), IsDelay(task_list[i])
    PROVE  FormationStays(i)
<1>0. /\ Len(task_list) \in Nat /\ i \in 1..Len(task_list) /\ i + 1 \in 1..Len(task_list)
      /\ i \in Nat
  OBVIOUS
<1>1. ASSUME NEW p, NEW b, Grows(p, b)
      PROVE  FormationStays(i)
  <2>1. /\ Len(b) \in Nat /\ p \in 1..(Len(task_list) + 1)
        /\ Len(task_list') = Len(task_list) + Len(b)
        /\ p = Len(task_list) + 1 \/ p = FirstPreemptable(task_list)
    BY <1>1 DEF Grows, Inserted
  <2>2. p # i + 1
    <3>1. task_list[i].is_preemptable
      BY <1>0 DEF DelaysOpen
    <3>2. FirstPreemptable(task_list) <= i
      BY <1>0, <3>1, FirstPreemptableProperties
    <3>3. FirstPreemptable(task_list) # i + 1
      BY <1>0, <2>1, <3>2
    <3> QED BY <1>0, <2>1, <3>3
  <2>3. CASE i + 1 < p
    <3>1. /\ Alike(task_list'[i], task_list[i]) /\ Alike(task_list'[i + 1], task_list[i + 1])
          /\ i + 1 \in 1..Len(task_list') /\ i + 1 # 1 /\ (i + 1) - 1 = i
      <4>1. \A k \in 1..(p - 1) : Alike(task_list'[k], task_list[k])
        BY <1>1 DEF Grows, Inserted
      <4>2. i \in 1..(p - 1) /\ i + 1 \in 1..(p - 1)
        BY <1>0, <2>1, <2>3
      <4>3. i + 1 \in 1..Len(task_list') /\ i + 1 # 1 /\ (i + 1) - 1 = i
        BY <1>0, <2>1, <2>3
      <4> QED BY <4>1, <4>2, <4>3
    <3> QED BY <3>1 DEF FormationStays, Alike, SameTask, IsDelay
  <2>4. CASE p <= i
    <3> DEFINE j == (i + 1) + Len(b)
    <3>1. i \in p..Len(task_list) /\ i + 1 \in p..Len(task_list)
      BY <1>0, <2>1, <2>4
    <3>2. Alike(task_list'[i + Len(b)], task_list[i]) /\ Alike(task_list'[j], task_list[i + 1])
      BY <1>1, <3>1 DEF Grows, Inserted
    <3>3. j \in 1..Len(task_list') /\ j # 1 /\ j - 1 = i + Len(b)
      BY <1>0, <2>1
    <3> HIDE DEF j
    <3> QED BY <3>2, <3>3 DEF FormationStays, Alike, SameTask, IsDelay
  <2> QED BY <1>0, <2>1, <2>2, <2>3, <2>4
<1>2. ASSUME NEW p, NEW n, Shrinks(p, n)
      PROVE  FormationStays(i)
  <2>1. n \in Nat /\ p \in 1..(Len(task_list) + 1)
        /\ p + n <= Len(task_list) + 1 /\ Len(task_list') = Len(task_list) - n
        /\ \A k \in 1..(p - 1) : task_list'[k] = task_list[k]
    BY <1>2 DEF Shrinks, Deleted
  <2>6. ASSUME NEW k \in (p + n)..Len(task_list) PROVE task_list'[k - n] = task_list[k]
    BY <1>2 DEF Shrinks, Deleted
  <2>2. CASE i + 1 \in p..(p + n - 1)
    BY <1>2, <2>2 DEF Shrinks, FormationStays
  <2>3. CASE i \in p..(p + n - 1) /\ i + 1 \notin p..(p + n - 1)
    <3>1. p = 1 /\ n = 1
      BY <1>2, <2>3 DEF Shrinks
    <3>2. i = 1
      BY <1>0, <2>3, <3>1
    <3>3. task_list'[1] = task_list[i + 1] /\ 1 \in 1..Len(task_list')
      <4>1. 2 \in (p + n)..Len(task_list) /\ 2 - n = 1 /\ i + 1 = 2
        BY <1>0, <3>1, <3>2
      <4>2. task_list'[2 - n] = task_list[2]
        BY <2>6, <4>1
      <4> QED BY <1>0, <2>1, <3>1, <4>1, <4>2
    <3> QED BY <3>2, <3>3 DEF FormationStays, SameTask
  <2>4. CASE i + 1 < p \/ (n = 0 /\ i + 1 = p)
    <3>1. i + 1 \in 1..Len(task_list') /\ i + 1 # 1 /\ (i + 1) - 1 = i
      BY <1>0, <2>1, <2>4
    <3>2. task_list'[i] = task_list[i]
      BY <1>0, <2>1, <2>4
    <3>3. task_list'[i + 1] = task_list[i + 1]
      <4>1. CASE i + 1 < p
        BY <1>0, <2>1, <4>1
      <4>2. CASE n = 0 /\ i + 1 = p
        <5>1. i + 1 \in (p + n)..Len(task_list) /\ (i + 1) - n = i + 1
          BY <1>0, <4>2
        <5>2. task_list'[(i + 1) - n] = task_list[i + 1]
          BY <2>6, <5>1
        <5> QED BY <5>1, <5>2
      <4> QED BY <2>4, <4>1, <4>2
    <3> QED BY <3>1, <3>2, <3>3 DEF FormationStays, SameTask, IsDelay
  <2>5. CASE i >= p + n
    <3> DEFINE j == (i + 1) - n
    <3>1. i \in (p + n)..Len(task_list) /\ i + 1 \in (p + n)..Len(task_list)
      BY <1>0, <2>1, <2>5
    <3>2. task_list'[i - n] = task_list[i] /\ task_list'[j] = task_list[i + 1]
      <4> DEFINE k == i + 1
      <4>1. k \in (p + n)..Len(task_list)
        BY <3>1
      <4> HIDE DEF k
      <4>2. task_list'[i - n] = task_list[i]
        BY <2>6, <3>1
      <4>3. task_list'[k - n] = task_list[k]
        BY <2>6, <4>1
      <4> QED BY <4>2, <4>3 DEF k
    <3>3. j \in 1..Len(task_list') /\ j # 1 /\ j - 1 = i - n
      <4>1. /\ n \in Nat /\ p \in Nat /\ 1 <= p /\ Len(task_list') = Len(task_list) - n
            /\ i \in Nat /\ i + 1 <= Len(task_list) /\ Len(task_list) \in Nat
        BY <1>0, <2>1
      <4> QED BY <2>5, <4>1
    <3> HIDE DEF j
    <3> QED BY <3>2, <3>3 DEF FormationStays, SameTask, IsDelay
  <2> QED BY <1>0, <2>1, <2>2, <2>3, <2>4, <2>5
<1>3. CASE Superseded
  BY <1>0, <1>3 DEF Superseded, AllCompletions, FormationStays
<1>4. CASE IsReset
  BY <1>4 DEF FormationStays
<1> QED BY <1>1, <1>2, <1>3, <1>4 DEF ListEffect

\* insertFormationChangeDelay, addTask and cancelTask keep a delay in front of its
\* formation, as long as no CANCEL names the id all delays share, -1.  (A CANCEL
\* of -1 takes out a delay alone, wherever it is.)
THEOREM DelayStaysInFront == ~DelaysNamed => (Spec => DelayKeepsItsFormation)
<1> SUFFICES ASSUME ~DelaysNamed PROVE Spec => DelayKeepsItsFormation
  OBVIOUS
<1>1. /\ IInv /\ MissionInv /\ [Next]_vars
      => [\A i \in 1..(Len(task_list) - 1) :
             IsDelay(task_list[i]) =>
                LET formation == task_list[i + 1]
                IN  \/ CompletionOf(formation) \in published' \/ IsReset
                    \/ \E j \in 1..Len(task_list') :
                          /\ SameTask(task_list'[j], formation)
                          /\ IF j = 1 THEN i = 1 ELSE IsDelay(task_list'[j - 1])]_vars
  <2> SUFFICES ASSUME IInv, MissionInv, [Next]_vars
               PROVE  \A i \in 1..(Len(task_list) - 1) :
                         IsDelay(task_list[i]) => FormationStays(i)
    BY DEF FormationStays
  <2>1. /\ task_list \in Seq(Tasks) /\ task_list' \in Seq(Tasks)
        /\ DelaysOpen(task_list)
    BY NextInvariant DEF IInv, TypeOK, MissionInv
  <2>2. ListEffect
    BY MissionNext
  <2> QED BY <2>1, <2>2, FormationStep
<1> QED BY <1>1, MissionInvHolds, PTL DEF Spec, DelayKeepsItsFormation

-----------------------------------------------------------------------------
(***************************************************************************)
(* The list is a queue of two bands.  ListEffect says what a step does to  *)
(* the list; what remains is what that does to the bands.                  *)
(***************************************************************************)
Entries == {Entry(t) : t \in Tasks}

CommittedBand(tl) == [i \in 1..(FirstPreemptable(tl) - 1) |-> Entry(tl[i])]
OpenBand(tl) ==
    [i \in 1..(Len(tl) - FirstPreemptable(tl) + 1) |-> Entry(tl[FirstPreemptable(tl) + i - 1])]

LEMMA BandTypes ==
    ASSUME NEW tl \in Seq(Tasks)
    PROVE  /\ CommittedBand(tl) \in Seq(Entries) /\ OpenBand(tl) \in Seq(Entries)
           /\ Len(CommittedBand(tl)) = FirstPreemptable(tl) - 1
           /\ Len(OpenBand(tl)) = Len(tl) - FirstPreemptable(tl) + 1
<1> DEFINE k == FirstPreemptable(tl)
<1>1. k \in 1..(Len(tl) + 1) /\ Len(tl) \in Nat
  BY FirstPreemptableProperties
<1> HIDE DEF k
<1>2. /\ \A i \in 1..(k - 1) : Entry(tl[i]) \in Entries
      /\ \A i \in 1..(Len(tl) - k + 1) : Entry(tl[k + i - 1]) \in Entries
  <2>1. \A i \in 1..Len(tl) : Entry(tl[i]) \in Entries
    BY DEF Entries
  <2>2. /\ \A i \in 1..(k - 1) : i \in 1..Len(tl)
        /\ \A i \in 1..(Len(tl) - k + 1) : k + i - 1 \in 1..Len(tl)
    BY <1>1
  <2> QED BY <2>1, <2>2
<1>3. k - 1 \in Nat /\ Len(tl) - k + 1 \in Nat
  BY <1>1
<1> QED BY SMTT(40), <1>2, <1>3 DEF CommittedBand, OpenBand, k

\* Open tasks behind the list are open work added behind the open work.
LEMMA OpenBehind ==
    ASSUME NEW tl \in Seq(Tasks), NEW new \in Seq(Tasks), NEW b \in Seq(Tasks),
           TwoBands(tl), Inserted(new, tl, Len(tl) + 1, b),
           \A i \in 1..Len(b) : b[i].is_preemptable
    PROVE  CommittedBand(new) = CommittedBand(tl) /\ IsPrefix(OpenBand(tl), OpenBand(new))
<1> DEFINE k == FirstPreemptable(tl)
<1>1. /\ k \in 1..(Len(tl) + 1) /\ Len(tl) \in Nat /\ Len(b) \in Nat
      /\ \A i \in 1..(k - 1) : ~tl[i].is_preemptable
      /\ \A i \in k..Len(tl) : tl[i].is_preemptable
  BY SplitBands
<1> HIDE DEF k
<1>2. /\ Len(new) = Len(tl) + Len(b)
      /\ \A i \in 1..Len(tl) : Alike(new[i], tl[i])
      /\ \A i \in 1..Len(b) : new[Len(tl) + i] = b[i]
  <2>1. \A i \in 1..Len(b) : Len(tl) + 1 + i - 1 = Len(tl) + i
    BY <1>1
  <2>2. (Len(tl) + 1) - 1 = Len(tl)
    BY <1>1
  <2> QED BY <2>1, <2>2 DEF Inserted
<1>3. FirstPreemptable(new) = k
  <2>1. \A i \in 1..(k - 1) : ~new[i].is_preemptable
    BY <1>1, <1>2 DEF Alike
  <2>2. ASSUME NEW i \in k..Len(new) PROVE new[i].is_preemptable
    <3>1. CASE i <= Len(tl)
      BY SMTT(40), <1>1, <1>2, <3>1 DEF Alike
    <3>2. CASE i > Len(tl)
      <4>1. i - Len(tl) \in 1..Len(b) /\ Len(tl) + (i - Len(tl)) = i
        BY <1>1, <1>2, <3>2
      <4> QED BY <1>2, <4>1
    <3> QED BY <1>1, <3>1, <3>2
  <2>3. k \in 1..(Len(new) + 1)
    BY <1>1, <1>2
  <2> QED BY <2>1, <2>2, <2>3, SplitAt
<1>4. \A i \in 1..Len(tl) : Entry(new[i]) = Entry(tl[i])
  BY <1>2 DEF Alike, Entry
<1>5. CommittedBand(new) = CommittedBand(tl)
  <2>1. \A i \in 1..(k - 1) : Entry(new[i]) = Entry(tl[i])
    BY <1>1, <1>4
  <2> QED BY <1>3, <2>1 DEF CommittedBand, k
<1>6. IsPrefix(OpenBand(tl), OpenBand(new))
  <2>1. /\ Len(OpenBand(tl)) = Len(tl) - k + 1 /\ Len(OpenBand(new)) = Len(new) - k + 1
        /\ OpenBand(tl) \in Seq(Entries) /\ OpenBand(new) \in Seq(Entries)
    BY <1>3, BandTypes DEF k
  <2>2. ASSUME NEW i \in 1..(Len(tl) - k + 1)
        PROVE  OpenBand(tl)[i] = OpenBand(new)[i]
    <3>1. k + i - 1 \in 1..Len(tl) /\ i \in 1..(Len(new) - k + 1)
      BY <1>1, <1>2
    <3>2. OpenBand(tl)[i] = Entry(tl[k + i - 1]) /\ OpenBand(new)[i] = Entry(new[k + i - 1])
      BY <1>3, <3>1 DEF OpenBand, k
    <3> QED BY <1>4, <3>1, <3>2
  <2>3. Len(tl) - k + 1 <= Len(new) - k + 1
    BY <1>1, <1>2
  <2> QED BY <2>1, <2>2, <2>3, PrefixElements
<1> QED BY <1>5, <1>6

\* Tasks before the first open one: open ones are added before the open work, and
\* committed ones behind the committed work.
LEMMA OpenInFront ==
    ASSUME NEW tl \in Seq(Tasks), NEW new \in Seq(Tasks), NEW b \in Seq(Tasks),
           TwoBands(tl), Inserted(new, tl, FirstPreemptable(tl), b),
           \A i \in 1..Len(b) : b[i].is_preemptable
    PROVE  CommittedBand(new) = CommittedBand(tl) /\ IsSuffix(OpenBand(tl), OpenBand(new))
<1> DEFINE k == FirstPreemptable(tl)
<1>1. /\ k \in 1..(Len(tl) + 1) /\ Len(tl) \in Nat /\ Len(b) \in Nat
      /\ \A i \in 1..(k - 1) : ~tl[i].is_preemptable
      /\ \A i \in k..Len(tl) : tl[i].is_preemptable
  BY SplitBands
<1>2. /\ Len(new) = Len(tl) + Len(b)
      /\ \A i \in 1..(k - 1) : Alike(new[i], tl[i])
      /\ \A i \in 1..Len(b) : new[k + i - 1] = b[i]
      /\ \A i \in k..Len(tl) : Alike(new[i + Len(b)], tl[i])
  BY DEF Inserted
<1> HIDE DEF k
<1>3. FirstPreemptable(new) = k
  <2>1. \A i \in 1..(k - 1) : ~new[i].is_preemptable
    BY <1>1, <1>2 DEF Alike
  <2>2. ASSUME NEW i \in k..Len(new) PROVE new[i].is_preemptable
    <3>1. CASE i < k + Len(b)
      <4>1. i - k + 1 \in 1..Len(b) /\ k + (i - k + 1) - 1 = i
        BY <1>1, <1>2, <3>1
      <4> QED BY <1>2, <4>1
    <3>2. CASE i >= k + Len(b)
      <4>1. i - Len(b) \in k..Len(tl) /\ (i - Len(b)) + Len(b) = i
        BY <1>1, <1>2, <3>2
      <4>2. tl[i - Len(b)].is_preemptable /\ Alike(new[(i - Len(b)) + Len(b)], tl[i - Len(b)])
        BY <1>1, <1>2, <4>1
      <4> QED BY <4>1, <4>2 DEF Alike
    <3> QED BY <1>1, <3>1, <3>2
  <2>3. k \in 1..(Len(new) + 1)
    BY <1>1, <1>2
  <2> QED BY <2>1, <2>2, <2>3, SplitAt
<1>4. CommittedBand(new) = CommittedBand(tl)
  <2>1. \A i \in 1..(k - 1) : Entry(new[i]) = Entry(tl[i])
    BY <1>2 DEF Alike, Entry
  <2> QED BY <1>3, <2>1 DEF CommittedBand, k
<1>5. IsSuffix(OpenBand(tl), OpenBand(new))
  <2>1. /\ Len(OpenBand(tl)) = Len(tl) - k + 1 /\ Len(OpenBand(new)) = Len(new) - k + 1
        /\ OpenBand(tl) \in Seq(Entries) /\ OpenBand(new) \in Seq(Entries)
    BY <1>3, BandTypes DEF k
  <2>2. /\ Len(OpenBand(new)) - Len(OpenBand(tl)) = Len(b)
        /\ Len(OpenBand(tl)) <= Len(OpenBand(new))
    BY <1>1, <1>2, <2>1
  <2>3. ASSUME NEW i \in 1..(Len(tl) - k + 1)
        PROVE  OpenBand(tl)[i] = OpenBand(new)[Len(b) + i]
    <3> DEFINE j == k + i - 1
    <3>1. j \in k..Len(tl) /\ Len(b) + i \in 1..(Len(new) - k + 1)
          /\ k + (Len(b) + i) - 1 = j + Len(b)
      BY <1>1, <1>2
    <3>2. OpenBand(tl)[i] = Entry(tl[j]) /\ OpenBand(new)[Len(b) + i] = Entry(new[j + Len(b)])
      BY <1>3, <3>1 DEF OpenBand, k
    <3> HIDE DEF j
    <3>3. Alike(new[j + Len(b)], tl[j])
      BY <1>2, <3>1
    <3> QED BY <3>2, <3>3 DEF Alike, Entry
  <2> QED BY <2>1, <2>2, <2>3, SuffixElements
<1> QED BY <1>4, <1>5

LEMMA CommittedBehind ==
    ASSUME NEW tl \in Seq(Tasks), NEW new \in Seq(Tasks), NEW b \in Seq(Tasks),
           TwoBands(tl), Inserted(new, tl, FirstPreemptable(tl), b),
           \A i \in 1..Len(b) : ~b[i].is_preemptable
    PROVE  IsPrefix(CommittedBand(tl), CommittedBand(new)) /\ OpenBand(new) = OpenBand(tl)
<1> DEFINE k == FirstPreemptable(tl)
           m == k + Len(b)
<1>1. /\ k \in 1..(Len(tl) + 1) /\ Len(tl) \in Nat /\ Len(b) \in Nat
      /\ \A i \in 1..(k - 1) : ~tl[i].is_preemptable
      /\ \A i \in k..Len(tl) : tl[i].is_preemptable
  BY SplitBands
<1>2. /\ Len(new) = Len(tl) + Len(b)
      /\ \A i \in 1..(k - 1) : Alike(new[i], tl[i])
      /\ \A i \in 1..Len(b) : new[k + i - 1] = b[i]
      /\ \A i \in k..Len(tl) : Alike(new[i + Len(b)], tl[i])
  BY DEF Inserted
<1> HIDE DEF k
<1>3. FirstPreemptable(new) = m
  <2>1. ASSUME NEW i \in 1..(m - 1) PROVE ~new[i].is_preemptable
    <3>1. CASE i < k
      <4>1. ~tl[i].is_preemptable /\ Alike(new[i], tl[i])
        BY <1>1, <1>2, <3>1
      <4> QED BY <4>1 DEF Alike
    <3>2. CASE i >= k
      <4>1. i - k + 1 \in 1..Len(b) /\ k + (i - k + 1) - 1 = i
        BY <1>1, <1>2, <3>2
      <4> QED BY <1>2, <4>1
    <3> QED BY <1>1, <3>1, <3>2
  <2>2. ASSUME NEW i \in m..Len(new) PROVE new[i].is_preemptable
    <3>1. i - Len(b) \in k..Len(tl) /\ (i - Len(b)) + Len(b) = i
      BY <1>1, <1>2
    <3>2. tl[i - Len(b)].is_preemptable /\ Alike(new[(i - Len(b)) + Len(b)], tl[i - Len(b)])
      BY <1>1, <1>2, <3>1
    <3> QED BY <3>1, <3>2 DEF Alike
  <2>3. m \in 1..(Len(new) + 1)
    BY <1>1, <1>2
  <2> HIDE DEF m
  <2> QED BY <2>1, <2>2, <2>3, SplitAt
<1>4. IsPrefix(CommittedBand(tl), CommittedBand(new))
  <2>1. /\ Len(CommittedBand(tl)) = k - 1 /\ Len(CommittedBand(new)) = m - 1
        /\ CommittedBand(tl) \in Seq(Entries) /\ CommittedBand(new) \in Seq(Entries)
    BY <1>3, BandTypes DEF k
  <2>2. ASSUME NEW i \in 1..(k - 1)
        PROVE  CommittedBand(tl)[i] = CommittedBand(new)[i]
    <3>1. i \in 1..(m - 1)
      BY <1>1
    <3>2. CommittedBand(tl)[i] = Entry(tl[i]) /\ CommittedBand(new)[i] = Entry(new[i])
      BY <1>3, <3>1 DEF CommittedBand, k
    <3> QED BY <1>2, <3>2 DEF Alike, Entry
  <2>3. k - 1 <= m - 1
    BY <1>1
  <2> QED BY <2>1, <2>2, <2>3, PrefixElements
<1>5. OpenBand(new) = OpenBand(tl)
  <2>1. Len(new) - m + 1 = Len(tl) - k + 1
    BY <1>1, <1>2
  <2>2. ASSUME NEW i \in 1..(Len(tl) - k + 1)
        PROVE  Entry(new[m + i - 1]) = Entry(tl[k + i - 1])
    <3> DEFINE j == k + i - 1
    <3>1. j \in k..Len(tl) /\ m + i - 1 = j + Len(b)
      BY <1>1
    <3> HIDE DEF j
    <3>2. Alike(new[j + Len(b)], tl[j])
      BY <1>2, <3>1
    <3>3. Entry(new[j + Len(b)]) = Entry(tl[j])
      BY <3>2 DEF Alike, Entry
    <3> QED BY <3>1, <3>3 DEF j
  <2> HIDE DEF m
  <2> QED BY <1>3, <2>1, <2>2 DEF OpenBand, k
<1> QED BY <1>4, <1>5

\* Tasks that are taken out leave subsequences of both bands.
LEMMA BandsRemain ==
    ASSUME NEW tl \in Seq(Tasks), NEW new \in Seq(Tasks), NEW p, NEW n,
           Deleted(new, tl, p, n), TwoBands(tl), TwoBands(new)
    PROVE  /\ Bands!Remains(CommittedBand(new), CommittedBand(tl))
           /\ Bands!Remains(OpenBand(new), OpenBand(tl))
<1> DEFINE k == FirstPreemptable(tl)
           m == FirstPreemptable(new)
           place(i) == IF i < p THEN i ELSE i + n
<1>1. /\ k \in 1..(Len(tl) + 1) /\ Len(tl) \in Nat
      /\ \A i \in 1..(k - 1) : ~tl[i].is_preemptable
      /\ \A i \in k..Len(tl) : tl[i].is_preemptable
  BY SplitBands
<1>2. /\ m \in 1..(Len(new) + 1) /\ Len(new) \in Nat
      /\ \A i \in 1..(m - 1) : ~new[i].is_preemptable
      /\ \A i \in m..Len(new) : new[i].is_preemptable
  BY SplitBands
<1> HIDE DEF k, m
<1>3. n \in Nat /\ p \in 1..(Len(tl) + 1) /\ p + n <= Len(tl) + 1 /\ Len(new) = Len(tl) - n
  BY DEF Deleted
<1>4. ASSUME NEW i \in 1..Len(new)
      PROVE  place(i) \in 1..Len(tl) /\ new[i] = tl[place(i)]
  <2>1. CASE i < p
    BY <1>1, <1>2, <1>3, <2>1 DEF Deleted
  <2>2. CASE i >= p
    <3> DEFINE j == i + n
    <3>1. j \in (p + n)..Len(tl) /\ j - n = i /\ place(i) = j
      BY <1>1, <1>2, <1>3, <2>2
    <3> HIDE DEF j
    <3>2. new[j - n] = tl[j]
      BY <3>1 DEF Deleted
    <3>3. j \in 1..Len(tl)
      BY <1>3, <3>1
    <3> QED BY <3>1, <3>2, <3>3
  <2> QED BY <1>2, <1>3, <2>1, <2>2
<1>5. \A i, j \in 1..Len(new) : i < j => place(i) < place(j)
  BY <1>2, <1>3
<1> HIDE DEF place
<1>6. \A i \in 1..(m - 1) : i \in 1..Len(new) /\ place(i) \in 1..(k - 1)
  <2> TAKE i \in 1..(m - 1)
  <2>1. i \in 1..Len(new)
    BY <1>2
  <2>2. ~tl[place(i)].is_preemptable /\ place(i) \in 1..Len(tl)
    BY <1>2, <1>4, <2>1
  <2>3. place(i) \notin k..Len(tl)
    BY <1>1, <2>2
  <2> QED BY <1>1, <2>1, <2>2, <2>3
<1>7. \A i \in m..Len(new) : i \in 1..Len(new) /\ place(i) \in k..Len(tl)
  <2> TAKE i \in m..Len(new)
  <2>1. i \in 1..Len(new)
    BY <1>2
  <2>2. tl[place(i)].is_preemptable /\ place(i) \in 1..Len(tl)
    BY <1>2, <1>4, <2>1
  <2>3. place(i) \notin 1..(k - 1)
    BY <1>1, <2>2
  <2> QED BY <1>1, <2>1, <2>2, <2>3
<1>8. Bands!Remains(CommittedBand(new), CommittedBand(tl))
  <2> DEFINE kept == [i \in 1..(m - 1) |-> place(i)]
  <2>1. Len(CommittedBand(new)) = m - 1 /\ Len(CommittedBand(tl)) = k - 1
    BY BandTypes DEF k, m
  <2>2. kept \in [1..(m - 1) -> 1..(k - 1)]
    BY <1>6
  <2>3. \A i, j \in 1..(m - 1) : i < j => kept[i] < kept[j]
    BY <1>5, <1>6
  <2>4. ASSUME NEW i \in 1..(m - 1)
        PROVE  CommittedBand(new)[i] = CommittedBand(tl)[kept[i]]
    <3>1. CommittedBand(new)[i] = Entry(new[i])
      BY DEF CommittedBand, m
    <3>2. CommittedBand(tl)[place(i)] = Entry(tl[place(i)])
      BY <1>6 DEF CommittedBand, k
    <3> QED BY <1>4, <1>6, <3>1, <3>2
  <2> HIDE DEF kept
  <2> QED BY <2>1, <2>2, <2>3, <2>4 DEF Bands!Remains
<1>9. Bands!Remains(OpenBand(new), OpenBand(tl))
  <2> DEFINE kept == [i \in 1..(Len(new) - m + 1) |-> place(m + i - 1) - k + 1]
  <2>1. Len(OpenBand(new)) = Len(new) - m + 1 /\ Len(OpenBand(tl)) = Len(tl) - k + 1
    BY BandTypes DEF k, m
  <2>2. ASSUME NEW i \in 1..(Len(new) - m + 1)
        PROVE  /\ m + i - 1 \in m..Len(new) /\ m + i - 1 \in 1..Len(new)
               /\ place(m + i - 1) \in k..Len(tl)
               /\ kept[i] = place(m + i - 1) - k + 1
               /\ kept[i] \in 1..(Len(tl) - k + 1)
    <3>1. m + i - 1 \in m..Len(new)
      BY <1>2
    <3>2. place(m + i - 1) \in k..Len(tl) /\ m + i - 1 \in 1..Len(new)
      BY <1>7, <3>1
    <3> DEFINE q == place(m + i - 1)
    <3>3. kept[i] = q - k + 1 /\ q \in k..Len(tl)
      BY <3>2
    <3> HIDE DEF q, kept
    <3>4. kept[i] \in 1..(Len(tl) - k + 1)
      BY <1>1, <3>3
    <3> QED BY <3>1, <3>2, <3>3, <3>4 DEF q
  <2>3. kept \in [1..(Len(new) - m + 1) -> 1..(Len(tl) - k + 1)]
    BY <2>2
  <2> HIDE DEF kept
  <2>4. ASSUME NEW i \in 1..(Len(new) - m + 1), NEW j \in 1..(Len(new) - m + 1), i < j
        PROVE  kept[i] < kept[j]
    <3>1. m + i - 1 < m + j - 1
      BY <1>2, <2>4
    <3>2. place(m + i - 1) < place(m + j - 1)
      BY <1>5, <2>2, <3>1
    <3> QED BY <1>1, <2>2, <3>2
  <2>5. ASSUME NEW i \in 1..(Len(new) - m + 1)
        PROVE  OpenBand(new)[i] = OpenBand(tl)[kept[i]]
    <3> DEFINE q == place(m + i - 1)
    <3>1. OpenBand(new)[i] = Entry(new[m + i - 1])
      BY DEF OpenBand, m
    <3>2. new[m + i - 1] = tl[q]
      BY <1>4, <2>2
    <3>3. kept[i] = q - k + 1 /\ q \in k..Len(tl)
      BY <2>2
    <3> HIDE DEF q
    <3>4. OpenBand(tl)[kept[i]] = Entry(tl[q])
      <4>1. k + kept[i] - 1 = q
        BY <1>1, <3>3
      <4>2. OpenBand(tl)[kept[i]] = Entry(tl[k + kept[i] - 1])
        BY <2>2 DEF OpenBand, k
      <4> QED BY <4>1, <4>2
    <3> QED BY <3>1, <3>2, <3>4
  <2> QED BY <2>1, <2>3, <2>4, <2>5 DEF Bands!Remains
<1> QED BY <1>8, <1>9

\* A list without committed tasks, and the empty one.
LEMMA OpenList ==
    ASSUME NEW new \in Seq(Tasks), \A i \in 1..Len(new) : new[i].is_preemptable
    PROVE  /\ CommittedBand(new) = <<>> /\ Len(OpenBand(new)) = Len(new)
           /\ \A s : Bands!Remains(<<>>, s)
           /\ Len(new) = 0 => OpenBand(new) = <<>>
<1>1. FirstPreemptable(new) = 1 /\ Len(new) \in Nat
  <2>1. 1 \in 1..(Len(new) + 1)
    OBVIOUS
  <2> QED BY <2>1, SplitAt
<1>2. CommittedBand(new) = <<>>
  BY <1>1 DEF CommittedBand
<1>3. Len(OpenBand(new)) = Len(new)
  BY <1>1, BandTypes
<1>4. Len(new) = 0 => OpenBand(new) = <<>>
  BY <1>1 DEF OpenBand
<1>5. ASSUME NEW s PROVE Bands!Remains(<<>>, s)
  <2> DEFINE none == <<>>
             kept == [i \in 1..Len(none) |-> i]
  <2>1. \A i \in 1..Len(none) : FALSE
    OBVIOUS
  <2> HIDE DEF none
  <2>2. kept \in [1..Len(none) -> 1..Len(s)]
    BY <2>1
  <2>3. Bands!Remains(none, s)
    BY <2>1, <2>2 DEF Bands!Remains
  <2> QED BY <2>3 DEF none
<1> QED BY <1>2, <1>3, <1>4, <1>5

\* What a step does to the list is a step of the queue of two bands.
LEMMA BandsStep ==
    ASSUME task_list \in Seq(Tasks), task_list' \in Seq(Tasks),
           TwoBands(task_list), TwoBands(task_list'), ListEffect
    PROVE  [Bands!Next]_(Bands!bands)
<1> DEFINE c == CommittedBand(task_list)
           o == OpenBand(task_list)
           cc == CommittedBand(task_list')
           oo == OpenBand(task_list')
<1>1. \/ IsStrictPrefix(c, cc) /\ oo = o
      \/ cc = c /\ (IsStrictSuffix(o, oo) \/ IsStrictPrefix(o, oo))
      \/ Bands!Remains(cc, c) /\ Bands!Remains(oo, o)
      \/ cc = <<>> /\ Len(oo) \in 1..2
      \/ cc = c /\ oo = o
  <2>1. ASSUME NEW p, NEW b, Grows(p, b)
        PROVE  \/ IsStrictPrefix(c, cc) /\ oo = o
               \/ cc = c /\ (IsStrictSuffix(o, oo) \/ IsStrictPrefix(o, oo))
               \/ cc = c /\ oo = o
    <3>1. /\ b \in Seq(Tasks) /\ Inserted(task_list', task_list, p, b)
          /\ p = Len(task_list) + 1 \/ p = FirstPreemptable(task_list)
      BY <2>1 DEF Grows, Inserted
    <3>2. CASE \A i \in 1..Len(b) : b[i].is_preemptable
      <4>1. CASE p = Len(task_list) + 1
        <5>1. cc = c /\ IsPrefix(o, oo)
          BY <3>1, <3>2, <4>1, OpenBehind
        <5> QED BY <5>1 DEF IsStrictPrefix
      <4>2. CASE p = FirstPreemptable(task_list)
        <5>1. cc = c /\ IsSuffix(o, oo)
          BY <3>1, <3>2, <4>2, OpenInFront
        <5> QED BY <5>1 DEF IsStrictSuffix
      <4> QED BY <3>1, <4>1, <4>2
    <3>3. CASE p = FirstPreemptable(task_list) /\ \A i \in 1..Len(b) : ~b[i].is_preemptable
      <4>1. IsPrefix(c, cc) /\ oo = o
        BY <3>1, <3>3, CommittedBehind
      <4> QED BY <4>1 DEF IsStrictPrefix
    <3> QED BY <2>1, <3>2, <3>3 DEF Grows
  <2>2. ASSUME NEW p, NEW n, Shrinks(p, n)
        PROVE  Bands!Remains(cc, c) /\ Bands!Remains(oo, o)
    <3>1. Deleted(task_list', task_list, p, n)
      BY <2>2 DEF Shrinks
    <3> QED BY <3>1, BandsRemain
  <2>3. CASE Superseded \/ task_list' = <<>>
    <3>1. /\ \A i \in 1..Len(task_list') : task_list'[i].is_preemptable
          /\ Len(task_list') \in 0..2
      BY <2>3 DEF Superseded
    <3>2. /\ cc = <<>> /\ Len(oo) = Len(task_list')
          /\ \A s : Bands!Remains(<<>>, s)
          /\ Len(task_list') = 0 => oo = <<>>
      BY <3>1, OpenList
    <3> HIDE DEF c, o, cc, oo
    <3>3. CASE Len(task_list') = 0
      BY <3>2, <3>3
    <3>4. CASE Len(task_list') # 0
      <4>1. Len(task_list') \in 1..2
        BY <3>1, <3>4
      <4> QED BY <3>2, <4>1
    <3> QED BY <3>3, <3>4
  <2> QED BY <2>1, <2>2, <2>3 DEF ListEffect
<1>2. /\ c = [i \in 1..(Split - 1) |-> Entry(task_list[i])]
      /\ o = [i \in 1..(Len(task_list) - Split + 1) |-> Entry(task_list[Split + i - 1])]
      /\ cc = [i \in 1..(Split - 1) |-> Entry(task_list[i])]'
      /\ oo = [i \in 1..(Len(task_list) - Split + 1) |-> Entry(task_list[Split + i - 1])]'
  BY DEF CommittedBand, OpenBand, Split
<1> HIDE DEF c, o, cc, oo
<1>3. /\ \A s, t : IsStrictPrefix(s, t) => Bands!IsStrictPrefix(s, t)
      /\ \A s, t : IsStrictSuffix(s, t) => Bands!IsStrictSuffix(s, t)
  BY DEF IsStrictPrefix, IsStrictSuffix, IsPrefix, IsSuffix, Reverse,
         Bands!IsStrictPrefix, Bands!IsStrictSuffix, Bands!IsPrefix, Bands!IsSuffix,
         Bands!Reverse
<1>4. CASE IsStrictPrefix(c, cc) /\ oo = o
  BY <1>2, <1>3, <1>4 DEF Bands!Next, Bands!Commit
<1>5. CASE cc = c /\ (IsStrictSuffix(o, oo) \/ IsStrictPrefix(o, oo))
  BY <1>2, <1>3, <1>5 DEF Bands!Next, Bands!Add
<1>6. CASE Bands!Remains(cc, c) /\ Bands!Remains(oo, o)
  BY <1>2, <1>6 DEF Bands!Next, Bands!Cancel
<1>7. CASE cc = <<>> /\ Len(oo) \in 1..2
  BY <1>2, <1>7 DEF Bands!Next, Bands!Supersede
<1>8. CASE cc = c /\ oo = o
  BY <1>2, <1>8 DEF Bands!bands
<1> QED BY <1>1, <1>4, <1>5, <1>6, <1>7, <1>8

\* The task list implements the queue of two bands: what addTask, cancelTask, the
\* formation delay, createToiTasks, handleOverwatch and updateTasks do to the list
\* are steps of module TwoBandQueue.
THEOREM ListIsTwoBands == Spec => ImplementsTwoBands
<1>1. Init => Bands!Init
  <2> SUFFICES ASSUME Init PROVE Bands!Init
    OBVIOUS
  <2>1. task_list = <<>>
    BY DEF Init
  <2>2. CommittedBand(task_list) = <<>> /\ OpenBand(task_list) = <<>>
    <3>1. /\ task_list \in Seq(Tasks) /\ Len(task_list) = 0
          /\ \A i \in 1..Len(task_list) : task_list[i].is_preemptable
      BY <2>1
    <3> QED BY <3>1, OpenList
  <2> QED BY <2>2 DEF Bands!Init, CommittedBand, OpenBand, Split
<1>2. IInv /\ MissionInv /\ [Next]_vars => [Bands!Next]_(Bands!bands)
  <2> SUFFICES ASSUME IInv, MissionInv, [Next]_vars PROVE [Bands!Next]_(Bands!bands)
    OBVIOUS
  <2>1. /\ task_list \in Seq(Tasks) /\ task_list' \in Seq(Tasks)
        /\ TwoBands(task_list) /\ TwoBands(task_list')
    BY NextInvariant DEF IInv, TypeOK, WellFormed
  <2>2. ListEffect
    BY MissionNext
  <2> QED BY <2>1, <2>2, BandsStep
<1> QED BY <1>1, <1>2, MissionInvHolds, PTL DEF Spec, Bands!Spec, ImplementsTwoBands
=============================================================================
