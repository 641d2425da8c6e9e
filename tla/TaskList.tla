------------------------------ MODULE TaskList ------------------------------
(***************************************************************************)
(* The tasks of one vehicle's mission manager and the double-ended queue   *)
(* (std::deque<Task*> task_list) that holds them: pure operators on a      *)
(* sequence of task records.  MissionManager uses them for one vehicle in  *)
(* full detail, Fleet for the task lists of several vehicles.              *)
(*                                                                         *)
(* A task is a record of what decides its life in the queue.  Poses,       *)
(* thresholds, offsets and paths are left out: where they decide something *)
(* (a goal is reached, a circle is swept) the deciding step is a choice.   *)
(***************************************************************************)
EXTENDS Integers, SequencesExt

CONSTANTS Vehicles,   \* names of the vehicles of the team
          Operator,   \* the commander that sends mission messages
          NoVehicle   \* the empty vehicle name

ASSUME NamesAssumption == /\ Operator \notin Vehicles
                          /\ NoVehicle \notin Vehicles

Agents == Vehicles \cup {Operator}

TaskKinds == {"MoveTo", "PathFollow", "Follow", "WaitUntilComplete",
              "WaitForDuration", "Encircle"}

Priorities == {"QUEUE", "PREEMPT", "CANCEL_ALL"}

NoContact == 0

\* Where a contact is believed to be: as first reported, or refined since.
Poses == {"first", "refined"}

\* The task another vehicle is waited for (WaitUntilComplete).
Targets == [veh : Vehicles \cup {NoVehicle}, id : Int]
NoTarget == [veh |-> NoVehicle, id |-> 0]

\* What a task keeps of its FormationDefinition: how it terminates and whom.
Formations == [term : {"", "LEADER_ARRIVED", "ALL_ARRIVED"},
               leader : Vehicles \cup {NoVehicle},
               followed : Vehicles \cup {NoVehicle},
               members : SUBSET Vehicles]
NoFormation == [term |-> "", leader |-> NoVehicle,
                followed |-> NoVehicle, members |-> {}]

Tasks == [kind : TaskKinds, sender : Agents, id : Int,
          is_preemptable : BOOLEAN, init_done : BOOLEAN, arrived : BOOLEAN,
          contact : Nat, pose : Poses, target : Targets, since : Nat,
          formation : Formations]

\* A task as its constructor leaves it: queued, preemptable, not started.
NewTask(kind, sender, id) ==
    [kind |-> kind, sender |-> sender, id |-> id,
     is_preemptable |-> TRUE, init_done |-> FALSE, arrived |-> FALSE,
     contact |-> NoContact, pose |-> "first", target |-> NoTarget, since |-> 0,
     formation |-> NoFormation]

\* The approach to a contact, and the circle around it that follows.
ApproachTask(me, c, pose) ==
    [NewTask("MoveTo", me, -1)
       EXCEPT !.is_preemptable = FALSE, !.contact = c, !.pose = pose]

EncircleTask(me, id, c, pose) ==
    [NewTask("Encircle", me, id)
       EXCEPT !.is_preemptable = FALSE, !.contact = c, !.pose = pose]

\* The two tasks of a vehicle that stands by during another's investigation.
OverwatchMove(me) ==
    [NewTask("MoveTo", me, -1) EXCEPT !.is_preemptable = FALSE]

WaitTask(sender, id, target, since) ==
    [NewTask("WaitUntilComplete", sender, id)
       EXCEPT !.target = target, !.since = since]

OverwatchWait(me, target, since) ==
    [WaitTask(me, -1, target, since) EXCEPT !.is_preemptable = FALSE]

IsEncircleOf(t, c) == t.kind = "Encircle" /\ t.contact = c
IsApproachOf(t, c) == t.kind = "MoveTo" /\ t.contact = c

-----------------------------------------------------------------------------
\* Fault: a preempted task does not start over.
OnPreemptKeepsStart(t) == t

\* Task::onPreempt: a preempted task starts over when its turn comes again.
\* WaitForDuration and Encircle do not override it and keep their start.
OnPreempt(t) ==
    IF t.kind \in {"WaitForDuration", "Encircle"}
      THEN t
      ELSE [t EXCEPT !.init_done = FALSE]

\* Position of the first preemptable task, one past the end if there is none.
FirstPreemptable(tl) ==
    LET k == SelectInSeq(tl, LAMBDA t : t.is_preemptable)
    IN  IF k = 0 THEN Len(tl) + 1 ELSE k

\* Fault: always in front of the list.
PreemptInsertAtFront(tl, t) ==
    <<t>> \o [i \in 1..Len(tl) |-> IF i = 1 THEN OnPreempt(tl[i]) ELSE tl[i]]

\* Preempting: the task goes in front of the first preemptable task, which is
\* the front of the list unless tasks that may not be preempted are there.
PreemptInsert(tl, t) ==
    LET k == FirstPreemptable(tl)
    IN  InsertAt([i \in 1..Len(tl) |->
                     IF i = k THEN OnPreempt(tl[i]) ELSE tl[i]], k, t)

\* Where AddTask leaves the task it adds.
AddPosition(tl, prio) ==
    CASE prio = "CANCEL_ALL" -> 1
      [] prio = "PREEMPT"    -> FirstPreemptable(tl)
      [] OTHER               -> Len(tl) + 1

AddTask(tl, t, prio) ==
    CASE prio = "CANCEL_ALL" -> <<t>>
      [] prio = "PREEMPT"    -> PreemptInsert(tl, t)
      [] OTHER               -> Append(tl, t)

\* Position of the first task with the given message id, 0 if there is none.
FindTask(tl, id) == SelectInSeq(tl, LAMBDA t : t.id = id)

\* Position of the approach to contact c, 0 if there is none.
FindApproach(tl, c) == SelectInSeq(tl, LAMBDA t : IsApproachOf(t, c))

\* Fault: the approach is left behind.
CancelTaskAlone(tl, id) ==
    LET k == FindTask(tl, id)
    IN  IF k = 0 THEN tl ELSE RemoveAt(tl, k)

\* The list after cancelling task id: without the first task of that id and,
\* when it encircles a contact, without the approach to that contact.
CancelTask(tl, id) ==
    LET k == FindTask(tl, id)
    IN  IF k = 0 THEN tl
        ELSE LET rest == RemoveAt(tl, k)
                 a == IF tl[k].kind = "Encircle" /\ tl[k].contact # NoContact
                        THEN FindApproach(rest, tl[k].contact) ELSE 0
             IN  IF a = 0 THEN rest ELSE RemoveAt(rest, a)

\* The tasks CancelTask removes, in the order they are announced.
CancelledTasks(tl, id) ==
    LET k == FindTask(tl, id)
        a == FindApproach(tl, tl[k].contact)
    IN  IF k = 0 THEN <<>>
        ELSE IF tl[k].kind = "Encircle" /\ tl[k].contact # NoContact /\ a # 0
          THEN <<tl[k], tl[a]>> ELSE <<tl[k]>>

\* The contacts whose investigation is in the list.
EncircledContacts(tl) ==
    {tl[i].contact : i \in {j \in 1..Len(tl) : tl[j].kind = "Encircle"}}
    \ {NoContact}
=============================================================================
