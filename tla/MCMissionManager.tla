-------------------------- MODULE MCMissionManager --------------------------
(***************************************************************************)
(* Instance of MissionManager: vehicle v1 of a team of two, and the        *)
(* messages that make the interesting cases.                               *)
(***************************************************************************)
EXTENDS MissionManager

CONSTANTS v1, v2, op, none

MCVehicles == {v1, v2}

Move(id, prio) == [type |-> "MOVETO", sender |-> op, id |-> id, prio |-> prio]
Cancel(target) == [type |-> "CANCEL", sender |-> op, id |-> 3, target_msg_id |-> target]
Wait(prio) == [type |-> "WAIT_UNTIL_COMPLETE", sender |-> op, id |-> 2, prio |-> prio,
               target |-> [veh |-> v2, id |-> 1]]
Overwatch == [type |-> "OVERWATCH", sender |-> v2, wait_for_msg_id |-> 9]
Notice(type) == [type |-> type, sender |-> v2, id |-> 1]

\* Formation 1: v1 behind v2, or both at the goal, or v1 in the lead.
Form(leader, at_goal, term, prio) ==
    [type |-> "FORM", sender |-> op, id |-> 1, prio |-> prio, at_goal |-> at_goal,
     shape |-> IF at_goal THEN 2 ELSE 1,
     formation |-> [term |-> term, leader |-> leader, followed |-> leader,
                    members |-> {v1, v2}]]

\* Operator commands against investigations and overwatch.
InvestigationCommands ==
    {Move(1, "PREEMPT"), Move(1, "CANCEL_ALL"), Cancel(9),
     [type |-> "CANCEL_ALL", sender |-> op, id |-> 3], Overwatch}

\* Formations, their delays, and what ends them.
FormationCommands ==
    {Form(v2, FALSE, "LEADER_ARRIVED", "PREEMPT"), Form(v2, FALSE, "ALL_ARRIVED", "QUEUE"),
     Form(v2, TRUE, "LEADER_ARRIVED", "CANCEL_ALL"), Form(v1, FALSE, "ALL_ARRIVED", "QUEUE"),
     [type |-> "PATH_FOLLOW", sender |-> op, id |-> 4, prio |-> "PREEMPT"],
     Wait("QUEUE"), Notice("ARRIVE"), Notice("TASK_COMPLETE"), Cancel(1), Overwatch}

\* The messages the vehicle hears are of one kind or of the other.
VARIABLE scenario
Script == IF scenario = "investigation" THEN InvestigationCommands ELSE FormationCommands
AllCommands == InvestigationCommands \cup FormationCommands

MCInit == Init /\ scenario \in {"investigation", "formation"}

MCNext ==
    /\ \/ Advance
       \/ Spin
       \/ Reset
       \/ GoalReached
       \/ \E m \in Script : Command(m)
       \/ SetSpeed
       \/ Shutdown
       \/ \E p \in published : OwnMessage(p)
       \/ ReportNew
       \/ \E c \in ContactIds : ReportKnown(c)
       \/ \E c \in ContactIds : RefineContact(c)
       \/ \E c \in ContactIds : ConfirmPending(c)
       \/ UpdateTasks
    /\ UNCHANGED scenario

MCSpec == MCInit /\ [][MCNext]_<<vars, scenario>> /\ Fairness
=============================================================================
