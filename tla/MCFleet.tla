------------------------------- MODULE MCFleet -------------------------------
(***************************************************************************)
(* Instances of Fleet: what the operator sends a team of three, and which  *)
(* of the vehicles investigate and stand by.                               *)
(***************************************************************************)
EXTENDS Fleet

CONSTANTS v1, v2, v3, op, none

ThreeVehicles == {v1, v2, v3}

Order(m) == [m |-> m, after |-> {}]
Move(id, prio) == Order([type |-> "MOVETO", id |-> id, prio |-> prio])
Done(v) == [sender |-> v, id |-> 1]
Wait(id) == [type |-> "WAIT_UNTIL_COMPLETE", id |-> id, prio |-> "QUEUE",
             target |-> [veh |-> v1, id |-> 1]]
After(c, o) == [o EXCEPT !.after = {c}]

\* v1 is sent on its way, its first investigation is cancelled, then everything.
\* v2 waits for v1 to get there, and is then sent elsewhere.  v3 has nothing to do
\* and is not heard of.
MissionScript ==
    (v1 :> <<Move(1, "QUEUE"),
             Order([type |-> "CANCEL", id |-> 4, target_msg_id |-> 9]),
             Order([type |-> "CANCEL_ALL", id |-> 5])>>)
    @@ (v2 :> <<Order(Wait(2)), After(Done(v1), Move(3, "CANCEL_ALL"))>>)
    @@ (v3 :> <<>>)

\* The team follows v1 in a column, first until v1 is there, then until all are.
\* The first task of v1 is cancelled.
Column(v, id, term) ==
    Order([type |-> "FORM", id |-> id, prio |-> "QUEUE", at_goal |-> FALSE,
           formation |-> [term |-> term, leader |-> v1,
                          followed |-> IF v = v3 THEN v2 ELSE v1,
                          members |-> ThreeVehicles]])
ColumnScript ==
    [v \in ThreeVehicles |->
        <<Column(v, 1, "LEADER_ARRIVED"), Column(v, 2, "ALL_ARRIVED")>>
        \o (IF v = v1 THEN <<Order([type |-> "CANCEL", id |-> 3, target_msg_id |-> 1])>>
            ELSE <<>>)]

\* Task 1 of vehicle v1 is complete; a new task 1 and a wait for it are sent.
ReuseScript ==
    (v1 :> <<Move(1, "QUEUE"), After(Done(v1), Move(1, "QUEUE"))>>)
    @@ (v2 :> <<After(Done(v1), Order(Wait(2)))>>)
    @@ (v3 :> <<>>)

TeamMissions == {"investigations", "columns"}
ReuseMissions == {"reuse"}
Scripts ==
    [investigations |-> MissionScript, columns |-> ColumnScript, reuse |-> ReuseScript]
Asked == [investigations |-> {{}, {v1}, {v2}}, columns |-> {}, reuse |-> {}]
Bounds == [investigations |-> 2, columns |-> 0, reuse |-> 0]
=============================================================================
