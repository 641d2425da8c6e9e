----------------------------- MODULE MCSetpoints -----------------------------
(***************************************************************************)
(* Instances of Setpoints: two zones that may overlap.                     *)
(***************************************************************************)
EXTENDS Setpoints

CONSTANTS v1, op, none, north, south

MCVehicles == {v1}
MCZones == {1, 2}
MCLabels == {north, south}

\* The zones of a file.
MCLabel == [z \in MCZones |-> IF z = 1 THEN north ELSE south]
MCFileSpeed == [z \in MCZones |-> z]

Drive(kind, speed, limit, weight) ==
    [kind |-> kind, is_preemptable |-> limit = 0, init_done |-> FALSE,
     task_speed |-> speed, speed_limit |-> limit, w_distance_to_goal |-> weight]

\* A point to drive to, one with a speed and a weight of its own, the circle
\* around a contact, a delay.
MCTaskTypes == {Drive("MoveTo", 0, 0, 0), Drive("MoveTo", 3, 0, 1),
                Drive("Encircle", 0, 2, 0), Drive("WaitForDuration", 0, 0, 0)}

PlainTasks == {Drive("MoveTo", 0, 0, 0)}

Update(id, s) == [id |-> id, max_speed |-> s]
MCRequests == {<<Update(north, 3)>>, <<Update(south, 0), Update(north, 3)>>,
               <<Update(north, 3), Update(south, -1)>>}
=============================================================================
