---------------------------- MODULE MCNavigation ----------------------------
(* Instance of Navigation: two goals, both local planners with both speed controls. *)
(* With MPC and the default control, a go command may come late.                    *)
EXTENDS Navigation

CONSTANTS a, b

MCGoals == {a, b}
MCLate(l, c) ==
    IF l = "mpc" /\ c = "default" THEN {"go"} ELSE {}
MCSetups == {[local |-> l, control |-> c, late |-> MCLate(l, c)] :
                l \in {"mpc", "dwa"}, c \in {"default", "atat"}}
MCMortal == (Nodes \ {"mission"}) \cup {"odometry"}
=============================================================================
