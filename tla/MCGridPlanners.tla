--------------------------- MODULE MCGridPlanners ---------------------------
(* A small instance of GridPlanners: after a first plan through a wall with  *)
(* one gap, every grid whose second column holds free and impassable cells   *)
(* and whose third holds free, rough and impassable ones.                    *)
EXTENDS GridPlanners

Column(x) == {c \in Cells : X(c) = x}

\* The top of the third column and the bottom of the fourth are obstacles too.
MCFirstGrids ==
    {[c \in Cells |-> IF \/ X(c) = 1 /\ Y(c) < Height - 1
                        \/ c \in {At(2, Height - 1), At(3, 0)}
                     THEN 100 ELSE 0]}
MCGrids == {[c \in Cells |-> CASE X(c) = 1 -> f[c] [] X(c) = 2 -> g[c] [] OTHER -> 0] :
               f \in [Column(1) -> {0, 100}], g \in [Column(2) -> {0, 1, 100}]}
=============================================================================
