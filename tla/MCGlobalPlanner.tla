-------------------------- MODULE MCGlobalPlanner ---------------------------
EXTENDS GlobalPlanner
CONSTANTS a, b, none
MCPoints == {a, b}
MCGoalLists == {<<a>>, <<b, a>>}
=============================================================================
