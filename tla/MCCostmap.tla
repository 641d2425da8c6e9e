----------------------------- MODULE MCCostmap ------------------------------
(***************************************************************************)
(* An instance of Costmap: a strip of three cells with the sensor over its *)
(* left end and a bank there that the static layer knows.                  *)
(***************************************************************************)
EXTENDS Costmap

CONSTANTS no_scan, no_grid

Point(x, h) == [x |-> x, y |-> 0, h |-> h, ground |-> FALSE]
Scan(z, points) == [origin |-> <<0, 0, z>>, points |-> points]

\* A wall, seen from its foot to its top; another one behind it, seen over its foot;
\* the ground behind it, seen through it.
Wall == Scan(1, <<Point(1, 1), Point(1, 5), Point(1, 9)>>)
Over == Scan(2, <<Point(2, 9), Point(2, 5)>>)
Through == Scan(1, <<[Point(2, 1) EXCEPT !.ground = TRUE]>>)
MCMethods == <<"time", "channel_threshold", "raytrace">>
Bank == (<<0, 0>> :> [low |-> 1, high |-> 5])
Low == [thresh |-> 2, thresh_max |-> 10]
High == [thresh |-> 6, thresh_max |-> 14]

\* Points get old; the thresholds move; a subscriber that comes and spins when it likes.
MCScenarios ==
    {[prompt |-> TRUE, scans |-> {Wall, Over}, dts |-> 0..1, clear_scans |-> {Through},
      thresholds |-> {Low}],
     [prompt |-> TRUE, scans |-> {Wall, Over}, dts |-> {0}, clear_scans |-> {Through},
      thresholds |-> {Low, High}],
     [prompt |-> FALSE, scans |-> {Wall}, dts |-> 0..1, clear_scans |-> {},
      thresholds |-> {Low, High}]}
=============================================================================
