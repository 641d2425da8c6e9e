------------------------------ MODULE Costmap -------------------------------
(***************************************************************************)
(* The costmap of the perception node and a subscriber's copy of it.       *)
(*                                                                         *)
(* Point clouds raise and clear the cells of a layer; a static layer never *)
(* changes.  Obstacles are dilated over the cells around them.  In         *)
(* "updates" mode the node publishes the whole grid now and then and, in   *)
(* between, the cells around those that points fell into.  A subscriber    *)
(* puts the two together.  The clearing methods are those by age, by rays, *)
(* whose dilation goes at once (immediate_clear_dilation), and by the      *)
(* channel that marks the ground.                                          *)
(*                                                                         *)
(* Heights are counted in half voxels: a point is in the middle of its     *)
(* voxel, at an odd height, and the top of a voxel is at an even one.      *)
(* A slope is a difference of heights: every cell has the same size.       *)
(***************************************************************************)
EXTENDS Integers, Sequences, FiniteSets, SequencesExt

CONSTANTS NX, NY,          \* cells of the grid
          DX, DY,          \* dilation, in cells
          NVoxels,         \* N_VOXELS_PER_CELL
          Methods,         \* clearing methods, in order
          BelowOnly,       \* clr_on_scan_below_only
          Combination,     \* layer_combination_method
          StaticHeights,   \* [low, high] of the cells of the static layer
          MaxPointAge,     \* max_point_age
          ForceEvery,      \* force_full_every, in cycles; 0 for never
          Scenarios,       \* what happens, see below
          NoScan, NoGrid

\* A scenario has the point clouds that may come, the time between them, those of the
\* ground, which only clear, and the settings of the thresholds, [thresh, thresh_max].
\* A prompt subscriber is there from the start and handles each message at once.

\* The bounds of a cell that no point was seen in: beyond every height.
NoLow == 1000
NoHigh == -1

Cells == (0..(NX - 1)) \X (0..(NY - 1))
Points == [x : Int, y : Int, h : 0..(NoLow - 1), ground : BOOLEAN]

ASSUME CostmapAssumption ==
    /\ {NX, NY} \subseteq Nat \ {0} /\ {DX, DY, NVoxels, MaxPointAge, ForceEvery} \subseteq Nat
    /\ Methods \in Seq({"time", "raytrace", "channel_threshold"})
    /\ BelowOnly \in BOOLEAN
    /\ Combination \in {"last", "mean", "max"} /\ NoGrid \notin [Cells -> Int]
    /\ \A c \in DOMAIN StaticHeights :
          /\ c \in Cells
          /\ StaticHeights[c].low \in 0..(NoLow - 1) /\ StaticHeights[c].high \in 0..(NoLow - 1)
    /\ \A sc \in Scenarios :
          /\ sc.prompt \in BOOLEAN /\ sc.dts \subseteq Nat
          /\ \A t \in sc.thresholds :
                t \in [thresh : Nat, thresh_max : Nat] /\ t.thresh < t.thresh_max
          /\ \A s \in sc.scans \cup sc.clear_scans :
                s.points \in Seq(Points) /\ s.origin \in Int \X Int \X Int

VARIABLES cells,        \* of the point cloud layer
          voxel_grid,   \* voxels of each cell that points were seen in
          static_cells, \* of the static layer
          thresholds,   \* the present ones
          update_region,\* box of the cells that points fell into
          clr_only_pc,  \* a cloud that only clears and waits for the next cloud
          ready,        \* the warm-up is over
          reset_called,
          retuned,      \* thresholds moved since the last full grid (auxiliary)
          since_full,   \* cycles since the last full grid, -1 before the first one
          scenario,     \* the one that takes place
          joined,       \* the subscriber is there
          latched,      \* the last full grid, for a subscriber that is not there
          grids,        \* full grids and updates on their way to the subscriber
          updates,
          grid_msg      \* the subscriber's copy

layer_vars == <<cells, voxel_grid, static_cells, thresholds, update_region, clr_only_pc>>
node_vars == <<ready, reset_called, retuned, since_full>>
sub_vars == <<scenario, joined, latched, grids, updates, grid_msg>>
vars == <<layer_vars, node_vars, sub_vars>>

-----------------------------------------------------------------------------
\* Cells of a layer.
Smaller(a, b) == IF a < b THEN a ELSE b
Larger(a, b) == IF a > b THEN a ELSE b

EmptyCell == [low |-> NoLow, high |-> NoHigh, low_age |-> 0, high_age |-> 0,
              has_dilated |-> FALSE, dilated_val |-> -1]
Filled(cell) == cell.low < NoLow
Height(cell) == cell.high - cell.low
ResetHeight(cell) == [cell EXCEPT !.low = NoLow, !.high = NoHigh]

PastSlopeThreshold(cell, t) == Height(cell) > t.thresh

\* The occupancy of a cell: in proportion to its slope, up to 100.
GetGridCellValue(cell, t) ==
    IF ~Filled(cell) THEN -1
    ELSE IF PastSlopeThreshold(cell, t)
    THEN Smaller(100, (100 * Height(cell)) \div (t.thresh_max - t.thresh))
    ELSE 0
GetOccValue(cell, t) == Larger(GetGridCellValue(cell, t), cell.dilated_val)

\* The cells within the dilation of each cell.
Around ==
    [c \in Cells |-> {n \in Cells : /\ n[1] \in (c[1] - DX)..(c[1] + DX)
                                   /\ n[2] \in (c[2] - DY)..(c[2] + DY)}]

\* DilateCell of the cells of C: 80% of an obstacle's value around it.
Dilate(cs, C, t) ==
    LET vals == {<<c, (4 * GetGridCellValue(cs[c], t)) \div 5>> : c \in C}
        Shares(n) == {v[2] : v \in {w \in vals : w[1] \in Around[n]}}
    IN  [n \in Cells |-> [cs[n] EXCEPT !.has_dilated = @ \/ n \in C,
                                      !.dilated_val = Max(Shares(n) \cup {@})]]

Obstacles(cs, t) == {c \in Cells : PastSlopeThreshold(cs[c], t)}

RecomputeGridDilation(cs, t) ==
    LET bare == [n \in Cells |-> [cs[n] EXCEPT !.has_dilated = FALSE, !.dilated_val = -1]]
    IN  Dilate(bare, Obstacles(cs, t), t)

\* Fault: the dilation of another obstacle goes as well.
RemoveDilationOfOthers(cs, C, t) ==
    [n \in Cells |->
        [cs[n] EXCEPT !.has_dilated = @ /\ n \notin C,
                      !.dilated_val = IF @ > 0 /\ Around[n] \cap C # {} THEN 0 ELSE @]]

\* RemoveDilationAtCell of the cells of C: what no obstacle is near any more.
RemoveDilation(cs, C, t) ==
    LET obstacles == Obstacles(cs, t)
        bare == {n \in Cells : Around[n] \cap C # {} /\ Around[n] \cap obstacles = {}}
    IN  [n \in Cells |->
            [cs[n] EXCEPT !.has_dilated = @ /\ n \notin C,
                          !.dilated_val = IF @ > 0 /\ n \in bare THEN 0 ELSE @]]

-----------------------------------------------------------------------------
\* Clearing methods.  g has the cells and the voxels.
InGrid(p) == <<p.x, p.y>> \in Cells
ResetCells(cs, C) == [n \in Cells |-> IF n \in C THEN ResetHeight(cs[n]) ELSE cs[n]]

\* Fault: the other methods are not told.
ClearCellsQuietly(g, C, t) == [g EXCEPT !.cells = RemoveDilation(ResetCells(@, C), C, t)]

\* Cells cleared by one method; BroadcastClearToSiblings tells the one that rays
\* belong to, which forgets their voxels.
ClearCells(g, C, t) ==
    [cells |-> RemoveDilation(ResetCells(g.cells, C), C, t),
     voxels |-> [n \in Cells |-> IF n \in C THEN {} ELSE g.voxels[n]]]

\* TimedClearingMethod: dt has passed since the last cloud.
AgeCell(cell, dt) ==
    [cell EXCEPT !.low_age = Smaller(@ + dt, MaxPointAge + 1),
                 !.high_age = Smaller(@ + dt, MaxPointAge + 1)]
ClearByTime(g, dt, t) ==
    LET aged == [g EXCEPT !.cells = [n \in Cells |-> AgeCell(@[n], dt)]]
        old == {n \in Cells : \/ aged.cells[n].low_age > MaxPointAge
                              \/ aged.cells[n].high_age > MaxPointAge}
    IN  ClearCells(aged, old, t)

\* ChannelThresholdClearingMethod: the cells with points on the ground.
ClearByChannel(g, scan, t) ==
    ClearCells(g, {<<p.x, p.y>> : p \in {q \in Range(scan.points) : q.ground /\ InGrid(q)}}, t)

\* RaytraceLine: the voxels on the way from the sensor to a point, without those
\* of the sensor's and the point's cells.
Voxel(h) == h \div 2
TopVoxelIndex(h) == (h - 1) \div 2
AbsDiff(a, b) == IF a < b THEN b - a ELSE a - b
RaytraceLine(start, end) ==
    LET d == [i \in 1..3 |-> AbsDiff(start[i], end[i])]
        dm == Max(Range(d))
        At(k) == [i \in 1..3 |-> LET moved == (2 * d[i] * k + dm) \div (2 * dm)
                                 IN  IF end[i] > start[i] THEN start[i] + moved
                                     ELSE start[i] - moved]
        there == {k \in 1..dm : At(k)[1] = end[1] /\ At(k)[2] = end[2]}
    IN  IF there = {} THEN <<>> ELSE [k \in 1..(Min(there) - 1) |-> At(k)]

\* Fault: the cell is emptied by any ray.
ClearVoxelEmpties(g, v, t) ==
    LET c == <<v[1], v[2]>>
    IN  IF /\ c \in Cells /\ Filled(g.cells[c]) /\ v[3] \in 0..(NVoxels - 1)
           /\ TopVoxelIndex(g.cells[c].high) >= v[3]
        THEN [g EXCEPT !.cells[c] = ResetHeight(@)] ELSE g

\* A ray through voxel v: nothing of its cell is there or above it.  What remains
\* reaches up to the next voxel that points were seen in.
ClearVoxelAt(g, v, t) ==
    LET c == <<v[1], v[2]>>
        cell == g.cells[c]
        top == TopVoxelIndex(cell.high)
        left == g.voxels[c] \ (v[3]..Smaller(top, NVoxels - 1))
        below == {z \in left : z < v[3] /\ z >= Voxel(cell.low)}
        cut == IF below = {} THEN ResetHeight(cell)
               ELSE [cell EXCEPT !.high = 2 * (Max(below) + 1)]
        cs == [g.cells EXCEPT ![c] = cut]
    IN  IF \/ c \notin Cells \/ ~Filled(cell)
           \/ top - (IF BelowOnly THEN 1 ELSE 0) < v[3] \/ v[3] \notin 0..(NVoxels - 1)
        THEN g
        ELSE [cells |-> IF PastSlopeThreshold(cell, t) /\ ~PastSlopeThreshold(cut, t)
                        THEN RemoveDilation(cs, {c}, t) ELSE cs,
              voxels |-> [g.voxels EXCEPT ![c] = left]]

\* RaytraceClearingMethod: rays to all points, then their voxels.
ClearRay(g, ray, t) ==
    LET Clear(h, v) == ClearVoxelAt(h, v, t)
    IN  FoldLeft(Clear, g, ray)
TraceRays(g, scan, t) ==
    LET Trace(h, p) ==
            IF ~InGrid(p) THEN h
            ELSE ClearRay(h, RaytraceLine(scan.origin, <<p.x, p.y, Voxel(p.h)>>), t)
    IN  FoldLeft(Trace, g, scan.points)
ClearByRays(g, scan, t) ==
    LET Seen(n) == {Voxel(p.h) : p \in {q \in Range(scan.points) : <<q.x, q.y>> = n}}
    IN  [TraceRays(g, scan, t) EXCEPT
            !.voxels = [n \in Cells |-> @[n] \cup (Seen(n) \cap 0..(NVoxels - 1))]]

\* clear_methods_ in their order.
ClearBy(m, g, scan, dt, t) ==
    CASE m = "time" -> ClearByTime(g, dt, t)
      [] m = "raytrace" -> ClearByRays(g, scan, t)
      [] m = "channel_threshold" -> ClearByChannel(g, scan, t)
ClearOccupancy(g, scan, dt, t) ==
    LET Clear(h, m) == ClearBy(m, h, scan, dt, t)
    IN  FoldLeft(Clear, g, Methods)

\* AddOccupancy: points raise and lower the bounds of their cells.  An obstacle is
\* dilated when it is new or has become steeper.
Hit(scan) == {<<p.x, p.y>> : p \in {q \in Range(scan.points) : InGrid(q)}}
AddOccupancy(cs, scan, t) ==
    LET Heights(n) == {p.h : p \in {q \in Range(scan.points) : <<q.x, q.y>> = n}}
        Raise(n) ==
            LET lo == Min(Heights(n))
                hi == Max(Heights(n))
            IN  [cs[n] EXCEPT
                    !.low = Smaller(@, lo), !.low_age = IF lo < cs[n].low THEN 0 ELSE @,
                    !.high = Larger(@, hi), !.high_age = IF hi > cs[n].high THEN 0 ELSE @]
        raised == [n \in Cells |-> IF n \in Hit(scan) THEN Raise(n) ELSE cs[n]]
    IN  Dilate(raised, {c \in Hit(scan) : /\ PastSlopeThreshold(raised[c], t)
                                          /\ \/ ~raised[c].has_dilated
                                             \/ Height(raised[c]) > Height(cs[c])}, t)

-----------------------------------------------------------------------------
\* Regions are boxes of cells.
Box(S) ==
    {c \in Cells : /\ \E l \in S, r \in S : c[1] \in l[1]..r[1]
                   /\ \E l \in S, r \in S : c[2] \in l[2]..r[2]}
DilatedRegion(S) == UNION {Around[c] : c \in S}

\* GetCombinedLayerValue: of the layers that know the cell, the static one first.
\* Unknown cells become 0.
CollectLayerValues(static_val, val) ==
    LET Known(v) == IF v >= 0 THEN <<v>> ELSE <<>>
    IN  Known(static_val) \o Known(val)
CombineLayerValues(vals) ==
    IF vals = <<>> THEN 0
    ELSE CASE Combination = "last" -> Last(vals)
           [] Combination = "mean" -> FoldLeft(LAMBDA a, b : a + b, 0, vals) \div Len(vals)
           [] Combination = "max" -> Max(Range(vals))
Grid ==
    [n \in Cells |-> CombineLayerValues(CollectLayerValues(GetOccValue(static_cells[n], thresholds),
                                                           GetOccValue(cells[n], thresholds)))]

\* Fault: only the cells that points fell into.
UpdateOfHitCells == [n \in update_region |-> Grid[n]]

\* GetGridUpdate: the cells that the points of the region may have changed.
GridUpdate == [n \in DilatedRegion(update_region) |-> Grid[n]]

\* Fault: a full grid only at the start.
FullOnlyFirst == since_full = -1

IsFullUpdate == since_full = -1 \/ (ForceEvery > 0 /\ since_full >= ForceEvery)

-----------------------------------------------------------------------------
Init ==
    /\ cells = [n \in Cells |-> EmptyCell]
    /\ voxel_grid = [n \in Cells |-> {}]
    /\ static_cells = [n \in Cells |-> IF n \in DOMAIN StaticHeights
                                       THEN [EmptyCell EXCEPT !.low = StaticHeights[n].low,
                                                              !.high = StaticHeights[n].high]
                                       ELSE EmptyCell]
    /\ scenario \in Scenarios /\ thresholds \in scenario.thresholds
    /\ update_region = {}
    /\ clr_only_pc = NoScan
    /\ ready = FALSE /\ reset_called = FALSE /\ retuned = FALSE /\ since_full = -1
    /\ joined = scenario.prompt
    /\ latched = NoGrid /\ grids = <<>> /\ updates = <<>> /\ grid_msg = NoGrid

\* PointCloudCallback: a cloud that came dt after the last one.  If one that only
\* clears is waiting, it comes first.
PointCloud(scan, dt) ==
    LET g == [cells |-> cells, voxels |-> voxel_grid]
        before == IF clr_only_pc = NoScan THEN g
                  ELSE ClearOccupancy(g, clr_only_pc, dt, thresholds)
        cleared == ClearOccupancy(before, scan, IF clr_only_pc = NoScan THEN dt ELSE 0,
                                  thresholds)
    IN  /\ cells' = AddOccupancy(cleared.cells, scan, thresholds)
        /\ voxel_grid' = cleared.voxels
        /\ update_region' = Box(update_region \cup Hit(scan))
        /\ clr_only_pc' = NoScan
        /\ UNCHANGED <<static_cells, thresholds, node_vars, sub_vars>>

ClearOnlyPoints(scan) ==
    /\ clr_only_pc' = scan
    /\ UNCHANGED <<cells, voxel_grid, static_cells, thresholds, update_region, node_vars,
                   sub_vars>>

\* A change of the parameters.
UpdateThresholds(t) ==
    /\ thresholds' = t
    /\ cells' = RecomputeGridDilation(cells, t)
    /\ static_cells' = RecomputeGridDilation(static_cells, t)
    /\ retuned' = TRUE
    /\ UNCHANGED <<voxel_grid, update_region, clr_only_pc, ready, reset_called, since_full,
                   sub_vars>>

ResetCallback ==
    /\ reset_called' = TRUE
    /\ UNCHANGED <<layer_vars, ready, retuned, since_full, sub_vars>>

WarmUpEnds ==
    /\ ~ready /\ ready' = TRUE
    /\ UNCHANGED <<layer_vars, reset_called, retuned, since_full, sub_vars>>

\* A topic keeps the last message only, for a subscriber that is there.
Publish(msg) == IF joined THEN <<msg>> ELSE <<>>

PublishGrid ==
    IF IsFullUpdate
    THEN /\ grids' = Publish(Grid) /\ latched' = (IF joined THEN NoGrid ELSE Grid)
         /\ UNCHANGED updates
    ELSE /\ updates' = IF update_region = {} THEN updates ELSE Publish(GridUpdate)
         /\ UNCHANGED <<grids, latched>>

\* The end of an iteration: a reset.  A layer that has no data is left alone.
Reset ==
    /\ since_full' = -1
    /\ IF \E n \in Cells : Filled(cells[n])
       THEN /\ cells' = [n \in Cells |-> EmptyCell] /\ voxel_grid' = [n \in Cells |-> {}]
       ELSE UNCHANGED <<cells, voxel_grid>>

\* An iteration of the loop of main.
Cycle ==
    LET since == IF ~ready THEN since_full
                 ELSE IF IsFullUpdate THEN 0
                 ELSE Smaller(since_full + 1, ForceEvery)
    IN  /\ IF ready THEN PublishGrid /\ update_region' = {}
           ELSE UNCHANGED <<grids, updates, latched, update_region>>
        /\ IF reset_called THEN Reset
           ELSE since_full' = since /\ UNCHANGED <<cells, voxel_grid>>
        /\ reset_called' = FALSE
        /\ retuned' = (retuned /\ ~(ready /\ IsFullUpdate))
        /\ UNCHANGED <<static_cells, thresholds, clr_only_pc, ready, scenario, joined, grid_msg>>

\* A subscriber that comes late gets the last full grid.
Join ==
    /\ ~joined /\ joined' = TRUE
    /\ grids' = IF latched = NoGrid THEN <<>> ELSE <<latched>>
    /\ latched' = NoGrid
    /\ UNCHANGED <<layer_vars, node_vars, scenario, updates, grid_msg>>

OccupancyGridCallback ==
    /\ grids # <<>>
    /\ grid_msg' = Head(grids) /\ grids' = Tail(grids)
    /\ UNCHANGED <<layer_vars, node_vars, scenario, joined, latched, updates>>

OccupancyGridUpdateCallback ==
    /\ updates # <<>>
    /\ LET u == Head(updates)
       IN  grid_msg' = IF grid_msg = NoGrid THEN NoGrid
                       ELSE [n \in Cells |-> IF n \in DOMAIN u THEN u[n] ELSE grid_msg[n]]
    /\ updates' = Tail(updates)
    /\ UNCHANGED <<layer_vars, node_vars, scenario, joined, latched, grids>>

Handled == scenario.prompt => grids = <<>> /\ updates = <<>>

Next ==
    \/ Handled /\ \E scan \in scenario.scans, dt \in scenario.dts : PointCloud(scan, dt)
    \/ Handled /\ \E scan \in scenario.clear_scans : ClearOnlyPoints(scan)
    \/ Handled /\ \E t \in scenario.thresholds : UpdateThresholds(t)
    \/ Handled /\ ResetCallback
    \/ WarmUpEnds
    \/ Handled /\ Cycle
    \/ Join
    \/ OccupancyGridCallback
    \/ OccupancyGridUpdateCallback

\* The loop runs, the warm-up ends, the subscriber comes and spins.
Spec == Init /\ [][Next]_vars
FairSpec == /\ Spec /\ WF_vars(Handled /\ Cycle) /\ WF_vars(WarmUpEnds) /\ WF_vars(Join)
            /\ WF_vars(OccupancyGridCallback) /\ WF_vars(OccupancyGridUpdateCallback)

-----------------------------------------------------------------------------
\* Dilation follows the obstacles: all cells around an obstacle have its share, and
\* no cell has a share when no obstacle is near, in whatever order clouds raised
\* and lowered cells, methods cleared them and thresholds moved.
DilationFollowsObstacles ==
    \A n \in Cells :
        LET near == Around[n] \cap Obstacles(cells, thresholds)
        IN  /\ cells[n].dilated_val > 0 => near # {}
            /\ \A o \in near :
                  cells[n].dilated_val >= (4 * GetGridCellValue(cells[o], thresholds)) \div 5

\* Rays cut a column down to what was seen in it: a cell has the voxel of its
\* lowest point, and none above its top, not even when another method emptied it in
\* between; what a cloud that only clears saw of the ground may be there as well.
GroundVoxels(n) == {Voxel(p.h) : p \in {q \in UNION {Range(s.points) : s \in scenario.clear_scans} :
                                          <<q.x, q.y>> = n}}
VoxelsMatchCells ==
    \A n \in Cells :
        /\ Filled(cells[n]) => Voxel(cells[n].low) \in voxel_grid[n]
        /\ \A z \in voxel_grid[n] \ GroundVoxels(n) :
              Filled(cells[n]) /\ z <= TopVoxelIndex(cells[n].high)

\* A subscriber that keeps up misses no obstacle: a cell that is higher in the
\* costmap than in its copy is on its way to it or will be in the next update.
\* (Only a full grid brings what a change of the thresholds raised.)
OnItsWay(n) ==
    \/ grids # <<>>
    \/ since_full = -1
    \/ updates # <<>> /\ n \in DOMAIN Head(updates)
    \/ n \in DilatedRegion(update_region)
NoObstacleMissed ==
    scenario.prompt /\ ~retuned =>
        \A n \in Cells : Grid[n] > 0 /\ ~OnItsWay(n) => grid_msg[n] >= Grid[n]

\* Once the costmap stays as it is, every subscriber's copy becomes equal to it,
\* also when it came late, lost messages or handled a full grid and an update the
\* other way round: full grids are published again and again.
CopyCatchesUp ==
    <>[][UNCHANGED Grid]_vars => <>[](grid_msg = Grid)
=============================================================================
