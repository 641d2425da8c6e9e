---------------------------- MODULE GridPlanners ----------------------------
(***************************************************************************)
(* The searches behind PlanPath of the global planner node: class Astar    *)
(* and its subclasses DStarLite and FastMarching.  One planner object      *)
(* makes one plan after another, each for a grid, a start and a goal; one  *)
(* pass of a search loop is one step.  Costs are in fifths of the cost of  *)
(* a free cell for A* and D* Lite, in tenths for fast marching.            *)
(***************************************************************************)
EXTENDS PlannerGrid

CONSTANTS
    Methods,           \* the planning methods, of "astar", "d_star_lite", "fast_marching"
    FirstGrids, Grids, \* the grids of the first plan and of later ones: occupancy of each cell
    Starts, Goals,     \* cells
    MaxPlans,          \* bound: plans made by the object
    LosIterations,     \* los_max_iterations
    BreakOnFirst,      \* los_break_on_first
    ObstacleThreshold, \* obstacle_threshold
    SafetyMarginSq,    \* safety_margin_global squared, in cells
    CancelEvery        \* passes of fast marching between two looks at cancel_, 10000 in the code

ASSUME PlannersAssumption ==
    /\ Methods \subseteq {"astar", "d_star_lite", "fast_marching"}
    /\ FirstGrids \cup Grids \subseteq [Cells -> 0 .. 100]
    /\ Starts \cup Goals \subseteq Cells
    /\ {MaxPlans, LosIterations, ObstacleThreshold, SafetyMarginSq, CancelEvery} \subseteq Nat
    /\ BreakOnFirst \in BOOLEAN

VARIABLES
    method,         \* which class the planner is of
    grid,           \* map_: the occupancy the search was given
    clearance,      \* edt_flat_ squared (fast marching)
    weights,        \* weights_
    start, goal,    \* start_ and goal_
    phase,          \* "idle", or "search" while Solve runs
    iter,           \* iter of fast marching, modulo CancelEvery
    costs,          \* costs (A*), g_ (D* Lite), costs_flat_ (fast marching)
    rhs,            \* rhs_ (D* Lite)
    open,           \* the priority queue, or open_list_ with open_keys_
    closed,         \* closed (A*)
    paths,          \* paths_: the cell each cell was reached from
    path,           \* path_
    path_world,     \* path_world_, before A* fills it in
    outcome,        \* what Solve returned, "cancelled" when cancel_ was seen
    plans           \* plans made (bound)

vars == <<method, grid, clearance, weights, start, goal, phase, iter, costs, rhs, open,
          closed, paths, path, path_world, outcome, plans>>
input == <<method, grid, clearance, weights, start, goal, plans>>

Entry(c, g, f) == [idx |-> c, g |-> g, f |-> f]
All(value) == [c \in Cells |-> value]

---------------------------------------------------------------------------
(* PlanPath: the grid is taken in, and Solve is called *)

\* What an occupancy costs: w_occupancy 1, w_distance 1 and no segmentation grid.
Consumed(g, edt, c) == g[c] > ObstacleThreshold \/ edt[c] < SafetyMarginSq

WeightsOf(g, edt) ==
    IF method = "fast_marching"
    THEN [c \in Cells |-> IF Consumed(g, edt, c) THEN Inf ELSE 10 * (1 + g[c])]
    ELSE g

CalculateKey(s, g, r) ==
    LET least == Smaller(g[s], r[s]) IN Entry(s, least, Plus(least, Heuristic(start, s)))

PlanPath(g, s, t) ==
    /\ phase = "idle" /\ plans < MaxPlans
    /\ grid' = g /\ start' = s /\ goal' = t
    /\ clearance' = IF method = "fast_marching"
                    THEN ComputeEDT({c \in Cells : g[c] > ObstacleThreshold}) ELSE clearance
    /\ weights' = WeightsOf(g, clearance')
    /\ phase' = "search" /\ iter' = 0 /\ plans' = plans + 1
    /\ CASE method = "astar" ->
              /\ costs' = [All(Inf) EXCEPT ![s] = 0]
              /\ open' = {Entry(s, 0, Heuristic(s, t))}
              /\ closed' = {} /\ paths' = All(NoCell)
              /\ UNCHANGED rhs
         [] method = "d_star_lite" ->
              /\ costs' = All(Inf)
              /\ rhs' = [All(Inf) EXCEPT ![t] = 0]
              /\ open' = {Entry(t, 0, Heuristic(s, t))}
              /\ UNCHANGED <<closed, paths>>
         [] method = "fast_marching" ->
              /\ costs' = [All(Inf) EXCEPT ![t] = 0]
              /\ open' = {Entry(t, 0, 0)}
              /\ paths' = All(NoCell)
              /\ UNCHANGED <<closed, rhs>>
    /\ UNCHANGED <<method, path, path_world, outcome>>

Searching(m) == phase = "search" /\ method = m

\* The heap may hold several entries of the lowest f: any of them is on top.
Tops == {e \in open : \A o \in open : e.f <= o.f}

Ended(result) == phase' = "idle" /\ outcome' = result

\* From one cell along next to another, or as long as there is a next cell.
Walk(from, next, to) ==
    Loop(LAMBDA w, i : IF Last(w) = to \/ next[Last(w)] = NoCell THEN w ELSE Append(w, next[Last(w)]),
         <<from>>, UpTo(Width * Height))

---------------------------------------------------------------------------
(* A* *)

CostVia(e, n) == costs[e.idx] + StepCost(e.idx, n) + 5 * weights[n]

Better(e) ==
    IF e.idx \in closed \/ e.g > costs[e.idx] THEN {}
    ELSE {n \in Neighbors[e.idx] : CostVia(e, n) < costs[n]}

AStarVisit ==
    /\ Searching("astar")
    /\ \E e \in Tops : \E better \in {Better(e)} :
        /\ e.idx # goal
        /\ closed' = closed \cup {e.idx}
        /\ costs' = [c \in Cells |-> IF c \in better THEN CostVia(e, c) ELSE costs[c]]
        /\ paths' = [c \in Cells |-> IF c \in better THEN e.idx ELSE paths[c]]
        /\ open' = (open \ {e}) \cup {Entry(n, costs'[n], costs'[n] + Heuristic(n, goal)) : n \in better}
    /\ UNCHANGED <<input, phase, iter, rhs, path, path_world, outcome>>

\* ExtractPath: the path runs from the goal back to the cell behind the start.
Smoothed(in, outside) ==
    LET sees == [a, b \in Cells |-> LineOfSight({c \in Cells : grid[c] > 0}, outside, a, b)]
    IN  Loop(LAMBDA p, i : PostSmoothing(p, BreakOnFirst, sees), in, UpTo(Max({1, LosIterations})))

\* No cell is of infinite cost to A*: its queue never runs empty before the goal.
AStarFound ==
    /\ Searching("astar")
    /\ \E e \in Tops : e.idx = goal
    /\ \E back \in {Walk(goal, paths, start)}, outside \in BOOLEAN :
         /\ path' = Tail(Reverse(back))
         /\ path_world' = Reverse(Smoothed(Reverse(path'), outside))
         /\ Ended(IF path' = <<>> THEN "failed" ELSE "solved")
    /\ UNCHANGED <<input, iter, costs, rhs, open, closed, paths>>

---------------------------------------------------------------------------
(* D* Lite *)

KeyLess(k, l) == k.f < l.f \/ (k.f = l.f /\ k.g < l.g)

Cost(u, v) == IF grid[v] >= 100 THEN Inf ELSE (1 + weights[v]) * StepCost(u, v)

\* The least by key, then by index (DStarNode's order).
OpenFirst == CHOOSE e \in open : \A o \in open \ {e} :
                 KeyLess(e, o) \/ (~ KeyLess(o, e) /\ e.idx < o.idx)

MoreToDo ==
    /\ open # {}
    /\ KeyLess(OpenFirst, CalculateKey(start, costs, rhs)) \/ rhs[start] # costs[start]

\* UpdateVertex for each of some vertices, with the costs g.
UpdateVertices(us, g, rest) ==
    /\ rhs' = [c \in Cells |->
                IF c \in us \ {goal} THEN Min({Inf} \cup {Plus(Cost(c, v), g[v]) : v \in Neighbors[c]})
                ELSE rhs[c]]
    /\ open' = {e \in rest : e.idx \notin us}
                 \cup {CalculateKey(u, g, rhs') : u \in {u \in us : g[u] # rhs'[u]}}

ComputeShortestPath ==
    /\ Searching("d_star_lite") /\ MoreToDo
    /\ LET u == OpenFirst.idx
           key == CalculateKey(u, costs, rhs)
           rest == open \ {OpenFirst}
       IN  \/ /\ KeyLess(OpenFirst, key)
              /\ open' = rest \cup {key}
              /\ UNCHANGED <<costs, rhs>>
           \/ /\ ~ KeyLess(OpenFirst, key) /\ costs[u] > rhs[u]
              /\ costs' = [costs EXCEPT ![u] = rhs[u]]
              /\ UpdateVertices(Neighbors[u], costs', rest)
           \/ /\ ~ KeyLess(OpenFirst, key) /\ costs[u] <= rhs[u]
              /\ costs' = [costs EXCEPT ![u] = Inf]
              /\ UpdateVertices(Neighbors[u] \cup {u}, costs', rest)
    /\ UNCHANGED <<input, phase, iter, closed, paths, path, path_world, outcome>>

\* The first neighbour that is cheapest to go on from.
Cheapest(c) ==
    LET through == [i \in DOMAIN GetNeighbors[c] |->
                        Plus(Cost(c, GetNeighbors[c][i]), costs[GetNeighbors[c][i]])]
        least == {i \in DOMAIN through : \A j \in DOMAIN through : through[i] <= through[j]}
    IN  IF least = {} \/ through[Min(least)] >= Inf THEN NoCell ELSE GetNeighbors[c][Min(least)]

DStarDone ==
    /\ Searching("d_star_lite") /\ ~ MoreToDo
    /\ IF costs[start] >= Inf
       THEN Ended("failed") /\ UNCHANGED <<path, path_world>>
       ELSE /\ path' = Walk(start, [c \in Cells |-> Cheapest(c)], goal)
            /\ path_world' = IF Last(path') = goal THEN path' ELSE <<>>
            /\ Ended(IF Last(path') = goal THEN "solved" ELSE "failed")
    /\ UNCHANGED <<input, iter, costs, rhs, open, closed, paths>>

---------------------------------------------------------------------------
(* Fast marching: arrival times spread from the goal, each from the        *)
(* earlier ones beside and above or below it; cells are not shifted.       *)

SquareRoot(n) == CHOOSE r \in 0 .. n : r * r <= n /\ n < (r + 1) * (r + 1)

\* The eikonal update from the times in the row and in the column: through
\* both if they are close enough, else from the earlier one.
Eikonal(tx, ty, w) ==
    IF tx < Inf /\ ty < Inf /\ Dist(tx, ty) < w
    THEN (tx + ty + Once(2 * w * w - Dist(tx, ty) * Dist(tx, ty), SquareRoot)) \div 2
    ELSE Plus(Smaller(tx, ty), w)

Earliest(t, cs) == Min({Inf} \cup {t[c] : c \in cs})

ArrivalTime(t, c) ==
    LET times == <<Earliest(t, {n \in Beside[c] : Y(n) = Y(c)}),
                   Earliest(t, {n \in Beside[c] : X(n) = X(c)})>>
    IN  IF weights[c] >= Inf THEN Inf ELSE Once(times, LAMBDA ts : Eikonal(ts[1], ts[2], weights[c]))

\* Fault: a cell is queued again when its time does not get later.
MarchAgain(u) ==
    LET Reach(m, c, t) ==
            IF t <= m.costs[c] /\ t < Inf
            THEN [costs |-> [m.costs EXCEPT ![c] = t],
                  paths |-> [m.paths EXCEPT ![c] = u],
                  open |-> m.open \cup {Entry(c, t, t)}]
            ELSE m
    IN  Loop(LAMBDA m, c : Once(ArrivalTime(m.costs, c), LAMBDA t : Reach(m, c, t)),
             [costs |-> costs, paths |-> paths, open |-> open], MarchNeighbors[u])

\* The neighbours of u one after the other: an earlier one's new time counts.
March(u) ==
    LET Reach(m, c, t) ==
            IF t < m.costs[c]
            THEN [costs |-> [m.costs EXCEPT ![c] = t],
                  paths |-> [m.paths EXCEPT ![c] = u],
                  open |-> m.open \cup {Entry(c, t, t)}]
            ELSE m
    IN  Loop(LAMBDA m, c : Once(ArrivalTime(m.costs, c), LAMBDA t : Reach(m, c, t)),
             [costs |-> costs, paths |-> paths, open |-> open], MarchNeighbors[u])

Popped(e) ==
    /\ Searching("fast_marching")
    /\ e \in Tops
    /\ iter' = IF CancelEvery = 0 THEN 0 ELSE (iter + 1) % CancelEvery

MarchVisit ==
    /\ \E e \in Tops :
        /\ Popped(e)
        /\ e.g <= costs[e.idx] => e.idx # start
        /\ \E m \in {IF e.g > costs[e.idx] THEN [costs |-> costs, paths |-> paths, open |-> open]
                     ELSE March(e.idx)} :
             costs' = m.costs /\ paths' = m.paths /\ open' = m.open \ {e}
    /\ UNCHANGED <<input, phase, rhs, closed, path, path_world, outcome>>

\* cancel_ is looked at in every CancelEvery-th pass.
MarchCancelled ==
    /\ \E e \in Tops : Popped(e) /\ iter' = 0 /\ open' = open \ {e}
    /\ CancelEvery > 0
    /\ Ended("cancelled")
    /\ UNCHANGED <<input, costs, rhs, closed, paths, path, path_world>>

\* The neighbour with the steepest descent, the first of equals.
Steepest(c) ==
    LET next == MarchNeighbors[c]
        lower == {i \in DOMAIN next : costs[next[i]] < costs[c]}
        Steeper(i, j) == (costs[c] - costs[next[i]]) * StepCost(c, next[j])
                           > (costs[c] - costs[next[j]]) * StepCost(c, next[i])
        best == {i \in lower : \A j \in lower : ~ Steeper(j, i)}
    IN  IF best = {} THEN NoCell ELSE next[Min(best)]

MarchSmoothed(in) ==
    LET sees == [a, b \in Cells |-> MarchLineOfSight({c \in Cells : weights[c] < Inf}, a, b)]
    IN  Loop(LAMBDA p, i : PostSmoothing(p, BreakOnFirst, sees), in, UpTo(LosIterations))

\* ExtractPath with path_extraction_method "discrete".
MarchFound ==
    /\ \E e \in Tops : Popped(e) /\ e.idx = start /\ e.g <= costs[start] /\ open' = open \ {e}
    /\ \E walk \in {Walk(start, [c \in Cells |-> Steepest(c)], goal)} :
         /\ path' = IF Last(walk) = goal THEN MarchSmoothed(walk) ELSE walk
         /\ path_world' = path'
         /\ Ended(IF Last(walk) = goal THEN "solved" ELSE "failed")
    /\ UNCHANGED <<input, costs, rhs, closed, paths>>

MarchFailed ==
    /\ Searching("fast_marching") /\ open = {}
    /\ Ended("failed")
    /\ UNCHANGED <<input, iter, costs, rhs, open, closed, paths, path, path_world>>

---------------------------------------------------------------------------
Init ==
    /\ method \in Methods
    /\ grid = All(0) /\ clearance = All(0) /\ weights = All(0)
    /\ start = 0 /\ goal = 0
    /\ phase = "idle" /\ iter = 0 /\ plans = 0
    /\ costs = All(Inf) /\ rhs = All(Inf)
    /\ open = {} /\ closed = {} /\ paths = All(NoCell)
    /\ path = <<>> /\ path_world = <<>> /\ outcome = "none"

Search ==
    \/ AStarVisit \/ AStarFound
    \/ ComputeShortestPath \/ DStarDone
    \/ MarchVisit \/ MarchCancelled \/ MarchFound \/ MarchFailed

Next ==
    \/ \E g \in (IF plans = 0 THEN FirstGrids ELSE Grids), s \in Starts, t \in Goals : PlanPath(g, s, t)
    \/ Search

\* The loop of Solve goes on by itself.
Spec == Init /\ [][Next]_vars /\ WF_vars(Search)

---------------------------------------------------------------------------
(* Properties *)

\* The least cost of a path from the start to each cell, by relaxation.
LeastCosts(StepTo(_, _)) ==
    LET Relax(d, i) ==
            LET next == [c \in Cells |-> Min({d[c]} \cup {Plus(d[b], StepTo(b, c)) : b \in Neighbors[c]})]
            IN  IF next = d THEN d ELSE next
    IN  Loop(Relax, [All(Inf) EXCEPT ![start] = 0], UpTo(Width * Height))

Answered(ms) == phase = "idle" /\ method \in ms /\ outcome \in {"solved", "failed"}

\* A* and D* Lite return a cheapest path from the start to the goal, step by
\* step through neighbours, and fail only if there is none: whatever the
\* plans before left behind, and in whatever order equal entries come off
\* the heap (astar.cpp 195-268, d_star_lite.cpp 74-103, 227-265).
CheapestPath ==
    Answered({"astar", "d_star_lite"}) =>
        LET StepTo(u, v) == IF method = "astar" THEN StepCost(u, v) + 5 * grid[v] ELSE Cost(u, v)
            least == LeastCosts(StepTo)[goal]
            whole == IF method = "astar" THEN <<start>> \o path ELSE path
            Upto(n) == Loop(LAMBDA sum, i : sum + StepTo(whole[i], whole[i + 1]), 0, UpTo(n - 1))
        IN  IF outcome = "failed"
            THEN least >= Inf \/ (method = "astar" /\ start = goal)
            ELSE /\ whole[1] = start /\ Last(whole) = goal
                 /\ \A i \in 1 .. Len(whole) - 1 : whole[i + 1] \in Neighbors[whole[i]]
                 /\ Upto(Len(whole)) = least

\* The cells nearest to the line between two cells, one for each column
\* or row of the longer axis.
OnLine(a, b, c) ==
    LET dx == X(b) - X(a)
        dy == Y(b) - Y(a)
        off == Dist((X(c) - X(a)) * dy, (Y(c) - Y(a)) * dx)
        long == Max({Dist(X(a), X(b)), Dist(Y(a), Y(b))})
    IN  /\ Dist(X(a), X(c)) + Dist(X(c), X(b)) = Dist(X(a), X(b))
        /\ Dist(Y(a), Y(c)) + Dist(Y(c), Y(b)) = Dist(Y(a), Y(b))
        /\ 2 * off < long

\* The cells that the goal's time can reach, from beside to beside.
Reached ==
    Loop(LAMBDA r, i : r \cup {c \in Cells : weights[c] < Inf /\ Beside[c] \cap r # {}},
             {goal}, UpTo(Width * Height))

\* Fast marching finds a path exactly if the start can be reached, and the
\* smoothed path goes from start to goal without crossing a cell that is
\* occupied or too close to one, but for the goal (fastmarching.cpp 245-465;
\* the test PathAvoidsObstacles, global_planner_node_test.cpp 382).
MarchAvoidsObstacles ==
    Answered({"fast_marching"}) =>
        /\ outcome = "solved" <=> start \in Reached
        /\ outcome = "solved" =>
             /\ path[1] = start /\ Last(path) = goal
             /\ \A i \in 1 .. Len(path) - 1 : \A c \in Cells \ {goal} :
                    OnLine(path[i], path[i + 1], c) => weights[c] < Inf

\* The two passes of the distance transform give every cell the distance to
\* its nearest obstacle, which the safety margin and the clearance penalty
\* rely on (fastmarching.cpp 173-243).
ClearanceExact ==
    phase = "idle" /\ method = "fast_marching" /\ plans > 0 =>
        LET obstacles == {c \in Cells : grid[c] > ObstacleThreshold}
            Square(n) == n * n
            Nearest(c) == Min({Square(X(c) - X(o)) + Square(Y(c) - Y(o)) : o \in obstacles})
        IN  \A c \in Cells : IF obstacles = {} THEN clearance[c] >= InfEdt ELSE clearance[c] = Nearest(c)

\* Every search ends, also when D* Lite puts vertices back on its list and
\* fast marching visits cells again (astar.cpp 217, d_star_lite.cpp 75,
\* fastmarching.cpp 260).
SearchEnds == phase = "search" ~> phase = "idle"

\* A smoothed A* path stays off the impassable cells that the searched path
\* avoids ("0=no obstacle, 100=impassable", astar.h 122).
SmoothedStaysClear ==
    Answered({"astar"}) /\ (\A i \in DOMAIN path : grid[path[i]] < 100) =>
        \A i \in 1 .. Len(path_world) - 1 : \A c \in Cells :
            OnLine(path_world[i], path_world[i + 1], c) => grid[c] < 100

============================================================================
