---------------------------- MODULE PlannerGrid ----------------------------
(***************************************************************************)
(* The grid on which the global planners search (astar.h, astar.cpp,       *)
(* fastmarching.cpp): cells and their neighbours, the heuristic, how far   *)
(* cells are from obstacles, and lines of sight with the smoothing built   *)
(* on them.  A cell is its flattened index.  A length is in fifths of a    *)
(* cell, so a diagonal step, 1.414 in the code, is 7.                      *)
(***************************************************************************)
EXTENDS Integers, Sequences, SequencesExt

CONSTANTS
    Width, Height,   \* the size of the grid
    Diagonals        \* search_diagonals

ASSUME GridAssumption ==
    /\ Width \in Nat \ {0}
    /\ Height \in Nat \ {0}
    /\ Diagonals \in BOOLEAN

Inf == 100000        \* infinity, beyond the cost of every path
NoCell == -1

Cells == 0 .. Width * Height - 1
At(x, y) == y * Width + x
X(c) == c % Width
Y(c) == c \div Width
InGrid(x, y) == x \in 0 .. Width - 1 /\ y \in 0 .. Height - 1

Dist(i, j) == IF i < j THEN j - i ELSE i - j
Smaller(i, j) == IF i < j THEN i ELSE j
Plus(i, j) == Smaller(Inf, i + j)
UpTo(n) == [i \in 1 .. n |-> i]

\* Op(x), and FoldLeft, with their argument bound before it is used: TLC then
\* evaluates it once and not once per use.
Once(x, Op(_)) == CHOOSE r \in {Op(v) : v \in {x}} : TRUE
Loop(Op(_, _), first, seq) ==
    FoldLeft(LAMBDA sofar, x : Once(sofar, LAMBDA s : Op(s, x)), first, seq)

---------------------------------------------------------------------------
(* Neighbours, in the order in which D* Lite and fast marching visit them *)

Cardinals == <<<<0, 1>>, <<0, -1>>, <<-1, 0>>, <<1, 0>>>>
Corners == <<<<-1, 1>>, <<1, 1>>, <<-1, -1>>, <<1, -1>>>>
MarchCardinals == <<<<-1, 0>>, <<1, 0>>, <<0, -1>>, <<0, 1>>>>
MarchCorners == <<<<-1, -1>>, <<1, -1>>, <<-1, 1>>, <<1, 1>>>>

Around(straight, corners) ==
    [c \in Cells |->
        LET steps == SelectSeq(straight \o (IF Diagonals THEN corners ELSE <<>>),
                               LAMBDA s : InGrid(X(c) + s[1], Y(c) + s[2]))
        IN  [i \in DOMAIN steps |-> At(X(c) + steps[i][1], Y(c) + steps[i][2])]]

GetNeighbors == Around(Cardinals, Corners)
MarchNeighbors == Around(MarchCardinals, MarchCorners)
Neighbors == [c \in Cells |-> {GetNeighbors[c][i] : i \in DOMAIN GetNeighbors[c]}]
Beside == [c \in Cells |-> {n \in Neighbors[c] : X(n) = X(c) \/ Y(n) = Y(c)}]

StepCost(u, v) == IF X(u) = X(v) \/ Y(u) = Y(v) THEN 5 ELSE 7

\* Fault: the Manhattan distance also where diagonal steps are allowed.
ManhattanHeuristic(u, v) == 5 * (Dist(X(u), X(v)) + Dist(Y(u), Y(v)))

Heuristic(u, v) ==
    LET dx == Dist(X(u), X(v))
        dy == Dist(Y(u), Y(v))
    IN  IF Diagonals THEN 5 * Dist(dx, dy) + 7 * Smaller(dx, dy) ELSE 5 * (dx + dy)

---------------------------------------------------------------------------
(* Clearance: the squared distance to the nearest obstacle, first along    *)
(* each column, then along each row as the lower envelope of parabolas.    *)

InfEdt == 1000       \* INF_EDT, beyond every squared distance

\* Parabolas cross at multiples of 1 / CrossingScale.
CrossingScale == 2 * Loop(LAMBDA p, i : p * i, 1, UpTo(Width - 1))

ColumnDistance(obstacles) ==
    [c \in Cells |->
        Min({InfEdt} \cup {Dist(Y(c), Y(o)) * Dist(Y(c), Y(o)) : o \in {o \in obstacles : X(o) = X(c)}})]

Crossing(f, q, v) ==
    ((f[q] + q * q) - (f[v] + v * v)) * (CrossingScale \div (2 * (q - v)))

\* Fault: parabolas that the new one hides are left in the envelope.
AddParabolaKeepingAll(f, envelope, q) ==
    IF f[q] >= InfEdt THEN envelope
    ELSE Append(envelope, [v |-> q, z |-> Crossing(f, q, Last(envelope).v)])

AddParabola(f, envelope, q) ==
    LET kept == Max({0} \cup {k \in DOMAIN envelope : Crossing(f, q, envelope[k].v) > envelope[k].z})
        from == envelope[IF kept = 0 THEN 1 ELSE kept].v
    IN  IF f[q] >= InfEdt THEN envelope
        ELSE Append(SubSeq(envelope, 1, kept), [v |-> q, z |-> Crossing(f, q, from)])

LowerEnvelope(f) ==
    Loop(LAMBDA envelope, q : AddParabola(f, envelope, q),
         <<[v |-> 0, z |-> -InfEdt * CrossingScale]>>, UpTo(Width - 1))

\* The distance at x is that of the last parabola that begins before x.
AtColumn(f, envelope, x) ==
    LET v == envelope[Max({1} \cup {k \in DOMAIN envelope : envelope[k].z < x * CrossingScale})].v
    IN  Dist(x, v) * Dist(x, v) + f[v]

ComputeEDT(obstacles) ==
    [c \in Cells |->
        LET f == [x \in 0 .. Width - 1 |-> ColumnDistance(obstacles)[At(x, Y(c))]]
        IN  Once(LowerEnvelope(f), LAMBDA envelope : AtColumn(f, envelope, X(c)))]

---------------------------------------------------------------------------
(* Lines of sight *)

\* Astar::LineOfSight: a walk along the longer axis (coordinate m) that looks
\* at the cells beside the line; "outside" is what is read beyond the grid.
LineOfSight(occupied, outside, a, b) ==
    LET steep == Dist(X(a), X(b)) < Dist(Y(a), Y(b))
        Along(c) == IF steep THEN Y(c) ELSE X(c)
        Across(c) == IF steep THEN X(c) ELSE Y(c)
        long == Dist(Along(a), Along(b))
        short == Dist(Across(a), Across(b))
        sm == IF Along(b) < Along(a) THEN -1 ELSE 1
        sn == IF Across(b) < Across(a) THEN -1 ELSE 1
        Blocked(m, n) ==
            LET x == IF steep THEN n ELSE m
                y == IF steep THEN m ELSE n
            IN  IF InGrid(x, y) THEN At(x, y) \in occupied ELSE outside
        Back(s) == IF s = 1 THEN 0 ELSE -1
        Look(w, i) ==
            LET m == Along(a) + sm * (i - 1) + Back(sm)
                turn == w.f + short >= long
                n == IF turn THEN w.n + sn ELSE w.n
                f == w.f + short - (IF turn THEN long ELSE 0)
            IN  [n |-> n, f |-> f,
                 clear |-> /\ w.clear
                           /\ ~ (turn /\ Blocked(m, w.n + Back(sn)))
                           /\ ~ (f # 0 /\ Blocked(m, n + Back(sn)))
                           /\ ~ (short = 0 /\ Blocked(m, n) /\ Blocked(m, n - 1))]
    IN  Loop(Look, [n |-> Across(a), f |-> 0, clear |-> TRUE], UpTo(long)).clear

\* Fault: only the two ends of the line are looked at.
EndsOfSight(free, a, b) == {a, b} \subseteq free

\* FastMarching::LineOfSight: every cell of the rasterised line is free.
MarchLineOfSight(free, a, b) ==
    LET dx == Dist(X(a), X(b))
        dy == Dist(Y(a), Y(b))
        sx == IF X(a) < X(b) THEN 1 ELSE -1
        sy == IF Y(a) < Y(b) THEN 1 ELSE -1
        Go(w, i) ==
            LET right == 2 * w.err > -dy
                up == 2 * w.err < dx
                x == IF right THEN w.x + sx ELSE w.x
                y == IF up THEN w.y + sy ELSE w.y
            IN  [x |-> x, y |-> y,
                 err |-> w.err - (IF right THEN dy ELSE 0) + (IF up THEN dx ELSE 0),
                 clear |-> w.clear /\ At(x, y) \in free]
        long == IF dx < dy THEN dy ELSE dx
    IN  Loop(Go, [x |-> X(a), y |-> Y(a), err |-> dx - dy, clear |-> a \in free], UpTo(long)).clear

\* PostSmoothing leaves out the cells between two that see each other.
PostSmoothing(in, breakOnFirst, sees) ==
    LET n == Len(in)
        FirstBreak == Loop(LAMBDA out, i : IF sees[Last(out), in[i + 1]] THEN out ELSE Append(out, in[i]),
                           <<in[1]>>, [i \in 1 .. n - 2 |-> i + 1])
        LastSeen(k) == Max({k + 1} \cup {i \in k + 2 .. n : sees[in[k], in[i]]})
        Jump(w, i) == IF w.k = n THEN w
                      ELSE [k |-> LastSeen(w.k), out |-> Append(w.out, in[LastSeen(w.k)])]
    IN  CASE n <= 2 -> in
          [] n > 2 /\ breakOnFirst -> Append(FirstBreak, in[n])
          [] n > 2 /\ ~ breakOnFirst -> Loop(Jump, [k |-> 1, out |-> <<in[1]>>], UpTo(n)).out

============================================================================
