------------------------- MODULE GlobalPlannerProofs ------------------------
(***************************************************************************)
(* Proofs about GlobalPlanner: the planner object has one user at a time,  *)
(* no plan starts with the cancel of the one before it, and goals are      *)
(* announced in order, each once.                                          *)
(***************************************************************************)
EXTENDS GlobalPlanner, TLAPS

\* The thread is busy exactly while its future is pending, the loop waits only
\* for a plan it holds, and the cancel flag is clear while it holds none.
HandsOff ==
    /\ worker # NoPoint <=> planning_future = "pending"
    /\ at = "drop" => planning_future # "none"
    /\ planning_future = "none" => ~cancel

\* The loop is at a goal of the list it follows, unless a new list was received.
AtAGoal ==
    /\ nav_goals \in Seq(Points)
    /\ current_waypoint \in Nat \ {0}
    /\ current_waypoint <= Len(nav_goals) \/ waypoints_rcvd \/ nav_goals = <<>>

\* A plan that is dropped leaves no busy thread and no cancel behind.
LEMMA DroppedIsGone ==
    HandsOff /\ Dropped => planning_future' = "none" /\ ~cancel' /\ worker' = NoPoint
BY DEF HandsOff, Dropped, thread

\* What is planned for, and announced, is one of the goals.
LEMMA GoalIsPoint ==
    AtAGoal /\ CanPlan =>
        /\ TakenWaypoint \in 1..Len(nav_goals)
        /\ Goal \in Points
<1> SUFFICES ASSUME AtAGoal, CanPlan
             PROVE  TakenWaypoint \in 1..Len(nav_goals) /\ Goal \in Points
  OBVIOUS
<1>1. Len(nav_goals) \in Nat /\ Len(nav_goals) >= 1
  BY DEF AtAGoal, CanPlan
<1>2. TakenWaypoint \in 1..Len(nav_goals)
  BY <1>1 DEF AtAGoal, CanPlan, TakenWaypoint
<1> QED
  BY <1>2 DEF Goal, AtAGoal

LEMMA AtAGoalKept == AtAGoal /\ [Next]_vars => AtAGoal'
<1> SUFFICES ASSUME AtAGoal, [Next]_vars
             PROVE  AtAGoal'
  OBVIOUS
<1> USE DEF AtAGoal
<1>1. ASSUME NEW goals \in GoalLists \cup {<<>>}, NewGoals(goals)
      PROVE  AtAGoal'
  <2>1. goals \in Seq(Points)
    <3>1. CASE goals = <<>>
      BY <3>1
    <3>2. CASE goals \in GoalLists
      BY <3>2, PlannerAssumption
    <3> QED
      BY <3>1, <3>2
  <2>2. nav_goals' = goals /\ waypoints_rcvd' = TRUE /\ UNCHANGED current_waypoint
    BY <1>1 DEF NewGoals, Receive, state
  <2> QED
    BY <2>1, <2>2
<1>2. CASE Reset
  BY <1>2 DEF Reset, SetRunState
<1>3. CASE Idle
  BY <1>3 DEF Idle, Begin, TakenWaypoint, CanPlan
<1>4. ASSUME Begin, CanPlan, Announce
      PROVE  AtAGoal'
  <2>1. TakenWaypoint \in 1..Len(nav_goals) /\ Len(nav_goals) \in Nat
    BY <1>4, GoalIsPoint
  <2>2. nav_goals' = nav_goals
    BY <1>4 DEF Begin
  <2>3. current_waypoint' \in 1..Len(nav_goals)
    BY <1>4, <2>1 DEF Announce, IsLast
  <2> QED
    BY <2>1, <2>2, <2>3
<1>5. CASE StartPlan \/ Collect \/ AwaitPlan
  BY <1>4, <1>5 DEF StartPlan, Collect, AwaitPlan
<1>6. ASSUME UNCHANGED <<nav_goals, current_waypoint, waypoints_rcvd>>
      PROVE  AtAGoal'
  BY <1>6
<1>7. CASE SwitchedOff \/ DropPlan
  BY <1>6, <1>7 DEF SwitchedOff, DropPlan, received, state
<1>8. CASE \/ \E on \in BOOLEAN : Toggle(on)
           \/ \E c \in {"GoActive", "GoInactive"} : NavCommand(c)
           \/ ResetCallback
           \/ \E p \in Points : Odometry(p)
           \/ \E goals \in GoalLists : ComputeGlobalPath(goals)
           \/ Loop \/ Plan \/ TimePasses \/ UNCHANGED vars
  BY <1>6, <1>8 DEF Toggle, NavCommand, ResetCallback, Odometry, ComputeGlobalPath, Receive,
                    Loop, Plan, TimePasses, vars, state, received
<1> QED
  BY <1>1, <1>2, <1>3, <1>5, <1>7, <1>8 DEF Next, Body

LEMMA HandsOffKept == AtAGoal /\ HandsOff /\ [Next]_vars => HandsOff'
<1> SUFFICES ASSUME AtAGoal, HandsOff, [Next]_vars
             PROVE  HandsOff'
  OBVIOUS
<1>1. ASSUME UNCHANGED <<worker, planning_future, at, cancel>>
      PROVE  HandsOff'
  BY <1>1 DEF HandsOff
<1>2. CASE \/ \E goals \in GoalLists \cup {<<>>} : NewGoals(goals)
           \/ \E on \in BOOLEAN : Toggle(on)
           \/ \E c \in {"GoActive", "GoInactive"} : NavCommand(c)
           \/ ResetCallback
           \/ \E p \in Points : Odometry(p)
           \/ \E goals \in GoalLists : ComputeGlobalPath(goals)
           \/ TimePasses \/ UNCHANGED vars
  BY <1>1, <1>2 DEF NewGoals, Toggle, NavCommand, ResetCallback, Odometry,
                    ComputeGlobalPath, Receive, TimePasses, vars, thread
<1>3. CASE Loop
  BY <1>3 DEF Loop, HandsOff, thread
<1>4. CASE Plan
  BY <1>4 DEF Plan, HandsOff
<1>5. CASE DropPlan
  BY <1>5 DEF DropPlan, HandsOff, thread
<1>6. CASE Reset \/ SwitchedOff
  <2>1. Dropped /\ at' = "spin"
    BY <1>6 DEF Reset, SwitchedOff
  <2> QED
    BY <2>1, DroppedIsGone DEF HandsOff
<1>7. CASE Idle
  BY <1>7 DEF Idle, Begin, NewGoalsCancel, HandsOff, thread
<1>8. CASE StartPlan \/ Collect
  <2>1. CanPlan /\ Submit /\ at' = "spin"
    BY <1>8 DEF StartPlan, Collect, Begin
  <2>2. Goal # NoPoint
    BY <2>1, GoalIsPoint, PlannerAssumption
  <2> QED
    BY <2>1, <2>2 DEF Submit, HandsOff
<1>9. CASE AwaitPlan
  BY <1>9 DEF AwaitPlan, Begin, HandsOff, thread
<1> QED
  BY <1>2, <1>3, <1>4, <1>5, <1>6, <1>7, <1>8, <1>9 DEF Next, Body

\* While the thread computes, its future is held; no plan starts cancelled.
THEOREM PlannerHandedOver == Spec => []HandedOver
<1>1. Init => AtAGoal /\ HandsOff
  <2> SUFFICES ASSUME Init
               PROVE  AtAGoal /\ HandsOff
    OBVIOUS
  <2>1. nav_goals \in Seq(Points)
    <3>1. CASE nav_goals = <<>>
      BY <3>1
    <3>2. CASE nav_goals \in GoalLists
      BY <3>2, PlannerAssumption
    <3> QED
      BY <3>1, <3>2 DEF Init
  <2> QED
    BY <2>1 DEF Init, AtAGoal, HandsOff
<1>2. AtAGoal /\ HandsOff /\ [Next]_vars => (AtAGoal /\ HandsOff)'
  BY AtAGoalKept, HandsOffKept
<1>3. AtAGoal /\ HandsOff => HandedOver
  BY DEF HandsOff, HandedOver
<1> QED
  BY <1>1, <1>2, <1>3, PTL DEF Spec

-----------------------------------------------------------------------------
Ordered(list, next, going) ==
    list # <<>> =>
        /\ \A i \in 1..(Len(list) - 1) : list[i + 1] = list[i] + 1
        /\ going => next = list[Len(list)] + 1
InOrder == announced \in Seq(Nat) /\ Ordered(announced, current_waypoint, run_state = Active)

LEMMA AppendOrdered ==
    ASSUME NEW list \in Seq(Nat), NEW next \in Nat, Ordered(list, next, TRUE)
    PROVE  /\ Append(list, next) \in Seq(Nat)
           /\ Ordered(Append(list, next), next + 1, TRUE)
<1> DEFINE longer == Append(list, next)
<1>1. /\ longer \in Seq(Nat) /\ Len(longer) = Len(list) + 1 /\ Len(list) \in Nat
      /\ longer[Len(list) + 1] = next
      /\ \A i \in 1..Len(list) : longer[i] = list[i]
  OBVIOUS
<1>2. ASSUME NEW i \in 1..(Len(longer) - 1)
      PROVE  longer[i + 1] = longer[i] + 1
  <2>1. CASE i = Len(list)
    <3>1. list # <<>> /\ i \in 1..Len(list)
      BY <1>1, <1>2, <2>1
    <3> QED
      BY <1>1, <2>1, <3>1 DEF Ordered
  <2>2. CASE i # Len(list)
    <3>1. i \in 1..(Len(list) - 1) /\ i \in 1..Len(list) /\ i + 1 \in 1..Len(list)
      BY <1>1, <1>2, <2>2
    <3>2. list # <<>>
      BY <1>1, <3>1
    <3> QED
      BY <1>1, <3>1, <3>2 DEF Ordered
  <2> QED
    BY <2>1, <2>2
<1> QED
  BY <1>1, <1>2 DEF Ordered

\* What the loop starts from, after the command and new goals were taken.
LEMMA TakenOrdered ==
    AtAGoal /\ InOrder =>
        /\ TakenAnnounced \in Seq(Nat)
        /\ Ordered(TakenAnnounced, TakenWaypoint, TakenState = Active)
<1> SUFFICES ASSUME AtAGoal, InOrder
             PROVE  /\ TakenAnnounced \in Seq(Nat)
                    /\ Ordered(TakenAnnounced, TakenWaypoint, TakenState = Active)
  OBVIOUS
<1>1. CASE TakenAnnounced = <<>>
  BY <1>1 DEF Ordered
<1>2. CASE TakenAnnounced # <<>>
  <2>1. /\ ~waypoints_rcvd /\ TakenAnnounced = announced
        /\ TakenState = Active => run_state = Active
    BY <1>2 DEF TakenAnnounced
  <2>2. TakenWaypoint = current_waypoint
    BY <2>1 DEF TakenWaypoint
  <2> QED
    BY <2>1, <2>2 DEF InOrder, Ordered
<1> QED
  BY <1>1, <1>2

LEMMA AnnounceOrdered == AtAGoal /\ InOrder /\ CanPlan /\ Announce => InOrder'
<1> SUFFICES ASSUME AtAGoal, InOrder, CanPlan, Announce
             PROVE  InOrder'
  OBVIOUS
<1>1. /\ TakenAnnounced \in Seq(Nat)
      /\ Ordered(TakenAnnounced, TakenWaypoint, TakenState = Active)
  BY TakenOrdered
<1>2. TakenWaypoint \in Nat
  BY GoalIsPoint
<1>3. CASE ~Announces
  BY <1>1, <1>3 DEF Announce, InOrder
<1>4. CASE Announces
  <2>1. TakenState = Active
    BY <1>4 DEF Announces
  <2>2. Ordered(TakenAnnounced, TakenWaypoint, TRUE)
    BY <1>1, <2>1 DEF Ordered
  <2>3. /\ Append(TakenAnnounced, TakenWaypoint) \in Seq(Nat)
        /\ Ordered(Append(TakenAnnounced, TakenWaypoint), TakenWaypoint + 1, TRUE)
    BY <1>1, <1>2, <2>2, AppendOrdered
  <2>4. announced' = Append(TakenAnnounced, TakenWaypoint)
    BY <1>4 DEF Announce
  <2>5. CASE IsLast
    <3>1. run_state' = Shutdown
      BY <1>4, <2>5 DEF Announce
    <3>2. run_state' # Active
      BY <3>1, PlannerAssumption DEF Active
    <3> QED
      BY <2>3, <2>4, <3>2 DEF InOrder, Ordered
  <2>6. CASE ~IsLast
    <3>1. current_waypoint' = TakenWaypoint + 1
      BY <1>4, <2>6 DEF Announce
    <3> QED
      BY <2>3, <2>4, <3>1 DEF InOrder, Ordered
  <2> QED
    BY <2>5, <2>6
<1> QED
  BY <1>3, <1>4

LEMMA InOrderKept == AtAGoal /\ InOrder /\ [Next]_vars => InOrder'
<1> SUFFICES ASSUME AtAGoal, InOrder, [Next]_vars
             PROVE  InOrder'
  OBVIOUS
<1>1. CASE UNCHANGED state
  BY <1>1 DEF InOrder, state
<1>2. CASE Reset
  BY <1>2 DEF Reset, SetRunState, InOrder, Ordered, NotInit, Active
<1>3. CASE SwitchedOff
  BY <1>3 DEF SwitchedOff, SetRunState, InOrder, Ordered
<1>4. CASE Idle
  BY <1>4, TakenOrdered DEF Idle, InOrder
<1>5. CASE StartPlan \/ Collect \/ AwaitPlan
  BY <1>5, AnnounceOrdered DEF StartPlan, Collect, AwaitPlan
<1>6. CASE \/ \E goals \in GoalLists \cup {<<>>} : NewGoals(goals)
           \/ \E on \in BOOLEAN : Toggle(on)
           \/ \E c \in {"GoActive", "GoInactive"} : NavCommand(c)
           \/ ResetCallback
           \/ \E p \in Points : Odometry(p)
           \/ \E goals \in GoalLists : ComputeGlobalPath(goals)
           \/ Loop \/ Plan \/ TimePasses \/ DropPlan \/ UNCHANGED vars
  BY <1>1, <1>6 DEF NewGoals, Toggle, NavCommand, ResetCallback, Odometry,
                    ComputeGlobalPath, Receive, Loop, Plan, TimePasses, DropPlan, vars
<1> QED
  BY <1>2, <1>3, <1>4, <1>5, <1>6 DEF Next, Body

\* Goals are announced in order and each once, whatever list and commands come.
THEOREM GoalsAnnouncedInOrder == Spec => []AnnouncedInOrder
<1>1. Init => AtAGoal /\ InOrder
  <2> SUFFICES ASSUME Init
               PROVE  AtAGoal /\ InOrder
    OBVIOUS
  <2>1. nav_goals \in Seq(Points)
    <3>1. CASE nav_goals = <<>>
      BY <3>1
    <3>2. CASE nav_goals \in GoalLists
      BY <3>2, PlannerAssumption
    <3> QED
      BY <3>1, <3>2 DEF Init
  <2>2. nav_goals # <<>> => Len(nav_goals) >= 1
    BY <2>1
  <2> QED
    BY <2>1, <2>2 DEF Init, AtAGoal, InOrder, Ordered
<1>2. AtAGoal /\ InOrder /\ [Next]_vars => (AtAGoal /\ InOrder)'
  BY AtAGoalKept, InOrderKept
<1>3. InOrder => AnnouncedInOrder
  BY DEF InOrder, Ordered, AnnouncedInOrder
<1> QED
  BY <1>1, <1>2, <1>3, PTL DEF Spec
=============================================================================
