------------------------------- MODULE Fleet --------------------------------
(***************************************************************************)
(* Several vehicles, each with a mission manager, and the operator: who    *)
(* investigates, who stands by, who waits for whom, and when those that    *)
(* move in a formation are done.                                           *)
(*                                                                         *)
(* The vehicles share one topic, avt_341/comm_messages.  A publisher's     *)
(* messages reach a subscriber in the order they were published; messages  *)
(* of different publishers, or at different subscribers, are in no order.  *)
(* So there is a FIFO channel for every pair of agents, and one from every *)
(* vehicle to itself: it subscribes to the topic it publishes on.          *)
(*                                                                         *)
(* A step of a vehicle is one thing its cycle does: a message handled, an  *)
(* investigation begun, the active task finished.  MissionManager has the  *)
(* stages of the cycle, the contacts, the delays before a formation and    *)
(* the status topics.                                                      *)
(***************************************************************************)
EXTENDS TaskList

CONSTANTS FirstToiId,        \* initial obj_detection_cnt
          Missions,          \* names of what may happen to the team, and for each:
          Script,            \* what the operator sends each vehicle, in order
          Known,             \* who those with a contact may find to ask
          MaxInvestigations  \* bound on the contacts the team investigates

Links == {l \in Agents \X Agents : l # <<Operator, Operator>>}

\* Messages, without their sender, which the channel gives.
Messages ==
    [type : {"MOVETO"}, id : Int, prio : Priorities]
    \cup [type : {"WAIT_UNTIL_COMPLETE"}, id : Int, prio : Priorities, target : Targets]
    \cup [type : {"CANCEL"}, id : Int, target_msg_id : Int]
    \cup [type : {"FORM"}, id : Int, prio : Priorities, formation : Formations,
          at_goal : BOOLEAN]
    \cup [type : {"CANCEL_ALL", "TASK_COMPLETE", "ARRIVE"}, id : Int]
    \cup [type : {"OVERWATCH"}, wait_for_msg_id : Int]

\* The operator sends m once it has heard the completions in after.
Completions == [sender : Vehicles, id : Int]
Orders == [m : Messages, after : SUBSET Completions]

ASSUME FleetAssumption ==
    /\ FirstToiId \in Nat
    /\ \A m \in Missions : Script[m] \in [Vehicles -> Seq(Orders)]
    /\ \A m \in Missions : Known[m] \subseteq SUBSET Vehicles
    /\ \A m \in Missions : MaxInvestigations[m] \in Nat

VARIABLES mission,           \* the mission, which does not change
          task_list,         \* of every vehicle
          task_completions,  \* completions a vehicle has heard, in order
          arrivals,          \* arrivals a vehicle has heard
          obj_detection_cnt, \* of every vehicle
          channel,           \* messages on their way
          sent,              \* how much of its script each vehicle was sent
          investigations     \* how many investigations were begun

vars == <<mission, task_list, task_completions, arrivals, obj_detection_cnt, channel,
          sent, investigations>>

-----------------------------------------------------------------------------
CompletionOf(t) == [type |-> "TASK_COMPLETE", id |-> t.id]

\* Ids that an agent may wait for.  Completions under other ids (-1, say, which
\* every approach has) would only make its log longer, and are left out of it;
\* so are a vehicle's own, which it never waits for.  Arrivals only matter under
\* the ids of formations.
EncircleIds(m) == {FirstToiId - k : k \in 0..(MaxInvestigations[m] - 1)}
OrderedWaits(m, v) ==
    {o.m.target.id : o \in {w \in Range(Script[m][v]) : w.m.type = "WAIT_UNTIL_COMPLETE"}}
OperatorWaits(m) ==
    {c.id : c \in UNION {o.after : o \in UNION {Range(Script[m][v]) : v \in Vehicles}}}
FormationIds(m, v) == {o.m.id : o \in {f \in Range(Script[m][v]) : f.m.type = "FORM"}}
ListensFor ==
    [m \in Missions |-> [l \in Links |-> [type \in {"ARRIVE", "TASK_COMPLETE"} |->
        IF type = "ARRIVE" THEN (IF l[2] = Operator THEN {} ELSE FormationIds(m, l[2]))
        ELSE CASE l[1] = l[2] -> {}
               [] l[2] = Operator -> OperatorWaits(m)
               [] OTHER -> OrderedWaits(m, l[2]) \cup FormationIds(m, l[2])
                           \cup (IF {l[2]} \in Known[m] THEN EncircleIds(m) ELSE {})]]]

\* The operator sends commands, not what vehicles tell each other, and not under
\* the ids that vehicles count down from FirstToiId for their investigations.
ASSUME ScriptAssumption ==
    /\ \A m \in Missions : MaxInvestigations[m] <= FirstToiId
    /\ \A m \in Missions, v \in Vehicles : \A i \in 1..Len(Script[m][v]) :
          /\ Script[m][v][i].m.type \notin {"OVERWATCH", "TASK_COMPLETE", "ARRIVE"}
          /\ Script[m][v][i].m.id \notin EncircleIds(m)

\* The messages of ms with an id, for their type, in ids, in the order they have.
Heeded(ms, ids) ==
    LET first[n \in 0..Len(ms)] ==
          IF n = 0 THEN <<>>
          ELSE IF ms[n].id \in ids[ms[n].type] THEN Append(first[n - 1], ms[n])
          ELSE first[n - 1]
    IN  first[Len(ms)]

\* publishTaskCompletion and publishArrival: what v says, ms, reaches everyone.
Broadcast(ch, v, ms) ==
    [l \in Links |->
        IF l[1] = v THEN ch[l] \o Heeded(ms, ListensFor[mission][l]) ELSE ch[l]]

Heard(v, target, since) ==
    \E i \in (since + 1)..Len(task_completions[v]) :
        task_completions[v][i] = [sender |-> target.veh, id |-> target.id]

IsWait(t) == t.kind = "WaitUntilComplete"
IsReleased(v, t) == IsWait(t) /\ Heard(v, t.target, t.since)

\* Formations: whose arrival v has heard of, and when its part is done.
HasArrival(v, veh, id) == [sender |-> veh, id |-> id] \in arrivals[v]
IsFormation(t) == t.formation.term # ""

\* Fault: a vehicle only looks at the one in front of it.
AllArrivedFollowed(v, t) == HasArrival(v, t.formation.followed, t.id)

AllArrived(v, t) == \A veh \in t.formation.members : HasArrival(v, veh, t.id)

\* Fault: a leader that is cancelled is waited for.
LeaderDoneArrived(v, t) == HasArrival(v, t.formation.leader, t.id)

LeaderDone(v, t) ==
    \/ HasArrival(v, t.formation.leader, t.id)
    \/ Heard(v, [veh |-> t.formation.leader, id |-> t.id], 0)

FormationDone(v, t) ==
    IF t.formation.term = "ALL_ARRIVED" THEN AllArrived(v, t)
    ELSE IF t.kind = "Follow" THEN LeaderDone(v, t)
    ELSE t.arrived

-----------------------------------------------------------------------------
Init ==
    /\ mission \in Missions
    /\ task_list = [v \in Vehicles |-> <<>>]
    /\ task_completions = [a \in Agents |-> <<>>]
    /\ arrivals = [v \in Vehicles |-> {}]
    /\ obj_detection_cnt = [v \in Vehicles |-> FirstToiId]
    /\ channel = [l \in Links |-> <<>>]
    /\ sent = [v \in Vehicles |-> 0]
    /\ investigations = 0

\* The operator sends vehicle v the next message of its script.
Send(v) ==
    /\ sent[v] < Len(Script[mission][v])
    /\ LET o == Script[mission][v][sent[v] + 1]
       IN  /\ o.after \subseteq Range(task_completions[Operator])
           /\ channel' = [channel EXCEPT ![<<Operator, v>>] = Append(@, o.m)]
    /\ sent' = [sent EXCEPT ![v] = @ + 1]
    /\ UNCHANGED <<mission, task_list, task_completions, arrivals, obj_detection_cnt, investigations>>

\* Fault: the id the next encircle will have.
OverwatchRequestNext(id) == [type |-> "OVERWATCH", wait_for_msg_id |-> id - 1]

\* Fault: the same id for every encircle.
NextToiIdSame(id) == id

OverwatchRequest(id) == [type |-> "OVERWATCH", wait_for_msg_id |-> id]
NextToiId(id) == id - 1

\* createToiTasks: vehicle v, on its way with some task, approaches a contact
\* and encircles it, and asks the vehicle nearest to the contact to stand by.
\* It asks none when it knows of no other.
Investigate(v, watchers) ==
    LET id == obj_detection_cnt[v]
        c == FirstToiId - id + 1
        approach == ApproachTask(v, c, "first")
        encircle == EncircleTask(v, id, c, "first")
    IN  /\ investigations < MaxInvestigations[mission]
        /\ watchers \in Known[mission]
        /\ task_list[v] # <<>>
        /\ task_list' = [task_list EXCEPT
              ![v] = PreemptInsert(PreemptInsert(@, approach), encircle)]
        /\ obj_detection_cnt' = [obj_detection_cnt EXCEPT ![v] = NextToiId(id)]
        /\ channel' = [l \in Links |->
              IF l[1] = v /\ l[2] \in watchers
                THEN Append(channel[l], OverwatchRequest(id)) ELSE channel[l]]
        /\ investigations' = investigations + 1
        /\ UNCHANGED <<mission, task_completions, arrivals, sent>>

\* handleOverwatch.
Overwatch(v, s, m) ==
    LET wait == OverwatchWait(v, [veh |-> s, id |-> m.wait_for_msg_id],
                              Len(task_completions[v]))
    IN  PreemptInsert(PreemptInsert(task_list[v], OverwatchMove(v)), wait)

\* handleFormationRequest.
FormationTask(v, s, m) ==
    [NewTask(IF m.formation.leader = v \/ m.at_goal THEN "MoveTo" ELSE "Follow", s, m.id)
       EXCEPT !.formation = m.formation]

\* handleWaitUntilComplete: a wait without a target or for oneself is refused.
Rejects(v, m) == m.type = "WAIT_UNTIL_COMPLETE" /\ m.target.veh \in {NoVehicle, v}

\* The list of v after a command of s.
ListAfter(v, s, m) ==
    CASE m.type = "MOVETO" -> AddTask(task_list[v], NewTask("MoveTo", s, m.id), m.prio)
      [] m.type = "WAIT_UNTIL_COMPLETE" ->
            IF Rejects(v, m) THEN task_list[v]
            ELSE AddTask(task_list[v],
                         WaitTask(s, m.id, m.target, Len(task_completions[v])), m.prio)
      [] m.type = "FORM" -> AddTask(task_list[v], FormationTask(v, s, m), m.prio)
      [] m.type = "OVERWATCH" -> Overwatch(v, s, m)
      [] m.type = "CANCEL" -> CancelTask(task_list[v], m.target_msg_id)
      [] m.type = "CANCEL_ALL" -> <<>>

\* Fault: the tasks that make way for a superseding command are not announced.
DroppedOnCancelOnly(v, m) ==
    CASE m.type = "CANCEL" -> CancelledTasks(task_list[v], m.target_msg_id)
      [] m.type = "CANCEL_ALL" -> task_list[v]
      [] OTHER -> <<>>

\* The tasks that a message takes from the list of v before their end.
Supersedes(v, m) ==
    /\ m.type \in {"MOVETO", "FORM", "WAIT_UNTIL_COMPLETE"} /\ m.prio = "CANCEL_ALL"
    /\ ~Rejects(v, m)
Dropped(v, m) ==
    CASE m.type = "CANCEL" -> CancelledTasks(task_list[v], m.target_msg_id)
      [] m.type = "CANCEL_ALL" \/ Supersedes(v, m) -> task_list[v]
      [] OTHER -> <<>>

\* What v says about a message: completions of the dropped tasks, and of the
\* message itself if it is a cancel.
Answers(v, m) ==
    [i \in 1..Len(Dropped(v, m)) |-> CompletionOf(Dropped(v, m)[i])]
    \o (IF m.type \in {"CANCEL", "CANCEL_ALL"} THEN <<CompletionOf(m)>> ELSE <<>>)

\* Vehicle v handles the next message of agent s.
Receive(v, s) ==
    LET l == <<s, v>>
        m == Head(channel[l])
        rest == [channel EXCEPT ![l] = Tail(@)]
    IN  /\ channel[l] # <<>>
        /\ CASE m.type = "TASK_COMPLETE" ->
                  /\ task_completions' = [task_completions EXCEPT
                                            ![v] = Append(@, [sender |-> s, id |-> m.id])]
                  /\ channel' = rest
                  /\ UNCHANGED <<task_list, arrivals>>
             [] m.type = "ARRIVE" ->
                  /\ arrivals' = [arrivals EXCEPT ![v] = @ \cup {[sender |-> s, id |-> m.id]}]
                  /\ channel' = rest
                  /\ UNCHANGED <<task_list, task_completions>>
             [] OTHER ->
                  /\ task_list' = [task_list EXCEPT ![v] = ListAfter(v, s, m)]
                  /\ channel' = Broadcast(rest, v, Answers(v, m))
                  /\ UNCHANGED <<task_completions, arrivals>>
        /\ UNCHANGED <<mission, obj_detection_cnt, sent, investigations>>

\* The operator hears a completion.
OperatorHears(s) ==
    LET l == <<s, Operator>>
    IN  /\ channel[l] # <<>>
        /\ task_completions' = [task_completions EXCEPT
              ![Operator] = Append(@, [sender |-> s, id |-> Head(channel[l]).id])]
        /\ channel' = [channel EXCEPT ![l] = Tail(@)]
        /\ UNCHANGED <<mission, task_list, arrivals, obj_detection_cnt, sent, investigations>>

\* Vehicle v gets to its place in the formation: the leader, or everyone at the
\* goal, where it drives to; a follower, when all have to arrive, once the
\* vehicle in front of it is there.
Arrive(v) ==
    /\ task_list[v] # <<>>
    /\ LET t == Head(task_list[v])
       IN  /\ IsFormation(t) /\ ~t.arrived
           /\ \/ t.kind = "MoveTo"
              \/ /\ t.formation.term = "ALL_ARRIVED"
                 /\ HasArrival(v, t.formation.followed, t.id)
           /\ channel' = Broadcast(channel, v, <<[type |-> "ARRIVE", id |-> t.id]>>)
    /\ task_list' = [task_list EXCEPT ![v][1].arrived = TRUE]
    /\ UNCHANGED <<mission, task_completions, arrivals, obj_detection_cnt, sent, investigations>>

\* The active task of v is done: a wait when it is released, a formation as its
\* command says, any other when the vehicle gets there.
Finish(v) ==
    /\ task_list[v] # <<>>
    /\ LET t == Head(task_list[v])
       IN  /\ IsWait(t) => IsReleased(v, t)
           /\ IsFormation(t) => FormationDone(v, t)
           /\ channel' = Broadcast(channel, v, <<CompletionOf(t)>>)
    /\ task_list' = [task_list EXCEPT ![v] = Tail(@)]
    /\ UNCHANGED <<mission, task_completions, arrivals, obj_detection_cnt, sent, investigations>>

Next ==
    \/ \E v \in Vehicles : Send(v)
    \/ \E v \in Vehicles, w \in Vehicles : v # w /\ Investigate(v, {w})
    \/ \E v \in Vehicles : Investigate(v, {})
    \/ \E v \in Vehicles, s \in Agents : Receive(v, s)
    \/ \E s \in Vehicles : OperatorHears(s)
    \/ \E v \in Vehicles : Arrive(v)
    \/ \E v \in Vehicles : Finish(v)

Spec == Init /\ [][Next]_vars

\* Messages arrive, and a task that depends on nothing but its vehicle ends.
Fairness == /\ \A v \in Vehicles : WF_vars(Arrive(v)) /\ WF_vars(Finish(v))
            /\ \A v \in Vehicles : WF_vars(\E s \in Agents : Receive(v, s))

FairSpec == Spec /\ Fairness

-----------------------------------------------------------------------------
Encircles(w, id) ==
    \E i \in 1..Len(task_list[w]) :
        task_list[w][i].kind = "Encircle" /\ task_list[w][i].id = id

\* A completion of id is on its way behind position i of link l.
Coming(l, id, i) ==
    \E j \in (i + 1)..Len(channel[l]) : channel[l][j] = [type |-> "TASK_COMPLETE", id |-> id]

StandsBy(t) == IsWait(t) /\ ~t.is_preemptable

\* No vehicle stands by for nothing: what it waits for is still in the list of
\* the vehicle that asked, or its completion is on the way or has been heard.
\* The same holds of a request that has not arrived yet.
OverwatchCovered ==
    /\ \A v \in Vehicles : \A i \in 1..Len(task_list[v]) :
          LET t == task_list[v][i]
          IN  StandsBy(t) => \/ IsReleased(v, t)
                             \/ Coming(<<t.target.veh, v>>, t.target.id, 0)
                             \/ Encircles(t.target.veh, t.target.id)
    /\ \A l \in Links : \A i \in 1..Len(channel[l]) :
          LET m == channel[l][i]
          IN  m.type = "OVERWATCH" => \/ Coming(l, m.wait_for_msg_id, i)
                                      \/ Encircles(l[1], m.wait_for_msg_id)

\* No vehicle leaves its overwatch early: while a vehicle has an encircle to do,
\* no completion under its id is on its way or has been heard.
StandByUntilDone ==
    \A l \in Links : l[1] \in Vehicles =>
        /\ \A i \in 1..Len(channel[l]) :
              channel[l][i].type = "TASK_COMPLETE" => ~Encircles(l[1], channel[l][i].id)
        /\ \A i \in 1..Len(task_completions[l[2]]) :
              LET c == task_completions[l[2]][i]
              IN  c.sender = l[1] => ~Encircles(c.sender, c.id)

\* Every vehicle that stands by is let go.
StandByEnds ==
    \A v \in Vehicles :
        []<>(\A i \in 1..Len(task_list[v]) : ~StandsBy(task_list[v][i]))

\* Nobody leaves an ALL_ARRIVED formation before everyone in it is in place: when
\* a vehicle's part in it ends, no other has yet to receive the command or to
\* get there.
InPlace(u, id) ==
    /\ \A i \in 1..Len(task_list[u]) :
          IsFormation(task_list[u][i]) /\ task_list[u][i].id = id => task_list[u][i].arrived
    /\ \A i \in 1..Len(channel[<<Operator, u>>]) :
          LET m == channel[<<Operator, u>>][i]
          IN  m.type = "FORM" => m.id # id
EndsTogether ==
    [][\A v \in Vehicles :
          LET t == Head(task_list[v])
          IN  /\ task_list[v] # <<>> /\ task_list'[v] = Tail(task_list[v])
              /\ t.formation.term = "ALL_ARRIVED" /\ UNCHANGED arrivals
              /\ FormationDone(v, t)
              => \A u \in t.formation.members : InPlace(u, t.id)]_vars

\* Every formation ends at every vehicle once its members have been sent the
\* command (it is one message to them all), also when its leader is cancelled.
\* (One in which all have to arrive does not end once a member's part in it was
\* cancelled: only arrivals count.)
IsSent(u, id) ==
    \E i \in 1..sent[u] : Script[mission][u][i].m.type = "FORM" /\ Script[mission][u][i].m.id = id
Abandoned(t) ==
    /\ t.formation.term = "ALL_ARRIVED"
    /\ \E v \in Vehicles, u \in t.formation.members :
          Heard(v, [veh |-> u, id |-> t.id], 0) /\ ~HasArrival(v, u, t.id)
FormationEnds ==
    \A v \in Vehicles :
        []<>(\A i \in 1..Len(task_list[v]) :
                LET t == task_list[v][i]
                IN  IsFormation(t) =>
                       \/ Abandoned(t)
                       \/ \E u \in t.formation.members : ~IsSent(u, t.id))

\* An operator's wait is only released by the task it was sent for: not while
\* that task is in the other vehicle's list or on its way there.
ReleasedByItsTask ==
    \A v \in Vehicles : \A i \in 1..Len(task_list[v]) :
        LET t == task_list[v][i]
            l == <<Operator, t.target.veh>>
        IN  IsReleased(v, t) /\ t.sender = Operator =>
               /\ \A j \in 1..Len(task_list[t.target.veh]) :
                     task_list[t.target.veh][j].id # t.target.id
               /\ \A j \in 1..Len(channel[l]) :
                     channel[l][j].type = "MOVETO" => channel[l][j].id # t.target.id
=============================================================================
