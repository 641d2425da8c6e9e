------------------------------ MODULE ToiRegex ------------------------------
(***************************************************************************)
(* Which objects are targets of interest: a command may carry a regular    *)
(* expression, and when its task starts the mission manager sets it as a   *)
(* parameter of the object tracker.  The call is asynchronous: the manager *)
(* goes on, and remembers the expression as applied when the answer comes. *)
(*                                                                         *)
(* A regular expression is a name.  The parameter service handles the      *)
(* requests of a client in their order, and so arrive the answers.  Both   *)
(* parameters of a request are always accepted: their ranges are checked   *)
(* when the manager reads its own.                                         *)
(*                                                                         *)
(* Names that ObjectTracker has as well start with Toi here.               *)
(***************************************************************************)
EXTENDS Naturals, Sequences

CONSTANTS Regexes,   \* expressions in commands and in the tracker
          Malformed, \* those that std::regex does not accept
          Default,   \* what the tracker starts with
          NoRegex,   \* an empty field in a command, nothing applied yet
          MaxTasks   \* bound on the commands

ASSUME RegexAssumption == /\ Malformed \subseteq Regexes
                          /\ Default \in Regexes
                          /\ NoRegex \notin Regexes
                          /\ MaxTasks \in Nat

VARIABLES task_list,         \* of the mission manager
          applied_toi_regex, \* what the manager believes the tracker to use
          service_is_ready,  \* the manager has found the parameter service
          requests,          \* calls on their way to the tracker
          responses,         \* answers on their way back
          toi_regex,         \* the parameter of the tracker
          added,             \* number of commands
          excuse             \* why the last task with an expression sent none

toiVars == <<task_list, applied_toi_regex, service_is_ready, requests, responses,
             toi_regex, added, excuse>>

ToiTasks == [toi_regex : Regexes \cup {NoRegex}, init_done : BOOLEAN]

ToiTypeOK == /\ task_list \in Seq(ToiTasks)
             /\ applied_toi_regex \in Regexes \cup {NoRegex}
             /\ service_is_ready \in BOOLEAN
             /\ requests \in Seq(Regexes) /\ responses \in Seq(Regexes)
             /\ toi_regex \in Regexes
             /\ added \in 0..MaxTasks
             /\ excuse \in {"none", "not_ready", "in_flight"}

InFlight == requests # <<>> \/ responses # <<>>

-----------------------------------------------------------------------------
ToiInit == /\ task_list = <<>>
           /\ applied_toi_regex = NoRegex
           /\ service_is_ready = FALSE
           /\ requests = <<>> /\ responses = <<>>
           /\ toi_regex = Default
           /\ added = 0
           /\ excuse = "none"

\* A command that is queued, or preempts the active task, which starts over.
AddTask(r) ==
    LET t == [toi_regex |-> r, init_done |-> FALSE]
        preempted == [i \in 1..Len(task_list) |->
                         IF i = 1 THEN [task_list[i] EXCEPT !.init_done = FALSE]
                         ELSE task_list[i]]
    IN  /\ added < MaxTasks
        /\ task_list' \in {Append(task_list, t), <<t>> \o preempted}
        /\ added' = added + 1
        /\ UNCHANGED <<applied_toi_regex, service_is_ready, requests, responses,
                       toi_regex, excuse>>

\* Fault: no second call before the first is answered.
SetParametersOnce(q, r) == IF q = <<>> THEN <<r>> ELSE q

SetParameters(q, r) == Append(q, r)

\* Fault: remembered before the call is made.
UpdateTrackerToiRegexFirst(r) ==
    /\ requests' = IF applied_toi_regex = r \/ r \in Malformed \/ ~service_is_ready
                     THEN requests ELSE SetParameters(requests, r)
    /\ applied_toi_regex' = r
    /\ excuse' = excuse

\* The call is skipped for what is remembered as applied, and not made for a
\* malformed expression or while there is no service.
UpdateTrackerToiRegex(r) ==
    /\ \/ /\ r \in Malformed
          /\ UNCHANGED <<requests, excuse>>
       \/ /\ r \notin Malformed /\ applied_toi_regex = r
          /\ excuse' = IF InFlight THEN "in_flight" ELSE "none"
          /\ UNCHANGED requests
       \/ /\ r \notin Malformed /\ applied_toi_regex # r /\ ~service_is_ready
          /\ excuse' = "not_ready"
          /\ UNCHANGED requests
       \/ /\ r \notin Malformed /\ applied_toi_regex # r /\ service_is_ready
          /\ excuse' = "none"
          /\ requests' = SetParameters(requests, r)
    /\ UNCHANGED applied_toi_regex

\* updateTasks: the task in front starts, and its expression is applied.
StartTask ==
    /\ task_list # <<>> /\ ~Head(task_list).init_done
    /\ task_list' = [task_list EXCEPT ![1].init_done = TRUE]
    /\ IF Head(task_list).toi_regex # NoRegex
         THEN UpdateTrackerToiRegex(Head(task_list).toi_regex)
         ELSE UNCHANGED <<applied_toi_regex, requests, excuse>>
    /\ UNCHANGED <<service_is_ready, responses, toi_regex, added>>

\* The active task ends, or a task is cancelled.
EndTask(i) ==
    /\ task_list' = SubSeq(task_list, 1, i - 1) \o SubSeq(task_list, i + 1, Len(task_list))
    /\ UNCHANGED <<applied_toi_regex, service_is_ready, requests, responses,
                   toi_regex, added, excuse>>

\* The manager discovers the tracker's parameter service.
FindService ==
    /\ ~service_is_ready /\ service_is_ready' = TRUE
    /\ UNCHANGED <<task_list, applied_toi_regex, requests, responses, toi_regex,
                   added, excuse>>

\* The tracker sets its parameter and answers.
ApplyRuntimeParameters ==
    /\ requests # <<>>
    /\ toi_regex' = Head(requests)
    /\ requests' = Tail(requests)
    /\ responses' = Append(responses, Head(requests))
    /\ UNCHANGED <<task_list, applied_toi_regex, service_is_ready, added, excuse>>

\* The manager hears the answer.
HearResponse ==
    /\ responses # <<>>
    /\ applied_toi_regex' = Head(responses)
    /\ responses' = Tail(responses)
    /\ UNCHANGED <<task_list, service_is_ready, requests, toi_regex, added, excuse>>

ToiNext ==
    \/ \E r \in Regexes \cup {NoRegex} : AddTask(r)
    \/ StartTask
    \/ \E i \in 1..Len(task_list) : EndTask(i)
    \/ FindService
    \/ ApplyRuntimeParameters
    \/ HearResponse

ToiSpec == ToiInit /\ [][ToiNext]_toiVars

-----------------------------------------------------------------------------
\* With nothing on its way, the manager is right about the tracker: what it
\* remembers as applied is what the tracker uses (UpdateTrackerToiRegex skips
\* the call for what it remembers).
BeliefCurrent ==
    ~InFlight => applied_toi_regex \in {NoRegex, toi_regex}

ActiveRegex == IF task_list # <<>> /\ Head(task_list).init_done
                 THEN Head(task_list).toi_regex ELSE NoRegex

\* With nothing on its way, the tracker uses the expression of the active task,
\* unless it was malformed or the service was not there when the task started.
RegexOfActiveTask ==
    ~InFlight /\ ActiveRegex \notin Malformed \cup {NoRegex} =>
        toi_regex = ActiveRegex \/ excuse = "not_ready"

\* The only other way to miss it is a task that starts with the expression that
\* is remembered as applied while a call for another one is on its way.
RegexUnlessSkipped ==
    ~InFlight /\ ActiveRegex \notin Malformed \cup {NoRegex} =>
        toi_regex = ActiveRegex \/ excuse # "none"
=============================================================================
