----------------------------- MODULE CommBridge -----------------------------
(***************************************************************************)
(* The comm nodes of a team.  Each takes what its vehicle says on the      *)
(* topic avt_341/comm_messages to the others, and publishes what it reads  *)
(* from them on that same topic, where it hears it again.                  *)
(*                                                                         *)
(* Either the nodes publish on the others' topics (broadcast_over_ros), or *)
(* each is a client of one TCP server that passes every frame on to the    *)
(* other clients (it is not part of the repository).  A stream arrives in  *)
(* reads of any size.  Here a message is two pieces, and its frame those   *)
(* and a delimiter; a read is a prefix of what has arrived.                *)
(***************************************************************************)
EXTENDS Naturals, FiniteSets, SequencesExt

CONSTANTS Vehicles,
          Delimiter,     \* the line feed that ends a frame
          Says           \* bound: how many messages each vehicle says

ASSUME BridgeAssumption == Says \in [Vehicles -> Nat]

\* Messages that can be parsed again; others are refused wherever they are heard.
Messages == UNION {[sender : {v}, id : 1..Says[v]] : v \in Vehicles}
Parts == [msg : Messages, part : {1, 2}]
Body(m) == <<[msg |-> m, part |-> 1], [msg |-> m, part |-> 2]>>
Frame(m) == Append(Body(m), Delimiter)

\* A text is the fields of a message with commas between them.  None holds a line
\* feed: they are numbers, names, and an expression entered on one line.
ASSUME DelimiterAssumption == Delimiter \notin Parts

VARIABLES
    over_ros,     \* parameter broadcast_over_ros of the team
    said,         \* how many messages each vehicle has said
    pending_msgs, \* heard on its topic, not yet looked at by the comm node
    connected,    \* whether its connection stands; it is made once
    stream,       \* arrived for it and not yet read
    framer,       \* its SocketMessageFramer
    texts,        \* messages of the last read, not yet published
    heard         \* what its mission manager has heard from others, in order

vars == <<over_ros, said, pending_msgs, connected, stream, framer, texts, heard>>

Heard == [msg : Messages, whole : BOOLEAN]

TypeOK ==
    /\ over_ros \in BOOLEAN
    /\ said \in [Vehicles -> Nat] /\ \A v \in Vehicles : said[v] <= Says[v]
    /\ pending_msgs \in [Vehicles -> Seq(Messages)]
    /\ connected \in [Vehicles -> BOOLEAN]
    /\ stream \in [Vehicles -> Seq(Parts \cup {Delimiter})]
    /\ framer \in [Vehicles -> [pending : Seq(Parts), delimited : BOOLEAN]]
    /\ texts \in [Vehicles -> Seq(Seq(Parts))]
    /\ heard \in [Vehicles -> Seq(Heard)]

Init ==
    /\ over_ros \in BOOLEAN
    /\ said = [v \in Vehicles |-> 0]
    /\ pending_msgs = [v \in Vehicles |-> <<>>]
    /\ connected \in [Vehicles -> BOOLEAN]      \* connect() may fail
    /\ stream = [v \in Vehicles |-> <<>>]
    /\ framer = [v \in Vehicles |-> [pending |-> <<>>, delimited |-> FALSE]]
    /\ texts = [v \in Vehicles |-> <<>>]
    /\ heard = [v \in Vehicles |-> <<>>]

\* The mission manager says something; the comm node is subscribed.
Say(v) ==
    /\ said[v] < Says[v]
    /\ said' = [said EXCEPT ![v] = @ + 1]
    /\ pending_msgs' = [pending_msgs EXCEPT ![v] =
                           Append(@, [sender |-> v, id |-> said[v] + 1])]
    /\ UNCHANGED <<over_ros, connected, stream, framer, texts, heard>>

\* The loop looks at what it has heard before it reads again.
Takes(v) ==
    /\ pending_msgs[v] # <<>> /\ texts[v] = <<>>
\* Fault: what it has read from the others is passed on again.
IsAnyones(v) == pending_msgs[v] # <<>>
\* Only its vehicle's own messages are for the others.
IsOwn(v) == Head(pending_msgs[v]).sender = v

Skip(v) ==
    /\ Takes(v) /\ ~IsOwn(v)
    /\ pending_msgs' = [pending_msgs EXCEPT ![v] = Tail(@)]
    /\ UNCHANGED <<over_ros, said, connected, stream, framer, texts, heard>>

Publish(v) ==
    /\ Takes(v) /\ IsOwn(v) /\ over_ros
    /\ LET m == Head(pending_msgs[v])
       IN  /\ pending_msgs' = [u \in Vehicles |->
                  IF u = v THEN Tail(pending_msgs[u]) ELSE Append(pending_msgs[u], m)]
           /\ heard' = [u \in Vehicles |->
                  IF u = v THEN heard[u] ELSE Append(heard[u], [msg |-> m, whole |-> TRUE])]
    /\ UNCHANGED <<over_ros, said, connected, stream, framer, texts>>

\* A write that fails is reported and not repeated; the message is gone.
Write(v) ==
    /\ Takes(v) /\ IsOwn(v) /\ ~over_ros
    /\ pending_msgs' = [pending_msgs EXCEPT ![v] = Tail(@)]
    /\ stream' = [u \in Vehicles |->
          IF u # v /\ connected[v] /\ connected[u]
          THEN stream[u] \o Frame(Head(pending_msgs[v])) ELSE stream[u]]
    /\ UNCHANGED <<over_ros, said, connected, framer, texts, heard>>

\* SocketMessageFramer::Feed.  Up to the first delimiter of a connection a read
\* is a message; then messages are what stands between delimiters.
Gather(acc, piece) ==
    IF piece # Delimiter THEN [done |-> acc.done, pending |-> Append(acc.pending, piece)]
    ELSE [done |-> IF acc.pending = <<>> THEN acc.done ELSE Append(acc.done, acc.pending),
          pending |-> <<>>]
Split(s) == FoldLeft(Gather, [done |-> <<>>, pending |-> <<>>], s)

\* Fault: the beginning of a message is not kept for the next read.
FeedDropsRest(v, data) ==
    IF ~framer[v].delimited /\ ~Contains(data, Delimiter)
    THEN texts' = [texts EXCEPT ![v] = <<data>>] /\ UNCHANGED framer
    ELSE /\ texts' = [texts EXCEPT ![v] = Split(data).done]
         /\ framer' = [framer EXCEPT ![v].delimited = TRUE]

Feed(v, data) ==
    IF ~framer[v].delimited /\ ~Contains(data, Delimiter)
    THEN /\ texts' = [texts EXCEPT ![v] = <<data>>]
         /\ UNCHANGED framer
    ELSE LET split == Split(framer[v].pending \o data)
         IN  /\ texts' = [texts EXCEPT ![v] = split.done]
             /\ framer' = [framer EXCEPT ![v] =
                              [pending |-> split.pending, delimited |-> TRUE]]

Read(v) ==
    /\ ~over_ros /\ connected[v]
    /\ stream[v] # <<>> /\ texts[v] = <<>>
    /\ \E n \in 1..Len(stream[v]) :
          /\ Feed(v, SubSeq(stream[v], 1, n))
          /\ stream' = [stream EXCEPT ![v] = SubSeq(@, n + 1, Len(@))]
    /\ UNCHANGED <<over_ros, said, pending_msgs, connected, heard>>

\* A text is parsed.  A piece of a message, or several in one, may lack fields
\* and be rejected, or pass for a message that was not sent (number fields are
\* complete or refused, a name or an expression may be short of its end).
Parsed(text) ==
    LET m == text[1].msg
    IN  IF text = Body(m) THEN {<<[msg |-> m, whole |-> TRUE]>>}
        ELSE {<<>>, <<[msg |-> m, whole |-> FALSE]>>}
PublishRead(v) ==
    /\ texts[v] # <<>>
    /\ \E p \in Parsed(Head(texts[v])) :
          /\ heard' = [heard EXCEPT ![v] = @ \o p]
          /\ pending_msgs' = [pending_msgs EXCEPT ![v] =
                                 IF p = <<>> THEN @ ELSE Append(@, p[1].msg)]
    /\ texts' = [texts EXCEPT ![v] = Tail(@)]
    /\ UNCHANGED <<over_ros, said, connected, stream, framer>>

\* The connection breaks; what was on its way is lost, and it is not made again.
Disconnect(v) ==
    /\ ~over_ros /\ connected[v]
    /\ connected' = [connected EXCEPT ![v] = FALSE]
    /\ stream' = [stream EXCEPT ![v] = <<>>]
    /\ UNCHANGED <<over_ros, said, pending_msgs, framer, texts, heard>>

Next ==
    \E v \in Vehicles :
        \/ Say(v) \/ Skip(v) \/ Publish(v) \/ Write(v) \/ Read(v) \/ PublishRead(v)
        \/ Disconnect(v)

Spec == Init /\ [][Next]_vars

\* The loop runs at 100 Hz.
Fairness ==
    \A v \in Vehicles :
        WF_vars(Skip(v) \/ Publish(v) \/ Write(v)) /\ WF_vars(Read(v)) /\ WF_vars(PublishRead(v))
FairSpec == Spec /\ Fairness

-----------------------------------------------------------------------------
(* Properties. *)

\* Whoever stays connected hears in the end everything that those who stay
\* connected say, but for one message, the first of its connection; over ROS
\* everyone hears everything.
Hears(v, m) == \E i \in 1..Len(heard[v]) : heard[v][i] = [msg |-> m, whole |-> TRUE]
CutOff(v) == ~over_ros /\ ~connected[v]
Missed(v) == {m \in Messages : /\ m.sender # v /\ ~CutOff(m.sender)
                               /\ m.id <= said[m.sender] /\ ~Hears(v, m)}
Delivered ==
    \A v \in Vehicles :
        <>[](CutOff(v) \/ Cardinality(Missed(v)) <= IF over_ros THEN 0 ELSE 1)

\* What f gives for the entries of s that are in its domain, in order.
Picked(s, f) == FoldLeft(LAMBDA acc, x : IF x \in DOMAIN f THEN Append(acc, f[x]) ELSE acc,
                         <<>>, s)

\* The texts and messages of a vehicle, and what is heard whole, as messages.
MessagesOf(v) == {m \in Messages : m.sender = v}
TextsOf(v) == [text \in {Body(m) : m \in MessagesOf(v)} |-> text[1].msg]
OwnOf(v) == [m \in MessagesOf(v) |-> m]
Whole == [h \in [msg : Messages, whole : {TRUE}] |-> h.msg]

\* The texts that v can still read, if it reads from delimiter to delimiter.
Readable(v) == texts[v] \o Split(framer[v].pending \o stream[v]).done

\* The bridge is a lossy channel from each vehicle to each other one: what is
\* heard whole was said by another, and is heard in order and once.  On a link is
\* what the sender has yet to write, after what the receiver can still read.
Fifo == INSTANCE LossyFifo WITH
    heard <- [v \in Vehicles |-> Picked(heard[v], Whole)],
    channel <- [l \in {x \in Vehicles \X Vehicles : x[1] # x[2]} |->
                 Picked(Readable(l[2]), TextsOf(l[1])) \o Picked(pending_msgs[l[1]], OwnOf(l[1]))]
ImplementsLossyFifo == Fifo!Spec
=============================================================================
