----------------------------- MODULE LossyFifo ------------------------------
(***************************************************************************)
(* What the bridge between the vehicles promises: everyone hears the       *)
(* messages of each other vehicle in the order they were said, each at     *)
(* most once and nothing else.  Messages may be lost.                      *)
(***************************************************************************)
EXTENDS Naturals, Sequences

CONSTANTS Vehicles, Messages

VARIABLES channel,    \* said by the first and not yet heard by the second vehicle
          heard

Links == {l \in Vehicles \X Vehicles : l[1] # l[2]}

Init ==
    /\ channel = [l \in Links |-> <<>>]
    /\ heard = [v \in Vehicles |-> <<>>]

Say(v, m) ==
    /\ UNCHANGED heard
    /\ channel' = [l \in Links |-> IF l[1] = v THEN Append(channel[l], m) ELSE channel[l]]

\* One or several of the others hear the next message of a vehicle at once.
Hear(u, hearers) ==
    /\ \A v \in hearers : channel[<<u, v>>] # <<>>
    /\ heard' = [v \in Vehicles |->
          IF v \in hearers THEN Append(heard[v], Head(channel[<<u, v>>])) ELSE heard[v]]
    /\ channel' = [l \in Links |->
          IF l[1] = u /\ l[2] \in hearers THEN Tail(channel[l]) ELSE channel[l]]

\* t is s without some of its entries.
Thinned(t, s) ==
    \E kept \in [1..Len(t) -> 1..Len(s)] :
        /\ \A i, j \in DOMAIN kept : i < j => kept[i] < kept[j]
        /\ t = [i \in DOMAIN kept |-> s[kept[i]]]

\* Any of the messages under way are lost, on any of the links.
Lose ==
    /\ UNCHANGED heard
    /\ DOMAIN channel' = Links
    /\ \A l \in Links : Thinned(channel'[l], channel[l])

Next ==
    \/ Lose
    \/ \E u \in Vehicles : \E hearers \in (SUBSET (Vehicles \ {u})) \ {{}} : Hear(u, hearers)
    \/ \E v \in Vehicles, m \in Messages : Say(v, m)

Spec == Init /\ [][Next]_<<channel, heard>>
=============================================================================
