---------------------------- MODULE TwoBandQueue ----------------------------
(***************************************************************************)
(* What a vehicle's task list promises, without its mechanics: two bands.  *)
(* Committed work (investigations, overwatch) is served first and in the   *)
(* order it was taken on; nothing gets between two committed tasks or in   *)
(* front of them.  Open work may be taken out of turn, but only the front  *)
(* or the back of it is ever added to.  The active task is the first       *)
(* committed task or, when there is none, the first open one.              *)
(***************************************************************************)
EXTENDS Naturals, SequencesExt

VARIABLES committed, open
bands == <<committed, open>>

Init == committed = <<>> /\ open = <<>>

\* A subsequence: what is left of s when some of its elements are taken out.
\* kept gives the place in s of each element that is left.
Remains(r, s) ==
    \E kept \in [1..Len(r) -> 1..Len(s)] :
        /\ \A i, j \in 1..Len(r) : i < j => kept[i] < kept[j]
        /\ \A i \in 1..Len(r) : r[i] = s[kept[i]]

\* New committed work goes behind all the committed work there is.
Commit == /\ IsStrictPrefix(committed, committed')
          /\ UNCHANGED open

\* New open work goes before or behind the open work.
Add == /\ UNCHANGED committed
       /\ IsStrictSuffix(open, open') \/ IsStrictPrefix(open, open')

\* The active task leaves.
Serve == \/ /\ committed # <<>>
            /\ committed' = Tail(committed)
            /\ UNCHANGED open
         \/ /\ committed = <<>> /\ open # <<>>
            /\ open' = Tail(open)
            /\ UNCHANGED committed

\* Tasks are cancelled: the rest keep their order.
Cancel == Remains(committed', committed) /\ Remains(open', open)

\* A new command takes the place of everything; a delay may come before it.
Supersede == committed' = <<>> /\ Len(open') \in 1..2

Next == Commit \/ Add \/ Serve \/ Cancel \/ Supersede

Spec == Init /\ [][Next]_bands
=============================================================================
