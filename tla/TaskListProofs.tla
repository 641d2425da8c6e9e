-------------------------- MODULE TaskListProofs --------------------------
(***************************************************************************)
(* Lemmas about the operators of TaskList: what inserting, removing and    *)
(* preempting do to a list of tasks, and that they keep it well formed.    *)
(***************************************************************************)
EXTENDS TaskList, SequenceTheorems, WellFoundedInduction, TLAPS

\* The elements of a list after an insertion (deque::insert).
LEMMA InsertAtElements ==
    ASSUME NEW S, NEW s \in Seq(S), NEW e \in S, NEW k \in 1..(Len(s) + 1)
    PROVE  /\ InsertAt(s, k, e) \in Seq(S)
           /\ Len(InsertAt(s, k, e)) = Len(s) + 1
           /\ \A i \in 1..(Len(s) + 1) :
                 InsertAt(s, k, e)[i] =
                    IF i < k THEN s[i] ELSE IF i = k THEN e ELSE s[i - 1]
<1> DEFINE p == SubSeq(s, 1, k - 1)
           q == SubSeq(s, k, Len(s))
<1>1. /\ p \in Seq(S) /\ Len(p) = k - 1
      /\ \A i \in 1..(k - 1) : p[i] = s[i]
  OBVIOUS
<1>2. /\ q \in Seq(S) /\ Len(q) = Len(s) - k + 1
      /\ \A i \in 1..(Len(s) - k + 1) : q[i] = s[k + i - 1]
  OBVIOUS
<1>3. <<e>> \in Seq(S) /\ Len(<<e>>) = 1 /\ <<e>>[1] = e
  OBVIOUS
<1> HIDE DEF p, q
<1>4. /\ p \o <<e>> \in Seq(S) /\ Len(p \o <<e>>) = k
      /\ \A i \in 1..k : (p \o <<e>>)[i] = IF i < k THEN s[i] ELSE e
  BY <1>1, <1>3
<1> DEFINE pe == p \o <<e>>
<1>5. pe \in Seq(S) /\ Len(pe) = k
      /\ \A i \in 1..k : pe[i] = IF i < k THEN s[i] ELSE e
  BY <1>4
<1> HIDE DEF pe
<1>6. /\ pe \o q \in Seq(S) /\ Len(pe \o q) = Len(pe) + Len(q)
      /\ \A i \in 1..(Len(pe) + Len(q)) : 
             (pe \o q)[i] = IF i <= Len(pe) THEN pe[i] ELSE q[i - Len(pe)]
  BY <1>2, <1>5, ConcatProperties
<1>9. Len(pe) + Len(q) = Len(s) + 1
  BY <1>2, <1>5
<1>7. InsertAt(s, k, e) = pe \o q
  BY DEF InsertAt, pe, p, q
<1>8. \A i \in 1..(Len(s) + 1) : 
             (pe \o q)[i] = IF i < k THEN s[i] ELSE IF i = k THEN e ELSE s[i - 1]
  BY <1>2, <1>5, <1>6, <1>9
<1> QED
  BY <1>6, <1>7, <1>8, <1>9

\* The same for a list of tasks.
LEMMA InsertTask ==
    \A tl \in Seq(Tasks), d \in Tasks : \A p \in 1..(Len(tl) + 1) :
        /\ InsertAt(tl, p, d) \in Seq(Tasks)
        /\ Len(InsertAt(tl, p, d)) = Len(tl) + 1
        /\ \A i \in 1..(Len(tl) + 1) :
              InsertAt(tl, p, d)[i] = IF i < p THEN tl[i] ELSE IF i = p THEN d ELSE tl[i - 1]
<1> TAKE tl \in Seq(Tasks), d \in Tasks
<1> TAKE p \in 1..(Len(tl) + 1)
<1> QED BY InsertAtElements

LEMMA InsertInFront ==
    ASSUME NEW tl \in Seq(Tasks), NEW d \in Tasks
    PROVE  /\ Len(InsertAt(tl, 1, d)) = Len(tl) + 1
           /\ \A i \in 1..(Len(tl) + 1) :
                 InsertAt(tl, 1, d)[i] = IF i = 1 THEN d ELSE tl[i - 1]
<1>1. 1 \in 1..(Len(tl) + 1)
  OBVIOUS
<1>2. /\ Len(InsertAt(tl, 1, d)) = Len(tl) + 1
      /\ \A i \in 1..(Len(tl) + 1) :
            InsertAt(tl, 1, d)[i] = IF i < 1 THEN tl[i] ELSE IF i = 1 THEN d ELSE tl[i - 1]
  BY <1>1, InsertTask
<1>3. \A i \in 1..(Len(tl) + 1) : ~(i < 1)
  OBVIOUS
<1> QED BY <1>2, <1>3

\* The elements of a list after a removal (deque::erase).
LEMMA RemoveAtElements ==
    ASSUME NEW S, NEW s \in Seq(S), NEW k \in 1..Len(s)
    PROVE  /\ RemoveAt(s, k) \in Seq(S)
           /\ Len(RemoveAt(s, k)) = Len(s) - 1
           /\ \A i \in 1..(Len(s) - 1) :
                 RemoveAt(s, k)[i] = IF i < k THEN s[i] ELSE s[i + 1]
<1> DEFINE p == SubSeq(s, 1, k - 1)
           q == SubSeq(s, k + 1, Len(s))
<1>1. /\ p \in Seq(S) /\ Len(p) = k - 1
      /\ \A i \in 1..(k - 1) : p[i] = s[i]
  OBVIOUS
<1>2. /\ q \in Seq(S) /\ Len(q) = Len(s) - k
      /\ \A i \in 1..(Len(s) - k) : q[i] = s[k + i]
  OBVIOUS
<1>3. RemoveAt(s, k) = p \o q
  BY DEF RemoveAt
<1> HIDE DEF p, q
<1>4. /\ p \o q \in Seq(S) /\ Len(p \o q) = Len(p) + Len(q)
      /\ \A i \in 1..(Len(p) + Len(q)) :
             (p \o q)[i] = IF i <= Len(p) THEN p[i] ELSE q[i - Len(p)]
  BY <1>1, <1>2, ConcatProperties
<1>5. Len(p) + Len(q) = Len(s) - 1
  BY <1>1, <1>2
<1>6. \A i \in 1..(Len(s) - 1) : (p \o q)[i] = IF i < k THEN s[i] ELSE s[i + 1]
  BY <1>1, <1>2, <1>4, <1>5
<1> QED
  BY <1>3, <1>4, <1>5, <1>6

\* A set of positions that is not empty has a least one.
LEMMA MinProperties ==
    ASSUME NEW I \in SUBSET Nat, I # {}
    PROVE  Min(I) \in I /\ \A i \in I : Min(I) <= i
<1>1. PICK m \in I : \A i \in I : ~(<<i, m>> \in OpToRel(<, Nat))
  BY NatLessThanWellFounded, WFMin
<1>2. ASSUME NEW i \in I PROVE m <= i
  <2>1. m \in Nat /\ i \in Nat
    OBVIOUS
  <2>2. i < m => <<i, m>> \in OpToRel(<, Nat)
    BY <2>1 DEF OpToRel
  <2>3. ~(i < m)
    BY <1>1, <2>2, Zenon
  <2> QED BY <2>1, <2>3
<1> QED
  BY <1>2 DEF Min

\* A set of positions of a list that is not empty has a greatest one.
LEMMA MaxProperties ==
    ASSUME NEW n \in Nat, NEW I \in SUBSET (1..n), I # {}
    PROVE  Max(I) \in I /\ \A i \in I : i <= Max(I)
<1> DEFINE J == {j \in 0..n : n - j \in I}
<1>1. J \in SUBSET Nat /\ J # {}
  <2>1. PICK i \in I : TRUE
    OBVIOUS
  <2>2. i \in 1..n /\ n - (n - i) = i /\ n - i \in 0..n
    OBVIOUS
  <2>3. n - i \in J
    BY <2>1, <2>2
  <2>4. J \in SUBSET Nat
    OBVIOUS
  <2> HIDE DEF J
  <2> QED BY <2>3, <2>4
<1> HIDE DEF J
<1>2. Min(J) \in J /\ \A j \in J : Min(J) <= j
  BY <1>1, MinProperties
<1>3. PICK m : m \in J /\ \A j \in J : m <= j
  BY <1>2
<1>4. n - m \in I /\ m \in 0..n
  BY <1>3 DEF J
<1>5. \A i \in I : i <= n - m
  <2> TAKE i \in I
  <2>1. i \in 1..n /\ n - (n - i) = i /\ n - i \in 0..n
    OBVIOUS
  <2>2. n - i \in J
    BY <2>1 DEF J
  <2>3. m <= n - i
    BY <1>3, <2>2
  <2> QED BY <1>4, <2>1, <2>3
<1>6. \E x \in I : \A y \in I : x >= y
  <2>1. PICK x \in I : x = n - m
    BY <1>4
  <2>2. \A y \in I : x >= y
    BY <1>4, <1>5, <2>1
  <2> QED BY <2>2
<1>7. Max(I) = CHOOSE x \in I : \A y \in I : x >= y
  BY DEF Max
<1>8. Max(I) \in I /\ \A y \in I : Max(I) >= y
  BY <1>6, <1>7
<1> QED
  <2>1. PICK x \in I : x = Max(I) /\ \A y \in I : x >= y
    BY <1>8
  <2>2. \A y \in I : y <= x
    BY <2>1
  <2> QED BY <2>1, <2>2

\* The search for the first preemptable task stops at it or past the end, and
\* every task it passes may not be preempted (the find_if of addTask).
LEMMA FirstPreemptableProperties ==
    ASSUME NEW S, NEW tl \in Seq(S)
    PROVE  LET k == FirstPreemptable(tl)
           IN  /\ k \in 1..(Len(tl) + 1)
               /\ \A j \in 1..(k - 1) : ~tl[j].is_preemptable
               /\ k <= Len(tl) => tl[k].is_preemptable
<1> DEFINE I == {i \in 1..Len(tl) : tl[i].is_preemptable}
<1>0. I \in SUBSET Nat /\ (I # {} => Min(I) \in I /\ \A i \in I : Min(I) <= i)
  <2>1. I \in SUBSET Nat
    OBVIOUS
  <2> HIDE DEF I
  <2> QED BY <2>1, MinProperties
<1>1. FirstPreemptable(tl) = IF I = {} THEN Len(tl) + 1 ELSE Min(I)
  <2>1. SelectInSeq(tl, LAMBDA t : t.is_preemptable) = IF I # {} THEN Min(I) ELSE 0
    BY DEF SelectInSeq
  <2> QED BY <1>0, <2>1 DEF FirstPreemptable
<1>2. CASE I = {}
  BY <1>1, <1>2
<1>3. CASE I # {}
  <2>1. FirstPreemptable(tl) = Min(I)
    BY <1>1, <1>3
  <2>2. Min(I) \in 1..Len(tl) /\ tl[Min(I)].is_preemptable
    BY <1>0, <1>3
  <2>3. \A j \in 1..(Min(I) - 1) : j \in 1..Len(tl) /\ j \notin I
    BY <1>0, <1>3, <2>2
  <2> QED BY <2>1, <2>2, <2>3
<1> QED BY <1>2, <1>3

\* The search for a task by its id finds a position of the list or none.
LEMMA FindTaskRange ==
    ASSUME NEW tl \in Seq(Tasks), NEW id
    PROVE  FindTask(tl, id) \in 0..Len(tl)
<1> DEFINE I == {i \in 1..Len(tl) : tl[i].id = id}
<1>1. I \in SUBSET Nat /\ I \subseteq 1..Len(tl)
  OBVIOUS
<1>2. FindTask(tl, id) = IF I # {} THEN Min(I) ELSE 0
  BY DEF FindTask, SelectInSeq
<1> HIDE DEF I
<1>3. I # {} => Min(I) \in I
  BY <1>1, MinProperties
<1>4. CASE I = {}
  BY <1>2, <1>4
<1>5. CASE I # {}
  <2>1. Min(I) \in 1..Len(tl)
    BY <1>1, <1>3, <1>5, Zenon
  <2> QED BY <1>2, <1>5, <2>1
<1> QED BY <1>4, <1>5

\* The search for the approach to a contact finds a position of the list or none.
LEMMA FindApproachRange ==
    ASSUME NEW tl \in Seq(Tasks), NEW c
    PROVE  FindApproach(tl, c) \in 0..Len(tl)
<1> DEFINE I == {i \in 1..Len(tl) : IsApproachOf(tl[i], c)}
<1>1. I \in SUBSET Nat /\ I \subseteq 1..Len(tl)
  OBVIOUS
<1>2. FindApproach(tl, c) = IF I # {} THEN Min(I) ELSE 0
  BY DEF FindApproach, SelectInSeq
<1> HIDE DEF I
<1>3. I # {} => Min(I) \in I
  BY <1>1, MinProperties
<1>4. CASE I = {}
  BY <1>2, <1>4
<1>5. CASE I # {}
  <2>1. Min(I) \in 1..Len(tl)
    BY <1>1, <1>3, <1>5, Zenon
  <2> QED BY <1>2, <1>5, <2>1
<1> QED BY <1>4, <1>5

-----------------------------------------------------------------------------
\* The parts of the inductive invariant that are about a list alone: committed
\* tasks in front, none but the active task started, circles committed.
TwoBands(tl) ==
    \A i, j \in 1..Len(tl) :
        i < j /\ ~tl[j].is_preemptable => ~tl[i].is_preemptable

FirstStarted(tl) ==
    \A i \in 2..Len(tl) : tl[i].init_done => tl[i].kind = "WaitForDuration"

EncirclesCommitted(tl) ==
    \A i \in 1..Len(tl) : tl[i].kind = "Encircle" => ~tl[i].is_preemptable

WellFormed(tl) == TwoBands(tl) /\ FirstStarted(tl) /\ EncirclesCommitted(tl)

\* A task that addTask may be given: not started, and committed if it is a circle.
Fresh(t) == ~t.init_done /\ (t.kind = "Encircle" => ~t.is_preemptable)

\* Preempting keeps the kind, the mark and the type of a task, and takes its
\* start away unless it is one of the two kinds that keep it.
LEMMA OnPreemptProperties ==
    ASSUME NEW t \in Tasks
    PROVE  /\ OnPreempt(t) \in Tasks
           /\ OnPreempt(t).kind = t.kind
           /\ OnPreempt(t).is_preemptable = t.is_preemptable
           /\ OnPreempt(t).init_done =>
                t.init_done /\ t.kind \in {"WaitForDuration", "Encircle"}
  BY DEF OnPreempt, Tasks

\* The list after a preempting insertion, element by element, for tasks of any
\* set that onPreempt does not lead out of.
LEMMA PreemptInsertElementsOf ==
    ASSUME NEW S, \A u \in S : OnPreempt(u) \in S,
           NEW tl \in Seq(S), NEW t \in S
    PROVE  LET k == FirstPreemptable(tl)
               new == PreemptInsert(tl, t)
           IN  /\ new \in Seq(S)
               /\ Len(new) = Len(tl) + 1
               /\ \A i \in 1..Len(new) :
                     new[i] = IF i < k THEN tl[i] ELSE IF i = k THEN t
                              ELSE IF i = k + 1 THEN OnPreempt(tl[k]) ELSE tl[i - 1]
<1> DEFINE k == FirstPreemptable(tl)
           marked == [i \in 1..Len(tl) |-> IF i = k THEN OnPreempt(tl[i]) ELSE tl[i]]
<1>1. k \in 1..(Len(tl) + 1)
  BY FirstPreemptableProperties
<1>2. \A i \in 1..Len(tl) : tl[i] \in S /\ OnPreempt(tl[i]) \in S
  OBVIOUS
<1>3. /\ marked \in Seq(S) /\ Len(marked) = Len(tl)
      /\ \A i \in 1..Len(tl) : marked[i] = IF i = k THEN OnPreempt(tl[i]) ELSE tl[i]
  BY <1>2
<1>4. PreemptInsert(tl, t) = InsertAt(marked, k, t)
  BY DEF PreemptInsert
<1> HIDE DEF marked, k
<1>5. /\ InsertAt(marked, k, t) \in Seq(S)
      /\ Len(InsertAt(marked, k, t)) = Len(tl) + 1
      /\ \A i \in 1..(Len(tl) + 1) :
            InsertAt(marked, k, t)[i] =
               IF i < k THEN marked[i] ELSE IF i = k THEN t ELSE marked[i - 1]
  <2>1. marked \in Seq(S) /\ k \in 1..(Len(marked) + 1)
    BY <1>1, <1>3, Zenon
  <2>2. /\ InsertAt(marked, k, t) \in Seq(S)
        /\ Len(InsertAt(marked, k, t)) = Len(marked) + 1
        /\ \A i \in 1..(Len(marked) + 1) :
              InsertAt(marked, k, t)[i] =
                 IF i < k THEN marked[i] ELSE IF i = k THEN t ELSE marked[i - 1]
    BY <2>1, InsertAtElements
  <2> QED BY <1>3, <2>2, Zenon
<1>6. \A i \in 1..(Len(tl) + 1) :
         InsertAt(marked, k, t)[i] =
            IF i < k THEN tl[i] ELSE IF i = k THEN t
            ELSE IF i = k + 1 THEN OnPreempt(tl[k]) ELSE tl[i - 1]
  <2> TAKE i \in 1..(Len(tl) + 1)
  <2>1. CASE i < k
    BY <1>1, <1>3, <1>5, <2>1
  <2>2. CASE i = k
    BY <1>1, <1>5, <2>2
  <2>3. CASE i > k
    <3>1. i - 1 \in 1..Len(tl) /\ (i - 1 = k <=> i = k + 1)
      BY <1>1, <2>3
    <3>2. InsertAt(marked, k, t)[i] = marked[i - 1]
      BY <1>1, <1>5, <2>3
    <3>3. marked[i - 1] = IF i - 1 = k THEN OnPreempt(tl[i - 1]) ELSE tl[i - 1]
      BY <1>3, <3>1
    <3> QED BY <1>1, <2>3, <3>1, <3>2, <3>3
  <2> QED BY <1>1, <2>1, <2>2, <2>3
<1> QED BY <1>4, <1>5, <1>6 DEF k

\* The list after a preempting insertion, element by element.
LEMMA PreemptInsertElements ==
    ASSUME NEW tl \in Seq(Tasks), NEW t \in Tasks
    PROVE  LET k == FirstPreemptable(tl)
               new == PreemptInsert(tl, t)
           IN  /\ new \in Seq(Tasks)
               /\ Len(new) = Len(tl) + 1
               /\ \A i \in 1..Len(new) :
                     new[i] = IF i < k THEN tl[i] ELSE IF i = k THEN t
                              ELSE IF i = k + 1 THEN OnPreempt(tl[k]) ELSE tl[i - 1]
<1>1. \A u \in Tasks : OnPreempt(u) \in Tasks
  BY OnPreemptProperties
<1> QED BY <1>1, PreemptInsertElementsOf

\* A preempting insertion keeps the list well formed, whatever is inserted.
LEMMA PreemptInsertWellFormed ==
    ASSUME NEW tl \in Seq(Tasks), WellFormed(tl), NEW t \in Tasks, Fresh(t)
    PROVE  WellFormed(PreemptInsert(tl, t))
<1> DEFINE k == FirstPreemptable(tl)
           new == PreemptInsert(tl, t)
<1>1. /\ k \in 1..(Len(tl) + 1)
      /\ \A j \in 1..(k - 1) : ~tl[j].is_preemptable
      /\ k <= Len(tl) => tl[k].is_preemptable
  BY FirstPreemptableProperties
<1>2. /\ Len(new) = Len(tl) + 1
      /\ \A i \in 1..Len(new) :
            new[i] = IF i < k THEN tl[i] ELSE IF i = k THEN t
                     ELSE IF i = k + 1 THEN OnPreempt(tl[k]) ELSE tl[i - 1]
  BY PreemptInsertElements
<1>3. \A i \in 1..Len(tl) :
         /\ tl[i] \in Tasks
         /\ OnPreempt(tl[i]).kind = tl[i].kind
         /\ OnPreempt(tl[i]).is_preemptable = tl[i].is_preemptable
         /\ OnPreempt(tl[i]).init_done =>
              tl[i].init_done /\ tl[i].kind \in {"WaitForDuration", "Encircle"}
  BY OnPreemptProperties
<1>4. \A i \in k..Len(tl) : tl[i].is_preemptable /\ tl[i].kind # "Encircle"
  <2> TAKE i \in k..Len(tl)
  <2>1. i \in 1..Len(tl) /\ k \in 1..Len(tl) /\ k <= i
    BY <1>1
  <2>2. tl[i].is_preemptable
    BY <1>1, <2>1 DEF WellFormed, TwoBands
  <2> QED BY <2>1, <2>2 DEF WellFormed, EncirclesCommitted
<1> HIDE DEF k, new
\* What is behind the insertion, with the position it comes from.
<1>5. \A i \in 1..Len(new) : i > k =>
         /\ i - 1 \in k..Len(tl) /\ i - 1 \in 1..Len(tl)
         /\ new[i].is_preemptable
         /\ new[i].kind = tl[i - 1].kind
         /\ new[i].init_done =>
              /\ tl[i - 1].init_done
              /\ i = k + 1 => tl[i - 1].kind = "WaitForDuration"
  <2> SUFFICES ASSUME NEW i \in 1..Len(new), i > k
               PROVE  /\ i - 1 \in k..Len(tl) /\ i - 1 \in 1..Len(tl)
                      /\ new[i].is_preemptable
                      /\ new[i].kind = tl[i - 1].kind
                      /\ new[i].init_done =>
                           /\ tl[i - 1].init_done
                           /\ i = k + 1 => tl[i - 1].kind = "WaitForDuration"
    OBVIOUS
  <2>1. i - 1 \in k..Len(tl) /\ i - 1 \in 1..Len(tl)
    BY <1>1, <1>2
  <2>2. new[i] = IF i = k + 1 THEN OnPreempt(tl[i - 1]) ELSE tl[i - 1]
    BY <1>1, <1>2
  <2> QED BY <1>3, <1>4, <2>1, <2>2
<1>6. TwoBands(new)
  <2> SUFFICES ASSUME NEW i \in 1..Len(new), NEW j \in 1..Len(new),
                      i < j, ~new[j].is_preemptable
               PROVE  ~new[i].is_preemptable
    BY DEF TwoBands
  <2>1. j <= k
    BY <1>1, <1>5
  <2>2. i \in 1..(k - 1) /\ new[i] = tl[i]
    BY <1>1, <1>2, <2>1
  <2> QED BY <1>1, <2>2
<1>7. FirstStarted(new)
  <2> SUFFICES ASSUME NEW i \in 2..Len(new), new[i].init_done
               PROVE  new[i].kind = "WaitForDuration"
    BY DEF FirstStarted
  <2>1. CASE i < k
    <3>1. i \in 2..Len(tl) /\ new[i] = tl[i]
      BY <1>1, <1>2, <2>1
    <3> QED BY <3>1 DEF WellFormed, FirstStarted
  <2>2. CASE i = k
    BY <1>1, <1>2, <2>2 DEF Fresh
  <2>3. CASE i = k + 1
    <3>1. i \in 1..Len(new) /\ i > k
      BY <1>1, <1>2, <2>3
    <3>2. /\ new[i].kind = tl[i - 1].kind
          /\ i = k + 1 => tl[i - 1].kind = "WaitForDuration"
      BY <1>5, <3>1, Zenon
    <3> QED BY <2>3, <3>2
  <2>4. CASE i > k + 1
    <3>1. i - 1 \in 2..Len(tl) /\ tl[i - 1].init_done /\ new[i].kind = tl[i - 1].kind
      BY <1>1, <1>2, <1>5, <2>4
    <3> QED BY <3>1 DEF WellFormed, FirstStarted
  <2> QED BY <1>1, <2>1, <2>2, <2>3, <2>4
<1>8. EncirclesCommitted(new)
  <2> SUFFICES ASSUME NEW i \in 1..Len(new), new[i].kind = "Encircle"
               PROVE  ~new[i].is_preemptable
    BY DEF EncirclesCommitted
  <2>1. CASE i < k
    BY <1>1, <1>2, <2>1
  <2>2. CASE i = k
    BY <1>1, <1>2, <2>2 DEF Fresh
  <2>3. CASE i > k
    BY <1>1, <1>4, <1>5, <2>3
  <2> QED BY <1>1, <2>1, <2>2, <2>3
<1> QED BY <1>6, <1>7, <1>8 DEF WellFormed, new

\* Whatever is removed, the rest stays well formed.
LEMMA RemoveAtWellFormed ==
    ASSUME NEW tl \in Seq(Tasks), WellFormed(tl), NEW k \in 1..Len(tl)
    PROVE  WellFormed(RemoveAt(tl, k))
<1> DEFINE new == RemoveAt(tl, k)
<1>1. /\ Len(new) = Len(tl) - 1
      /\ \A i \in 1..(Len(tl) - 1) : new[i] = IF i < k THEN tl[i] ELSE tl[i + 1]
  BY RemoveAtElements
<1> HIDE DEF new
<1>2. TwoBands(new)
  <2> SUFFICES ASSUME NEW i \in 1..Len(new), NEW j \in 1..Len(new), i < j,
                      ~new[j].is_preemptable
               PROVE  ~new[i].is_preemptable
    BY DEF TwoBands
  <2> DEFINE From(x) == IF x < k THEN x ELSE x + 1
  <2>1. /\ From(i) \in 1..Len(tl) /\ From(j) \in 1..Len(tl) /\ From(i) < From(j)
        /\ new[i] = tl[From(i)] /\ new[j] = tl[From(j)]
    BY <1>1
  <2> HIDE DEF From
  <2> QED BY <2>1 DEF WellFormed, TwoBands
<1>3. FirstStarted(new)
  BY <1>1 DEF WellFormed, FirstStarted
<1>4. EncirclesCommitted(new)
  BY <1>1 DEF WellFormed, EncirclesCommitted
<1> QED BY <1>2, <1>3, <1>4 DEF WellFormed, new

\* Cancelling keeps the list a well formed list of tasks.
LEMMA CancelTaskWellFormed ==
    ASSUME NEW tl \in Seq(Tasks), NEW id
    PROVE  /\ CancelTask(tl, id) \in Seq(Tasks)
           /\ WellFormed(tl) => WellFormed(CancelTask(tl, id))
<1> DEFINE k == FindTask(tl, id)
           rest == RemoveAt(tl, k)
           a == IF tl[k].kind = "Encircle" /\ tl[k].contact # NoContact
                  THEN FindApproach(rest, tl[k].contact) ELSE 0
<1>1. k \in 0..Len(tl)
  BY FindTaskRange
<1>2. CancelTask(tl, id) = IF k = 0 THEN tl ELSE IF a = 0 THEN rest ELSE RemoveAt(rest, a)
  BY DEF CancelTask
<1> HIDE DEF k
<1>3. CASE k = 0
  BY <1>2, <1>3
<1>4. CASE k # 0
  <2>1. k \in 1..Len(tl)
    BY <1>1, <1>4
  <2>2. rest \in Seq(Tasks) /\ (WellFormed(tl) => WellFormed(rest))
    BY <2>1, RemoveAtElements, RemoveAtWellFormed
  <2> HIDE DEF rest
  <2>3. a \in 0..Len(rest)
    BY <2>2, FindApproachRange
  <2> HIDE DEF a
  <2>4. CASE a = 0
    BY <1>2, <1>4, <2>2, <2>4
  <2>5. CASE a # 0
    <3>1. a \in 1..Len(rest)
      BY <2>3, <2>5
    <3>2. /\ RemoveAt(rest, a) \in Seq(Tasks)
          /\ WellFormed(rest) => WellFormed(RemoveAt(rest, a))
      BY <2>2, <3>1, RemoveAtElements, RemoveAtWellFormed
    <3> QED BY <1>2, <1>4, <2>2, <2>5, <3>2
  <2> QED BY <2>4, <2>5
<1> QED BY <1>3, <1>4

\* addTask, for every priority: where the task ends up, and that the list stays
\* a well formed list of tasks if the task is one that operators send.
LEMMA AddTaskWellFormed ==
    ASSUME NEW tl \in Seq(Tasks), NEW t \in Tasks, NEW prio \in Priorities
    PROVE  LET new == AddTask(tl, t, prio)
           IN  /\ new \in Seq(Tasks)
               /\ AddPosition(tl, prio) \in 1..Len(new)
               /\ new[AddPosition(tl, prio)] = t
               /\ WellFormed(tl) /\ Fresh(t) /\ t.is_preemptable => WellFormed(new)
<1> DEFINE new == AddTask(tl, t, prio)
           p == AddPosition(tl, prio)
<1>1. CASE prio = "CANCEL_ALL"
  <2>1. new = <<t>> /\ p = 1
    BY <1>1 DEF AddTask, AddPosition
  <2>2. WellFormed(<<t>>) \/ ~Fresh(t)
    BY DEF WellFormed, TwoBands, FirstStarted, EncirclesCommitted, Fresh
  <2> QED BY <2>1, <2>2
<1>2. CASE prio = "PREEMPT"
  <2>1. new = PreemptInsert(tl, t) /\ p = FirstPreemptable(tl)
    BY <1>2 DEF AddTask, AddPosition
  <2>2. /\ FirstPreemptable(tl) \in 1..(Len(tl) + 1)
        /\ PreemptInsert(tl, t) \in Seq(Tasks)
        /\ Len(PreemptInsert(tl, t)) = Len(tl) + 1
    BY FirstPreemptableProperties, PreemptInsertElements
  <2>3. PreemptInsert(tl, t)[FirstPreemptable(tl)] = t
    <3> DEFINE k == FirstPreemptable(tl)
    <3>1. \A i \in 1..Len(PreemptInsert(tl, t)) :
             PreemptInsert(tl, t)[i] =
                IF i < k THEN tl[i] ELSE IF i = k THEN t
                ELSE IF i = k + 1 THEN OnPreempt(tl[k]) ELSE tl[i - 1]
      BY PreemptInsertElements
    <3>2. k \in 1..Len(PreemptInsert(tl, t)) /\ k \in Int
      BY <2>2
    <3> HIDE DEF k
    <3>3. PreemptInsert(tl, t)[k] = t
      BY <3>1, <3>2
    <3> QED BY <3>3 DEF k
  <2>4. WellFormed(tl) /\ Fresh(t) => WellFormed(PreemptInsert(tl, t))
    BY PreemptInsertWellFormed
  <2> HIDE DEF new, p
  <2> QED BY <2>1, <2>2, <2>3, <2>4 DEF new, p
<1>3. CASE prio = "QUEUE"
  <2>1. new = Append(tl, t) /\ p = Len(tl) + 1
    BY <1>3 DEF AddTask, AddPosition
  <2>2. /\ Append(tl, t) \in Seq(Tasks) /\ Len(Append(tl, t)) = Len(tl) + 1
        /\ \A i \in 1..(Len(tl) + 1) :
              Append(tl, t)[i] = IF i = Len(tl) + 1 THEN t ELSE tl[i]
    OBVIOUS
  <2> HIDE DEF new, p
  <2>3. ASSUME WellFormed(tl), Fresh(t), t.is_preemptable PROVE WellFormed(Append(tl, t))
    <3>1. TwoBands(Append(tl, t))
      BY <2>2, <2>3 DEF WellFormed, TwoBands
    <3>2. FirstStarted(Append(tl, t))
      BY <2>2, <2>3 DEF WellFormed, FirstStarted, Fresh
    <3>3. EncirclesCommitted(Append(tl, t))
      BY <2>2, <2>3 DEF WellFormed, EncirclesCommitted, Fresh
    <3> QED BY <3>1, <3>2, <3>3 DEF WellFormed
  <2> QED BY <2>1, <2>2, <2>3 DEF new, p
<1> QED BY <1>1, <1>2, <1>3 DEF Priorities

\* A delay inserted in front of an open task that has not started keeps the list
\* well formed (insertFormationChangeDelay).
LEMMA InsertBeforeOpenWellFormed ==
    ASSUME NEW tl \in Seq(Tasks), WellFormed(tl), NEW p \in 1..Len(tl),
           Fresh(tl[p]), tl[p].is_preemptable,
           NEW d \in Tasks, Fresh(d), d.is_preemptable
    PROVE  InsertAt(tl, p, d) \in Seq(Tasks) /\ WellFormed(InsertAt(tl, p, d))
<1>1. /\ InsertAt(tl, p, d) \in Seq(Tasks)
      /\ Len(InsertAt(tl, p, d)) = Len(tl) + 1
      /\ \A i \in 1..(Len(tl) + 1) :
            InsertAt(tl, p, d)[i] = IF i < p THEN tl[i] ELSE IF i = p THEN d ELSE tl[i - 1]
  <2>1. p \in 1..(Len(tl) + 1)
    OBVIOUS
  <2> QED BY <2>1, InsertTask
<1> DEFINE new == InsertAt(tl, p, d)
<1>2. /\ new \in Seq(Tasks) /\ Len(new) = Len(tl) + 1
      /\ \A i \in 1..(Len(tl) + 1) :
            new[i] = IF i < p THEN tl[i] ELSE IF i = p THEN d ELSE tl[i - 1]
  BY <1>1, Zenon
<1>3. \A i \in p..Len(tl) : tl[i].is_preemptable
  BY DEF WellFormed, TwoBands
<1> HIDE DEF new
<1>4. \A i \in 1..Len(new) : i > p => i - 1 \in 1..Len(tl) /\ i - 1 >= p /\ new[i] = tl[i - 1]
  BY <1>2
<1>5. TwoBands(new)
  <2> SUFFICES ASSUME NEW i \in 1..Len(new), NEW j \in 1..Len(new),
                      i < j, ~new[j].is_preemptable
               PROVE  ~new[i].is_preemptable
    BY DEF TwoBands
  <2>1. j < p
    BY <1>2, <1>3, <1>4
  <2>2. i \in 1..Len(tl) /\ j \in 1..Len(tl) /\ new[i] = tl[i] /\ new[j] = tl[j]
    BY <1>2, <2>1
  <2> QED BY <2>2 DEF WellFormed, TwoBands
<1>6. FirstStarted(new)
  <2> SUFFICES ASSUME NEW i \in 2..Len(new), new[i].init_done
               PROVE  new[i].kind = "WaitForDuration"
    BY DEF FirstStarted
  <2>1. CASE i < p
    <3>1. i \in 2..Len(tl) /\ new[i] = tl[i]
      BY <1>2, <2>1
    <3> QED BY <3>1 DEF WellFormed, FirstStarted
  <2>2. CASE i = p
    BY <1>2, <2>2 DEF Fresh
  <2>3. CASE i > p
    <3>1. i \in 1..Len(new)
      BY <1>2
    <3>2. i - 1 # p /\ i - 1 \in 2..Len(tl) /\ new[i] = tl[i - 1]
      BY <1>4, <2>3, <3>1 DEF Fresh
    <3> QED BY <3>2 DEF WellFormed, FirstStarted
  <2> QED BY <1>2, <2>1, <2>2, <2>3
<1>7. EncirclesCommitted(new)
  <2> SUFFICES ASSUME NEW i \in 1..Len(new), new[i].kind = "Encircle"
               PROVE  ~new[i].is_preemptable
    BY DEF EncirclesCommitted
  <2>1. i # p
    BY <1>2 DEF Fresh
  <2>2. PICK j \in 1..Len(tl) : new[i] = tl[j]
    BY <1>2, <1>4, <2>1
  <2> QED BY <2>2 DEF WellFormed, EncirclesCommitted
<1> QED BY <1>2, <1>5, <1>6, <1>7 DEF WellFormed, new

\* The list without its active task (pop_front).
LEMMA TailWellFormed ==
    ASSUME NEW tl \in Seq(Tasks), tl # <<>>
    PROVE  Tail(tl) \in Seq(Tasks) /\ (WellFormed(tl) => WellFormed(Tail(tl)))
<1>1. /\ Tail(tl) \in Seq(Tasks) /\ Len(Tail(tl)) = Len(tl) - 1
      /\ \A i \in 1..(Len(tl) - 1) : Tail(tl)[i] = tl[i + 1] /\ i + 1 \in 1..Len(tl)
  OBVIOUS
<1>2. TwoBands(tl) => TwoBands(Tail(tl))
  BY <1>1 DEF TwoBands
<1>3. FirstStarted(tl) => FirstStarted(Tail(tl))
  BY <1>1 DEF FirstStarted
<1>4. EncirclesCommitted(tl) => EncirclesCommitted(Tail(tl))
  BY <1>1 DEF EncirclesCommitted
<1> QED BY <1>1, <1>2, <1>3, <1>4 DEF WellFormed

\* The same tasks with other data: what init, run, a reached goal and a moved
\* contact change of a task keeps the list well formed.
LEMMA SameMarksWellFormed ==
    ASSUME NEW tl \in Seq(Tasks), WellFormed(tl), NEW new \in Seq(Tasks),
           Len(new) = Len(tl),
           \A i \in 1..Len(tl) : /\ new[i].kind = tl[i].kind
                                 /\ new[i].is_preemptable = tl[i].is_preemptable
                                 /\ i # 1 => new[i].init_done = tl[i].init_done
    PROVE  WellFormed(new)
<1>1. TwoBands(new)
  BY DEF WellFormed, TwoBands
<1>2. FirstStarted(new)
  <2> SUFFICES ASSUME NEW i \in 2..Len(new), new[i].init_done
               PROVE  new[i].kind = "WaitForDuration"
    BY DEF FirstStarted
  <2>1. i \in 1..Len(tl) /\ i \in 2..Len(tl) /\ i # 1
    OBVIOUS
  <2> QED BY <2>1 DEF WellFormed, FirstStarted
<1>3. EncirclesCommitted(new)
  BY DEF WellFormed, EncirclesCommitted
<1> QED BY <1>1, <1>2, <1>3 DEF WellFormed

-----------------------------------------------------------------------------
\* What every change of the list comes down to: tasks are put in as a block, at
\* the end or before the first preemptable task, or a block is taken out.  The
\* others keep what tells them apart, and their order.
Alike(t, u) ==
    /\ t.kind = u.kind /\ t.sender = u.sender /\ t.id = u.id /\ t.contact = u.contact
    /\ t.is_preemptable = u.is_preemptable /\ t.target = u.target /\ t.since = u.since
    /\ t.formation = u.formation /\ (u.arrived => t.arrived)

Inserted(new, tl, p, b) ==
    /\ Len(new) = Len(tl) + Len(b)
    /\ p \in 1..(Len(tl) + 1) /\ (p = Len(tl) + 1 \/ p = FirstPreemptable(tl))
    /\ \A i \in 1..(p - 1) : Alike(new[i], tl[i])
    /\ \A i \in 1..Len(b) : new[p + i - 1] = b[i]
    /\ \A i \in p..Len(tl) : Alike(new[i + Len(b)], tl[i])

Deleted(new, tl, p, n) ==
    /\ n \in Nat /\ p \in 1..(Len(tl) + 1) /\ p + n <= Len(tl) + 1
    /\ Len(new) = Len(tl) - n
    /\ \A i \in 1..(p - 1) : new[i] = tl[i]
    /\ \A i \in (p + n)..Len(tl) : new[i - n] = tl[i]

\* The parts of the inductive invariant that are about investigations.
IsApproach(t) == t.kind = "MoveTo" /\ t.contact # NoContact

CirclesHaveContacts(tl) ==
    \A i \in 1..Len(tl) : tl[i].kind = "Encircle" => tl[i].contact # NoContact

ApproachesCommitted(tl) ==
    \A i \in 1..Len(tl) : IsApproach(tl[i]) => ~tl[i].is_preemptable

OneCircle(tl) ==
    \A i, j \in 1..Len(tl) :
        /\ tl[i].kind = "Encircle" /\ tl[j].kind = "Encircle"
        /\ tl[i].contact = tl[j].contact
        => i = j

ApproachFollowed(tl) ==
    \A i \in 1..Len(tl) :
        IsApproach(tl[i]) => i < Len(tl) /\ IsEncircleOf(tl[i + 1], tl[i].contact)

Paired(tl) == /\ CirclesHaveContacts(tl) /\ ApproachesCommitted(tl)
              /\ OneCircle(tl) /\ ApproachFollowed(tl)

\* A task that has no part in an investigation.
Plain(t) == t.kind # "Encircle" /\ ~IsApproach(t)

\* Where each task of a list comes from after an insertion.
LEMMA InsertedElements ==
    ASSUME NEW tl \in Seq(Tasks), NEW new \in Seq(Tasks), NEW b \in Seq(Tasks), NEW p,
           Inserted(new, tl, p, b)
    PROVE  /\ p \in 1..(Len(tl) + 1) /\ Len(b) \in Nat /\ Len(tl) \in Nat
           /\ Len(new) = Len(tl) + Len(b)
           /\ p <= Len(tl) => tl[p].is_preemptable
           /\ \A i \in 1..Len(new) :
                 \/ i \in 1..Len(tl) /\ i < p /\ Alike(new[i], tl[i])
                 \/ p <= i /\ i < p + Len(b) /\ i - p + 1 \in 1..Len(b) /\ new[i] = b[i - p + 1]
                 \/ /\ i >= p + Len(b) /\ i - Len(b) \in 1..Len(tl)
                    /\ Alike(new[i], tl[i - Len(b)])
<1>1. p <= Len(tl) => tl[p].is_preemptable
  BY FirstPreemptableProperties DEF Inserted
<1>2. /\ p \in 1..(Len(tl) + 1) /\ Len(b) \in Nat /\ Len(tl) \in Nat
      /\ Len(new) = Len(tl) + Len(b)
  BY DEF Inserted
<1>3. ASSUME NEW i \in 1..Len(new)
      PROVE  \/ i \in 1..Len(tl) /\ i < p /\ Alike(new[i], tl[i])
             \/ p <= i /\ i < p + Len(b) /\ i - p + 1 \in 1..Len(b) /\ new[i] = b[i - p + 1]
             \/ /\ i >= p + Len(b) /\ i - Len(b) \in 1..Len(tl)
                /\ Alike(new[i], tl[i - Len(b)])
  <2>1. CASE i < p
    BY <1>2, <2>1 DEF Inserted
  <2>2. CASE p <= i /\ i < p + Len(b)
    <3>1. i - p + 1 \in 1..Len(b) /\ p + (i - p + 1) - 1 = i
      BY <1>2, <2>2
    <3> QED BY <2>2, <3>1 DEF Inserted
  <2>3. CASE i >= p + Len(b)
    <3>1. i - Len(b) \in p..Len(tl) /\ i - Len(b) \in 1..Len(tl) /\ (i - Len(b)) + Len(b) = i
      BY <1>2, <2>3
    <3> QED BY <2>3, <3>1 DEF Inserted
  <2> QED BY <1>2, <2>1, <2>2, <2>3
<1> QED BY <1>1, <1>2, <1>3

\* The contacts of a list, by their circles.
LEMMA EncircledMember ==
    ASSUME NEW tl, NEW c
    PROVE  c \in EncircledContacts(tl) <=>
             c # NoContact /\ \E i \in 1..Len(tl) : tl[i].kind = "Encircle" /\ tl[i].contact = c
  BY DEF EncircledContacts

\* Tasks that have no part in an investigation come between no approach and its
\* circle, and change nothing about the contacts that are encircled.
LEMMA InsertPlain ==
    ASSUME NEW tl \in Seq(Tasks), NEW new \in Seq(Tasks), NEW b \in Seq(Tasks), NEW p,
           Inserted(new, tl, p, b), \A i \in 1..Len(b) : Plain(b[i]),
           EncirclesCommitted(tl), Paired(tl)
    PROVE  Paired(new) /\ EncircledContacts(new) = EncircledContacts(tl)
<1> DEFINE n == Len(b)
<1>1. /\ p \in 1..(Len(tl) + 1) /\ n \in Nat /\ Len(tl) \in Nat
      /\ Len(new) = Len(tl) + n
      /\ p <= Len(tl) => tl[p].is_preemptable
  BY InsertedElements
<1>2. \A i \in 1..Len(new) :
         \/ i \in 1..Len(tl) /\ i < p /\ Alike(new[i], tl[i])
         \/ p <= i /\ i < p + n /\ Plain(new[i])
         \/ i >= p + n /\ i - n \in 1..Len(tl) /\ Alike(new[i], tl[i - n])
  BY InsertedElements
<1>3. \A i \in 1..Len(tl) :
         \/ i < p /\ i \in 1..Len(new) /\ Alike(new[i], tl[i])
         \/ i >= p /\ i + n \in 1..Len(new) /\ Alike(new[i + n], tl[i])
  BY <1>1 DEF Inserted
<1> HIDE DEF n
<1>4. CirclesHaveContacts(new)
  BY <1>2 DEF Paired, CirclesHaveContacts, Alike, Plain
<1>5. ApproachesCommitted(new)
  BY <1>2 DEF Paired, ApproachesCommitted, Alike, Plain, IsApproach
<1>6. OneCircle(new)
  <2> DEFINE Old(i) == IF i < p THEN i ELSE i - n
  <2>1. \A i \in 1..Len(new) : new[i].kind = "Encircle" =>
           /\ Old(i) \in 1..Len(tl) /\ (i < p \/ i >= p + n)
           /\ tl[Old(i)].kind = "Encircle" /\ tl[Old(i)].contact = new[i].contact
    <3> SUFFICES ASSUME NEW i \in 1..Len(new), new[i].kind = "Encircle"
                 PROVE  /\ Old(i) \in 1..Len(tl) /\ (i < p \/ i >= p + n)
                        /\ tl[Old(i)].kind = "Encircle" /\ tl[Old(i)].contact = new[i].contact
      OBVIOUS
    <3>1. ~Plain(new[i])
      BY DEF Plain
    <3>2. CASE i \in 1..Len(tl) /\ i < p /\ Alike(new[i], tl[i])
      BY <3>2 DEF Alike
    <3>3. CASE i >= p + n /\ i - n \in 1..Len(tl) /\ Alike(new[i], tl[i - n])
      <4>1. ~(i < p)
        BY <1>1, <3>3
      <4> QED BY <3>3, <4>1 DEF Alike
    <3> QED BY <1>2, <3>1, <3>2, <3>3
  <2>2. \A i, j \in 1..Len(new) :
           (i < p \/ i >= p + n) /\ (j < p \/ j >= p + n) /\ Old(i) = Old(j) => i = j
    BY <1>1
  <2> HIDE DEF Old
  <2>3. \A i, j \in 1..Len(new) :
           new[i].kind = "Encircle" /\ new[j].kind = "Encircle"
           /\ new[i].contact = new[j].contact => Old(i) = Old(j)
    BY <2>1 DEF Paired, OneCircle
  <2> QED BY <2>1, <2>2, <2>3 DEF OneCircle
<1>7. ApproachFollowed(new)
  <2> SUFFICES ASSUME NEW i \in 1..Len(new), IsApproach(new[i])
               PROVE  i < Len(new) /\ IsEncircleOf(new[i + 1], new[i].contact)
    BY DEF ApproachFollowed
  <2>1. CASE i \in 1..Len(tl) /\ i < p /\ Alike(new[i], tl[i])
    <3>1. i < Len(tl) /\ IsEncircleOf(tl[i + 1], tl[i].contact)
      BY <2>1 DEF Paired, ApproachFollowed, Alike, IsApproach
    <3>2. i + 1 \in 1..Len(tl) /\ ~tl[i + 1].is_preemptable
      BY <1>1, <3>1 DEF EncirclesCommitted, IsEncircleOf
    <3>3. i + 1 # p
      BY <1>1, <3>2
    <3>4. i + 1 < p /\ i + 1 \in 1..Len(new) /\ Alike(new[i + 1], tl[i + 1])
      BY <1>1, <1>3, <2>1, <3>2, <3>3
    <3> QED BY <1>1, <2>1, <3>1, <3>4 DEF Alike, IsEncircleOf
  <2>2. CASE i >= p + n /\ i - n \in 1..Len(tl) /\ Alike(new[i], tl[i - n])
    <3>1. i - n < Len(tl) /\ IsEncircleOf(tl[(i - n) + 1], tl[i - n].contact)
      BY <2>2 DEF Paired, ApproachFollowed, Alike, IsApproach
    <3>2. (i - n) + 1 \in 1..Len(tl) /\ (i - n) + 1 >= p /\ (i - n) + 1 + n = i + 1
      BY <1>1, <2>2, <3>1
    <3>3. i + 1 \in 1..Len(new) /\ Alike(new[i + 1], tl[(i - n) + 1])
      BY <1>1, <1>3, <3>2
    <3> QED BY <1>1, <2>2, <3>1, <3>3 DEF Alike, IsEncircleOf
  <2> QED BY <1>2, <2>1, <2>2 DEF Plain
<1>8. ASSUME NEW c PROVE c \in EncircledContacts(new) <=> c \in EncircledContacts(tl)
  <2>1. ASSUME NEW i \in 1..Len(new), new[i].kind = "Encircle", new[i].contact = c
        PROVE  \E j \in 1..Len(tl) : tl[j].kind = "Encircle" /\ tl[j].contact = c
    BY <1>2, <2>1 DEF Alike, Plain
  <2>2. ASSUME NEW i \in 1..Len(tl), tl[i].kind = "Encircle", tl[i].contact = c
        PROVE  \E j \in 1..Len(new) : new[j].kind = "Encircle" /\ new[j].contact = c
    BY <1>3, <2>2 DEF Alike
  <2> QED BY <2>1, <2>2, EncircledMember
<1>9. EncircledContacts(new) = EncircledContacts(tl)
  BY <1>8
<1>10. Paired(new)
  BY <1>4, <1>5, <1>6, <1>7 DEF Paired
<1> QED BY <1>9, <1>10

\* An investigation, as createToiTasks puts it in: an approach and its circle.
IsInvestigation(b, c) ==
    /\ Len(b) = 2 /\ c # NoContact
    /\ IsApproachOf(b[1], c) /\ ~b[1].is_preemptable
    /\ IsEncircleOf(b[2], c) /\ ~b[2].is_preemptable

LEMMA InsertInvestigation ==
    ASSUME NEW tl \in Seq(Tasks), NEW new \in Seq(Tasks), NEW b \in Seq(Tasks), NEW p,
           NEW c, Inserted(new, tl, p, b), IsInvestigation(b, c),
           c \notin EncircledContacts(tl),
           EncirclesCommitted(tl), Paired(tl)
    PROVE  Paired(new) /\ EncircledContacts(new) = EncircledContacts(tl) \cup {c}
<1>0. /\ Len(b) = 2 /\ b[1].kind = "MoveTo" /\ b[2].kind = "Encircle" /\ c # NoContact
      /\ b[1].contact = c /\ b[2].contact = c /\ ~b[1].is_preemptable
  BY DEF IsInvestigation, IsApproachOf, IsEncircleOf
<1>1. /\ p \in 1..(Len(tl) + 1) /\ Len(tl) \in Nat
      /\ Len(new) = Len(tl) + 2
      /\ p <= Len(tl) => tl[p].is_preemptable
  <2>1. /\ p \in 1..(Len(tl) + 1) /\ Len(tl) \in Nat
        /\ Len(new) = Len(tl) + Len(b)
        /\ p <= Len(tl) => tl[p].is_preemptable
    BY InsertedElements
  <2> QED BY <1>0, <2>1
<1>2. \A i \in 1..Len(new) :
         \/ i \in 1..Len(tl) /\ i < p /\ Alike(new[i], tl[i])
         \/ i = p /\ new[i] = b[1]
         \/ i = p + 1 /\ new[i] = b[2]
         \/ i >= p + 2 /\ i - 2 \in 1..Len(tl) /\ Alike(new[i], tl[i - 2])
  <2> TAKE i \in 1..Len(new)
  <2>0. \/ i \in 1..Len(tl) /\ i < p /\ Alike(new[i], tl[i])
        \/ p <= i /\ i < p + Len(b) /\ i - p + 1 \in 1..Len(b) /\ new[i] = b[i - p + 1]
        \/ /\ i >= p + Len(b) /\ i - Len(b) \in 1..Len(tl)
           /\ Alike(new[i], tl[i - Len(b)])
    BY InsertedElements
  <2>1. \/ i \in 1..Len(tl) /\ i < p /\ Alike(new[i], tl[i])
        \/ p <= i /\ i < p + 2 /\ new[i] = b[i - p + 1]
        \/ i >= p + 2 /\ i - 2 \in 1..Len(tl) /\ Alike(new[i], tl[i - 2])
    BY <1>0, <2>0
  <2>2. p <= i /\ i < p + 2 => (i = p /\ i - p + 1 = 1) \/ (i = p + 1 /\ i - p + 1 = 2)
    BY <1>1
  <2> QED BY <2>1, <2>2
<1>3. /\ \A i \in 1..Len(tl) :
            \/ i < p /\ i \in 1..Len(new) /\ Alike(new[i], tl[i])
            \/ i >= p /\ i + 2 \in 1..Len(new) /\ Alike(new[i + 2], tl[i])
      /\ new[p] = b[1] /\ new[p + 1] = b[2] /\ p \in 1..Len(new) /\ p + 1 \in 1..Len(new)
  <2>1. new[p] = b[1] /\ new[p + 1] = b[2]
    <3>1. p \in 1..Len(new) /\ p + 1 \in 1..Len(new)
      BY <1>1
    <3>2. ~(p >= p + 2) /\ ~(p < p) /\ ~(p + 1 < p) /\ ~(p + 1 = p) /\ ~(p + 1 >= p + 2)
      BY <1>1
    <3> QED BY <1>2, <3>1, <3>2
  <2> QED BY <1>0, <1>1, <2>1 DEF Inserted
<1>4. CirclesHaveContacts(new) /\ ApproachesCommitted(new)
  BY <1>0, <1>2 DEF Paired, CirclesHaveContacts, ApproachesCommitted, Alike, IsApproach
<1>5. OneCircle(new)
  <2> DEFINE Old(i) == IF i < p THEN i ELSE i - 2
  <2>1. \A i \in 1..Len(new) : new[i].kind = "Encircle" =>
           \/ i = p + 1 /\ new[i].contact = c
           \/ /\ Old(i) \in 1..Len(tl) /\ (i < p \/ i >= p + 2)
              /\ tl[Old(i)].kind = "Encircle" /\ tl[Old(i)].contact = new[i].contact
    BY <1>0, <1>1, <1>2 DEF Alike
  <2>2. \A i, j \in 1..Len(new) :
           (i < p \/ i >= p + 2) /\ (j < p \/ j >= p + 2) /\ Old(i) = Old(j) => i = j
    BY <1>1
  <2> HIDE DEF Old
  <2>3. \A i \in 1..Len(tl) : tl[i].kind = "Encircle" => tl[i].contact # c
    BY <1>0, EncircledMember
  <2>4. \A i, j \in 1..Len(new) :
           new[i].kind = "Encircle" /\ new[j].kind = "Encircle"
           /\ new[i].contact = new[j].contact => i = j \/ Old(i) = Old(j)
    BY <2>1, <2>3 DEF Paired, OneCircle
  <2>5. \A i, j \in 1..Len(new) :
           new[i].kind = "Encircle" /\ new[j].kind = "Encircle"
           /\ new[i].contact = new[j].contact /\ i = p + 1 => i = j
    <3> SUFFICES ASSUME NEW i \in 1..Len(new), NEW j \in 1..Len(new), i = p + 1,
                        new[i].kind = "Encircle", new[j].kind = "Encircle",
                        new[i].contact = new[j].contact
                 PROVE  i = j
      OBVIOUS
    <3>1. ~(i < p) /\ ~(i >= p + 2)
      BY <1>1
    <3>2. new[i].contact = c
      BY <2>1, <3>1
    <3> QED BY <2>1, <2>3, <3>2
  <2> QED BY <2>1, <2>2, <2>4, <2>5 DEF OneCircle
<1>6. ApproachFollowed(new)
  <2> SUFFICES ASSUME NEW i \in 1..Len(new), IsApproach(new[i])
               PROVE  i < Len(new) /\ IsEncircleOf(new[i + 1], new[i].contact)
    BY DEF ApproachFollowed
  <2>1. CASE i \in 1..Len(tl) /\ i < p /\ Alike(new[i], tl[i])
    <3>1. i < Len(tl) /\ IsEncircleOf(tl[i + 1], tl[i].contact)
      BY <2>1 DEF Paired, ApproachFollowed, Alike, IsApproach
    <3>2. i + 1 \in 1..Len(tl) /\ ~tl[i + 1].is_preemptable
      BY <1>1, <3>1 DEF EncirclesCommitted, IsEncircleOf
    <3>3. i + 1 # p
      BY <1>1, <3>2
    <3>4. i + 1 < p /\ i + 1 \in 1..Len(new) /\ Alike(new[i + 1], tl[i + 1])
      BY <1>1, <1>3, <2>1, <3>2, <3>3
    <3> QED BY <1>1, <2>1, <3>1, <3>4 DEF Alike, IsEncircleOf
  <2>2. CASE i >= p + 2 /\ i - 2 \in 1..Len(tl) /\ Alike(new[i], tl[i - 2])
    <3>1. i - 2 < Len(tl) /\ IsEncircleOf(tl[(i - 2) + 1], tl[i - 2].contact)
      BY <2>2 DEF Paired, ApproachFollowed, Alike, IsApproach
    <3> DEFINE j == (i - 2) + 1
    <3>2. j \in 1..Len(tl) /\ ~(j < p) /\ j + 2 = i + 1
      BY <1>1, <2>2, <3>1
    <3> HIDE DEF j
    <3>4. j + 2 \in 1..Len(new) /\ Alike(new[j + 2], tl[j])
      BY <1>3, <3>2
    <3>3. i + 1 \in 1..Len(new) /\ Alike(new[i + 1], tl[(i - 2) + 1])
      BY <3>2, <3>4 DEF j
    <3> QED BY <1>1, <2>2, <3>1, <3>3 DEF Alike, IsEncircleOf
  <2>3. CASE i = p /\ new[i] = b[1]
    BY <1>0, <1>1, <1>3, <2>3 DEF IsEncircleOf
  <2>4. CASE i = p + 1 /\ new[i] = b[2]
    BY <1>0, <2>4 DEF IsApproach
  <2> QED BY <1>2, <2>1, <2>2, <2>3, <2>4
<1>7. ASSUME NEW d PROVE d \in EncircledContacts(new) <=> d \in EncircledContacts(tl) \cup {c}
  <2>1. ASSUME NEW i \in 1..Len(new), new[i].kind = "Encircle", new[i].contact = d
        PROVE  d = c \/ \E j \in 1..Len(tl) : tl[j].kind = "Encircle" /\ tl[j].contact = d
    BY <1>0, <1>2, <2>1 DEF Alike
  <2>2. ASSUME NEW i \in 1..Len(tl), tl[i].kind = "Encircle", tl[i].contact = d
        PROVE  \E j \in 1..Len(new) : new[j].kind = "Encircle" /\ new[j].contact = d
    BY <1>3, <2>2 DEF Alike
  <2>3. c \in EncircledContacts(new)
    BY <1>0, <1>3, EncircledMember
  <2> QED BY <2>1, <2>2, <2>3, EncircledMember
<1>8. EncircledContacts(new) = EncircledContacts(tl) \cup {c}
  BY <1>7
<1>9. Paired(new)
  BY <1>4, <1>5, <1>6 DEF Paired
<1> QED BY <1>8, <1>9

\* Taking tasks out separates no approach from its circle, unless the circle goes
\* and the approach in front of it does not; the contacts of the circles that go
\* are no longer encircled.
LEMMA DeletePaired ==
    ASSUME NEW tl \in Seq(Tasks), NEW new \in Seq(Tasks), NEW p, NEW n,
           Deleted(new, tl, p, n), n # 0 /\ p > 1 => ~IsApproach(tl[p - 1]), Paired(tl)
    PROVE  /\ Paired(new)
           /\ \A c : c \in EncircledContacts(new) <=>
                 /\ c \in EncircledContacts(tl)
                 /\ \A i \in p..(p + n - 1) : ~IsEncircleOf(tl[i], c)
<1>1. /\ p \in 1..(Len(tl) + 1) /\ n \in Nat /\ Len(tl) \in Nat /\ p + n <= Len(tl) + 1
      /\ Len(new) = Len(tl) - n
  BY DEF Deleted
<1> DEFINE Old(i) == IF i < p THEN i ELSE i + n
<1>2. \A i \in 1..Len(new) : Old(i) \in 1..Len(tl) /\ new[i] = tl[Old(i)]
  <2> TAKE i \in 1..Len(new)
  <2>1. CASE i < p
    BY <1>1, <2>1 DEF Deleted
  <2>2. CASE i >= p
    <3>1. i + n \in (p + n)..Len(tl) /\ (i + n) - n = i
      BY <1>1, <2>2
    <3> QED BY <1>1, <2>2, <3>1 DEF Deleted
  <2> QED BY <1>1, <2>1, <2>2
<1>3. \A i, j \in 1..Len(new) : Old(i) = Old(j) => i = j
  BY <1>1
<1>4. \A i \in 1..Len(tl) :
         \/ i \in p..(p + n - 1)
         \/ \E j \in 1..Len(new) : new[j] = tl[i]
  <2> TAKE i \in 1..Len(tl)
  <2>1. CASE i < p
    BY <1>1, <2>1 DEF Deleted
  <2>2. CASE i >= p + n
    <3>1. i \in (p + n)..Len(tl) /\ i - n \in 1..Len(new)
      BY <1>1, <2>2
    <3> QED BY <3>1 DEF Deleted
  <2> QED BY <1>1, <2>1, <2>2
<1>5. \A i \in 1..Len(new) : IsApproach(new[i]) => Old(i) + 1 = Old(i + 1) /\ i < Len(new)
  <2> TAKE i \in 1..Len(new)
  <2> HAVE IsApproach(new[i])
  <2>1. IsApproach(tl[Old(i)]) /\ Old(i) \in 1..Len(tl)
    BY <1>2
  <2>2. Old(i) < Len(tl)
    BY <2>1 DEF Paired, ApproachFollowed
  <2>3. n = 0 \/ i + 1 # p
    <3> SUFFICES ASSUME n # 0, i + 1 = p PROVE FALSE
      OBVIOUS
    <3>1. Old(i) = i /\ i = p - 1 /\ p > 1
      BY <1>1
    <3> QED BY <2>1, <3>1
  <2> QED BY <1>1, <2>2, <2>3
<1> HIDE DEF Old
<1>6. CirclesHaveContacts(new) /\ ApproachesCommitted(new)
  BY <1>2 DEF Paired, CirclesHaveContacts, ApproachesCommitted
<1>7. OneCircle(new)
  BY <1>2, <1>3 DEF Paired, OneCircle
<1>8. ApproachFollowed(new)
  <2> SUFFICES ASSUME NEW i \in 1..Len(new), IsApproach(new[i])
               PROVE  i < Len(new) /\ IsEncircleOf(new[i + 1], new[i].contact)
    BY DEF ApproachFollowed
  <2>1. IsEncircleOf(tl[Old(i) + 1], tl[Old(i)].contact)
    BY <1>2 DEF Paired, ApproachFollowed
  <2>2. i < Len(new) /\ Old(i) + 1 = Old(i + 1)
    BY <1>5
  <2>3. i + 1 \in 1..Len(new)
    BY <1>1, <2>2
  <2>4. new[i] = tl[Old(i)] /\ new[i + 1] = tl[Old(i + 1)]
    BY <1>2, <2>3
  <2> QED BY <2>1, <2>2, <2>4
<1>9. ASSUME NEW c
      PROVE  c \in EncircledContacts(new) <=>
                /\ c \in EncircledContacts(tl)
                /\ \A i \in p..(p + n - 1) : ~IsEncircleOf(tl[i], c)
  <2>1. ASSUME NEW i \in 1..Len(new), IsEncircleOf(new[i], c)
        PROVE  /\ Old(i) \in 1..Len(tl) /\ IsEncircleOf(tl[Old(i)], c)
               /\ \A j \in p..(p + n - 1) : ~IsEncircleOf(tl[j], c)
    <3>1. Old(i) \in 1..Len(tl) /\ IsEncircleOf(tl[Old(i)], c)
      BY <1>2, <2>1
    <3>2. \A j \in p..(p + n - 1) : j \in 1..Len(tl) /\ j # Old(i)
      BY <1>1 DEF Old
    <3> QED BY <3>1, <3>2 DEF Paired, OneCircle, IsEncircleOf
  <2>2. ASSUME NEW i \in 1..Len(tl), IsEncircleOf(tl[i], c), i \notin p..(p + n - 1)
        PROVE  \E j \in 1..Len(new) : IsEncircleOf(new[j], c)
    BY <1>4, <2>2
  <2>3. \A s : c \in EncircledContacts(s) <=>
                 c # NoContact /\ \E i \in 1..Len(s) : IsEncircleOf(s[i], c)
    BY EncircledMember DEF IsEncircleOf
  <2> QED BY <2>1, <2>2, <2>3
<1> QED BY <1>6, <1>7, <1>8, <1>9 DEF Paired

-----------------------------------------------------------------------------
\* A list whose tasks are all alike to the old ones: nothing was put in.
LEMMA AlikeInserted ==
    ASSUME NEW tl \in Seq(Tasks), NEW new \in Seq(Tasks), Len(new) = Len(tl),
           \A i \in 1..Len(tl) : Alike(new[i], tl[i])
    PROVE  Inserted(new, tl, Len(tl) + 1, <<>>)
<1>1. Len(tl) \in Nat /\ Len(<<>>) = 0
  OBVIOUS
<1> QED BY <1>1 DEF Inserted

\* addTask of one task, in front of the first preemptable task or at the end.
LEMMA PreemptInserted ==
    ASSUME NEW tl \in Seq(Tasks), NEW t \in Tasks
    PROVE  Inserted(PreemptInsert(tl, t), tl, FirstPreemptable(tl), <<t>>)
<1> DEFINE k == FirstPreemptable(tl)
           new == PreemptInsert(tl, t)
<1>1. k \in 1..(Len(tl) + 1)
  BY FirstPreemptableProperties
<1>2. /\ Len(new) = Len(tl) + 1
      /\ \A i \in 1..Len(new) :
            new[i] = IF i < k THEN tl[i] ELSE IF i = k THEN t
                     ELSE IF i = k + 1 THEN OnPreempt(tl[k]) ELSE tl[i - 1]
  BY PreemptInsertElements
<1>3. \A i \in 1..Len(tl) : Alike(OnPreempt(tl[i]), tl[i]) /\ Alike(tl[i], tl[i])
  <2>1. \A u \in Tasks : Alike(OnPreempt(u), u) /\ Alike(u, u)
    BY DEF OnPreempt, Tasks, Alike
  <2> QED BY <2>1
<1>4. Len(<<t>>) = 1 /\ <<t>>[1] = t /\ Len(tl) \in Nat
  OBVIOUS
<1> HIDE DEF k, new
<1>5. \A i \in 1..(k - 1) : Alike(new[i], tl[i])
  BY <1>1, <1>2, <1>3, <1>4
<1>6. \A i \in k..Len(tl) : Alike(new[i + 1], tl[i])
  <2> TAKE i \in k..Len(tl)
  <2>1. i + 1 \in 1..Len(new) /\ i \in 1..Len(tl) /\ ~(i + 1 < k) /\ i + 1 # k
        /\ (i + 1) - 1 = i /\ (i + 1 = k + 1 <=> i = k)
    BY <1>1, <1>2, <1>4
  <2>2. new[i + 1] = IF i = k THEN OnPreempt(tl[k]) ELSE tl[i]
    BY <1>2, <2>1
  <2> QED BY <1>3, <2>1, <2>2
<1>7. new[k] = t
  BY <1>1, <1>2, <1>4
<1>8. \A i \in 1..Len(<<t>>) : new[k + i - 1] = <<t>>[i]
  BY <1>1, <1>4, <1>7
<1>9. Inserted(new, tl, k, <<t>>)
  BY <1>1, <1>2, <1>4, <1>5, <1>6, <1>8 DEF Inserted, k
<1> QED BY <1>9 DEF new, k

LEMMA AddInserted ==
    ASSUME NEW tl \in Seq(Tasks), NEW t \in Tasks, NEW prio \in Priorities \ {"CANCEL_ALL"}
    PROVE  Inserted(AddTask(tl, t, prio), tl, AddPosition(tl, prio), <<t>>)
<1>1. CASE prio = "PREEMPT"
  BY <1>1, PreemptInserted DEF AddTask, AddPosition
<1>2. CASE prio = "QUEUE"
  <2> DEFINE new == Append(tl, t)
  <2>1. AddTask(tl, t, prio) = new /\ AddPosition(tl, prio) = Len(tl) + 1
    BY <1>2 DEF AddTask, AddPosition
  <2>2. /\ Len(new) = Len(tl) + 1 /\ Len(tl) \in Nat
        /\ \A i \in 1..Len(tl) : new[i] = tl[i]
        /\ new[Len(tl) + 1] = t
        /\ Len(<<t>>) = 1 /\ <<t>>[1] = t
    OBVIOUS
  <2> HIDE DEF new
  <2>3. Inserted(new, tl, Len(tl) + 1, <<t>>)
    BY <2>2 DEF Inserted, Alike
  <2> QED BY <2>1, <2>3
<1> QED BY <1>1, <1>2 DEF Priorities

\* Two committed tasks, one preempting after the other, stand together.
LEMMA PreemptTwiceInserted ==
    ASSUME NEW tl \in Seq(Tasks), NEW t \in Tasks, NEW u \in Tasks, ~t.is_preemptable
    PROVE  Inserted(PreemptInsert(PreemptInsert(tl, t), u), tl, FirstPreemptable(tl), <<t, u>>)
<1> DEFINE k == FirstPreemptable(tl)
           one == PreemptInsert(tl, t)
           l == FirstPreemptable(one)
           two == PreemptInsert(one, u)
<1>1. /\ k \in 1..(Len(tl) + 1) /\ Len(tl) \in Nat
      /\ \A j \in 1..(k - 1) : ~tl[j].is_preemptable
      /\ k <= Len(tl) => tl[k].is_preemptable
  BY FirstPreemptableProperties
<1>2. one \in Seq(Tasks) /\ Inserted(one, tl, k, <<t>>)
  BY PreemptInserted, PreemptInsertElements
<1>3. /\ l \in 1..(Len(one) + 1)
      /\ \A j \in 1..(l - 1) : ~one[j].is_preemptable
      /\ l <= Len(one) => one[l].is_preemptable
  BY <1>2, FirstPreemptableProperties
<1>4. two \in Seq(Tasks) /\ Inserted(two, one, l, <<u>>)
  BY <1>2, PreemptInserted, PreemptInsertElements
<1>5. /\ Len(<<t>>) = 1 /\ <<t>>[1] = t /\ Len(<<u>>) = 1 /\ <<u>>[1] = u
      /\ Len(<<t, u>>) = 2 /\ <<t, u>>[1] = t /\ <<t, u>>[2] = u
  OBVIOUS
<1> HIDE DEF k, one, l, two
<1>6. /\ Len(one) = Len(tl) + 1 /\ one[k] = t
      /\ \A i \in 1..(k - 1) : Alike(one[i], tl[i])
      /\ \A i \in k..Len(tl) : Alike(one[i + 1], tl[i])
  <2>1. k + 1 - 1 = k
    BY <1>1
  <2> QED BY <1>1, <1>2, <1>5, <2>1 DEF Inserted
<1>7. l = k + 1
  <2>1. ~(l <= k)
    <3> SUFFICES ASSUME l <= k PROVE FALSE
      OBVIOUS
    <3>1. one[l].is_preemptable
      BY <1>1, <1>3, <1>6
    <3>2. l = k \/ l \in 1..(k - 1)
      BY <1>1, <1>3
    <3> QED BY <1>1, <1>6, <3>1, <3>2 DEF Alike
  <2>2. ~(l > k + 1)
    <3> SUFFICES ASSUME l > k + 1 PROVE FALSE
      OBVIOUS
    <3>1. k + 1 \in 1..(l - 1) /\ k \in k..Len(tl)
      BY <1>1, <1>3, <1>6
    <3> QED BY <1>1, <1>3, <1>6, <3>1 DEF Alike
  <2> QED BY <1>1, <1>3, <2>1, <2>2
<1>8. /\ Len(two) = Len(one) + 1 /\ two[k + 1] = u
      /\ \A i \in 1..k : Alike(two[i], one[i])
      /\ \A i \in (k + 1)..Len(one) : Alike(two[i + 1], one[i])
  <2>1. (k + 1) + 1 - 1 = k + 1 /\ (k + 1) - 1 = k
    BY <1>1
  <2> QED BY <1>4, <1>5, <1>7, <2>1 DEF Inserted
<1>9. two[k] = t
  <2>1. k \in 1..Len(two)
    BY <1>1, <1>6, <1>8
  <2>2. two[k] = one[k]
    <3>1. /\ Len(two) = Len(one) + 1 /\ k + 1 = l
          /\ \A i \in 1..Len(two) :
               two[i] = IF i < l THEN one[i] ELSE IF i = l THEN u
                        ELSE IF i = l + 1 THEN OnPreempt(one[l]) ELSE one[i - 1]
      BY <1>2, <1>7, PreemptInsertElements DEF two, l
    <3> QED BY <1>1, <2>1, <3>1
  <2> QED BY <1>6, <2>2
<1>10. \A i \in 1..(k - 1) : Alike(two[i], tl[i])
  <2> TAKE i \in 1..(k - 1)
  <2>1. Alike(two[i], one[i]) /\ Alike(one[i], tl[i])
    BY <1>1, <1>6, <1>8
  <2> QED BY <2>1 DEF Alike
<1>11. \A i \in k..Len(tl) : Alike(two[i + 2], tl[i])
  <2> TAKE i \in k..Len(tl)
  <2>1. i + 1 \in (k + 1)..Len(one) /\ (i + 1) + 1 = i + 2
    BY <1>1, <1>6
  <2>2. Alike(two[i + 2], one[i + 1]) /\ Alike(one[i + 1], tl[i])
    BY <1>6, <1>8, <2>1
  <2> QED BY <2>2 DEF Alike
<1>12. \A i \in 1..2 : two[k + i - 1] = <<t, u>>[i]
  <2>1. k + 1 - 1 = k /\ k + 2 - 1 = k + 1
    BY <1>1
  <2> QED BY <1>5, <1>8, <1>9, <2>1
<1>13. Len(two) = Len(tl) + 2
  BY <1>1, <1>6, <1>8
<1>14. Inserted(two, tl, k, <<t, u>>)
  BY <1>1, <1>5, <1>10, <1>11, <1>12, <1>13 DEF Inserted, k
<1> QED BY <1>14 DEF two, one, k

\* A delay is put directly in front of the formation that was added.
LEMMA DelayInserted ==
    ASSUME NEW tl \in Seq(Tasks), NEW t \in Tasks, NEW d \in Tasks,
           NEW prio \in Priorities \ {"CANCEL_ALL"}
    PROVE  Inserted(InsertAt(AddTask(tl, t, prio), AddPosition(tl, prio), d),
                    tl, AddPosition(tl, prio), <<d, t>>)
<1> DEFINE p == AddPosition(tl, prio)
           one == AddTask(tl, t, prio)
           two == InsertAt(one, p, d)
<1>1. Inserted(one, tl, p, <<t>>) /\ one \in Seq(Tasks) /\ Len(tl) \in Nat
  BY AddInserted, AddTaskWellFormed
<1>2. /\ Len(<<t>>) = 1 /\ <<t>>[1] = t
      /\ Len(<<d, t>>) = 2 /\ <<d, t>>[1] = d /\ <<d, t>>[2] = t
  OBVIOUS
<1> HIDE DEF p, one
<1>3. /\ p \in 1..(Len(tl) + 1) /\ (p = Len(tl) + 1 \/ p = FirstPreemptable(tl))
      /\ Len(one) = Len(tl) + 1 /\ one[p] = t
      /\ \A i \in 1..(p - 1) : Alike(one[i], tl[i])
      /\ \A i \in p..Len(tl) : Alike(one[i + 1], tl[i])
  <2>1. p + 1 - 1 = p
    BY <1>1 DEF Inserted
  <2> QED BY <1>1, <1>2, <2>1 DEF Inserted
<1>4. /\ Len(two) = Len(tl) + 2
      /\ \A i \in 1..(Len(tl) + 2) :
            two[i] = IF i < p THEN one[i] ELSE IF i = p THEN d ELSE one[i - 1]
  <2>1. p \in 1..(Len(one) + 1)
    BY <1>1, <1>3
  <2>2. /\ Len(two) = Len(one) + 1
        /\ \A i \in 1..(Len(one) + 1) :
              two[i] = IF i < p THEN one[i] ELSE IF i = p THEN d ELSE one[i - 1]
    BY SMTT(40), <1>1, <2>1, InsertTask
  <2> QED BY <1>1, <1>3, <2>2
<1> HIDE DEF two
<1>5. \A i \in 1..(p - 1) : Alike(two[i], tl[i])
  BY <1>1, <1>3, <1>4
<1>6. \A i \in p..Len(tl) : Alike(two[i + 2], tl[i])
  <2> TAKE i \in p..Len(tl)
  <2>1. i + 2 \in 1..(Len(tl) + 2) /\ ~(i + 2 < p) /\ i + 2 # p /\ (i + 2) - 1 = i + 1
    BY <1>1, <1>3
  <2> QED BY <1>3, <1>4, <2>1
<1>7. two[p] = d /\ two[p + 1] = t
  <2>1. p \in 1..(Len(tl) + 2) /\ p + 1 \in 1..(Len(tl) + 2) /\ ~(p + 1 < p) /\ p + 1 # p
        /\ (p + 1) - 1 = p /\ ~(p < p)
    BY <1>1, <1>3
  <2> QED BY <1>3, <1>4, <2>1
<1>8. \A i \in 1..2 : two[p + i - 1] = <<d, t>>[i]
  <2>1. p + 1 - 1 = p /\ p + 2 - 1 = p + 1
    BY <1>3
  <2> QED BY <1>2, <1>7, <2>1
<1>9. Inserted(two, tl, p, <<d, t>>)
  BY <1>2, <1>3, <1>4, <1>5, <1>6, <1>8 DEF Inserted
<1> QED BY <1>9 DEF two, one, p

\* The active task leaves.
LEMMA TailDeleted ==
    ASSUME NEW tl \in Seq(Tasks), tl # <<>>
    PROVE  Deleted(Tail(tl), tl, 1, 1)
<1>1. /\ Len(Tail(tl)) = Len(tl) - 1 /\ Len(tl) \in Nat \ {0}
      /\ \A i \in 1..(Len(tl) - 1) : Tail(tl)[i] = tl[i + 1]
  OBVIOUS
<1>2. \A i \in 2..Len(tl) : i - 1 \in 1..(Len(tl) - 1) /\ (i - 1) + 1 = i
  BY <1>1
<1>3. \A i \in 2..Len(tl) : Tail(tl)[i - 1] = tl[i]
  BY <1>1, <1>2
<1> QED BY <1>1, <1>3 DEF Deleted

LEMMA RemoveAtDeleted ==
    ASSUME NEW tl \in Seq(Tasks), NEW k \in 1..Len(tl)
    PROVE  Deleted(RemoveAt(tl, k), tl, k, 1)
<1> DEFINE new == RemoveAt(tl, k)
<1>1. /\ Len(new) = Len(tl) - 1
      /\ \A i \in 1..(Len(tl) - 1) : new[i] = IF i < k THEN tl[i] ELSE tl[i + 1]
  BY RemoveAtElements
<1> HIDE DEF new
<1>2. \A i \in (k + 1)..Len(tl) : i - 1 \in 1..(Len(tl) - 1) /\ ~(i - 1 < k) /\ (i - 1) + 1 = i
  OBVIOUS
<1>3. \A i \in (k + 1)..Len(tl) : new[i - 1] = tl[i]
  BY <1>1, <1>2
<1> QED BY <1>1, <1>3 DEF Deleted, new

\* The searches find what they look for.
LEMMA FindTaskFound ==
    ASSUME NEW tl \in Seq(Tasks), NEW id, FindTask(tl, id) # 0
    PROVE  tl[FindTask(tl, id)].id = id
<1> DEFINE I == {i \in 1..Len(tl) : tl[i].id = id}
<1>1. FindTask(tl, id) = IF I # {} THEN Min(I) ELSE 0
  BY DEF FindTask, SelectInSeq
<1>2. I \in SUBSET Nat
  OBVIOUS
<1>3. \A i \in I : tl[i].id = id
  OBVIOUS
<1> HIDE DEF I
<1> QED BY <1>1, <1>2, <1>3, MinProperties

LEMMA FindApproachFound ==
    ASSUME NEW tl \in Seq(Tasks), NEW c
    PROVE  /\ FindApproach(tl, c) # 0 => IsApproachOf(tl[FindApproach(tl, c)], c)
           /\ FindApproach(tl, c) = 0 => \A i \in 1..Len(tl) : ~IsApproachOf(tl[i], c)
<1> DEFINE I == {i \in 1..Len(tl) : IsApproachOf(tl[i], c)}
<1>1. FindApproach(tl, c) = IF I # {} THEN Min(I) ELSE 0
  BY DEF FindApproach, SelectInSeq
<1>2. I \in SUBSET Nat /\ 0 \notin I
  OBVIOUS
<1>3. /\ \A i \in I : IsApproachOf(tl[i], c)
      /\ I = {} => \A i \in 1..Len(tl) : ~IsApproachOf(tl[i], c)
  OBVIOUS
<1> HIDE DEF I
<1>4. I # {} => Min(I) \in I
  BY <1>2, MinProperties
<1> QED BY <1>1, <1>2, <1>3, <1>4

\* cancelTask takes out one task, or a circle with the approach in front of it,
\* and these are the tasks it announces.
CancelBlock(tl, id, p, n) ==
    /\ Deleted(CancelTask(tl, id), tl, p, n)
    /\ n # 0 /\ p > 1 => ~IsApproach(tl[p - 1])
    /\ \A i \in p..(p + n - 1) : tl[i].id = id \/ IsApproach(tl[i])
    /\ \A i \in p..(p + n - 1) :
          \E j \in 1..Len(CancelledTasks(tl, id)) : CancelledTasks(tl, id)[j] = tl[i]
    /\ \A j \in 1..Len(CancelledTasks(tl, id)) :
          \E i \in p..(p + n - 1) : CancelledTasks(tl, id)[j] = tl[i]

LEMMA CancelDeleted ==
    ASSUME NEW tl \in Seq(Tasks), NEW id, Paired(tl)
    PROVE  \E p, n : CancelBlock(tl, id, p, n)
<1> DEFINE k == FindTask(tl, id)
           c == tl[k].contact
           rest == RemoveAt(tl, k)
           isCircle == tl[k].kind = "Encircle" /\ c # NoContact
           a == FindApproach(tl, c)
           ar == FindApproach(rest, c)
           new == CancelTask(tl, id)
           out == CancelledTasks(tl, id)
<1>1. k \in 0..Len(tl) /\ (k # 0 => tl[k].id = id) /\ Len(tl) \in Nat
  BY FindTaskRange, FindTaskFound
<1>2. /\ k = 0 => new = tl /\ out = <<>>
      /\ k # 0 /\ (~isCircle \/ a = 0) => out = <<tl[k]>>
      /\ k # 0 /\ isCircle /\ a # 0 => out = <<tl[k], tl[a]>>
      /\ k # 0 /\ (~isCircle \/ ar = 0) => new = rest
      /\ k # 0 /\ isCircle /\ ar # 0 => new = RemoveAt(rest, ar)
  BY DEF CancelTask, CancelledTasks
<1> HIDE DEF k, new, out
<1>3. CASE k = 0
  <2>1. Deleted(tl, tl, 1, 0)
    BY <1>1 DEF Deleted
  <2>2. Len(<<>>) = 0 /\ 1 + 0 - 1 = 0
    OBVIOUS
  <2>3. CancelBlock(tl, id, 1, 0)
    BY <1>2, <1>3, <2>1, <2>2 DEF CancelBlock, new, out
  <2> QED BY <2>3
<1>4. CASE k # 0
  <2>1. k \in 1..Len(tl) /\ tl[k].id = id
    BY <1>1, <1>4
  <2>2. Deleted(rest, tl, k, 1) /\ rest \in Seq(Tasks)
    BY <2>1, RemoveAtDeleted, RemoveAtElements
  <2>3. \A i \in 1..Len(tl) : IsApproach(tl[i]) => i + 1 \in 1..Len(tl) /\ IsEncircleOf(tl[i + 1], tl[i].contact)
    BY <1>1 DEF Paired, ApproachFollowed
  <2>4. isCircle => \A i \in 1..Len(tl) : IsApproachOf(tl[i], c) => i + 1 = k
    BY <2>1, <2>3 DEF Paired, OneCircle, IsApproachOf, IsApproach, IsEncircleOf
  <2>5. k > 1 /\ IsApproach(tl[k - 1]) => isCircle /\ IsApproachOf(tl[k - 1], c)
    <3>1. k > 1 => k - 1 \in 1..Len(tl) /\ (k - 1) + 1 = k
      BY <2>1
    <3> QED BY <2>1, <2>3, <3>1 DEF IsEncircleOf, IsApproachOf, IsApproach
  <2>6. CASE ~isCircle \/ ~(k > 1 /\ IsApproach(tl[k - 1]))
    <3>1. isCircle => \A i \in 1..Len(tl) : ~IsApproachOf(tl[i], c)
      <4> SUFFICES ASSUME isCircle, NEW i \in 1..Len(tl), IsApproachOf(tl[i], c) PROVE FALSE
        OBVIOUS
      <4>1. i = k - 1 /\ k > 1
        BY <2>1, <2>4
      <4> QED BY <2>6, <4>1 DEF IsApproachOf, IsApproach
    <3>2. isCircle => a = 0
      BY <3>1, FindApproachFound, FindApproachRange
    <3>3. isCircle => ar = 0
      <4>1. \A i \in 1..Len(rest) : \E j \in 1..Len(tl) : rest[i] = tl[j]
        <5>1. \A i \in 1..Len(rest) : rest[i] = tl[i] \/ rest[i] = tl[i + 1]
          BY <2>1, RemoveAtElements
        <5>2. Len(rest) = Len(tl) - 1
          BY <2>1, RemoveAtElements
        <5>3. \A i \in 1..Len(rest) : i \in 1..Len(tl) /\ i + 1 \in 1..Len(tl)
          BY <1>1, <5>2
        <5> QED BY <5>1, <5>3
      <4>2. ar \in 0..Len(rest)
        BY <2>2, FindApproachRange
      <4>3. ar # 0 => IsApproachOf(rest[ar], c)
        BY <2>2, FindApproachFound
      <4> HIDE DEF ar, rest
      <4> QED BY <3>1, <4>1, <4>2, <4>3
    <3>4. new = rest /\ out = <<tl[k]>>
      BY <1>2, <1>4, <3>2, <3>3
    <3>5. Len(out) = 1 /\ out[1] = tl[k]
      BY <3>4
    <3>6. ~(k > 1 /\ IsApproach(tl[k - 1]))
      BY <2>5, <2>6
    <3>7. k..(k + 1 - 1) = {k}
      BY <2>1
    <3>8. Deleted(new, tl, k, 1)
      BY <2>2, <3>4
    <3> HIDE DEF isCircle, a, ar, rest, c
    <3>9. CancelBlock(tl, id, k, 1)
      BY <2>1, <3>5, <3>6, <3>7, <3>8 DEF CancelBlock, new, out
    <3> QED BY <3>9
  <2>7. CASE isCircle /\ k > 1 /\ IsApproach(tl[k - 1])
    <3>1. IsApproachOf(tl[k - 1], c) /\ k - 1 \in 1..Len(tl) /\ (k - 1) + 1 = k
      BY <2>1, <2>5, <2>7
    <3>2. a = k - 1
      <4>1. a \in 0..Len(tl) /\ (a # 0 => IsApproachOf(tl[a], c)) /\ a # 0
        BY <3>1, FindApproachFound, FindApproachRange
      <4>2. a + 1 = k
        BY <2>4, <2>7, <4>1
      <4> QED BY <4>1, <4>2
    <3>3. /\ Len(rest) = Len(tl) - 1
          /\ \A i \in 1..(Len(tl) - 1) : rest[i] = IF i < k THEN tl[i] ELSE tl[i + 1]
      BY <2>1, RemoveAtElements
    <3>4. ar = k - 1
      <4>1. k - 1 \in 1..Len(rest) /\ rest[k - 1] = tl[k - 1]
        BY <2>1, <3>1, <3>3
      <4>2. ar \in 0..Len(rest) /\ (ar # 0 => IsApproachOf(rest[ar], c))
            /\ (ar = 0 => \A i \in 1..Len(rest) : ~IsApproachOf(rest[i], c))
        BY <2>2, FindApproachFound, FindApproachRange
      <4> HIDE DEF ar, rest
      <4>3. ar \in 1..Len(rest)
        BY <3>1, <4>1, <4>2
      <4>4. ar < k => ar + 1 = k
        <5>1. ar < k => rest[ar] = tl[ar] /\ ar \in 1..Len(tl)
          BY <1>1, <3>3, <4>3
        <5> QED BY <2>4, <2>7, <4>2, <4>3, <5>1
      <4>5. ~(ar < k) => (ar + 1) + 1 = k
        <5>1. ~(ar < k) => rest[ar] = tl[ar + 1] /\ ar + 1 \in 1..Len(tl)
          BY <1>1, <3>3, <4>3
        <5> QED BY <2>4, <2>7, <4>2, <4>3, <5>1
      <4> QED BY <2>1, <4>3, <4>4, <4>5
    <3>5. new = RemoveAt(rest, k - 1) /\ out = <<tl[k], tl[k - 1]>>
      BY <1>2, <1>4, <2>1, <2>7, <3>2, <3>4
    <3>6. /\ Len(new) = Len(rest) - 1
          /\ \A i \in 1..(Len(rest) - 1) : new[i] = IF i < k - 1 THEN rest[i] ELSE rest[i + 1]
      <4>1. k - 1 \in 1..Len(rest)
        BY <2>1, <3>1, <3>3
      <4> HIDE DEF rest
      <4> QED BY <2>2, <3>5, <4>1, RemoveAtElements
    <3>7. Deleted(new, tl, k - 1, 2)
      <4> HIDE DEF rest
      <4>1. Len(new) = Len(tl) - 2
        BY <1>1, <3>3, <3>6
      <4>2. \A i \in 1..((k - 1) - 1) : new[i] = tl[i]
        BY <1>1, <2>1, <3>3, <3>6
      <4>3. ASSUME NEW i \in ((k - 1) + 2)..Len(tl) PROVE new[i - 2] = tl[i]
        <5>1. i - 2 \in 1..(Len(rest) - 1) /\ ~(i - 2 < k - 1) /\ (i - 2) + 1 = i - 1
          BY <1>1, <2>1, <2>7, <3>3
        <5>2. i - 1 \in 1..(Len(tl) - 1) /\ ~(i - 1 < k) /\ (i - 1) + 1 = i
          BY <1>1, <2>1, <2>7
        <5> QED BY <3>3, <3>6, <5>1, <5>2
      <4> QED BY <1>1, <2>1, <3>1, <4>1, <4>2, <4>3 DEF Deleted
    <3>8. k - 1 > 1 => ~IsApproach(tl[(k - 1) - 1])
      <4>1. k - 1 > 1 => (k - 1) - 1 \in 1..Len(tl) /\ ((k - 1) - 1) + 1 = k - 1
        BY <2>1
      <4> QED BY <2>3, <3>1, <4>1 DEF IsEncircleOf, IsApproachOf
    <3>9. Len(out) = 2 /\ out[1] = tl[k] /\ out[2] = tl[k - 1]
      BY <3>5
    <3>10. (k - 1)..((k - 1) + 2 - 1) = {k - 1, k}
      BY <2>1
    <3>11. \A j \in 1..Len(out) : \E i \in (k - 1)..((k - 1) + 2 - 1) : out[j] = tl[i]
      BY <3>9, <3>10
    <3>12. \A i \in (k - 1)..((k - 1) + 2 - 1) : \E j \in 1..Len(out) : out[j] = tl[i]
      BY <3>9, <3>10
    <3>13. \A i \in (k - 1)..((k - 1) + 2 - 1) : tl[i].id = id \/ IsApproach(tl[i])
      BY <2>1, <2>7, <3>10
    <3> HIDE DEF isCircle, a, ar, rest, c
    <3>14. CancelBlock(tl, id, k - 1, 2)
      BY <3>7, <3>8, <3>11, <3>12, <3>13 DEF CancelBlock, new, out
    <3> QED BY <3>14
  <2> QED BY <2>6, <2>7
<1> QED BY <1>3, <1>4

-----------------------------------------------------------------------------
\* Where the first preemptable task is says how a list falls into two bands.
LEMMA SplitBands ==
    ASSUME NEW tl \in Seq(Tasks), TwoBands(tl)
    PROVE  /\ FirstPreemptable(tl) \in 1..(Len(tl) + 1)
           /\ \A i \in 1..(FirstPreemptable(tl) - 1) : ~tl[i].is_preemptable
           /\ \A i \in FirstPreemptable(tl)..Len(tl) : tl[i].is_preemptable
<1> DEFINE k == FirstPreemptable(tl)
<1>1. /\ k \in 1..(Len(tl) + 1) /\ Len(tl) \in Nat
      /\ \A i \in 1..(k - 1) : ~tl[i].is_preemptable
      /\ k <= Len(tl) => tl[k].is_preemptable
  BY FirstPreemptableProperties
<1> HIDE DEF k
<1>2. \A i \in k..Len(tl) : tl[i].is_preemptable
  <2> TAKE i \in k..Len(tl)
  <2>1. i \in 1..Len(tl) /\ k \in 1..Len(tl) /\ (i = k \/ k < i)
    BY <1>1
  <2> QED BY <1>1, <2>1 DEF TwoBands
<1> QED BY <1>1, <1>2 DEF k

LEMMA SplitAt ==
    ASSUME NEW tl \in Seq(Tasks), NEW k \in 1..(Len(tl) + 1),
           \A i \in 1..(k - 1) : ~tl[i].is_preemptable,
           \A i \in k..Len(tl) : tl[i].is_preemptable
    PROVE  FirstPreemptable(tl) = k
<1> DEFINE f == FirstPreemptable(tl)
<1>1. /\ f \in 1..(Len(tl) + 1) /\ Len(tl) \in Nat
      /\ \A i \in 1..(f - 1) : ~tl[i].is_preemptable
      /\ f <= Len(tl) => tl[f].is_preemptable
  BY FirstPreemptableProperties
<1> HIDE DEF f
<1>2. ~(f < k)
  <2> SUFFICES ASSUME f < k PROVE FALSE
    OBVIOUS
  <2>1. f \in 1..(k - 1) /\ f <= Len(tl)
    BY <1>1
  <2> QED BY <1>1, <2>1
<1>3. ~(k < f)
  <2> SUFFICES ASSUME k < f PROVE FALSE
    OBVIOUS
  <2>1. k \in 1..(f - 1) /\ k \in k..Len(tl)
    BY <1>1
  <2> QED BY <1>1, <2>1
<1> QED BY <1>1, <1>2, <1>3 DEF f

\* Prefixes and suffixes, by their elements.
LEMMA PrefixElements ==
    ASSUME NEW S, NEW s \in Seq(S), NEW t \in Seq(S), Len(s) <= Len(t),
           \A i \in 1..Len(s) : s[i] = t[i]
    PROVE  IsPrefix(s, t)
<1>1. Len(s) \in Nat /\ Len(t) \in Nat
  OBVIOUS
<1>2. SubSeq(s, 1, Len(s)) = [i \in 1..Len(s) |-> s[i]]
  OBVIOUS
<1>3. SubSeq(t, 1, Len(s)) = [i \in 1..Len(s) |-> t[i]]
  OBVIOUS
<1> QED BY <1>2, <1>3 DEF IsPrefix

LEMMA SuffixElements ==
    ASSUME NEW S, NEW s \in Seq(S), NEW t \in Seq(S), Len(s) <= Len(t),
           \A i \in 1..Len(s) : s[i] = t[(Len(t) - Len(s)) + i]
    PROVE  IsSuffix(s, t)
<1> DEFINE rs == Reverse(s)
           rt == Reverse(t)
<1>1. /\ rs \in Seq(S) /\ Len(rs) = Len(s)
      /\ \A i \in 1..Len(s) : rs[i] = s[(Len(s) - i) + 1]
  BY DEF Reverse
<1>2. /\ rt \in Seq(S) /\ Len(rt) = Len(t)
      /\ \A i \in 1..Len(t) : rt[i] = t[(Len(t) - i) + 1]
  BY DEF Reverse
<1>3. Len(s) \in Nat /\ Len(t) \in Nat
  OBVIOUS
<1> HIDE DEF rs, rt
<1>4. ASSUME NEW i \in 1..Len(s) PROVE rs[i] = rt[i]
  <2> DEFINE j == (Len(s) - i) + 1
  <2>1. j \in 1..Len(s) /\ (Len(t) - Len(s)) + j = (Len(t) - i) + 1 /\ i \in 1..Len(t)
    <3>1. \A m, n \in Nat : \A k \in 1..m : m <= n => k \in 1..n /\ (m - k) + 1 \in 1..m
             /\ (n - m) + ((m - k) + 1) = (n - k) + 1
      OBVIOUS
    <3> QED BY <1>3, <3>1
  <2>2. rs[i] = s[j] /\ rt[i] = t[(Len(t) - i) + 1]
    BY <1>1, <1>2, <2>1
  <2> HIDE DEF j
  <2>3. s[j] = t[(Len(t) - Len(s)) + j]
    BY <2>1
  <2> QED BY <2>1, <2>2, <2>3
<1>5. IsPrefix(rs, rt)
  BY <1>1, <1>2, <1>4, PrefixElements
<1> QED BY <1>5 DEF IsSuffix, rs, rt
=============================================================================
