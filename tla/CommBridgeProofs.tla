--------------------------- MODULE CommBridgeProofs -------------------------
(***************************************************************************)
(* Proof that the bridge is a lossy channel from each vehicle to each      *)
(* other one, for any vehicles and messages (ImplementsLossyFifo).         *)
(*                                                                         *)
(* Framing a stream, and picking the messages of a vehicle from what it    *)
(* sent, are folds; what a fold gives for a longer sequence follows from   *)
(* what it gives for the shorter one (SplitStep, PickedStep), and what it  *)
(* gives for two sequences one after the other by induction on the second. *)
(* The induction is on the length of the least counterexample.             *)
(***************************************************************************)
EXTENDS CommBridge, SequenceTheorems, WellFoundedInduction, TLAPS

-----------------------------------------------------------------------------
(* What a fold over a sequence gives. *)

\* A set of naturals has a least element.
LEMMA LeastNatural ==
    ASSUME NEW I \in SUBSET Nat, I # {}
    PROVE  \E m \in I : \A i \in I : m <= i
<1>1. PICK m \in I : \A i \in I : ~(<<i, m>> \in OpToRel(<, Nat))
  BY NatLessThanWellFounded, WFMin
<1>2. ASSUME NEW i \in I PROVE m <= i
  <2>1. m \in Nat /\ i \in Nat
    OBVIOUS
  <2>2. i < m => <<i, m>> \in OpToRel(<, Nat)
    BY <2>1 DEF OpToRel
  <2>3. ~(i < m)
    BY <1>1, <2>2, Zenon
  <2> QED BY <2>1, <2>3
<1> QED BY <1>2

LEMMA MaxIsGreatest ==
    ASSUME NEW I \in SUBSET Int, I # {}, NEW b \in Int, \A i \in I : i <= b
    PROVE  Max(I) \in I /\ \A i \in I : i <= Max(I)
<1> DEFINE J == {j \in Nat : b - j \in I}
<1>1. J # {}
  <2>1. PICK i \in I : TRUE
    OBVIOUS
  <2>2. b - i \in Nat /\ b - (b - i) = i
    OBVIOUS
  <2> QED BY <2>2
<1>2. PICK m \in J : \A j \in J : m <= j
  BY <1>1, LeastNatural
<1>3. b - m \in I
  BY <1>2
<1>4. ASSUME NEW i \in I PROVE b - m >= i
  <2>1. b - i \in Nat /\ b - (b - i) = i
    OBVIOUS
  <2>2. b - i \in J
    BY <2>1
  <2>3. m <= b - i
    BY <1>2, <2>2
  <2> QED BY <2>1, <2>3
<1> HIDE DEF J
<1>5. \E x \in I : \A y \in I : x >= y
  BY <1>3, <1>4
<1>6. Max(I) \in I /\ \A y \in I : Max(I) >= y
  BY <1>5 DEF Max
<1> QED BY <1>6

\* f folds the entries of seq with indices in s, the last of them outermost.
Folds(f, n, step, base, seq) ==
    \A s \in SUBSET (1..n) :
        f[s] = IF s = {} THEN base ELSE step[<<f[s \ {Max(s)}], seq[Max(s)]>>]

LEMMA MaxOfIndices ==
    ASSUME NEW n \in Nat, NEW s \in SUBSET (1..n), s # {}
    PROVE  Max(s) \in s /\ \A i \in s : i <= Max(s)
<1>1. s \in SUBSET Int /\ \A i \in s : i <= n
  OBVIOUS
<1> QED BY <1>1, MaxIsGreatest

\* There is such a function, with values in V.
HasFold(V, n, step, base, seq) ==
    \E f \in [SUBSET (1..n) -> V] : Folds(f, n, step, base, seq)

\* There is one when each step leads from V to V: the least length without one would
\* have one.
LEMMA FoldExists ==
    ASSUME NEW V, NEW X, NEW step \in [V \X X -> V], NEW base \in V, NEW n \in Nat,
           NEW seq, \A i \in 1..n : seq[i] \in X
    PROVE  HasFold(V, n, step, base, seq)
<1> DEFINE Without == {k \in 0..n : ~HasFold(V, k, step, base, seq)}
<1>1. HasFold(V, 0, step, base, seq)
  <2> DEFINE f == [s \in SUBSET (1..0) |-> base]
  <2>1. f \in [SUBSET (1..0) -> V]
    OBVIOUS
  <2>2. \A s \in SUBSET (1..0) : s = {}
    OBVIOUS
  <2>3. Folds(f, 0, step, base, seq)
    BY <2>2 DEF Folds
  <2> HIDE DEF f
  <2> QED BY <2>1, <2>3 DEF HasFold
<1>2. ASSUME NEW k \in Nat, k + 1 \in 1..n, HasFold(V, k, step, base, seq)
      PROVE  HasFold(V, k + 1, step, base, seq)
  <2>0. PICK f \in [SUBSET (1..k) -> V] : Folds(f, k, step, base, seq)
    BY <1>2 DEF HasFold
  <2> DEFINE g == [s \in SUBSET (1..(k + 1)) |->
                      IF k + 1 \in s THEN step[<<f[s \ {k + 1}], seq[k + 1]>>] ELSE f[s]]
  <2>1. ASSUME NEW s \in SUBSET (1..(k + 1))
        PROVE  s \ {k + 1} \in SUBSET (1..k) /\ (k + 1 \notin s => s \in SUBSET (1..k))
    BY <2>1
  <2>2. g \in [SUBSET (1..(k + 1)) -> V]
    <3>1. ASSUME NEW s \in SUBSET (1..(k + 1))
          PROVE  (IF k + 1 \in s THEN step[<<f[s \ {k + 1}], seq[k + 1]>>] ELSE f[s]) \in V
      <4>1. CASE k + 1 \in s
        <5>1. f[s \ {k + 1}] \in V /\ seq[k + 1] \in X
          BY <1>2, <2>0, <2>1
        <5> QED BY <4>1, <5>1
      <4>2. CASE k + 1 \notin s
        BY <2>1, <4>2
      <4> QED BY <4>1, <4>2
    <3> QED BY <3>1
  <2>3. ASSUME NEW s \in SUBSET (1..(k + 1)), k + 1 \notin s
        PROVE  g[s] = f[s]
    BY <2>3
  <2>4. ASSUME NEW s \in SUBSET (1..(k + 1)), k + 1 \in s
        PROVE  g[s] = step[<<f[s \ {k + 1}], seq[k + 1]>>]
    BY <2>4
  <2> HIDE DEF g
  <2>5. ASSUME NEW s \in SUBSET (1..(k + 1))
        PROVE  g[s] = IF s = {} THEN base ELSE step[<<g[s \ {Max(s)}], seq[Max(s)]>>]
    <3>1. CASE k + 1 \in s
      <4>1. s # {} /\ Max(s) \in s /\ \A i \in s : i <= Max(s)
        BY <3>1, MaxOfIndices, k + 1 \in Nat
      <4>2. Max(s) = k + 1
        <5>1. Max(s) \in 1..(k + 1) /\ k + 1 <= Max(s)
          BY <3>1, <4>1
        <5> QED BY <5>1
      <4>3. s \ {k + 1} \in SUBSET (1..(k + 1)) /\ k + 1 \notin s \ {k + 1}
        BY <2>1
      <4>4. g[s \ {k + 1}] = f[s \ {k + 1}]
        BY <2>3, <4>3
      <4>5. g[s] = step[<<f[s \ {k + 1}], seq[k + 1]>>]
        BY <2>4, <3>1
      <4>6. g[s] = step[<<g[s \ {Max(s)}], seq[Max(s)]>>]
        BY <4>2, <4>4, <4>5
      <4> QED BY <4>1, <4>6
    <3>2. CASE k + 1 \notin s
      <4>1. s \in SUBSET (1..k) /\ g[s] = f[s]
        BY <2>1, <2>3, <3>2
      <4>2. f[s] = IF s = {} THEN base ELSE step[<<f[s \ {Max(s)}], seq[Max(s)]>>]
        BY <2>0, <4>1 DEF Folds
      <4>3. s \ {Max(s)} \in SUBSET (1..(k + 1)) /\ k + 1 \notin s \ {Max(s)}
        BY <3>2
      <4>4. g[s \ {Max(s)}] = f[s \ {Max(s)}]
        BY <2>3, <4>3
      <4> QED BY <4>1, <4>2, <4>4
    <3> QED BY <3>1, <3>2
  <2>6. Folds(g, k + 1, step, base, seq)
    BY <2>5 DEF Folds
  <2> QED BY <2>2, <2>6 DEF HasFold
<1>3. Without \in SUBSET Nat /\ \A m \in Without : m \in 0..n /\ m # 0
  BY <1>1
<1>4. ASSUME NEW m \in Without PROVE \E k \in Without : ~(m <= k)
  <2>1. m \in 0..n /\ m # 0 /\ ~HasFold(V, m, step, base, seq)
    BY <1>3
  <2>2. m - 1 \in Nat /\ m - 1 \in 0..n /\ (m - 1) + 1 = m /\ m \in 1..n /\ ~(m <= m - 1)
    BY <2>1
  <2>3. ~HasFold(V, m - 1, step, base, seq)
    BY <1>2, <2>1, <2>2
  <2> QED BY <2>2, <2>3
<1>5. Without = {}
  <2> HIDE DEF Without
  <2>1. Without # {} => \E m \in Without : \A k \in Without : m <= k
    BY <1>3, LeastNatural
  <2> QED BY <1>4, <2>1
<1> QED BY <1>5

\* What holds of the base and is kept by each step holds of the result.
LEMMA FoldStays ==
    ASSUME NEW V, NEW n \in Nat, NEW f, f[{}] \in V,
           \A s \in SUBSET (1..n) : s # {} /\ f[s \ {Max(s)}] \in V => f[s] \in V
    PROVE  f[1..n] \in V
<1> DEFINE Wrong == {k \in 0..n : f[1..k] \notin V}
<1>1. 0 \notin Wrong
  <2>1. 1..0 = {}
    OBVIOUS
  <2> QED BY <2>1
<1>2. SUFFICES ASSUME Wrong # {} PROVE FALSE
  <2>1. n \notin Wrong
    BY <1>2
  <2> QED BY <2>1
<1>3. PICK m \in Wrong : \A k \in Wrong : m <= k
  <2>1. Wrong \in SUBSET Nat
    OBVIOUS
  <2> HIDE DEF Wrong
  <2> QED BY <1>2, <2>1, LeastNatural
<1>4. m \in 1..n /\ m - 1 \in 0..n /\ ~(m <= m - 1)
  BY <1>1, <1>3
<1>5. f[1..(m - 1)] \in V
  BY <1>3, <1>4
<1>6. 1..m \in SUBSET (1..n) /\ 1..m # {} /\ m \in 1..m /\ m \in Nat
  BY <1>4
<1>7. Max(1..m) \in 1..m /\ \A i \in 1..m : i <= Max(1..m)
  BY <1>4, <1>6, MaxOfIndices
<1>8. Max(1..m) = m
  BY <1>4, <1>7, <1>6
<1>9. (1..m) \ {m} = 1..(m - 1)
  BY <1>4
<1> QED BY <1>3, <1>5, <1>6, <1>8, <1>9

\* c goes from the base to the fold of seq, one entry after the other.
Traces(c, n, step, base, seq) ==
    c[0] = base /\ \A i \in 1..n : c[i] = step[<<c[i - 1], seq[i]>>]

\* r is the end of a trace with values in V.
EndsTrace(V, n, step, base, seq, r) ==
    \E c \in [0..n -> V] : Traces(c, n, step, base, seq) /\ c[n] = r

LEMMA FoldTraces ==
    ASSUME NEW V, NEW X, NEW step \in [V \X X -> V], NEW base \in V, NEW n \in Nat,
           NEW seq, \A i \in 1..n : seq[i] \in X, NEW f, f[{}] = base,
           \A s \in SUBSET (1..n) : s # {} /\ f[s \ {Max(s)}] \in V
               => f[s] = step[<<f[s \ {Max(s)}], seq[Max(s)]>>]
    PROVE  EndsTrace(V, n, step, base, seq, f[1..n])
<1>1. ASSUME NEW s \in SUBSET (1..n), s # {}, f[s \ {Max(s)}] \in V
      PROVE  f[s] \in V
  <2>1. Max(s) \in 1..n
    BY <1>1, MaxOfIndices
  <2> QED BY <1>1, <2>1
<1>2. ASSUME NEW k \in 0..n PROVE f[1..k] \in V
  <2>1. ASSUME NEW s \in SUBSET (1..k), s # {}, f[s \ {Max(s)}] \in V
        PROVE  f[s] \in V
    BY <1>1, <2>1
  <2>2. k \in Nat
    OBVIOUS
  <2> QED BY <2>1, <2>2, FoldStays
<1>3. ASSUME NEW i \in 1..n
      PROVE  f[1..i] = step[<<f[1..(i - 1)], seq[i]>>]
  <2>1. 1..i # {} /\ 1..i \in SUBSET (1..n) /\ i \in 1..i /\ i \in Nat /\ i - 1 \in 0..n
    OBVIOUS
  <2>2. Max(1..i) \in 1..i /\ \A j \in 1..i : j <= Max(1..i)
    BY <2>1, MaxOfIndices
  <2>3. Max(1..i) = i
    BY <2>1, <2>2
  <2>4. (1..i) \ {i} = 1..(i - 1)
    OBVIOUS
  <2>5. f[1..(i - 1)] \in V
    BY <1>2, <2>1
  <2> QED BY <2>1, <2>3, <2>4, <2>5
<1> DEFINE c == [i \in 0..n |-> f[1..i]]
<1>4. c \in [0..n -> V] /\ c[n] = f[1..n]
  BY <1>2
<1>5. c[0] = base
  <2>1. 1..0 = {}
    OBVIOUS
  <2> QED BY <2>1
<1>6. \A i \in 1..n : c[i] = step[<<c[i - 1], seq[i]>>]
  BY <1>3
<1> HIDE DEF c
<1> QED BY <1>4, <1>5, <1>6 DEF Traces, EndsTrace

\* For a longer sequence it goes one step further.
LEMMA TraceAppend ==
    ASSUME NEW X, NEW s \in Seq(X), NEW x \in X, NEW step, NEW base, NEW c, NEW d,
           Traces(c, Len(s), step, base, s),
           Traces(d, Len(Append(s, x)), step, base, Append(s, x))
    PROVE  d[Len(Append(s, x))] = step[<<c[Len(s)], x>>]
<1> DEFINE n == Len(s)
           t == Append(s, x)
           Wrong == {i \in 0..n : c[i] # d[i]}
<1>1. /\ n \in Nat /\ Len(t) = n + 1 /\ t[n + 1] = x
      /\ \A i \in 1..n : s[i] = t[i]
  OBVIOUS
<1>2. Traces(c, n, step, base, s) /\ Traces(d, n + 1, step, base, t)
  BY <1>1
<1> HIDE DEF n, t
<1>3. Wrong = {}
  <2> SUFFICES ASSUME Wrong # {} PROVE FALSE
    OBVIOUS
  <2>1. PICK i \in Wrong : \A j \in Wrong : i <= j
    <3>1. Wrong \in SUBSET Nat
      OBVIOUS
    <3> HIDE DEF Wrong
    <3> QED BY <3>1, LeastNatural
  <2>2. i # 0
    BY <1>2, <2>1 DEF Traces
  <2>3. i \in 1..n /\ i \in 1..(n + 1) /\ i - 1 \in 0..n /\ ~(i <= i - 1)
    BY <1>1, <2>1, <2>2
  <2>4. c[i - 1] = d[i - 1]
    BY <2>1, <2>3
  <2>5. s[i] = t[i]
    BY <1>1, <2>3
  <2>6. c[i] = d[i]
    BY <1>2, <2>3, <2>4, <2>5 DEF Traces
  <2> QED BY <2>1, <2>6
<1>4. c[n] = d[n] /\ n + 1 \in 1..(n + 1) /\ (n + 1) - 1 = n
  BY <1>1, <1>3
<1>5. d[n + 1] = step[<<d[n], t[n + 1]>>]
  BY <1>2, <1>4 DEF Traces
<1> QED BY <1>1, <1>4, <1>5 DEF n, t

LEMMA EndAppend ==
    ASSUME NEW V, NEW X, NEW s \in Seq(X), NEW x \in X, NEW step, NEW base, NEW q, NEW r,
           EndsTrace(V, Len(s), step, base, s, q),
           EndsTrace(V, Len(Append(s, x)), step, base, Append(s, x), r)
    PROVE  r = step[<<q, x>>] /\ q \in V
<1>1. PICK c \in [0..Len(s) -> V] : Traces(c, Len(s), step, base, s) /\ c[Len(s)] = q
  BY DEF EndsTrace
<1>2. PICK d \in [0..Len(Append(s, x)) -> V] :
         Traces(d, Len(Append(s, x)), step, base, Append(s, x)) /\ d[Len(Append(s, x))] = r
  BY DEF EndsTrace
<1>3. Len(s) \in 0..Len(s)
  OBVIOUS
<1> QED BY <1>1, <1>2, <1>3, TraceAppend

-----------------------------------------------------------------------------
(* Sequences. *)

\* What holds of the empty sequence and is kept when one is added holds of all.
LEMMA SequenceInduction ==
    ASSUME NEW S, NEW T, <<>> \in T, \A s \in Seq(S), x \in S : s \in T => Append(s, x) \in T
    PROVE  Seq(S) \subseteq T
<1> SUFFICES ASSUME NEW r \in Seq(S), r \notin T PROVE FALSE
  OBVIOUS
<1> DEFINE Wrong == {n \in Nat : \E s \in Seq(S) : s \notin T /\ Len(s) = n}
<1>1. Len(r) \in Wrong
  OBVIOUS
<1>2. PICK n \in Wrong : \A k \in Wrong : n <= k
  <2>1. Wrong \in SUBSET Nat
    OBVIOUS
  <2> HIDE DEF Wrong
  <2> QED BY <1>1, <2>1, LeastNatural
<1>3. PICK s \in Seq(S) : s \notin T /\ Len(s) = n
  BY <1>2
<1>4. PICK t \in Seq(S), x \in S : s = Append(t, x)
  BY <1>3, SequenceEmptyOrAppend
<1>5. Len(s) = Len(t) + 1 /\ Len(t) \in Nat
  BY <1>4
<1>6. t \notin T
  BY <1>3, <1>4
<1>7. Len(t) \in Wrong
  BY <1>5, <1>6
<1> QED BY <1>2, <1>3, <1>5, <1>7

LEMMA ConcatAppend ==
    ASSUME NEW S, NEW s \in Seq(S), NEW t \in Seq(S), NEW x \in S
    PROVE  s \o Append(t, x) = Append(s \o t, x)
<1>1. <<x>> \in Seq(S) /\ s \o t \in Seq(S)
  OBVIOUS
<1>2. Append(t, x) = t \o <<x>> /\ Append(s \o t, x) = (s \o t) \o <<x>>
  BY <1>1, AppendIsConcat
<1> QED BY <1>1, <1>2, ConcatAssociative

-----------------------------------------------------------------------------
(* What stands between delimiters. *)

\* Pieces of Q, gathered.
Gathered(Q) == [done : Seq(Seq(Q) \ {<<>>}), pending : Seq(Q)]
Nothing == [done |-> <<>>, pending |-> <<>>]
GatherStep(Q) == [a \in Gathered(Q) \X (Q \cup {Delimiter}) |-> Gather(a[1], a[2])]

LEMMA GatherTypes ==
    ASSUME NEW Q, NEW acc \in Gathered(Q), NEW piece \in Q \cup {Delimiter}
    PROVE  Gather(acc, piece) \in Gathered(Q)
<1>1. acc.done \in Seq(Seq(Q) \ {<<>>}) /\ acc.pending \in Seq(Q)
  BY DEF Gathered
<1>2. CASE piece # Delimiter
  <2>1. Append(acc.pending, piece) \in Seq(Q)
    BY <1>1, <1>2
  <2>2. Gather(acc, piece) = [done |-> acc.done, pending |-> Append(acc.pending, piece)]
    BY <1>2 DEF Gather
  <2> QED BY <1>1, <2>1, <2>2 DEF Gathered
<1>3. CASE piece = Delimiter
  <2>1. CASE acc.pending = <<>>
    <3>1. Gather(acc, piece) = [done |-> acc.done, pending |-> <<>>]
      BY <1>3, <2>1 DEF Gather
    <3>2. <<>> \in Seq(Q)
      OBVIOUS
    <3> QED BY <1>1, <3>1, <3>2 DEF Gathered
  <2>2. CASE acc.pending # <<>>
    <3>1. Gather(acc, piece) = [done |-> Append(acc.done, acc.pending), pending |-> <<>>]
      BY <1>3, <2>2 DEF Gather
    <3>2. acc.pending \in Seq(Q) \ {<<>>}
      BY <1>1, <2>2
    <3>3. Append(acc.done, acc.pending) \in Seq(Seq(Q) \ {<<>>})
      BY <1>1, <3>2, AppendProperties
    <3>4. <<>> \in Seq(Q)
      OBVIOUS
    <3> QED BY <3>1, <3>3, <3>4 DEF Gathered
  <2> QED BY <2>1, <2>2
<1> QED BY <1>2, <1>3

LEMMA SplitTraces ==
    ASSUME NEW Q, NEW s \in Seq(Q \cup {Delimiter})
    PROVE  EndsTrace(Gathered(Q), Len(s), GatherStep(Q), Nothing, s, Split(s))
<1> DEFINE n == Len(s)
           X == Q \cup {Delimiter}
           V == Gathered(Q)
           Body2(f) == [t \in SUBSET (1..n) |->
                          IF t = {} THEN Nothing ELSE Gather(f[t \ {Max(t)}], s[Max(t)])]
           f == CHOOSE h : h = Body2(h)
<1>1. n \in Nat /\ DOMAIN s = 1..n /\ \A i \in 1..n : s[i] \in X
  OBVIOUS
<1>2. Split(s) = f[1..n]
  BY <1>1 DEF Split, FoldLeft, MapThenFoldSet, Nothing
<1>3. GatherStep(Q) \in [V \X X -> V]
  BY GatherTypes DEF GatherStep
<1>4. ASSUME NEW acc \in V, NEW piece \in X
      PROVE  GatherStep(Q)[<<acc, piece>>] = Gather(acc, piece)
  BY DEF GatherStep
<1>5. Nothing \in V
  BY DEF Nothing, Gathered
<1> HIDE DEF n, X, V
<1>6. PICK h \in [SUBSET (1..n) -> V] : Folds(h, n, GatherStep(Q), Nothing, s)
  BY <1>1, <1>3, <1>5, FoldExists DEF HasFold
<1>7. ASSUME NEW t \in SUBSET (1..n)
      PROVE  h[t] = IF t = {} THEN Nothing ELSE Gather(h[t \ {Max(t)}], s[Max(t)])
  <2>1. t # {} => Max(t) \in 1..n /\ h[t \ {Max(t)}] \in V
    BY <1>1, MaxOfIndices
  <2> QED BY <1>1, <1>4, <1>6, <2>1 DEF Folds
<1>8. h = Body2(h)
  BY <1>7
<1>9. f = Body2(f)
  BY <1>8
<1>10. f[{}] = Nothing
  BY <1>9
<1>11. ASSUME NEW t \in SUBSET (1..n), t # {}, f[t \ {Max(t)}] \in V
       PROVE  f[t] = GatherStep(Q)[<<f[t \ {Max(t)}], s[Max(t)]>>]
  <2>1. f[t] = Gather(f[t \ {Max(t)}], s[Max(t)])
    BY <1>9, <1>11
  <2>2. s[Max(t)] \in X
    BY <1>1, <1>11, MaxOfIndices
  <2> HIDE DEF f
  <2> QED BY <1>4, <1>11, <2>1, <2>2
<1> HIDE DEF f
<1>12. \A t \in SUBSET (1..n) : t # {} /\ f[t \ {Max(t)}] \in V
          => f[t] = GatherStep(Q)[<<f[t \ {Max(t)}], s[Max(t)]>>]
  BY <1>11
<1>13. n \in Nat /\ \A i \in 1..n : s[i] \in X
  BY <1>1
<1>14. EndsTrace(V, n, GatherStep(Q), Nothing, s, f[1..n])
  BY <1>3, <1>5, <1>10, <1>12, <1>13, FoldTraces
<1> QED BY <1>2, <1>14 DEF n, V

LEMMA SplitTypes ==
    ASSUME NEW Q, NEW s \in Seq(Q \cup {Delimiter})
    PROVE  /\ Split(s) \in Gathered(Q)
           /\ Split(s).done \in Seq(Seq(Q) \ {<<>>}) /\ Split(s).pending \in Seq(Q)
<1>1. PICK c \in [0..Len(s) -> Gathered(Q)] : c[Len(s)] = Split(s)
  BY SplitTraces DEF EndsTrace
<1>2. Len(s) \in 0..Len(s)
  OBVIOUS
<1> QED BY <1>1, <1>2 DEF Gathered

LEMMA SplitEmpty == Split(<<>>) = Nothing
<1>1. <<>> \in Seq({} \cup {Delimiter}) /\ Len(<<>>) = 0
  OBVIOUS
<1>2. PICK c \in [0..Len(<<>>) -> Gathered({})] :
         Traces(c, Len(<<>>), GatherStep({}), Nothing, <<>>) /\ c[Len(<<>>)] = Split(<<>>)
  BY <1>1, SplitTraces DEF EndsTrace
<1> QED BY <1>1, <1>2 DEF Traces

LEMMA SplitStep ==
    ASSUME NEW Q, NEW s \in Seq(Q \cup {Delimiter}), NEW piece \in Q \cup {Delimiter}
    PROVE  Split(Append(s, piece)) = Gather(Split(s), piece)
<1> DEFINE t == Append(s, piece)
           X == Q \cup {Delimiter}
           step == GatherStep(Q)
<1>1. EndsTrace(Gathered(Q), Len(s), step, Nothing, s, Split(s))
  BY SplitTraces
<1>2. t \in Seq(X)
  OBVIOUS
<1>3. EndsTrace(Gathered(Q), Len(t), step, Nothing, t, Split(t))
  BY <1>2, SplitTraces
<1>4. ASSUME NEW acc \in Gathered(Q) PROVE step[<<acc, piece>>] = Gather(acc, piece)
  BY DEF GatherStep
<1>5. s \in Seq(X) /\ piece \in X
  OBVIOUS
<1> HIDE DEF step, X
<1>6. Split(t) = step[<<Split(s), piece>>] /\ Split(s) \in Gathered(Q)
  BY <1>1, <1>3, <1>5, EndAppend
<1> QED BY <1>4, <1>6

\* Without a delimiter all of it is pending.
LEMMA SplitPlain ==
    ASSUME NEW Q, Delimiter \notin Q, NEW s \in Seq(Q)
    PROVE  Split(s) = [done |-> <<>>, pending |-> s]
<1> DEFINE T == {t \in Seq(Q) : Split(t) = [done |-> <<>>, pending |-> t]}
<1>1. <<>> \in T
  BY SplitEmpty DEF Nothing
<1>2. ASSUME NEW t \in Seq(Q), NEW x \in Q, t \in T
      PROVE  Append(t, x) \in T
  <2>1. t \in Seq(Q \cup {Delimiter})
    OBVIOUS
  <2>2. Split(Append(t, x)) = Gather(Split(t), x)
    BY <2>1, SplitStep
  <2>3. Split(t) = [done |-> <<>>, pending |-> t]
    BY <1>2
  <2>4. Gather(Split(t), x) = [done |-> <<>>, pending |-> Append(t, x)]
    <3>1. x # Delimiter
      OBVIOUS
    <3> QED BY <2>3, <3>1 DEF Gather
  <2> QED BY <2>2, <2>4
<1> HIDE DEF T
<1>3. Seq(Q) \subseteq T
  BY <1>1, <1>2, SequenceInduction
<1> QED BY <1>3 DEF T

\* What stands between the delimiters of s, and then of what is pending and t.
SplitAfter(s, t) ==
    [done |-> Split(s).done \o Split(Split(s).pending \o t).done,
     pending |-> Split(Split(s).pending \o t).pending]

LEMMA SplitConcat ==
    ASSUME NEW Q, Delimiter \notin Q,
           NEW s \in Seq(Q \cup {Delimiter}), NEW t \in Seq(Q \cup {Delimiter})
    PROVE  Split(s \o t) = SplitAfter(s, t)
<1> DEFINE X == Q \cup {Delimiter}
           L == Seq(Q) \ {<<>>}
           a == Split(s)
           T == {u \in Seq(X) : Split(s \o u) = SplitAfter(s, u)}
<1>1. a.done \in Seq(L) /\ a.pending \in Seq(Q) /\ a.pending \in Seq(X) /\ a \in Gathered(Q)
  BY SplitTypes
<1>2. a = [done |-> a.done, pending |-> a.pending]
  BY <1>1 DEF Gathered
<1> HIDE DEF a, L
<1>3. <<>> \in T
  <2>1. s \o <<>> = s /\ a.pending \o <<>> = a.pending /\ a.done \o <<>> = a.done
    BY <1>1
  <2>2. Split(a.pending) = [done |-> <<>>, pending |-> a.pending]
    BY <1>1, SplitPlain
  <2>3. SplitAfter(s, <<>>) = [done |-> a.done, pending |-> a.pending]
    <3>1. Split(a.pending \o <<>>).done = <<>> /\ Split(a.pending \o <<>>).pending = a.pending
      BY <2>1, <2>2
    <3> QED BY <2>1, <3>1 DEF SplitAfter, a
  <2>4. <<>> \in Seq(X)
    OBVIOUS
  <2> QED BY <1>2, <2>1, <2>3, <2>4 DEF a
<1>4. ASSUME NEW u \in Seq(X), NEW x \in X, u \in T
      PROVE  Append(u, x) \in T
  <2> DEFINE b == Split(a.pending \o u)
             v == Append(u, x)
  <2> HIDE DEF v
  <2>a. s \in Seq(X) /\ u \in Seq(X) /\ a.pending \in Seq(X)
    BY <1>1
  <2>0. s \o u \in Seq(X) /\ a.pending \o u \in Seq(X) /\ v \in Seq(X)
    BY <1>1 DEF v
  <2>1. s \o v = Append(s \o u, x) /\ a.pending \o v = Append(a.pending \o u, x)
    <3> HIDE DEF X, T
    <3>1. s \o v = Append(s \o u, x)
      BY <2>a DEF v
    <3>2. a.pending \o v = Append(a.pending \o u, x)
      <4> DEFINE r == a.pending
      <4>1. r \in Seq(X)
        BY <2>a
      <4> HIDE DEF r
      <4>2. r \o v = Append(r \o u, x)
        BY <2>a, <4>1, ConcatAppend DEF v
      <4> QED BY <4>2 DEF r
    <3> QED BY <3>1, <3>2
  <2>2. Split(s \o v) = Gather(Split(s \o u), x) /\ Split(a.pending \o v) = Gather(b, x)
    BY <2>0, <2>1, SplitStep
  <2> USE DEF v
  <2>3. b \in Gathered(Q) /\ b.done \in Seq(L) /\ b.pending \in Seq(Q)
    BY <2>0, SplitTypes DEF L
  <2>4. Split(s \o u) = [done |-> a.done \o b.done, pending |-> b.pending]
    BY <1>4 DEF SplitAfter, a
  <2> HIDE DEF X, T
  <2>5. SplitAfter(s, v) = [done |-> a.done \o Gather(b, x).done, pending |-> Gather(b, x).pending]
    BY <2>2 DEF SplitAfter, a
  <2> HIDE DEF b, v
  <2>6. Gather(Split(s \o u), x)
          = [done |-> a.done \o Gather(b, x).done, pending |-> Gather(b, x).pending]
    <3>1. CASE x # Delimiter
      <4>1. Gather(Split(s \o u), x) = [done |-> a.done \o b.done, pending |-> Append(b.pending, x)]
        BY <2>4, <3>1 DEF Gather
      <4>2. Gather(b, x).done = b.done /\ Gather(b, x).pending = Append(b.pending, x)
        BY <2>3, <3>1 DEF Gather, Gathered
      <4> QED BY <4>1, <4>2
    <3>2. CASE x = Delimiter /\ b.pending = <<>>
      <4>1. Gather(Split(s \o u), x) = [done |-> a.done \o b.done, pending |-> <<>>]
        BY <2>4, <3>2 DEF Gather
      <4>2. Gather(b, x) = [done |-> b.done, pending |-> <<>>]
        BY <3>2 DEF Gather
      <4> QED BY <4>1, <4>2
    <3>3. CASE x = Delimiter /\ b.pending # <<>>
      <4>1. Gather(Split(s \o u), x)
              = [done |-> Append(a.done \o b.done, b.pending), pending |-> <<>>]
        BY <2>4, <3>3 DEF Gather
      <4>2. Gather(b, x) = [done |-> Append(b.done, b.pending), pending |-> <<>>]
        BY <3>3 DEF Gather
      <4>3. b.pending \in L
        BY <2>3, <3>3 DEF L
      <4>4. Append(a.done \o b.done, b.pending) = a.done \o Append(b.done, b.pending)
        <5>1. a.done \in Seq(L) /\ b.done \in Seq(L)
          BY <1>1, <2>3
        <5> DEFINE ad == a.done
                   bd == b.done
                   bp == b.pending
        <5>2. ad \in Seq(L) /\ bd \in Seq(L) /\ bp \in L
          BY <4>3, <5>1
        <5> HIDE DEF ad, bd, bp
        <5>3. ad \o Append(bd, bp) = Append(ad \o bd, bp)
          BY <5>2, ConcatAppend
        <5> QED BY <5>3 DEF ad, bd, bp
      <4> QED BY <4>1, <4>2, <4>4
    <3> QED BY <3>1, <3>2, <3>3
  <2>7. Split(s \o v) = SplitAfter(s, v)
    BY <2>2, <2>5, <2>6
  <2> QED BY <2>0, <2>7 DEF v, T
<1> HIDE DEF T, X
<1>5. Seq(X) \subseteq T
  BY <1>3, <1>4, SequenceInduction
<1> QED BY <1>5 DEF T, X

-----------------------------------------------------------------------------
(* What is picked from a sequence. *)

Pick(f, acc, x) == IF x \in DOMAIN f THEN Append(acc, f[x]) ELSE acc
PickStep(f, R, X) == [a \in Seq(R) \X X |-> Pick(f, a[1], a[2])]

LEMMA PickedTraces ==
    ASSUME NEW D, NEW R, NEW f \in [D -> R], NEW X, NEW s \in Seq(X)
    PROVE  EndsTrace(Seq(R), Len(s), PickStep(f, R, X), <<>>, s, Picked(s, f))
<1> DEFINE n == Len(s)
           V == Seq(R)
           Body2(g) == [t \in SUBSET (1..n) |->
                          IF t = {} THEN <<>>
                          ELSE IF s[Max(t)] \in DOMAIN f
                               THEN Append(g[t \ {Max(t)}], f[s[Max(t)]])
                               ELSE g[t \ {Max(t)}]]
           g == CHOOSE h : h = Body2(h)
<1>1. n \in Nat /\ DOMAIN s = 1..n /\ \A i \in 1..n : s[i] \in X
  OBVIOUS
<1>2. Picked(s, f) = g[1..n]
  BY <1>1 DEF Picked, FoldLeft, MapThenFoldSet
<1>3. ASSUME NEW acc \in V, NEW x \in X PROVE Pick(f, acc, x) \in V
  <2>1. CASE x \in DOMAIN f
    <3>1. f[x] \in R
      BY <2>1
    <3>2. Append(acc, f[x]) \in Seq(R)
      BY <3>1
    <3> QED BY <2>1, <3>2 DEF Pick
  <2>2. CASE x \notin DOMAIN f
    BY <2>2 DEF Pick
  <2> QED BY <2>1, <2>2
<1>4. PickStep(f, R, X) \in [V \X X -> V]
  BY <1>3 DEF PickStep
<1>5. ASSUME NEW acc \in V, NEW x \in X
      PROVE  PickStep(f, R, X)[<<acc, x>>] = Pick(f, acc, x)
  BY DEF PickStep
<1>6. <<>> \in V
  OBVIOUS
<1> HIDE DEF n, V
<1>7. PICK h \in [SUBSET (1..n) -> V] : Folds(h, n, PickStep(f, R, X), <<>>, s)
  BY <1>1, <1>4, <1>6, FoldExists DEF HasFold
<1>8. ASSUME NEW t \in SUBSET (1..n)
      PROVE  h[t] = IF t = {} THEN <<>>
                    ELSE IF s[Max(t)] \in DOMAIN f
                         THEN Append(h[t \ {Max(t)}], f[s[Max(t)]])
                         ELSE h[t \ {Max(t)}]
  <2>1. t # {} => Max(t) \in 1..n /\ h[t \ {Max(t)}] \in V
    BY <1>1, MaxOfIndices
  <2>2. t # {} => h[t] = Pick(f, h[t \ {Max(t)}], s[Max(t)])
    BY <1>1, <1>5, <1>7, <2>1 DEF Folds
  <2>3. t = {} => h[t] = <<>>
    BY <1>7 DEF Folds
  <2> QED BY <2>2, <2>3 DEF Pick
<1>9. h = Body2(h)
  BY <1>8
<1>10. g = Body2(g)
  BY <1>9
<1>11. g[{}] = <<>>
  BY <1>10
<1>12. ASSUME NEW t \in SUBSET (1..n), t # {}, g[t \ {Max(t)}] \in V
       PROVE  g[t] = PickStep(f, R, X)[<<g[t \ {Max(t)}], s[Max(t)]>>]
  <2>1. g[t] = Pick(f, g[t \ {Max(t)}], s[Max(t)])
    BY <1>10, <1>12 DEF Pick
  <2>2. s[Max(t)] \in X
    BY <1>1, <1>12, MaxOfIndices
  <2> HIDE DEF g
  <2> QED BY <1>5, <1>12, <2>1, <2>2
<1> HIDE DEF g
<1>13. \A t \in SUBSET (1..n) : t # {} /\ g[t \ {Max(t)}] \in V
          => g[t] = PickStep(f, R, X)[<<g[t \ {Max(t)}], s[Max(t)]>>]
  BY <1>12
<1>14. n \in Nat /\ \A i \in 1..n : s[i] \in X
  BY <1>1
<1>15. EndsTrace(V, n, PickStep(f, R, X), <<>>, s, g[1..n])
  BY <1>4, <1>6, <1>11, <1>13, <1>14, FoldTraces
<1> QED BY <1>2, <1>15 DEF n, V

LEMMA PickedTypes ==
    ASSUME NEW D, NEW R, NEW f \in [D -> R], NEW X, NEW s \in Seq(X)
    PROVE  Picked(s, f) \in Seq(R)
<1>1. PICK c \in [0..Len(s) -> Seq(R)] : c[Len(s)] = Picked(s, f)
  BY PickedTraces DEF EndsTrace
<1>2. Len(s) \in 0..Len(s)
  OBVIOUS
<1> QED BY <1>1, <1>2

LEMMA PickedEmpty ==
    ASSUME NEW D, NEW R, NEW f \in [D -> R]
    PROVE  Picked(<<>>, f) = <<>>
<1>1. <<>> \in Seq({}) /\ Len(<<>>) = 0
  OBVIOUS
<1>2. EndsTrace(Seq(R), Len(<<>>), PickStep(f, R, {}), <<>>, <<>>, Picked(<<>>, f))
  BY <1>1, PickedTraces, Zenon
<1>3. PICK c \in [0..0 -> Seq(R)] :
         Traces(c, 0, PickStep(f, R, {}), <<>>, <<>>) /\ c[0] = Picked(<<>>, f)
  BY <1>1, <1>2 DEF EndsTrace
<1> QED BY <1>3 DEF Traces

LEMMA PickedStep ==
    ASSUME NEW D, NEW R, NEW f \in [D -> R], NEW X, NEW s \in Seq(X), NEW x \in X
    PROVE  Picked(Append(s, x), f) = Pick(f, Picked(s, f), x)
<1> DEFINE t == Append(s, x)
           step == PickStep(f, R, X)
           base == <<>>
           V == Seq(R)
           q == Picked(s, f)
           r == Picked(t, f)
<1>1. EndsTrace(V, Len(s), step, base, s, q)
  BY PickedTraces
<1>2. t \in Seq(X)
  OBVIOUS
<1>3. EndsTrace(V, Len(t), step, base, t, r)
  BY <1>2, PickedTraces
<1>4. ASSUME NEW acc \in V PROVE step[<<acc, x>>] = Pick(f, acc, x)
  BY DEF PickStep
<1> HIDE DEF step, base, V, q, r
<1>5. r = step[<<q, x>>] /\ q \in V
  BY <1>1, <1>3, EndAppend
<1>6. r = Pick(f, q, x)
  BY <1>4, <1>5
<1> QED BY <1>6 DEF q, r

\* All of f's values are in R.
LEMMA PickAfter ==
    ASSUME NEW R, NEW f, \A y \in DOMAIN f : f[y] \in R,
           NEW a \in Seq(R), NEW b \in Seq(R), NEW x
    PROVE  a \o Pick(f, b, x) = Pick(f, a \o b, x)
<1>1. CASE x \in DOMAIN f
  <2> DEFINE y == f[x]
  <2>1. y \in R
    BY <1>1
  <2> HIDE DEF y
  <2>2. a \o Append(b, y) = Append(a \o b, y)
    BY <2>1, ConcatAppend
  <2> QED BY <1>1, <2>2 DEF Pick, y
<1>2. CASE x \notin DOMAIN f
  BY <1>2 DEF Pick
<1> QED BY <1>1, <1>2

LEMMA PickedConcat ==
    ASSUME NEW D, NEW R, NEW f \in [D -> R], NEW X, NEW s \in Seq(X), NEW t \in Seq(X)
    PROVE  Picked(s \o t, f) = Picked(s, f) \o Picked(t, f)
<1> DEFINE T == {u \in Seq(X) : Picked(s \o u, f) = Picked(s, f) \o Picked(u, f)}
           a == Picked(s, f)
<1>1. a \in Seq(R)
  BY PickedTypes
<1>2. <<>> \in T
  <2>1. s \o <<>> = s /\ a \o <<>> = a
    <3> HIDE DEF a
    <3> QED BY <1>1
  <2>2. Picked(<<>>, f) = <<>>
    BY PickedEmpty
  <2>3. <<>> \in Seq(X)
    OBVIOUS
  <2>4. Picked(s \o <<>>, f) = a /\ a \o Picked(<<>>, f) = a
    BY <2>1, <2>2, Zenon
  <2> QED BY <2>3, <2>4
<1>3. ASSUME NEW u \in Seq(X), NEW x \in X, u \in T
      PROVE  Append(u, x) \in T
  <2> DEFINE b == Picked(u, f)
             v == Append(u, x)
  <2>1. b \in Seq(R) /\ Picked(s \o u, f) = a \o b
    BY <1>3, PickedTypes
  <2>2. s \o v = Append(s \o u, x) /\ v \in Seq(X) /\ s \o u \in Seq(X)
    BY ConcatAppend
  <2>3. Picked(v, f) = Pick(f, b, x)
    BY PickedStep
  <2>4. Picked(s \o v, f) = Pick(f, Picked(s \o u, f), x)
    BY <2>2, PickedStep
  <2>5. a \o Pick(f, b, x) = Pick(f, a \o b, x)
    <3> HIDE DEF a, b, v, T
    <3>1. \A y \in DOMAIN f : f[y] \in R
      OBVIOUS
    <3> QED BY <1>1, <2>1, <3>1, PickAfter
  <2> QED BY <2>1, <2>2, <2>3, <2>4, <2>5
<1> HIDE DEF T
<1>4. Seq(X) \subseteq T
  BY <1>2, <1>3, SequenceInduction
<1> QED BY <1>4 DEF T

LEMMA PickedOne ==
    ASSUME NEW D, NEW R, NEW f \in [D -> R], NEW x
    PROVE  Picked(<<x>>, f) = IF x \in D THEN <<f[x]>> ELSE <<>>
<1>1. <<>> \in Seq({x}) /\ x \in {x} /\ <<x>> = Append(<<>>, x)
  OBVIOUS
<1>2. Picked(<<>>, f) = <<>>
  BY PickedEmpty
<1>3. Picked(Append(<<>>, x), f) = Pick(f, Picked(<<>>, f), x)
  BY <1>1, PickedStep
<1>4. Picked(<<x>>, f) = Pick(f, <<>>, x)
  BY <1>1, <1>2, <1>3
<1> QED BY <1>4 DEF Pick

-----------------------------------------------------------------------------
(* Streams of frames. *)

Short(list) == \A i \in 1..Len(list) : Len(list[i]) <= 2

LEMMA ShortParts ==
    ASSUME NEW X, NEW a \in Seq(X), NEW b \in Seq(X)
    PROVE  Short(a \o b) <=> Short(a) /\ Short(b)
<1>1. /\ Len(a) \in Nat /\ Len(b) \in Nat /\ Len(a \o b) = Len(a) + Len(b)
      /\ \A i \in 1..Len(a) : (a \o b)[i] = a[i]
      /\ \A i \in 1..Len(b) : (a \o b)[Len(a) + i] = b[i]
  OBVIOUS
<1>2. ASSUME Short(a \o b) PROVE Short(a)
  <2>1. \A i \in 1..Len(a) : i \in 1..Len(a \o b)
    BY <1>1
  <2> QED BY <1>1, <1>2, <2>1 DEF Short
<1>3. ASSUME Short(a \o b) PROVE Short(b)
  <2>1. \A i \in 1..Len(b) : Len(a) + i \in 1..Len(a \o b)
    BY <1>1
  <2> QED BY <1>1, <1>3, <2>1 DEF Short
<1>4. ASSUME Short(a), Short(b), NEW i \in 1..Len(a \o b)
      PROVE  Len((a \o b)[i]) <= 2
  <2>1. CASE i \in 1..Len(a)
    BY <1>1, <1>4, <2>1 DEF Short
  <2>2. CASE i \notin 1..Len(a)
    <3>1. i - Len(a) \in 1..Len(b) /\ Len(a) + (i - Len(a)) = i
      BY <1>1, <2>2
    <3> QED BY <1>1, <1>4, <3>1 DEF Short
  <2> QED BY <2>1, <2>2
<1> QED BY <1>2, <1>3, <1>4 DEF Short

\* What has arrived for a vehicle, of the pieces in Q: between two delimiters stand two
\* of them at most, and on a connection that stands whole frames are to come, after what
\* is pending.
IsFramed(Q, read, pending, delimited, arrived, stands) ==
    /\ read \in Seq(Seq(Q) \ {<<>>})
    /\ pending \in Seq(Q)
    /\ arrived \in Seq(Q \cup {Delimiter})
    /\ ~delimited => pending = <<>>
    /\ ~stands => arrived = <<>>
    /\ stands => Split(pending \o arrived).pending = <<>>
    /\ Short(Split(pending \o arrived).done)

LEMMA NothingFramed ==
    ASSUME NEW Q, NEW delimited \in BOOLEAN, NEW stands \in BOOLEAN
    PROVE  IsFramed(Q, <<>>, <<>>, delimited, <<>>, stands)
<1>1. /\ <<>> \in Seq(Seq(Q) \ {<<>>}) /\ <<>> \in Seq(Q) /\ <<>> \in Seq(Q \cup {Delimiter})
      /\ <<>> \o <<>> = <<>> /\ Len(<<>>) = 0
  OBVIOUS
<1>2. Split(<<>>).pending = <<>> /\ Split(<<>>).done = <<>>
  BY SplitEmpty DEF Nothing
<1>3. Short(<<>>)
  BY <1>1 DEF Short
<1> QED BY <1>1, <1>2, <1>3 DEF IsFramed

\* What was read, and what is pending without a connection, ends no text.
LEMMA CutOffFramed ==
    ASSUME NEW Q, Delimiter \notin Q, NEW read, NEW pending, NEW delimited, NEW arrived,
           NEW stands, IsFramed(Q, read, pending, delimited, arrived, stands)
    PROVE  /\ Split(pending \o <<>>).done = <<>>
           /\ IsFramed(Q, read, pending, delimited, <<>>, FALSE)
<1>1. pending \in Seq(Q) /\ read \in Seq(Seq(Q) \ {<<>>}) /\ (~delimited => pending = <<>>)
  BY DEF IsFramed
<1>2. pending \o <<>> = pending /\ Len(<<>>) = 0 /\ <<>> \in Seq(Q \cup {Delimiter})
  BY <1>1
<1>3. Split(pending \o <<>>).done = <<>>
  BY <1>1, <1>2, SplitPlain
<1>4. Short(<<>>)
  BY <1>2 DEF Short
<1> QED BY <1>1, <1>2, <1>3, <1>4 DEF IsFramed

\* A text and its delimiter.
LEMMA SplitText ==
    ASSUME NEW Q, Delimiter \notin Q, NEW text \in Seq(Q)
    PROVE  /\ Append(text, Delimiter) \in Seq(Q \cup {Delimiter})
           /\ Split(Append(text, Delimiter)).done = IF text = <<>> THEN <<>> ELSE <<text>>
           /\ Split(Append(text, Delimiter)).pending = <<>>
<1>1. text \in Seq(Q \cup {Delimiter}) /\ Delimiter \in Q \cup {Delimiter}
  OBVIOUS
<1>2. Append(text, Delimiter) \in Seq(Q \cup {Delimiter})
  BY <1>1
<1>3. Split(Append(text, Delimiter)) = Gather(Split(text), Delimiter)
  BY <1>1, SplitStep
<1>4. Split(text) = [done |-> <<>>, pending |-> text]
  BY SplitPlain
<1>5. Gather(Split(text), Delimiter)
        = [done |-> IF text = <<>> THEN <<>> ELSE Append(<<>>, text), pending |-> <<>>]
  BY <1>4 DEF Gather
<1>6. Append(<<>>, text) = <<text>>
  OBVIOUS
<1> QED BY <1>2, <1>3, <1>5, <1>6

\* A text that arrives whole can be read behind the others.
ArrivesLast(pending, arrived, text) ==
    Split(pending \o (arrived \o Append(text, Delimiter))).done
      = Split(pending \o arrived).done \o <<text>>

\* A text that arrives whole, behind what ends with a delimiter.
LEMMA ArrivedText ==
    ASSUME NEW Q, Delimiter \notin Q, NEW text \in Seq(Q) \ {<<>>}, Len(text) = 2,
           NEW read, NEW pending, NEW delimited, NEW arrived,
           IsFramed(Q, read, pending, delimited, arrived, TRUE)
    PROVE  /\ IsFramed(Q, read, pending, delimited, arrived \o Append(text, Delimiter), TRUE)
           /\ ArrivesLast(pending, arrived, text)
<1> DEFINE X == Q \cup {Delimiter}
           L == Seq(Q) \ {<<>>}
           frame == Append(text, Delimiter)
           a == pending \o arrived
           d == Split(a).done
<1>1. /\ pending \in Seq(Q) /\ pending \in Seq(X) /\ arrived \in Seq(X) /\ read \in Seq(L)
      /\ (~delimited => pending = <<>>) /\ Split(a).pending = <<>> /\ Short(d)
  BY DEF IsFramed
<1>2. /\ frame \in Seq(X) /\ Split(frame).done = <<text>> /\ Split(frame).pending = <<>>
  BY SplitText
<1>3. a \in Seq(X) /\ arrived \o frame \in Seq(X)
  <2> HIDE DEF X, frame
  <2> QED BY <1>1, <1>2
<1>4. pending \o (arrived \o frame) = a \o frame
  <2> HIDE DEF X, frame
  <2> QED BY <1>1, <1>2, ConcatAssociative
<1>5. Split(a \o frame) = SplitAfter(a, frame)
  BY <1>2, <1>3, SplitConcat
<1>6. <<>> \o frame = frame
  <2> HIDE DEF X, frame
  <2> QED BY <1>2
<1>7. /\ Split(a \o frame).done = d \o <<text>>
      /\ Split(a \o frame).pending = <<>>
  <2> HIDE DEF X, L, frame, a
  <2>1. Split(a).pending \o frame = frame
    BY <1>1, <1>6
  <2>2. SplitAfter(a, frame) = [done |-> d \o Split(frame).done, pending |-> Split(frame).pending]
    BY <2>1 DEF SplitAfter
  <2> QED BY <1>2, <1>5, <2>2
<1>8. d \in Seq(L) /\ <<text>> \in Seq(L)
  <2>1. d \in Seq(L)
    <3> HIDE DEF a
    <3> QED BY <1>3, SplitTypes
  <2>2. <<text>> \in Seq(L)
    OBVIOUS
  <2> QED BY <2>1, <2>2
<1>9. Short(<<text>>)
  <2>1. ASSUME NEW i \in 1..Len(<<text>>) PROVE Len(<<text>>[i]) <= 2
    <3>1. <<text>>[i] = text
      OBVIOUS
    <3>2. Len(text) <= 2
      OBVIOUS
    <3> QED BY <3>1, <3>2, Zenon
  <2> QED BY <2>1 DEF Short
<1>a. Short(d)
  BY <1>1
<1> HIDE DEF X, L, frame, a, d
<1>10. Short(d \o <<text>>)
  BY <1>8, <1>9, <1>a, ShortParts
<1>11. IsFramed(Q, read, pending, delimited, arrived \o frame, TRUE)
  <2>1. Short(Split(pending \o (arrived \o frame)).done)
    BY <1>4, <1>7, <1>10
  <2>2. Split(pending \o (arrived \o frame)).pending = <<>>
    BY <1>4, <1>7
  <2> QED BY <1>1, <1>3, <2>1, <2>2 DEF IsFramed, X, L
<1> QED BY <1>4, <1>7, <1>11 DEF frame, a, d, ArrivesLast

\* What can be read is what a part of it gives and what the rest gives then.
ReadsOn(pending, data, rest) ==
    Split(pending \o (data \o rest)).done
      = Split(pending \o data).done \o Split(Split(pending \o data).pending \o rest).done

\* A read from delimiter to delimiter takes the texts that can be read first.
LEMMA ReadFramed ==
    ASSUME NEW Q, Delimiter \notin Q, NEW data \in Seq(Q \cup {Delimiter}),
           NEW rest \in Seq(Q \cup {Delimiter}), NEW pending, NEW delimited,
           IsFramed(Q, <<>>, pending, delimited, data \o rest, TRUE)
    PROVE  /\ IsFramed(Q, Split(pending \o data).done, Split(pending \o data).pending, TRUE,
                       rest, TRUE)
           /\ ReadsOn(pending, data, rest)
<1> DEFINE X == Q \cup {Delimiter}
           L == Seq(Q) \ {<<>>}
           a == pending \o data
           b == Split(a)
           c == Split(b.pending \o rest)
<1>1. /\ pending \in Seq(X) /\ Split(pending \o (data \o rest)).pending = <<>>
      /\ Short(Split(pending \o (data \o rest)).done)
  BY DEF IsFramed
<1>2. a \in Seq(X)
  <2> HIDE DEF X
  <2> QED BY <1>1 DEF X
<1>3. pending \o (data \o rest) = a \o rest
  <2> HIDE DEF X
  <2> QED BY <1>1, ConcatAssociative DEF X
<1>4. Split(a \o rest) = SplitAfter(a, rest)
  <2> HIDE DEF a
  <2> QED BY <1>2, SplitConcat
<1>5. Split(a \o rest).done = b.done \o c.done /\ Split(a \o rest).pending = c.pending
  <2>1. SplitAfter(a, rest) = [done |-> b.done \o c.done, pending |-> c.pending]
    BY DEF SplitAfter
  <2> DEFINE d == b.done \o c.done
             p == c.pending
             e == Split(a \o rest)
  <2>2. e = [done |-> d, pending |-> p]
    BY <1>4, <2>1
  <2> HIDE DEF a, b, c, d, p, e
  <2>3. e.done = d /\ e.pending = p
    BY <2>2
  <2> QED BY <2>3 DEF d, e, p
<1>6. b.done \in Seq(L) /\ b.pending \in Seq(Q)
  <2> HIDE DEF a
  <2> QED BY <1>2, SplitTypes
<1>7. b.pending \o rest \in Seq(X)
  <2> DEFINE r == b.pending
  <2>1. r \in Seq(X)
    BY <1>6
  <2> HIDE DEF r
  <2> QED BY <2>1 DEF r
<1>8. c.done \in Seq(L)
  <2> HIDE DEF b
  <2> QED BY <1>7, SplitTypes DEF X, L
<1> HIDE DEF a, b, c, L, X
<1>9. Short(b.done \o c.done) /\ c.pending = <<>>
  BY <1>1, <1>3, <1>5
<1>10. Short(c.done)
  <2> DEFINE d == b.done
             e == c.done
  <2>1. d \in Seq(L) /\ e \in Seq(L) /\ Short(d \o e)
    BY <1>6, <1>8, <1>9
  <2> HIDE DEF d, e
  <2>2. Short(e)
    BY <2>1, ShortParts
  <2> QED BY <2>2 DEF e
<1>11. IsFramed(Q, b.done, b.pending, TRUE, rest, TRUE)
  BY <1>6, <1>9, <1>10 DEF IsFramed, L, c
<1> QED BY <1>3, <1>5, <1>11 DEF a, b, c, ReadsOn

\* A sequence with a delimiter, up to the first one and after it.
LEMMA UpToDelimiter ==
    ASSUME NEW Q, Delimiter \notin Q, NEW s \in Seq(Q \cup {Delimiter}), s \notin Seq(Q)
    PROVE  \E w \in Seq(Q), z \in Seq(Q \cup {Delimiter}) : s = Append(w, Delimiter) \o z
<1> DEFINE X == Q \cup {Delimiter}
           At == {i \in 1..Len(s) : s[i] = Delimiter}
<1>1. Len(s) \in Nat /\ DOMAIN s = 1..Len(s) /\ \A i \in 1..Len(s) : s[i] \in X
  OBVIOUS
<1>2. At # {}
  <2> SUFFICES ASSUME At = {} PROVE FALSE
    OBVIOUS
  <2>1. \A i \in 1..Len(s) : s[i] \in Q
    BY <1>1
  <2>2. s \in [1..Len(s) -> Q]
    BY <1>1, <2>1
  <2>3. s \in Seq(Q)
    BY <1>1, <2>2, SeqDef
  <2> QED BY <2>3
<1>3. PICK k \in At : \A i \in At : k <= i
  <2>1. At \in SUBSET Nat
    OBVIOUS
  <2> HIDE DEF At
  <2> QED BY <1>2, <2>1, LeastNatural
<1>4. k \in 1..Len(s) /\ s[k] = Delimiter /\ \A i \in 1..(k - 1) : s[i] \in Q
  <2>1. k \in 1..Len(s) /\ s[k] = Delimiter
    BY <1>3
  <2>2. ASSUME NEW i \in 1..(k - 1) PROVE s[i] \in Q
    <3>1. i \in 1..Len(s) /\ ~(k <= i)
      BY <1>1, <2>1
    <3>2. s[i] # Delimiter
      BY <1>3, <3>1
    <3> QED BY <1>1, <3>1, <3>2
  <2> QED BY <2>1, <2>2
<1> HIDE DEF At
<1> DEFINE w == [i \in 1..(k - 1) |-> s[i]]
           n == Len(s) - k
           z == [i \in 1..n |-> s[k + i]]
<1>5. k - 1 \in Nat /\ n \in Nat
  BY <1>1, <1>4
<1>6. w \in Seq(Q) /\ Len(w) = k - 1
  <2>1. w \in [1..(k - 1) -> Q]
    BY <1>4
  <2> HIDE DEF w
  <2> QED BY <1>5, <2>1, SeqDef, LenProperties
<1>7. z \in Seq(X) /\ Len(z) = n
  <2>1. z \in [1..n -> X]
    BY <1>1, <1>4
  <2> HIDE DEF z, n
  <2> QED BY <1>5, <2>1, SeqDef, LenProperties
<1>8. Append(w, Delimiter) \in Seq(X) /\ Len(Append(w, Delimiter)) = k
  <2> HIDE DEF w
  <2>1. w \in Seq(X)
    BY <1>6
  <2> QED BY <1>4, <1>6, <2>1, AppendProperties
<1> DEFINE v == Append(w, Delimiter)
<1>9. \A i \in 1..k : v[i] = s[i]
  <2>1. \A i \in 1..(k - 1) : v[i] = w[i] /\ w[i] = s[i]
    <3>1. \A i \in 1..(k - 1) : w[i] = s[i]
      OBVIOUS
    <3> HIDE DEF w
    <3>2. w \in Seq(X) /\ Delimiter \in X
      BY <1>6
    <3>3. \A i \in 1..(k - 1) : v[i] = w[i]
      BY <1>6, <3>2, AppendProperties
    <3> QED BY <3>1, <3>3
  <2>2. v[k] = Delimiter
    <3> HIDE DEF w
    <3>1. w \in Seq(X) /\ Delimiter \in X
      BY <1>6
    <3>2. v[(k - 1) + 1] = Delimiter
      BY <1>6, <3>1, AppendProperties
    <3>3. (k - 1) + 1 = k
      BY <1>1, <1>4
    <3> QED BY <3>2, <3>3
  <2> HIDE DEF v, w
  <2> QED BY <1>4, <1>5, <2>1, <2>2
<1> HIDE DEF v, X
<1>10. v \o z \in Seq(X) /\ Len(v \o z) = Len(s)
  <2> HIDE DEF z
  <2> QED BY <1>4, <1>5, <1>7, <1>8, ConcatProperties DEF v, n
<1>11. \A i \in 1..Len(s) : (v \o z)[i] = s[i]
  <2> SUFFICES ASSUME NEW i \in 1..Len(s) PROVE (v \o z)[i] = s[i]
    OBVIOUS
  <2>1. (v \o z)[i] = IF i <= k THEN v[i] ELSE z[i - k]
    <3> HIDE DEF z
    <3> QED BY <1>4, <1>5, <1>7, <1>8 DEF v, n
  <2>2. i <= k => i \in 1..k
    OBVIOUS
  <2>3. ~(i <= k) => i - k \in 1..n /\ z[i - k] = s[i]
    BY <1>1, <1>4, <1>5
  <2> HIDE DEF z
  <2>4. CASE i <= k
    BY <1>9, <2>1, <2>2, <2>4
  <2>5. CASE ~(i <= k)
    BY <2>1, <2>3, <2>5
  <2> QED BY <2>4, <2>5
<1>12. s = v \o z
  <2> HIDE DEF z
  <2>1. s \in Seq(X)
    BY DEF X
  <2> QED BY <1>10, <1>11, <2>1, SeqEqual
<1> QED BY <1>6, <1>7, <1>12 DEF v, X

\* The list of a text, if there is one.
Listed(text) == IF text = <<>> THEN <<>> ELSE <<text>>

LEMMA SplitFirst ==
    ASSUME NEW Q, Delimiter \notin Q, NEW text \in Seq(Q), NEW y \in Seq(Q \cup {Delimiter})
    PROVE  /\ Split(Append(text, Delimiter) \o y).done = Listed(text) \o Split(y).done
           /\ Split(Append(text, Delimiter) \o y).pending = Split(y).pending
<1> DEFINE frame == Append(text, Delimiter)
           d == Listed(text) \o Split(y).done
           p == Split(y).pending
           e == Split(frame \o y)
<1>1. /\ frame \in Seq(Q \cup {Delimiter})
      /\ Split(frame).done = Listed(text) /\ Split(frame).pending = <<>>
  BY SplitText DEF Listed
<1> HIDE DEF frame
<1>2. Split(frame \o y) = SplitAfter(frame, y)
  BY <1>1, SplitConcat
<1>3. <<>> \o y = y
  OBVIOUS
<1>4. Split(Split(frame).pending \o y) = Split(y)
  BY <1>1, <1>3
<1>5. SplitAfter(frame, y) = [done |-> d, pending |-> p]
  BY <1>1, <1>4 DEF SplitAfter
<1>6. e = [done |-> d, pending |-> p]
  BY <1>2, <1>5
<1> HIDE DEF d, p, e
<1>7. e.done = d /\ e.pending = p
  BY <1>6
<1> QED BY <1>7 DEF d, p, e, frame

\* What was read is the first text that could be read, or a piece of it.
ReadsFirst(Q, data, rest) ==
    \E w \in Seq(Q), z \in Seq(Seq(Q) \ {<<>>}) :
        /\ Len(data \o w) <= 2
        /\ Split(<<>> \o (data \o rest)).done = <<data \o w>> \o z
        /\ Split(<<>> \o rest).done = Listed(w) \o z

\* A first read without a delimiter is a text, whether it is the next one, the
\* beginning or the end of it.
LEMMA FirstReadFramed ==
    ASSUME NEW Q, Delimiter \notin Q, NEW data \in Seq(Q) \ {<<>>},
           NEW rest \in Seq(Q \cup {Delimiter}), NEW delimited,
           IsFramed(Q, <<>>, <<>>, delimited, data \o rest, TRUE)
    PROVE  /\ IsFramed(Q, <<data>>, <<>>, delimited, rest, TRUE)
           /\ ReadsFirst(Q, data, rest)
<1> DEFINE X == Q \cup {Delimiter}
           L == Seq(Q) \ {<<>>}
<1>0. data \in Seq(X) /\ rest \in Seq(X)
  OBVIOUS
<1>1. data \o rest \in Seq(X)
  <2> HIDE DEF X
  <2> QED BY <1>0
<1>2. <<>> \o rest = rest /\ <<>> \o (data \o rest) = data \o rest
  <2> HIDE DEF X
  <2> QED BY <1>0, <1>1, ConcatEmptySeq
<1>3. Split(data \o rest).pending = <<>> /\ Short(Split(data \o rest).done)
  BY <1>2 DEF IsFramed
<1>4. rest \notin Seq(Q)
  <2> SUFFICES ASSUME rest \in Seq(Q) PROVE FALSE
    OBVIOUS
  <2>1. data \o rest \in Seq(Q) /\ data \o rest # <<>>
    <3>1. Len(data) > 0 /\ Len(rest) >= 0 /\ Len(data \o rest) = Len(data) + Len(rest)
      OBVIOUS
    <3> QED BY <3>1
  <2>2. Split(data \o rest) = [done |-> <<>>, pending |-> data \o rest]
    BY <2>1, SplitPlain
  <2> QED BY <1>3, <2>1, <2>2
<1>5. PICK w \in Seq(Q), y \in Seq(X) : rest = Append(w, Delimiter) \o y
  BY <1>4, UpToDelimiter
<1> DEFINE text == data \o w
           z == Split(y).done
<1>6. text \in Seq(Q) /\ text # <<>>
  <2>1. Len(data) > 0 /\ Len(w) >= 0 /\ Len(data \o w) = Len(data) + Len(w)
    OBVIOUS
  <2> QED BY <2>1
<1>7. data \o rest = Append(text, Delimiter) \o y
  <2>1. w \in Seq(X) /\ Append(w, Delimiter) \in Seq(X) /\ Delimiter \in X
    OBVIOUS
  <2> DEFINE f == Append(w, Delimiter)
  <2>2. data \o f = Append(text, Delimiter)
    <3> HIDE DEF X
    <3> QED BY <1>0, <2>1, ConcatAppend
  <2>a. data \in Seq(X) /\ f \in Seq(X) /\ y \in Seq(X)
    BY <1>0, <2>1
  <2> HIDE DEF X, f, text
  <2>3. (data \o f) \o y = data \o (f \o y)
    BY <2>a, ConcatAssociative
  <2> QED BY <1>5, <2>2, <2>3 DEF f
<1> HIDE DEF text
<1>8. /\ Split(data \o rest).done = Listed(text) \o z
      /\ Split(data \o rest).pending = Split(y).pending
  BY <1>6, <1>7, SplitFirst
<1>9. /\ Split(rest).done = Listed(w) \o z
      /\ Split(rest).pending = Split(y).pending
  BY <1>5, SplitFirst
<1>10. Listed(text) = <<text>>
  BY <1>6 DEF Listed
<1>11. z \in Seq(L) /\ <<text>> \in Seq(L) /\ Listed(w) \in Seq(L)
  <2>1. z \in Seq(L)
    BY SplitTypes
  <2>2. <<text>> \in Seq(L)
    BY <1>6
  <2>3. Listed(w) \in Seq(L)
    <3>1. CASE w = <<>>
      BY <3>1 DEF Listed
    <3>2. CASE w # <<>>
      <4>1. w \in L /\ Listed(w) = <<w>>
        BY <3>2 DEF Listed
      <4> HIDE DEF L
      <4> QED BY <4>1
    <3> QED BY <3>1, <3>2
  <2> QED BY <2>1, <2>2, <2>3
<1> HIDE DEF z, L
<1>12. Short(<<text>>) /\ Short(z)
  <2>1. Short(<<text>> \o z)
    BY <1>3, <1>8, <1>10
  <2> QED BY <1>11, <2>1, ShortParts
<1>13. Len(text) <= 2
  <2>1. Len(<<text>>) = 1 /\ <<text>>[1] = text /\ 1 \in 1..1
    OBVIOUS
  <2> QED BY <1>12, <2>1 DEF Short
<1>14. Short(Listed(w))
  <2>1. CASE w = <<>>
    <3>1. Len(<<>>) = 0
      OBVIOUS
    <3> QED BY <2>1, <3>1 DEF Listed, Short
  <2>2. CASE w # <<>>
    <3>1. Len(w) <= 2
      <4>1. Len(text) = Len(data) + Len(w) /\ Len(data) \in Nat /\ Len(w) \in Nat
        BY DEF text
      <4> QED BY <1>13, <4>1
    <3>2. ASSUME NEW i \in 1..Len(<<w>>) PROVE Len(<<w>>[i]) <= 2
      <4>1. <<w>>[i] = w
        OBVIOUS
      <4> QED BY <3>1, <4>1, Zenon
    <3> QED BY <2>2, <3>2 DEF Listed, Short
  <2> QED BY <2>1, <2>2
<1>15. Short(Listed(w) \o z)
  BY <1>11, <1>12, <1>14, ShortParts
<1>16. IsFramed(Q, <<data>>, <<>>, delimited, rest, TRUE)
  <2>1. Split(<<>> \o rest).pending = <<>> /\ Short(Split(<<>> \o rest).done)
    BY <1>2, <1>3, <1>8, <1>9, <1>15
  <2>2. <<data>> \in Seq(Seq(Q) \ {<<>>}) /\ <<>> \in Seq(Q)
    OBVIOUS
  <2> QED BY <2>1, <2>2 DEF IsFramed
<1>17. /\ Split(<<>> \o (data \o rest)).done = <<text>> \o z
       /\ Split(<<>> \o rest).done = Listed(w) \o z
  BY <1>2, <1>8, <1>9, <1>10
<1> QED BY <1>11, <1>13, <1>16, <1>17 DEF text, L, ReadsFirst

-----------------------------------------------------------------------------
(* What is left of a list. *)

LEMMA ThinnedAround ==
    ASSUME NEW R, NEW a \in Seq(R), NEW b \in Seq(R), NEW c \in Seq(R)
    PROVE  Fifo!Thinned(a \o b, a \o (c \o b))
<1> DEFINE t == a \o b
           s == a \o (c \o b)
           m == Len(a) + Len(b)
           n == Len(a) + Len(c) + Len(b)
           kept == [i \in 1..m |-> IF i <= Len(a) THEN i ELSE i + Len(c)]
<1>1. Len(a) \in Nat /\ Len(b) \in Nat /\ Len(c) \in Nat
  OBVIOUS
<1>2. /\ t \in Seq(R) /\ Len(t) = m
      /\ \A i \in 1..m : t[i] = IF i <= Len(a) THEN a[i] ELSE b[i - Len(a)]
  BY ConcatProperties
<1>3. /\ Len(s) = n
      /\ \A i \in 1..n : s[i] = IF i <= Len(a) THEN a[i] ELSE (c \o b)[i - Len(a)]
  <2>1. c \o b \in Seq(R) /\ Len(c \o b) = Len(c) + Len(b)
    BY ConcatProperties
  <2>2. /\ Len(s) = Len(a) + Len(c \o b)
        /\ \A i \in 1..(Len(a) + Len(c \o b)) :
              s[i] = IF i <= Len(a) THEN a[i] ELSE (c \o b)[i - Len(a)]
    BY <2>1, ConcatProperties
  <2>3. Len(a) + Len(c \o b) = n
    BY <1>1, <2>1
  <2> QED BY <2>2, <2>3
<1>4. \A i \in 1..(Len(c) + Len(b)) : (c \o b)[i] = IF i <= Len(c) THEN c[i] ELSE b[i - Len(c)]
  BY ConcatProperties
<1> HIDE DEF t, s
<1>5. kept \in [1..m -> 1..n]
  BY <1>1
<1>6. \A i, j \in DOMAIN kept : i < j => kept[i] < kept[j]
  BY <1>1
<1>7. ASSUME NEW i \in 1..m PROVE t[i] = s[kept[i]]
  <2>1. CASE i <= Len(a)
    <3>1. kept[i] = i /\ i \in 1..n
      BY <1>1, <2>1
    <3> QED BY <1>2, <1>3, <2>1, <3>1
  <2>2. CASE ~(i <= Len(a))
    <3>1. /\ kept[i] = i + Len(c) /\ i + Len(c) \in 1..n /\ ~(i + Len(c) <= Len(a))
          /\ (i + Len(c)) - Len(a) \in 1..(Len(c) + Len(b))
          /\ ~((i + Len(c)) - Len(a) <= Len(c))
          /\ ((i + Len(c)) - Len(a)) - Len(c) = i - Len(a)
      BY <1>1, <2>2
    <3> HIDE DEF kept, m, n
    <3>2. s[kept[i]] = (c \o b)[(i + Len(c)) - Len(a)]
      BY <1>3, <3>1
    <3>3. s[kept[i]] = b[i - Len(a)]
      BY <1>4, <3>1, <3>2
    <3> QED BY <1>2, <2>2, <3>3
  <2> QED BY <2>1, <2>2
<1> HIDE DEF m, n
<1>8. t = [i \in DOMAIN kept |-> s[kept[i]]]
  <2>1. DOMAIN t = 1..m /\ t = [i \in 1..m |-> t[i]]
    BY <1>2
  <2> QED BY <1>7, <2>1
<1> HIDE DEF kept
<1>9. kept \in [1..Len(t) -> 1..Len(s)]
  BY <1>2, <1>3, <1>5
<1> QED BY <1>6, <1>8, <1>9 DEF Fifo!Thinned, t, s

LEMMA ThinnedSame ==
    ASSUME NEW R, NEW s \in Seq(R)
    PROVE  Fifo!Thinned(s, s)
<1>1. <<>> \in Seq(R) /\ <<>> \o s = s
  OBVIOUS
<1>2. Fifo!Thinned(<<>> \o s, <<>> \o (<<>> \o s))
  BY <1>1, ThinnedAround
<1> QED BY <1>1, <1>2

-----------------------------------------------------------------------------
(* Messages, their texts and their pieces. *)

PartsOfOthers(v) == {p \in Parts : p.msg.sender # v}
Texts(u) == {Body(m) : m \in MessagesOf(u)}
WholeMessages == [msg : Messages, whole : {TRUE}]

LEMMA SenderIsVehicle ==
    ASSUME NEW m \in Messages
    PROVE  m.sender \in Vehicles
<1>1. PICK v \in Vehicles : m \in [sender : {v}, id : 1..Says[v]]
  BY DEF Messages
<1> QED BY <1>1

LEMMA NextMessage ==
    ASSUME NEW v \in Vehicles, NEW n \in Nat, n < Says[v]
    PROVE  [sender |-> v, id |-> n + 1] \in MessagesOf(v)
<1>1. n + 1 \in 1..Says[v]
  BY BridgeAssumption
<1>2. [sender |-> v, id |-> n + 1] \in [sender : {v}, id : 1..Says[v]]
  BY <1>1
<1> QED BY <1>2 DEF MessagesOf, Messages

LEMMA OthersNoDelimiter ==
    ASSUME NEW v
    PROVE  Delimiter \notin PartsOfOthers(v)
BY DelimiterAssumption DEF PartsOfOthers

LEMMA BodyOfOther ==
    ASSUME NEW m \in Messages, NEW v, m.sender # v
    PROVE  Body(m) \in Seq(PartsOfOthers(v)) \ {<<>>}
<1>1. [msg |-> m, part |-> 1] \in PartsOfOthers(v) /\ [msg |-> m, part |-> 2] \in PartsOfOthers(v)
  BY DEF PartsOfOthers, Parts
<1> HIDE DEF PartsOfOthers
<1> QED BY <1>1 DEF Body

LEMMA BodyFacts ==
    ASSUME NEW m
    PROVE  Len(Body(m)) = 2 /\ Body(m)[1].msg = m /\ Frame(m) = Append(Body(m), Delimiter)
BY DEF Body, Frame

\* What is picked from texts, from what was said, and from what was heard.
LEMMA Pickers ==
    ASSUME NEW u
    PROVE  /\ TextsOf(u) \in [Texts(u) -> MessagesOf(u)]
           /\ \A m \in MessagesOf(u) : Body(m) \in Texts(u) /\ TextsOf(u)[Body(m)] = m
           /\ OwnOf(u) \in [MessagesOf(u) -> MessagesOf(u)]
           /\ \A m \in MessagesOf(u) : OwnOf(u)[m] = m
           /\ Whole \in [WholeMessages -> Messages]
           /\ \A h \in WholeMessages : Whole[h] = h.msg
<1>1. ASSUME NEW text \in Texts(u) PROVE text[1].msg \in MessagesOf(u)
  <2>1. PICK m \in MessagesOf(u) : text = Body(m)
    BY DEF Texts
  <2>2. text[1].msg = m
    BY <2>1, BodyFacts
  <2> QED BY <2>2
<1>2. TextsOf(u) = [text \in Texts(u) |-> text[1].msg]
  BY DEF TextsOf, Texts
<1>3. TextsOf(u) \in [Texts(u) -> MessagesOf(u)]
  BY <1>1, <1>2
<1>4. ASSUME NEW m \in MessagesOf(u)
      PROVE  Body(m) \in Texts(u) /\ TextsOf(u)[Body(m)] = m
  <2>1. Body(m) \in Texts(u)
    BY DEF Texts
  <2>2. TextsOf(u)[Body(m)] = Body(m)[1].msg
    BY <1>2, <2>1
  <2> QED BY <2>1, <2>2, BodyFacts
<1>5. OwnOf(u) \in [MessagesOf(u) -> MessagesOf(u)] /\ \A m \in MessagesOf(u) : OwnOf(u)[m] = m
  BY DEF OwnOf
<1>6. Whole \in [WholeMessages -> Messages] /\ \A h \in WholeMessages : Whole[h] = h.msg
  BY DEF Whole, WholeMessages
<1> QED BY <1>3, <1>4, <1>5, <1>6

\* A text is parsed as its message when it is the whole of it, and only then.
LEMMA ParsedCases ==
    ASSUME NEW v, NEW text \in Seq(PartsOfOthers(v)) \ {<<>>}, NEW p \in Parsed(text)
    PROVE  /\ text[1].msg \in Messages /\ text[1].msg.sender # v
           /\ \/ /\ text = Body(text[1].msg)
                 /\ p = <<[msg |-> text[1].msg, whole |-> TRUE]>>
              \/ /\ text # Body(text[1].msg)
                 /\ p = <<>> \/ p = <<[msg |-> text[1].msg, whole |-> FALSE]>>
<1>1. text[1] \in PartsOfOthers(v)
  <2>1. text \in Seq(PartsOfOthers(v)) /\ Len(text) # 0 /\ Len(text) \in Nat
    OBVIOUS
  <2>2. 1 \in 1..Len(text)
    BY <2>1
  <2> QED BY <2>1, <2>2, ElementOfSeq
<1>2. text[1].msg \in Messages /\ text[1].msg.sender # v
  BY <1>1 DEF PartsOfOthers, Parts
<1> QED BY <1>2 DEF Parsed

-----------------------------------------------------------------------------
(* The invariant. *)

\* What a vehicle has read and can read are texts of the others, and what it is sent
\* over ROS does not come that way.
Framed(v) ==
    /\ IsFramed(PartsOfOthers(v), texts[v], framer[v].pending, framer[v].delimited, stream[v],
                connected[v])
    /\ over_ros => texts[v] = <<>> /\ framer[v].pending = <<>> /\ stream[v] = <<>>

BridgeInv == TypeOK /\ \A v \in Vehicles : Framed(v)

LEMMA BridgeInit == Init => BridgeInv
<1> SUFFICES ASSUME Init PROVE BridgeInv
  OBVIOUS
<1>1. TypeOK
  <2>1. \A v \in Vehicles : Says[v] \in Nat
    BY BridgeAssumption
  <2>2. said \in [Vehicles -> Nat] /\ \A v \in Vehicles : said[v] <= Says[v]
    BY <2>1 DEF Init
  <2>3. /\ pending_msgs \in [Vehicles -> Seq(Messages)]
        /\ stream \in [Vehicles -> Seq(Parts \cup {Delimiter})]
        /\ texts \in [Vehicles -> Seq(Seq(Parts))] /\ heard \in [Vehicles -> Seq(Heard)]
    BY DEF Init
  <2>4. framer \in [Vehicles -> [pending : Seq(Parts), delimited : BOOLEAN]]
    BY DEF Init
  <2> QED BY <2>2, <2>3, <2>4 DEF Init, TypeOK
<1>2. ASSUME NEW v \in Vehicles PROVE Framed(v)
  <2>1. /\ texts[v] = <<>> /\ framer[v].pending = <<>> /\ stream[v] = <<>>
        /\ framer[v].delimited \in BOOLEAN /\ connected[v] \in BOOLEAN
    BY DEF Init
  <2> QED BY <2>1, NothingFramed DEF Framed
<1> QED BY <1>1, <1>2 DEF BridgeInv

\* The first of a list that is not empty, and the others.
LEMMA HeadFirst ==
    ASSUME NEW S, NEW s \in Seq(S), s # <<>>
    PROVE  /\ Head(s) \in S /\ Tail(s) \in Seq(S) /\ <<Head(s)>> \in Seq(S)
           /\ s = <<Head(s)>> \o Tail(s)
<1>1. Head(s) \in S /\ Tail(s) \in Seq(S) /\ Len(s) # 0 /\ Len(Tail(s)) = Len(s) - 1
  BY HeadTailProperties
<1> DEFINE h == Head(s)
           t == Tail(s)
<1>2. h = s[1] /\ \A i \in 1..(Len(s) - 1) : t[i] = s[i + 1]
  BY HeadTailProperties
<1>3. h \in S /\ t \in Seq(S) /\ Len(t) = Len(s) - 1 /\ Len(s) \in Nat /\ Len(s) # 0
  BY <1>1
<1> HIDE DEF h, t
<1>4. /\ <<h>> \o t \in Seq(S) /\ Len(<<h>> \o t) = 1 + Len(t)
      /\ \A i \in 1..(1 + Len(t)) : (<<h>> \o t)[i] = IF i <= 1 THEN <<h>>[i] ELSE t[i - 1]
  <2>1. <<h>> \in Seq(S) /\ Len(<<h>>) = 1
    BY <1>3
  <2> QED BY <1>3, <2>1, ConcatProperties
<1>5. ASSUME NEW i \in 1..Len(s) PROVE s[i] = (<<h>> \o t)[i]
  <2>1. i \in 1..(1 + Len(t))
    BY <1>3
  <2>2. (<<h>> \o t)[i] = IF i <= 1 THEN <<h>>[i] ELSE t[i - 1]
    BY <1>4, <2>1
  <2>3. CASE i <= 1
    <3>1. i = 1 /\ <<h>>[1] = h
      BY <2>3
    <3> QED BY <1>2, <2>2, <2>3, <3>1
  <2>4. CASE ~(i <= 1)
    <3>1. i - 1 \in 1..(Len(s) - 1) /\ (i - 1) + 1 = i
      BY <1>3, <2>4
    <3> QED BY <1>2, <2>2, <2>4, <3>1
  <2> QED BY <2>3, <2>4
<1>6. s = <<h>> \o t
  <2>1. Len(s) = Len(<<h>> \o t)
    BY <1>3, <1>4
  <2> QED BY <1>4, <1>5, <2>1, SeqEqual
<1>7. <<h>> \in Seq(S)
  BY <1>3
<1> QED BY <1>3, <1>6, <1>7 DEF h, t

LEMMA PickedFirst ==
    ASSUME NEW D, NEW R, NEW f \in [D -> R], NEW X, NEW s \in Seq(X), s # <<>>
    PROVE  /\ Head(s) \in D => Picked(s, f) = <<f[Head(s)]>> \o Picked(Tail(s), f)
           /\ Head(s) \notin D => Picked(s, f) = Picked(Tail(s), f)
<1> DEFINE h == Head(s)
           t == Tail(s)
           b == Picked(t, f)
<1>1. t \in Seq(X) /\ <<h>> \in Seq(X) /\ s = <<h>> \o t
  BY HeadFirst
<1> HIDE DEF h, t
<1>2. Picked(<<h>> \o t, f) = Picked(<<h>>, f) \o b
  BY <1>1, PickedConcat
<1>3. Picked(<<h>>, f) = IF h \in D THEN <<f[h]>> ELSE <<>>
  BY PickedOne
<1>4. b \in Seq(R)
  BY <1>1, PickedTypes
<1> HIDE DEF b
<1>5. <<>> \o b = b
  BY <1>4
<1>6. CASE h \in D
  BY <1>1, <1>2, <1>3, <1>6 DEF h, t, b
<1>7. CASE h \notin D
  BY <1>1, <1>2, <1>3, <1>5, <1>7 DEF h, t, b
<1> QED BY <1>6, <1>7 DEF h

LEMMA FramedSame ==
    ASSUME NEW v, Framed(v), over_ros' = over_ros, texts'[v] = texts[v],
           framer'[v] = framer[v], stream'[v] = stream[v], connected'[v] = connected[v]
    PROVE  Framed(v)'
BY DEF Framed

LEMMA SayInv == ASSUME BridgeInv, NEW v \in Vehicles, Say(v) PROVE BridgeInv'
<1>1. [sender |-> v, id |-> said[v] + 1] \in Messages
  BY NextMessage DEF BridgeInv, TypeOK, Say, MessagesOf
<1>2. said' \in [Vehicles -> Nat] /\ \A u \in Vehicles : said'[u] <= Says[u]
  <2>1. said \in [Vehicles -> Nat] /\ \A u \in Vehicles : said[u] <= Says[u] /\ Says[u] \in Nat
    BY BridgeAssumption DEF BridgeInv, TypeOK
  <2> QED BY <2>1 DEF Say
<1>3. pending_msgs' \in [Vehicles -> Seq(Messages)]
  <2> DEFINE m == [sender |-> v, id |-> said[v] + 1]
             s == pending_msgs[v]
  <2>1. pending_msgs \in [Vehicles -> Seq(Messages)] /\ s \in Seq(Messages) /\ m \in Messages
    BY <1>1 DEF BridgeInv, TypeOK
  <2>2. pending_msgs' = [pending_msgs EXCEPT ![v] = Append(s, m)]
    BY DEF Say
  <2> HIDE DEF m, s
  <2>3. Append(s, m) \in Seq(Messages)
    BY <2>1
  <2> QED BY <2>1, <2>2, <2>3
<1>4. TypeOK'
  BY <1>2, <1>3 DEF BridgeInv, TypeOK, Say
<1>5. ASSUME NEW u \in Vehicles PROVE Framed(u)'
  BY FramedSame DEF BridgeInv, Say
<1> QED BY <1>4, <1>5 DEF BridgeInv

\* The message the comm node looks at is the first of those it heard on its topic.
LEMMA LooksAt ==
    ASSUME BridgeInv, NEW v \in Vehicles, pending_msgs[v] # <<>>
    PROVE  /\ pending_msgs[v] \in Seq(Messages) /\ Tail(pending_msgs[v]) \in Seq(Messages)
           /\ Head(pending_msgs[v]) \in Messages
           /\ IsOwn(v) => Head(pending_msgs[v]) \in MessagesOf(v)
<1>1. pending_msgs[v] \in Seq(Messages)
  BY DEF BridgeInv, TypeOK
<1>2. Head(pending_msgs[v]) \in Messages /\ Tail(pending_msgs[v]) \in Seq(Messages)
  BY <1>1, HeadTailProperties
<1> QED BY <1>1, <1>2 DEF IsOwn, MessagesOf

LEMMA SkipInv == ASSUME BridgeInv, NEW v \in Vehicles, Skip(v) PROVE BridgeInv'
<1>1. pending_msgs' \in [Vehicles -> Seq(Messages)]
  <2>1. pending_msgs' = [pending_msgs EXCEPT ![v] = Tail(pending_msgs[v])]
    BY DEF Skip
  <2>2. Tail(pending_msgs[v]) \in Seq(Messages)
    BY LooksAt DEF Skip, Takes
  <2> QED BY <2>1, <2>2 DEF BridgeInv, TypeOK
<1>2. TypeOK'
  BY <1>1 DEF BridgeInv, TypeOK, Skip
<1>3. ASSUME NEW u \in Vehicles PROVE Framed(u)'
  BY FramedSame DEF BridgeInv, Skip
<1> QED BY <1>2, <1>3 DEF BridgeInv

LEMMA PublishInv == ASSUME BridgeInv, NEW v \in Vehicles, Publish(v) PROVE BridgeInv'
<1> DEFINE m == Head(pending_msgs[v])
           h == [msg |-> m, whole |-> TRUE]
<1>1. /\ Tail(pending_msgs[v]) \in Seq(Messages) /\ m \in Messages
  BY LooksAt DEF Publish, Takes
<1>2. h \in Heard
  BY <1>1 DEF Heard
<1>3. /\ pending_msgs' = [u \in Vehicles |->
             IF u = v THEN Tail(pending_msgs[u]) ELSE Append(pending_msgs[u], m)]
      /\ heard' = [u \in Vehicles |-> IF u = v THEN heard[u] ELSE Append(heard[u], h)]
  BY DEF Publish
<1> HIDE DEF m, h
<1>4. ASSUME NEW u \in Vehicles
      PROVE  Append(pending_msgs[u], m) \in Seq(Messages) /\ Append(heard[u], h) \in Seq(Heard)
  <2> DEFINE s == pending_msgs[u]
             t == heard[u]
  <2>1. s \in Seq(Messages) /\ t \in Seq(Heard)
    BY DEF BridgeInv, TypeOK
  <2> HIDE DEF s, t
  <2>2. Append(s, m) \in Seq(Messages) /\ Append(t, h) \in Seq(Heard)
    BY <1>1, <1>2, <2>1
  <2> QED BY <2>2 DEF s, t
<1>5. pending_msgs' \in [Vehicles -> Seq(Messages)]
  BY <1>1, <1>3, <1>4
<1>6. heard' \in [Vehicles -> Seq(Heard)]
  BY <1>3, <1>4 DEF BridgeInv, TypeOK
<1>7. TypeOK'
  BY <1>5, <1>6 DEF BridgeInv, TypeOK, Publish
<1>8. ASSUME NEW u \in Vehicles PROVE Framed(u)'
  BY FramedSame DEF BridgeInv, Publish
<1> QED BY <1>7, <1>8 DEF BridgeInv

\* Who is connected gets the text of the message and its delimiter.
LEMMA WriteIs ==
    ASSUME BridgeInv, NEW v \in Vehicles, Write(v)
    PROVE  LET m == Head(pending_msgs[v])
           IN  /\ m \in MessagesOf(v) /\ m \in Messages
               /\ \A u \in Vehicles :
                     IF u # v /\ connected[v] /\ connected[u]
                     THEN stream'[u] = stream[u] \o Append(Body(m), Delimiter)
                     ELSE stream'[u] = stream[u]
<1> DEFINE m == Head(pending_msgs[v])
<1>1. m \in MessagesOf(v) /\ m \in Messages
  BY LooksAt DEF Write, Takes
<1>2. stream' = [u \in Vehicles |-> IF u # v /\ connected[v] /\ connected[u]
                                    THEN stream[u] \o Frame(m) ELSE stream[u]]
  BY DEF Write
<1>3. Frame(m) = Append(Body(m), Delimiter)
  BY BodyFacts
<1> HIDE DEF m
<1>4. \A u \in Vehicles : stream'[u] = IF u # v /\ connected[v] /\ connected[u]
                                      THEN stream[u] \o Frame(m) ELSE stream[u]
  BY <1>2
<1> QED BY <1>1, <1>3, <1>4 DEF m

LEMMA WriteInv == ASSUME BridgeInv, NEW v \in Vehicles, Write(v) PROVE BridgeInv'
<1> DEFINE m == Head(pending_msgs[v])
           text == Body(m)
<1>1. /\ m \in MessagesOf(v) /\ m \in Messages /\ Tail(pending_msgs[v]) \in Seq(Messages)
      /\ \A u \in Vehicles :
            IF u # v /\ connected[v] /\ connected[u]
            THEN stream'[u] = stream[u] \o Append(text, Delimiter)
            ELSE stream'[u] = stream[u]
  BY WriteIs, LooksAt DEF Write, Takes
<1>2. UNCHANGED <<over_ros, said, connected, framer, texts, heard>> /\ ~over_ros
  BY DEF Write
<1>3. pending_msgs' \in [Vehicles -> Seq(Messages)]
  <2>1. pending_msgs' = [pending_msgs EXCEPT ![v] = Tail(pending_msgs[v])]
    BY DEF Write
  <2> QED BY <1>1, <2>1 DEF BridgeInv, TypeOK
<1>4. Len(text) = 2
  BY BodyFacts
<1> HIDE DEF m, text
<1>5. ASSUME NEW u \in Vehicles PROVE Framed(u)'
  <2>1. CASE u # v /\ connected[v] /\ connected[u]
    <3> DEFINE Q == PartsOfOthers(u)
               arrived == stream[u] \o Append(text, Delimiter)
    <3>1. m.sender # u
      BY <1>1, <2>1 DEF MessagesOf
    <3>2. text \in Seq(Q) \ {<<>>} /\ Delimiter \notin Q
      BY <1>1, <3>1, BodyOfOther, OthersNoDelimiter DEF text
    <3>3. IsFramed(Q, texts[u], framer[u].pending, framer[u].delimited, stream[u], TRUE)
      BY <2>1 DEF BridgeInv, TypeOK, Framed
    <3>4. IsFramed(Q, texts[u], framer[u].pending, framer[u].delimited, arrived, TRUE)
      <4> HIDE DEF Q
      <4> QED BY <1>4, <3>2, <3>3, ArrivedText
    <3>5. stream'[u] = arrived /\ connected'[u] = TRUE
      BY <1>1, <1>2, <2>1 DEF BridgeInv, TypeOK
    <3> HIDE DEF arrived
    <3> QED BY <1>2, <3>4, <3>5 DEF Framed
  <2>2. CASE ~(u # v /\ connected[v] /\ connected[u])
    BY <1>1, <1>2, <2>2, FramedSame DEF BridgeInv
  <2> QED BY <2>1, <2>2
<1>6. stream' \in [Vehicles -> Seq(Parts \cup {Delimiter})]
  <2>1. stream' = [u \in Vehicles |-> stream'[u]]
    BY DEF Write
  <2>2. ASSUME NEW u \in Vehicles PROVE stream'[u] \in Seq(Parts \cup {Delimiter})
    <3>1. stream'[u] \in Seq(PartsOfOthers(u) \cup {Delimiter})
      BY <1>5 DEF Framed, IsFramed
    <3>2. PartsOfOthers(u) \cup {Delimiter} \subseteq Parts \cup {Delimiter}
      BY DEF PartsOfOthers
    <3> QED BY <3>1, <3>2, SeqMonotonic
  <2> QED BY <2>1, <2>2
<1>7. TypeOK'
  BY <1>2, <1>3, <1>6 DEF BridgeInv, TypeOK
<1> QED BY <1>5, <1>7 DEF BridgeInv

-----------------------------------------------------------------------------
(* Reading. *)

LEMMA CutInTwo ==
    ASSUME NEW X, NEW s \in Seq(X), NEW n \in 1..Len(s)
    PROVE  /\ SubSeq(s, 1, n) \in Seq(X) \ {<<>>} /\ SubSeq(s, n + 1, Len(s)) \in Seq(X)
           /\ s = SubSeq(s, 1, n) \o SubSeq(s, n + 1, Len(s))
<1> DEFINE a == SubSeq(s, 1, n)
           b == SubSeq(s, n + 1, Len(s))
           m == Len(s)
<1>1. m \in Nat /\ n \in 1..m
  OBVIOUS
<1>2. a \in Seq(X) /\ Len(a) = n /\ \A i \in 1..n : a[i] = s[i]
  <2>1. \A i \in 1..n : s[i] \in X
    BY <1>1
  <2>2. a = [i \in 1..n |-> s[i]]
    BY <1>1
  <2>3. [i \in 1..n |-> s[i]] \in [1..n -> X]
    BY <2>1
  <2> HIDE DEF a
  <2> QED BY <1>1, <2>2, <2>3, SeqDef, LenProperties
<1>3. b \in Seq(X) /\ Len(b) = m - n /\ \A i \in 1..(m - n) : b[i] = s[n + i]
  <2>1. \A i \in 1..(m - n) : s[n + i] \in X
    BY <1>1
  <2>2. b = [i \in 1..(m - n) |-> s[n + i]]
    BY <1>1
  <2>3. [i \in 1..(m - n) |-> s[n + i]] \in [1..(m - n) -> X]
    BY <2>1
  <2>4. m - n \in Nat
    BY <1>1
  <2> HIDE DEF b, m
  <2> QED BY <2>2, <2>3, <2>4, SeqDef, LenProperties
<1> HIDE DEF a, b
<1>4. /\ Len(a \o b) = m /\ a \o b \in Seq(X)
      /\ \A i \in 1..m : (a \o b)[i] = IF i <= n THEN a[i] ELSE b[i - n]
  <2> HIDE DEF m
  <2>1. n + (m - n) = m
    BY <1>1
  <2> QED BY <1>1, <1>2, <1>3, <2>1, ConcatProperties
<1>5. ASSUME NEW i \in 1..m PROVE s[i] = (a \o b)[i]
  <2>1. CASE i <= n
    BY <1>1, <1>2, <1>4, <2>1
  <2>2. CASE ~(i <= n)
    <3>1. i - n \in 1..(m - n) /\ n + (i - n) = i
      BY <1>1, <2>2
    <3> HIDE DEF m
    <3> QED BY <1>3, <1>4, <2>2, <3>1
  <2> QED BY <2>1, <2>2
<1>6. s = a \o b
  BY <1>4, <1>5, SeqEqual
<1>7. a # <<>>
  BY <1>1, <1>2
<1> QED BY <1>2, <1>3, <1>6, <1>7 DEF a, b

LEMMA WithoutDelimiter ==
    ASSUME NEW Q, NEW s \in Seq(Q \cup {Delimiter}), ~Contains(s, Delimiter)
    PROVE  s \in Seq(Q)
<1>1. Len(s) \in Nat /\ DOMAIN s = 1..Len(s) /\ \A i \in 1..Len(s) : s[i] \in Q \cup {Delimiter}
  OBVIOUS
<1>2. \A i \in 1..Len(s) : s[i] \in Q
  BY <1>1 DEF Contains
<1>3. s \in [1..Len(s) -> Q]
  BY <1>1, <1>2
<1> QED BY <1>1, <1>3, SeqDef

\* A read takes a part of what arrived.  It is a text when no delimiter has come yet;
\* otherwise the texts are what stands between delimiters.
ReadsText(v, data) ==
    /\ data \in Seq(PartsOfOthers(v)) /\ framer[v].pending = <<>>
    /\ framer'[v] = framer[v] /\ texts'[v] = <<data>>
ReadsFrames(v, data) ==
    /\ texts'[v] = Split(framer[v].pending \o data).done
    /\ framer'[v].pending = Split(framer[v].pending \o data).pending
    /\ framer'[v].delimited = TRUE
Reads(v, data, rest) ==
    /\ data \in Seq(PartsOfOthers(v) \cup {Delimiter}) \ {<<>>}
    /\ rest \in Seq(PartsOfOthers(v) \cup {Delimiter})
    /\ stream[v] = data \o rest /\ stream'[v] = rest
    /\ ReadsText(v, data) \/ ReadsFrames(v, data)

LEMMA ReadIs ==
    ASSUME BridgeInv, NEW v \in Vehicles, Read(v)
    PROVE  /\ \E data, rest : Reads(v, data, rest)
           /\ framer'[v] \in [pending : Seq(Parts), delimited : BOOLEAN]
           /\ texts[v] = <<>> /\ connected[v] = TRUE /\ ~over_ros
<1> DEFINE Q == PartsOfOthers(v)
           X == Q \cup {Delimiter}
           s == stream[v]
<1>1. texts[v] = <<>> /\ connected[v] = TRUE /\ ~over_ros
  BY DEF Read, BridgeInv, TypeOK
<1>2. PICK n \in 1..Len(stream[v]) :
         /\ Feed(v, SubSeq(stream[v], 1, n))
         /\ stream' = [stream EXCEPT ![v] = SubSeq(stream[v], n + 1, Len(stream[v]))]
  BY DEF Read
<1> DEFINE data == SubSeq(s, 1, n)
           rest == SubSeq(s, n + 1, Len(s))
           split == Split(framer[v].pending \o data)
<1>3. s \in Seq(X) /\ framer[v].pending \in Seq(Q) /\ (~framer[v].delimited => framer[v].pending = <<>>)
  BY DEF BridgeInv, Framed, IsFramed
<1>4. data \in Seq(X) \ {<<>>} /\ rest \in Seq(X) /\ s = data \o rest
  <2>1. n \in 1..Len(s)
    BY <1>2
  <2> HIDE DEF X, s
  <2> QED BY <1>3, <2>1, CutInTwo
<1>5. stream'[v] = rest
  BY <1>2 DEF BridgeInv, TypeOK
<1>6. /\ framer \in [Vehicles -> [pending : Seq(Parts), delimited : BOOLEAN]]
      /\ texts \in [Vehicles -> Seq(Seq(Parts))]
  BY DEF BridgeInv, TypeOK
<1>7. Feed(v, data)
  BY <1>2
<1>8. split.pending \in Seq(Parts)
  <2> DEFINE a == framer[v].pending \o data
             p == framer[v].pending
  <2>1. p \in Seq(X)
    BY <1>3
  <2>2. a \in Seq(X)
    <3> HIDE DEF p, X, data
    <3>1. p \o data \in Seq(X)
      BY <1>4, <2>1
    <3> QED BY <3>1 DEF p
  <2> HIDE DEF a
  <2>3. Split(a).pending \in Seq(Q)
    BY <2>2, SplitTypes
  <2>4. Q \subseteq Parts
    BY DEF PartsOfOthers
  <2> QED BY <2>3, <2>4, SeqMonotonic DEF a
<1> HIDE DEF data, rest, s
<1>9. CASE ~framer[v].delimited /\ ~Contains(data, Delimiter)
  <2>1. texts'[v] = <<data>> /\ framer' = framer
    BY <1>6, <1>7, <1>9 DEF Feed
  <2>2. data \in Seq(Q)
    <3> HIDE DEF Q
    <3> QED BY <1>4, <1>9, WithoutDelimiter
  <2>3. framer'[v] = framer[v] /\ framer'[v] \in [pending : Seq(Parts), delimited : BOOLEAN]
    BY <1>6, <2>1
  <2>4. ReadsText(v, data)
    BY <1>3, <1>9, <2>1, <2>2, <2>3 DEF ReadsText
  <2> QED BY <1>1, <1>4, <1>5, <2>3, <2>4 DEF Reads, s
<1>10. CASE ~(~framer[v].delimited /\ ~Contains(data, Delimiter))
  <2> DEFINE r == [pending |-> split.pending, delimited |-> TRUE]
  <2>1. texts'[v] = split.done /\ framer' = [framer EXCEPT ![v] = r]
    BY <1>6, <1>7, <1>10 DEF Feed
  <2>2. framer'[v] = r
    <3> HIDE DEF r
    <3> QED BY <1>6, <2>1
  <2>3. framer'[v].pending = split.pending /\ framer'[v].delimited = TRUE
    BY <2>2
  <2>4. framer'[v] \in [pending : Seq(Parts), delimited : BOOLEAN]
    <3> HIDE DEF split
    <3> QED BY <1>8, <2>2
  <2>5. ReadsFrames(v, data)
    BY <2>1, <2>3 DEF ReadsFrames
  <2> QED BY <1>1, <1>4, <1>5, <2>4, <2>5 DEF Reads, s
<1> QED BY <1>9, <1>10

LEMMA ReadInv == ASSUME BridgeInv, NEW v \in Vehicles, Read(v) PROVE BridgeInv'
<1> DEFINE Q == PartsOfOthers(v)
<1>1. /\ texts[v] = <<>> /\ connected[v] = TRUE /\ ~over_ros
      /\ framer'[v] \in [pending : Seq(Parts), delimited : BOOLEAN]
  BY ReadIs
<1>2. PICK data, rest : Reads(v, data, rest)
  BY ReadIs
<1>3. UNCHANGED <<over_ros, said, pending_msgs, connected, heard>>
  BY DEF Read
<1>4. /\ stream' \in [Vehicles -> Seq(Parts \cup {Delimiter})]
      /\ \A u \in Vehicles : u # v => stream'[u] = stream[u]
  <2>1. PICK n : stream' = [stream EXCEPT ![v] = SubSeq(@, n, Len(@))]
    BY DEF Read
  <2>2. Q \cup {Delimiter} \subseteq Parts \cup {Delimiter}
    BY DEF PartsOfOthers
  <2>3. stream'[v] \in Seq(Parts \cup {Delimiter})
    <3>1. stream'[v] \in Seq(Q \cup {Delimiter})
      BY <1>2 DEF Reads
    <3> QED BY <2>2, <3>1, SeqMonotonic
  <2> QED BY <2>1, <2>3 DEF BridgeInv, TypeOK
<1>5. /\ texts' = [u \in Vehicles |-> texts'[u]] /\ framer' = [u \in Vehicles |-> framer'[u]]
      /\ \A u \in Vehicles : u # v => texts'[u] = texts[u] /\ framer'[u] = framer[u]
  BY DEF Read, Feed, BridgeInv, TypeOK
<1>6. Framed(v)'
  <2> HIDE DEF Q
  <2>1. /\ data \in Seq(Q \cup {Delimiter}) \ {<<>>} /\ rest \in Seq(Q \cup {Delimiter})
        /\ stream[v] = data \o rest /\ stream'[v] = rest /\ Delimiter \notin Q
    BY <1>2, OthersNoDelimiter DEF Reads, Q
  <2>2. IsFramed(Q, <<>>, framer[v].pending, framer[v].delimited, data \o rest, TRUE)
    BY <1>1, <2>1 DEF BridgeInv, Framed, Q
  <2>3. IsFramed(Q, texts'[v], framer'[v].pending, framer'[v].delimited, rest, TRUE)
    <3>1. CASE ReadsText(v, data)
      <4>1. /\ data \in Seq(Q) \ {<<>>} /\ framer[v].pending = <<>> /\ framer'[v] = framer[v]
            /\ texts'[v] = <<data>>
        BY <2>1, <3>1 DEF ReadsText, Q
      <4>2. IsFramed(Q, <<>>, <<>>, framer[v].delimited, data \o rest, TRUE)
        BY <2>2, <4>1
      <4>3. IsFramed(Q, <<data>>, <<>>, framer[v].delimited, rest, TRUE)
        BY <2>1, <4>1, <4>2, FirstReadFramed
      <4> QED BY <4>1, <4>3
    <3>2. CASE ReadsFrames(v, data)
      <4>1. IsFramed(Q, Split(framer[v].pending \o data).done,
                     Split(framer[v].pending \o data).pending, TRUE, rest, TRUE)
        BY <2>1, <2>2, ReadFramed
      <4> QED BY <3>2, <4>1 DEF ReadsFrames
    <3> QED BY <1>2, <3>1, <3>2 DEF Reads
  <2>4. stream'[v] = rest /\ connected'[v] = TRUE /\ ~over_ros'
    BY <1>1, <1>3, <2>1
  <2> QED BY <2>3, <2>4 DEF Framed, Q
<1>7. ASSUME NEW u \in Vehicles PROVE Framed(u)'
  <2>1. CASE u = v
    BY <1>6, <2>1
  <2>2. CASE u # v
    BY <1>3, <1>4, <1>5, <2>2, FramedSame DEF BridgeInv
  <2> QED BY <2>1, <2>2
<1>8. texts'[v] \in Seq(Seq(Parts))
  <2>1. texts'[v] \in Seq(Seq(Q) \ {<<>>})
    BY <1>6 DEF Framed, IsFramed
  <2>2. Seq(Q) \subseteq Seq(Parts)
    <3>1. Q \subseteq Parts
      BY DEF PartsOfOthers
    <3> QED BY <3>1, SeqMonotonic
  <2>3. Seq(Q) \ {<<>>} \subseteq Seq(Parts)
    BY <2>2
  <2> HIDE DEF Q
  <2> QED BY <2>1, <2>3, SeqMonotonic
<1>9. TypeOK'
  <2>1. texts' \in [Vehicles -> Seq(Seq(Parts))]
    BY <1>5, <1>8 DEF BridgeInv, TypeOK
  <2>2. framer' \in [Vehicles -> [pending : Seq(Parts), delimited : BOOLEAN]]
    BY <1>1, <1>5 DEF BridgeInv, TypeOK
  <2> QED BY <1>3, <1>4, <2>1, <2>2 DEF BridgeInv, TypeOK
<1> QED BY <1>7, <1>9 DEF BridgeInv

\* What a vehicle publishes of what it read: the first text, if it passes for a message,
\* whole when it is the whole of one.
Publishes(v, p) ==
    LET text == Head(texts[v])
        m == text[1].msg
    IN  /\ text \in Seq(PartsOfOthers(v)) \ {<<>>} /\ m \in Messages /\ m.sender # v
        /\ \/ text = Body(m) /\ p = <<[msg |-> m, whole |-> TRUE]>>
           \/ text # Body(m) /\ p = <<>>
           \/ text # Body(m) /\ p = <<[msg |-> m, whole |-> FALSE]>>
        /\ heard'[v] = heard[v] \o p
        /\ pending_msgs'[v] = IF p = <<>> THEN pending_msgs[v] ELSE Append(pending_msgs[v], m)
        /\ texts'[v] = Tail(texts[v])

LEMMA PublishReadIs ==
    ASSUME BridgeInv, NEW v \in Vehicles, PublishRead(v)
    PROVE  /\ \E p : Publishes(v, p)
           /\ ~over_ros /\ texts[v] # <<>>
           /\ texts[v] \in Seq(Seq(PartsOfOthers(v)) \ {<<>>})
           /\ \A u \in Vehicles : u # v => /\ heard'[u] = heard[u] /\ texts'[u] = texts[u]
                                           /\ pending_msgs'[u] = pending_msgs[u]
           /\ /\ heard' = [u \in Vehicles |-> heard'[u]]
              /\ texts' = [u \in Vehicles |-> texts'[u]]
              /\ pending_msgs' = [u \in Vehicles |-> pending_msgs'[u]]
<1> DEFINE text == Head(texts[v])
           L == Seq(PartsOfOthers(v)) \ {<<>>}
<1>1. texts[v] # <<>> /\ texts[v] \in Seq(L) /\ ~over_ros
  BY DEF PublishRead, BridgeInv, Framed, IsFramed
<1>2. text \in L
  <2> HIDE DEF L
  <2> QED BY <1>1, HeadTailProperties
<1>3. PICK p \in Parsed(text) :
         /\ heard' = [heard EXCEPT ![v] = @ \o p]
         /\ pending_msgs' = [pending_msgs EXCEPT ![v] = IF p = <<>> THEN @ ELSE Append(@, p[1].msg)]
  BY DEF PublishRead
<1>4. texts' = [texts EXCEPT ![v] = Tail(@)]
  BY DEF PublishRead
<1>5. /\ heard \in [Vehicles -> Seq(Heard)] /\ texts \in [Vehicles -> Seq(Seq(Parts))]
      /\ pending_msgs \in [Vehicles -> Seq(Messages)]
  BY DEF BridgeInv, TypeOK
<1> HIDE DEF text, L
<1> DEFINE m == text[1].msg
<1>6. /\ m \in Messages /\ m.sender # v
      /\ \/ text = Body(m) /\ p = <<[msg |-> m, whole |-> TRUE]>>
         \/ text # Body(m) /\ p = <<>>
         \/ text # Body(m) /\ p = <<[msg |-> m, whole |-> FALSE]>>
  BY <1>2, <1>3, ParsedCases DEF L
<1>7. p # <<>> => p[1].msg = m
  BY <1>6
<1>8. /\ heard'[v] = heard[v] \o p /\ texts'[v] = Tail(texts[v])
      /\ pending_msgs'[v] = IF p = <<>> THEN pending_msgs[v] ELSE Append(pending_msgs[v], p[1].msg)
  BY <1>3, <1>4, <1>5
<1>9. pending_msgs'[v] = IF p = <<>> THEN pending_msgs[v] ELSE Append(pending_msgs[v], m)
  <2> HIDE DEF m
  <2> QED BY <1>7, <1>8
<1>10. Publishes(v, p)
  BY <1>2, <1>6, <1>8, <1>9 DEF Publishes, text, L
<1>11. \A u \in Vehicles : u # v => /\ heard'[u] = heard[u] /\ texts'[u] = texts[u]
                                   /\ pending_msgs'[u] = pending_msgs[u]
  BY <1>3, <1>4, <1>5
<1>12. /\ heard' = [u \in Vehicles |-> heard'[u]]
       /\ texts' = [u \in Vehicles |-> texts'[u]]
       /\ pending_msgs' = [u \in Vehicles |-> pending_msgs'[u]]
  BY <1>3, <1>4, <1>5
<1> QED BY <1>1, <1>10, <1>11, <1>12 DEF L

LEMMA PublishReadInv == ASSUME BridgeInv, NEW v \in Vehicles, PublishRead(v) PROVE BridgeInv'
<1> DEFINE Q == PartsOfOthers(v)
           L == Seq(Q) \ {<<>>}
           m == Head(texts[v])[1].msg
<1>1. PICK p : Publishes(v, p)
  BY PublishReadIs
<1>2. UNCHANGED <<over_ros, said, connected, stream, framer>> /\ ~over_ros
  BY PublishReadIs DEF PublishRead
<1>3. Tail(texts[v]) \in Seq(L)
  <2>1. texts[v] \in Seq(L) /\ texts[v] # <<>>
    BY PublishReadIs
  <2> HIDE DEF L
  <2> QED BY <2>1, HeadTailProperties
<1>4. Framed(v)'
  <2>1. texts'[v] \in Seq(L)
    BY <1>1, <1>3 DEF Publishes
  <2>2. IsFramed(Q, texts'[v], framer[v].pending, framer[v].delimited, stream[v], connected[v])
    BY <2>1 DEF BridgeInv, Framed, IsFramed
  <2> QED BY <1>2, <2>2 DEF Framed
<1>5. ASSUME NEW u \in Vehicles PROVE Framed(u)'
  <2>1. CASE u # v
    BY <1>2, <2>1, PublishReadIs, FramedSame DEF BridgeInv
  <2> QED BY <1>4, <2>1
<1>6. texts' \in [Vehicles -> Seq(Seq(Parts))]
  <2>1. ASSUME NEW u \in Vehicles PROVE texts'[u] \in Seq(Seq(Parts))
    <3>1. texts'[u] \in Seq(Seq(PartsOfOthers(u)) \ {<<>>})
      BY <1>5 DEF Framed, IsFramed
    <3>2. PartsOfOthers(u) \subseteq Parts
      BY DEF PartsOfOthers
    <3>3. Seq(PartsOfOthers(u)) \ {<<>>} \subseteq Seq(Parts)
      BY <3>2, SeqMonotonic
    <3> HIDE DEF PartsOfOthers
    <3> QED BY <3>1, <3>3, SeqMonotonic
  <2> QED BY <2>1, PublishReadIs
<1>7. m \in Messages
  BY <1>1 DEF Publishes
<1>8. heard'[v] \in Seq(Heard) /\ pending_msgs'[v] \in Seq(Messages)
  <2> DEFINE s == heard[v]
             t == pending_msgs[v]
  <2>1. s \in Seq(Heard) /\ t \in Seq(Messages)
    BY DEF BridgeInv, TypeOK
  <2>2. p \in Seq(Heard)
    <3> DEFINE a == [msg |-> m, whole |-> TRUE]
               b == [msg |-> m, whole |-> FALSE]
    <3>1. a \in Heard /\ b \in Heard
      BY <1>7 DEF Heard
    <3>2. p = <<>> \/ p = <<a>> \/ p = <<b>>
      BY <1>1 DEF Publishes
    <3> HIDE DEF a, b
    <3>3. <<>> \in Seq(Heard) /\ <<a>> \in Seq(Heard) /\ <<b>> \in Seq(Heard)
      BY <3>1
    <3> QED BY <3>2, <3>3, Zenon
  <2>3. heard'[v] = s \o p /\ pending_msgs'[v] = IF p = <<>> THEN t ELSE Append(t, m)
    BY <1>1 DEF Publishes
  <2> HIDE DEF s, t, m
  <2>4. s \o p \in Seq(Heard) /\ Append(t, m) \in Seq(Messages)
    BY <1>7, <2>1, <2>2
  <2> QED BY <2>1, <2>3, <2>4
<1>9. heard' \in [Vehicles -> Seq(Heard)] /\ pending_msgs' \in [Vehicles -> Seq(Messages)]
  BY <1>8, PublishReadIs DEF BridgeInv, TypeOK
<1>10. TypeOK'
  BY <1>2, <1>6, <1>9 DEF BridgeInv, TypeOK
<1> QED BY <1>5, <1>10 DEF BridgeInv

LEMMA DisconnectInv == ASSUME BridgeInv, NEW v \in Vehicles, Disconnect(v) PROVE BridgeInv'
<1> DEFINE Q == PartsOfOthers(v)
<1>1. /\ UNCHANGED <<over_ros, said, pending_msgs, framer, texts, heard>> /\ ~over_ros
      /\ connected' = [connected EXCEPT ![v] = FALSE] /\ stream' = [stream EXCEPT ![v] = <<>>]
  BY DEF Disconnect
<1>2. <<>> \in Seq(Parts \cup {Delimiter})
  OBVIOUS
<1>3. TypeOK'
  BY <1>1, <1>2 DEF BridgeInv, TypeOK
<1>4. Framed(v)'
  <2>1. stream'[v] = <<>> /\ connected'[v] = FALSE
    BY <1>1 DEF BridgeInv, TypeOK
  <2>2. IsFramed(Q, texts[v], framer[v].pending, framer[v].delimited, stream[v], connected[v])
    BY DEF BridgeInv, Framed
  <2>3. IsFramed(Q, texts[v], framer[v].pending, framer[v].delimited, <<>>, FALSE)
    <3>1. Delimiter \notin Q
      BY OthersNoDelimiter
    <3> HIDE DEF Q
    <3> QED BY <2>2, <3>1, CutOffFramed
  <2> QED BY <1>1, <2>1, <2>3 DEF Framed
<1>5. ASSUME NEW u \in Vehicles, u # v PROVE Framed(u)'
  <2>1. stream'[u] = stream[u] /\ connected'[u] = connected[u]
    BY <1>1, <1>5 DEF BridgeInv, TypeOK
  <2> QED BY <1>1, <2>1, FramedSame DEF BridgeInv
<1> QED BY <1>3, <1>4, <1>5 DEF BridgeInv

LEMMA BridgeNext == BridgeInv /\ [Next]_vars => BridgeInv'
<1> SUFFICES ASSUME BridgeInv, [Next]_vars PROVE BridgeInv'
  OBVIOUS
<1>1. CASE UNCHANGED vars
  <2>1. TypeOK'
    BY <1>1 DEF BridgeInv, TypeOK, vars
  <2>2. ASSUME NEW u \in Vehicles PROVE Framed(u)'
    BY <1>1, FramedSame DEF BridgeInv, vars
  <2> QED BY <2>1, <2>2 DEF BridgeInv
<1>2. CASE Next
  BY <1>2, SayInv, SkipInv, PublishInv, WriteInv, ReadInv, PublishReadInv, DisconnectInv DEF Next
<1> QED BY <1>1, <1>2

-----------------------------------------------------------------------------
(* The channel from a vehicle to another. *)

\* The messages of u that v can still read, and those u has yet to write.
Sent(u, v) == Picked(Readable(v), TextsOf(u))
Unsent(u) == Picked(pending_msgs[u], OwnOf(u))
Link(u, v) == Sent(u, v) \o Unsent(u)
HeardWhole(v) == Picked(heard[v], Whole)

\* Texts of the others, which v reads.
TextsFor(v) == Seq(PartsOfOthers(v)) \ {<<>>}

LEMMA LinkTypes ==
    ASSUME BridgeInv, NEW u \in Vehicles, NEW v \in Vehicles
    PROVE  /\ Readable(v) \in Seq(TextsFor(v)) /\ texts[v] \in Seq(TextsFor(v))
           /\ Split(framer[v].pending \o stream[v]).done \in Seq(TextsFor(v))
           /\ Sent(u, v) \in Seq(MessagesOf(u)) /\ Unsent(u) \in Seq(MessagesOf(u))
           /\ Link(u, v) \in Seq(MessagesOf(u)) /\ HeardWhole(v) \in Seq(Messages)
<1> DEFINE Q == PartsOfOthers(v)
           p == framer[v].pending
           s == stream[v]
           t == texts[v]
           X == Q \cup {Delimiter}
<1>1. p \in Seq(X) /\ s \in Seq(X) /\ t \in Seq(TextsFor(v))
  <2>1. p \in Seq(Q) /\ s \in Seq(X) /\ t \in Seq(TextsFor(v))
    BY DEF BridgeInv, Framed, IsFramed, TextsFor
  <2> HIDE DEF p, s, t, Q
  <2> QED BY <2>1
<1>2. p \o s \in Seq(X)
  <2> HIDE DEF p, s, X
  <2> QED BY <1>1
<1> DEFINE a == p \o s
           d == Split(a).done
<1>3. d \in Seq(TextsFor(v))
  <2>1. a \in Seq(Q \cup {Delimiter})
    BY <1>2
  <2> HIDE DEF a, Q
  <2>2. Split(a).done \in Seq(Seq(Q) \ {<<>>})
    BY <2>1, SplitTypes
  <2> QED BY <2>2 DEF TextsFor, Q
<1>4. Readable(v) = t \o d
  BY DEF Readable
<1>5. Readable(v) \in Seq(TextsFor(v))
  <2> HIDE DEF t, d
  <2> QED BY <1>1, <1>3, <1>4
<1>6. Sent(u, v) \in Seq(MessagesOf(u)) /\ Unsent(u) \in Seq(MessagesOf(u))
  <2>1. pending_msgs[u] \in Seq(Messages)
    BY DEF BridgeInv, TypeOK
  <2> QED BY <1>5, <2>1, Pickers, PickedTypes DEF Sent, Unsent
<1>7. Link(u, v) \in Seq(MessagesOf(u))
  BY <1>6 DEF Link
<1>8. HeardWhole(v) \in Seq(Messages)
  <2>1. heard[v] \in Seq(Heard)
    BY DEF BridgeInv, TypeOK
  <2> QED BY <2>1, Pickers, PickedTypes DEF HeardWhole
<1> QED BY <1>1, <1>3, <1>5, <1>6, <1>7, <1>8

LEMMA ReadableSame ==
    ASSUME NEW v, texts'[v] = texts[v], framer'[v] = framer[v], stream'[v] = stream[v]
    PROVE  Readable(v)' = Readable(v)
BY DEF Readable

LEMMA LinkSame ==
    ASSUME NEW u, NEW v, Readable(v)' = Readable(v), pending_msgs'[u] = pending_msgs[u]
    PROVE  Sent(u, v)' = Sent(u, v) /\ Unsent(u)' = Unsent(u) /\ Link(u, v)' = Link(u, v)
<1>1. Sent(u, v)' = Sent(u, v)
  BY DEF Sent, TextsOf
<1>2. Unsent(u)' = Unsent(u)
  BY DEF Unsent, OwnOf
<1> QED BY <1>1, <1>2 DEF Link

\* A message of another among those heard on the topic is none of the vehicle's own.
LEMMA UnsentOther ==
    ASSUME NEW u, NEW s \in Seq(Messages), NEW m \in Messages, m.sender # u
    PROVE  Picked(Append(s, m), OwnOf(u)) = Picked(s, OwnOf(u))
<1>1. Picked(Append(s, m), OwnOf(u)) = Pick(OwnOf(u), Picked(s, OwnOf(u)), m)
  <2> DEFINE f == OwnOf(u)
             D == MessagesOf(u)
             R == MessagesOf(u)
  <2>1. f \in [D -> R]
    BY Pickers
  <2> HIDE DEF f, D, R
  <2>2. Picked(Append(s, m), f) = Pick(f, Picked(s, f), m)
    BY <2>1, PickedStep
  <2> QED BY <2>2 DEF f
<1>2. m \notin DOMAIN OwnOf(u)
  BY DEF OwnOf, MessagesOf
<1> QED BY <1>1, <1>2 DEF Pick

\* Each message of a vehicle is one of its texts, and no other vehicle's.
LEMMA TextOfOne ==
    ASSUME NEW u, NEW text, text \in Texts(u)
    PROVE  text = Body(text[1].msg) /\ text[1].msg \in MessagesOf(u) /\ Len(text) = 2
<1>1. PICK m \in MessagesOf(u) : text = Body(m)
  BY DEF Texts
<1> QED BY <1>1, BodyFacts

\* A list and what is behind its first entry.
LEMMA FirstOf ==
    ASSUME NEW R, NEW x \in R, NEW t \in Seq(R), NEW s, s = <<x>> \o t
    PROVE  s # <<>> /\ Head(s) = x /\ Tail(s) = t
<1>1. /\ <<x>> \in Seq(R) /\ Len(<<x>>) = 1
  OBVIOUS
<1>2. /\ s \in Seq(R) /\ Len(s) = 1 + Len(t) /\ Len(t) \in Nat
      /\ \A i \in 1..(1 + Len(t)) : s[i] = IF i <= 1 THEN <<x>>[i] ELSE t[i - 1]
  BY <1>1, ConcatProperties
<1>3. s # <<>> /\ Head(s) = s[1] /\ s[1] = <<x>>[1] /\ <<x>>[1] = x
  BY <1>2
<1>4. /\ Tail(s) \in Seq(R) /\ Len(Tail(s)) = Len(s) - 1
      /\ \A i \in 1..(Len(s) - 1) : Tail(s)[i] = s[i + 1]
  BY <1>2, <1>3, HeadTailProperties
<1> DEFINE r == Tail(s)
<1> HIDE DEF r
<1>5. r \in Seq(R) /\ Len(r) = Len(t) /\ \A i \in 1..Len(t) : r[i] = s[i + 1]
  BY <1>2, <1>4 DEF r
<1>6. ASSUME NEW i \in 1..Len(t) PROVE r[i] = t[i]
  <2>1. i + 1 \in 1..(1 + Len(t)) /\ ~(i + 1 <= 1) /\ (i + 1) - 1 = i
    BY <1>2
  <2>2. s[i + 1] = t[(i + 1) - 1]
    BY <1>2, <2>1
  <2> QED BY <1>5, <2>1, <2>2
<1>7. r = t
  BY <1>5, <1>6, SeqEqual
<1> QED BY <1>3, <1>7 DEF r

LEMMA ConcatOne ==
    ASSUME NEW R, NEW s \in Seq(R), NEW x \in R
    PROVE  s \o <<x>> = Append(s, x)
BY AppendIsConcat

-----------------------------------------------------------------------------
(* The steps of the channels. *)

FifoLinks == {x \in Vehicles \X Vehicles : x[1] # x[2]}

LEMMA LosesWhen ==
    ASSUME \A v \in Vehicles : HeardWhole(v)' = HeardWhole(v),
           \A u, v \in Vehicles : u # v => Fifo!Thinned(Link(u, v)', Link(u, v))
    PROVE  Fifo!Lose
<1>1. ASSUME NEW l \in FifoLinks
      PROVE  Fifo!Thinned(Link(l[1], l[2])', Link(l[1], l[2]))
  BY DEF FifoLinks
<1>2. [v \in Vehicles |-> HeardWhole(v)]' = [v \in Vehicles |-> HeardWhole(v)]
  OBVIOUS
<1> DEFINE channel == [l \in FifoLinks |-> Link(l[1], l[2])]
<1>3. DOMAIN channel' = FifoLinks /\ \A l \in FifoLinks : Fifo!Thinned(channel'[l], channel[l])
  BY <1>1
<1>4. channel = [l \in FifoLinks |->
                   Picked(Readable(l[2]), TextsOf(l[1])) \o Picked(pending_msgs[l[1]], OwnOf(l[1]))]
  BY DEF Link, Sent, Unsent
<1> QED BY <1>2, <1>3, <1>4 DEF Fifo!Lose, Fifo!Links, HeardWhole, FifoLinks, Link, Sent, Unsent

LEMMA SaysWhen ==
    ASSUME NEW u \in Vehicles, NEW m \in Messages,
           \A v \in Vehicles : HeardWhole(v)' = HeardWhole(v),
           \A v \in Vehicles : v # u => Link(u, v)' = Append(Link(u, v), m),
           \A x, v \in Vehicles : x # v /\ x # u => Link(x, v)' = Link(x, v)
    PROVE  Fifo!Say(u, m)
<1>1. [v \in Vehicles |-> HeardWhole(v)]' = [v \in Vehicles |-> HeardWhole(v)]
  OBVIOUS
<1> DEFINE channel == [l \in FifoLinks |-> Link(l[1], l[2])]
<1>2. ASSUME NEW l \in FifoLinks
      PROVE  Link(l[1], l[2])' = IF l[1] = u THEN Append(channel[l], m) ELSE channel[l]
  <2>1. l[1] \in Vehicles /\ l[2] \in Vehicles /\ l[1] # l[2] /\ channel[l] = Link(l[1], l[2])
    BY DEF FifoLinks
  <2> HIDE DEF channel
  <2>2. CASE l[1] = u
    BY <2>1, <2>2
  <2>3. CASE l[1] # u
    BY <2>1, <2>3
  <2> QED BY <2>2, <2>3
<1>3. channel' = [l \in FifoLinks |-> IF l[1] = u THEN Append(channel[l], m) ELSE channel[l]]
  BY <1>2
<1>4. channel = [l \in FifoLinks |->
                   Picked(Readable(l[2]), TextsOf(l[1])) \o Picked(pending_msgs[l[1]], OwnOf(l[1]))]
  BY DEF Link, Sent, Unsent
<1> QED BY <1>1, <1>3, <1>4 DEF Fifo!Say, Fifo!Links, HeardWhole, FifoLinks, Link, Sent, Unsent

LEMMA HearsWhen ==
    ASSUME NEW u \in Vehicles, NEW hearers \in SUBSET (Vehicles \ {u}), NEW m \in Messages,
           \A v \in hearers : /\ Link(u, v) # <<>> /\ Head(Link(u, v)) = m
                              /\ Tail(Link(u, v)) = Link(u, v)',
           \A v \in Vehicles :
              HeardWhole(v)' = IF v \in hearers THEN Append(HeardWhole(v), m) ELSE HeardWhole(v),
           \A x, v \in Vehicles : x # v /\ ~(x = u /\ v \in hearers) => Link(x, v)' = Link(x, v)
    PROVE  Fifo!Hear(u, hearers)
<1> DEFINE channel == [l \in FifoLinks |-> Link(l[1], l[2])]
           whole == [v \in Vehicles |-> HeardWhole(v)]
<1>1. ASSUME NEW v \in hearers
      PROVE  /\ channel[<<u, v>>] = Link(u, v) /\ channel[<<u, v>>] # <<>>
             /\ Head(channel[<<u, v>>]) = m
  <2>1. <<u, v>> \in FifoLinks
    BY DEF FifoLinks
  <2>2. channel[<<u, v>>] = Link(u, v)
    BY <2>1
  <2> HIDE DEF channel
  <2> QED BY <2>2
<1>2. whole' = [v \in Vehicles |->
                  IF v \in hearers THEN Append(whole[v], Head(channel[<<u, v>>])) ELSE whole[v]]
  <2>1. ASSUME NEW v \in Vehicles
        PROVE  HeardWhole(v)' = IF v \in hearers THEN Append(whole[v], Head(channel[<<u, v>>]))
                                ELSE whole[v]
    <3>1. whole[v] = HeardWhole(v)
      OBVIOUS
    <3> HIDE DEF channel, whole
    <3>2. CASE v \in hearers
      BY <1>1, <3>1, <3>2
    <3>3. CASE v \notin hearers
      BY <3>1, <3>3
    <3> QED BY <3>2, <3>3
  <2> HIDE DEF channel
  <2> QED BY <2>1
<1>3. ASSUME NEW l \in FifoLinks
      PROVE  Link(l[1], l[2])' = IF l[1] = u /\ l[2] \in hearers THEN Tail(channel[l])
                                 ELSE channel[l]
  <2>1. l[1] \in Vehicles /\ l[2] \in Vehicles /\ l[1] # l[2] /\ channel[l] = Link(l[1], l[2])
    BY DEF FifoLinks
  <2> HIDE DEF channel
  <2>2. CASE l[1] = u /\ l[2] \in hearers
    BY <2>1, <2>2
  <2>3. CASE ~(l[1] = u /\ l[2] \in hearers)
    BY <2>1, <2>3
  <2> QED BY <2>2, <2>3
<1>4. channel' = [l \in FifoLinks |->
                    IF l[1] = u /\ l[2] \in hearers THEN Tail(channel[l]) ELSE channel[l]]
  BY <1>3
<1>5. channel = [l \in FifoLinks |->
                   Picked(Readable(l[2]), TextsOf(l[1])) \o Picked(pending_msgs[l[1]], OwnOf(l[1]))]
  BY DEF Link, Sent, Unsent
<1>6. whole = [v \in Vehicles |-> Picked(heard[v], Whole)]
  BY DEF HeardWhole
<1>7. \A v \in hearers : channel[<<u, v>>] # <<>>
  BY <1>1
<1> QED BY <1>2, <1>4, <1>5, <1>6, <1>7
        DEF Fifo!Hear, Fifo!Links, HeardWhole, FifoLinks, Link, Sent, Unsent

\* Nothing happens on the channels.
LEMMA StaysWhen ==
    ASSUME BridgeInv, \A v \in Vehicles : HeardWhole(v)' = HeardWhole(v),
           \A u, v \in Vehicles : u # v => Link(u, v)' = Link(u, v)
    PROVE  Fifo!Lose
<1>1. ASSUME NEW u \in Vehicles, NEW v \in Vehicles, u # v
      PROVE  Fifo!Thinned(Link(u, v)', Link(u, v))
  <2>1. Link(u, v)' = Link(u, v) /\ Link(u, v) \in Seq(MessagesOf(u))
    BY <1>1, LinkTypes
  <2> QED BY <2>1, ThinnedSame
<1> QED BY <1>1, LosesWhen

-----------------------------------------------------------------------------
(* What a step of the bridge is for the channels. *)

LEMMA TextsConcat ==
    ASSUME NEW u, NEW X, NEW s \in Seq(X), NEW t \in Seq(X)
    PROVE  /\ Picked(s, TextsOf(u)) \in Seq(MessagesOf(u))
           /\ Picked(t, TextsOf(u)) \in Seq(MessagesOf(u))
           /\ Picked(s \o t, TextsOf(u)) = Picked(s, TextsOf(u)) \o Picked(t, TextsOf(u))
<1> DEFINE f == TextsOf(u)
<1>1. f \in [Texts(u) -> MessagesOf(u)]
  BY Pickers
<1> HIDE DEF f
<1>2. /\ Picked(s, f) \in Seq(MessagesOf(u)) /\ Picked(t, f) \in Seq(MessagesOf(u))
      /\ Picked(s \o t, f) = Picked(s, f) \o Picked(t, f)
  BY <1>1, PickedTypes, PickedConcat
<1> QED BY <1>2 DEF f

LEMMA TextsOne ==
    ASSUME NEW u, NEW text
    PROVE  Picked(<<text>>, TextsOf(u)) = IF text \in Texts(u) THEN <<text[1].msg>> ELSE <<>>
<1> DEFINE f == TextsOf(u)
<1>1. f \in [Texts(u) -> MessagesOf(u)] /\ \A m \in MessagesOf(u) : f[Body(m)] = m
  BY Pickers
<1> HIDE DEF f
<1>2. Picked(<<text>>, f) = IF text \in Texts(u) THEN <<f[text]>> ELSE <<>>
  BY <1>1, PickedOne
<1>3. text \in Texts(u) => f[text] = text[1].msg
  BY <1>1, TextOfOne
<1> QED BY <1>2, <1>3 DEF f

LEMMA UnsentFirst ==
    ASSUME BridgeInv, NEW v \in Vehicles, pending_msgs[v] # <<>>
    PROVE  LET m == Head(pending_msgs[v])
               others == Picked(Tail(pending_msgs[v]), OwnOf(v))
           IN  /\ others \in Seq(MessagesOf(v))
               /\ Unsent(v) = IF IsOwn(v) THEN <<m>> \o others ELSE others
<1> DEFINE f == OwnOf(v)
           D == MessagesOf(v)
           R == MessagesOf(v)
           s == pending_msgs[v]
           m == Head(s)
<1>1. s \in Seq(Messages) /\ Tail(s) \in Seq(Messages) /\ m \in Messages /\ s # <<>>
  BY LooksAt
<1>2. f \in [D -> R] /\ \A x \in D : f[x] = x
  BY Pickers
<1>3. m \in D <=> IsOwn(v)
  BY <1>1 DEF IsOwn, MessagesOf
<1> HIDE DEF f, D, R, s
<1>4. /\ m \in D => Picked(s, f) = <<f[m]>> \o Picked(Tail(s), f)
      /\ m \notin D => Picked(s, f) = Picked(Tail(s), f)
  BY <1>1, <1>2, PickedFirst
<1>5. Picked(Tail(s), f) \in Seq(R)
  BY <1>1, <1>2, PickedTypes
<1>6. Picked(s, f) = IF IsOwn(v) THEN <<m>> \o Picked(Tail(s), f) ELSE Picked(Tail(s), f)
  BY <1>2, <1>3, <1>4
<1> QED BY <1>5, <1>6 DEF f, R, s, Unsent

LEMMA HeardSame ==
    ASSUME NEW v, heard'[v] = heard[v]
    PROVE  HeardWhole(v)' = HeardWhole(v)
BY DEF HeardWhole, Whole

\* What is heard whole counts, as its message.
LEMMA HeardMore ==
    ASSUME NEW s \in Seq(Heard), NEW m \in Messages
    PROVE  /\ Picked(s \o <<>>, Whole) = Picked(s, Whole)
           /\ Picked(Append(s, [msg |-> m, whole |-> TRUE]), Whole) = Append(Picked(s, Whole), m)
           /\ Picked(s \o <<[msg |-> m, whole |-> TRUE]>>, Whole) = Append(Picked(s, Whole), m)
           /\ Picked(s \o <<[msg |-> m, whole |-> FALSE]>>, Whole) = Picked(s, Whole)
<1> DEFINE f == Whole
           a == [msg |-> m, whole |-> TRUE]
           b == [msg |-> m, whole |-> FALSE]
<1>1. f \in [WholeMessages -> Messages] /\ \A h \in WholeMessages : f[h] = h.msg
  BY Pickers
<1>2. a \in Heard /\ b \in Heard /\ a \in WholeMessages /\ b \notin WholeMessages /\ a.msg = m
  BY DEF Heard, WholeMessages
<1> HIDE DEF f, a, b
<1>3. /\ Picked(Append(s, a), f) = Pick(f, Picked(s, f), a)
      /\ Picked(Append(s, b), f) = Pick(f, Picked(s, f), b)
  BY <1>1, <1>2, PickedStep
<1>4. DOMAIN f = WholeMessages /\ f[a] = m
  BY <1>1, <1>2
<1>5. Picked(Append(s, a), f) = Append(Picked(s, f), m) /\ Picked(Append(s, b), f) = Picked(s, f)
  BY <1>2, <1>3, <1>4 DEF Pick
<1>6. s \o <<a>> = Append(s, a) /\ s \o <<b>> = Append(s, b) /\ s \o <<>> = s
  BY <1>2, ConcatOne
<1> QED BY <1>5, <1>6 DEF f, a, b

LEMMA SayStep == ASSUME BridgeInv, NEW v \in Vehicles, Say(v) PROVE Fifo!Next
<1> DEFINE s == pending_msgs[v]
           D == MessagesOf(v)
           R == MessagesOf(v)
           f == OwnOf(v)
<1>0. PICK m : m = [sender |-> v, id |-> said[v] + 1]
  OBVIOUS
<1>1. m \in MessagesOf(v) /\ m \in Messages /\ s \in Seq(Messages)
  BY <1>0, NextMessage DEF BridgeInv, TypeOK, Say, MessagesOf
<1>2. /\ pending_msgs'[v] = Append(s, m)
      /\ \A u \in Vehicles : u # v => pending_msgs'[u] = pending_msgs[u]
      /\ UNCHANGED <<texts, framer, stream, heard>>
  BY <1>0 DEF Say, BridgeInv, TypeOK
<1>3. Unsent(v)' = Append(Unsent(v), m)
  <2>1. f \in [D -> R] /\ m \in D /\ f[m] = m
    BY <1>1, Pickers
  <2>2. Unsent(v)' = Picked(Append(s, m), f)
    BY <1>2 DEF Unsent, OwnOf
  <2> HIDE DEF f, D, R, s
  <2>3. Picked(Append(s, m), f) = Pick(f, Picked(s, f), m)
    BY <1>1, <2>1, PickedStep
  <2>4. Picked(Append(s, m), f) = Append(Picked(s, f), m)
    BY <2>1, <2>3 DEF Pick
  <2> QED BY <2>2, <2>4 DEF Unsent, f, s
<1>4. \A w \in Vehicles : Readable(w)' = Readable(w) /\ HeardWhole(w)' = HeardWhole(w)
  BY <1>2, ReadableSame, HeardSame
<1>5. ASSUME NEW w \in Vehicles, w # v
      PROVE  Link(v, w)' = Append(Link(v, w), m)
  <2> DEFINE a == Sent(v, w)
             b == Unsent(v)
  <2>1. a \in Seq(D) /\ b \in Seq(D) /\ m \in D
    BY <1>1, LinkTypes
  <2>2. Sent(v, w)' = a
    BY <1>4 DEF Sent, TextsOf
  <2>3. Link(v, w)' = a \o Append(b, m)
    BY <1>3, <2>2 DEF Link
  <2> HIDE DEF a, b, D
  <2>4. a \o Append(b, m) = Append(a \o b, m)
    BY <2>1, ConcatAppend
  <2> QED BY <2>3, <2>4 DEF Link, a, b
<1>6. ASSUME NEW x \in Vehicles, NEW w \in Vehicles, x # v PROVE Link(x, w)' = Link(x, w)
  BY <1>2, <1>4, <1>6, LinkSame
<1>7. \A w \in Vehicles : w # v => Link(v, w)' = Append(Link(v, w), m)
  BY <1>5
<1>8. \A x, w \in Vehicles : x # w /\ x # v => Link(x, w)' = Link(x, w)
  BY <1>6
<1>9. Fifo!Say(v, m)
  BY <1>1, <1>4, <1>7, <1>8, SaysWhen
<1> QED BY <1>1, <1>9 DEF Fifo!Next

LEMMA SkipStep == ASSUME BridgeInv, NEW v \in Vehicles, Skip(v) PROVE Fifo!Next
<1>1. /\ pending_msgs'[v] = Tail(pending_msgs[v]) /\ pending_msgs[v] # <<>> /\ ~IsOwn(v)
      /\ \A u \in Vehicles : u # v => pending_msgs'[u] = pending_msgs[u]
      /\ UNCHANGED <<texts, framer, stream, heard>>
  BY DEF Skip, Takes, BridgeInv, TypeOK
<1>2. \A w \in Vehicles : Readable(w)' = Readable(w) /\ HeardWhole(w)' = HeardWhole(w)
  BY <1>1, ReadableSame, HeardSame
<1>3. Unsent(v)' = Unsent(v)
  <2>1. Unsent(v)' = Picked(Tail(pending_msgs[v]), OwnOf(v))
    BY <1>1 DEF Unsent, OwnOf
  <2> QED BY <1>1, <2>1, UnsentFirst
<1>4. ASSUME NEW x \in Vehicles, NEW w \in Vehicles PROVE Link(x, w)' = Link(x, w)
  <2>1. CASE x = v
    <3>1. Sent(x, w)' = Sent(x, w)
      BY <1>2 DEF Sent, TextsOf
    <3> QED BY <1>3, <2>1, <3>1 DEF Link
  <2>2. CASE x # v
    BY <1>1, <1>2, <2>2, LinkSame
  <2> QED BY <2>1, <2>2
<1>5. Fifo!Lose
  BY <1>2, <1>4, StaysWhen
<1> QED BY <1>5 DEF Fifo!Next

\* Over ROS nothing is read from a connection.
LEMMA NothingSent ==
    ASSUME BridgeInv, over_ros, NEW u \in Vehicles, NEW v \in Vehicles
    PROVE  Sent(u, v) = <<>> /\ Link(u, v) = Unsent(u)
<1>1. texts[v] = <<>> /\ framer[v].pending = <<>> /\ stream[v] = <<>>
  BY DEF BridgeInv, Framed
<1>2. <<>> \o <<>> = <<>>
  OBVIOUS
<1>3. Split(<<>>).done = <<>>
  BY SplitEmpty DEF Nothing
<1>4. Readable(v) = <<>>
  BY <1>1, <1>2, <1>3 DEF Readable
<1>5. Sent(u, v) = <<>>
  <2> DEFINE f == TextsOf(u)
  <2>1. f \in [Texts(u) -> MessagesOf(u)]
    BY Pickers
  <2> HIDE DEF f
  <2>2. Picked(<<>>, f) = <<>>
    BY <2>1, PickedEmpty
  <2> QED BY <1>4, <2>2 DEF Sent, f
<1> DEFINE b == Unsent(u)
<1>6. b \in Seq(MessagesOf(u))
  BY LinkTypes
<1> HIDE DEF b
<1>7. <<>> \o b = b
  BY <1>6
<1> QED BY <1>5, <1>7 DEF Link, b

LEMMA PublishStep == ASSUME BridgeInv, NEW v \in Vehicles, Publish(v) PROVE Fifo!Next
<1> DEFINE m == Head(pending_msgs[v])
           h == [msg |-> m, whole |-> TRUE]
           others == Vehicles \ {v}
<1>1. /\ over_ros /\ over_ros' = over_ros /\ UNCHANGED <<texts, framer, stream>>
      /\ pending_msgs[v] # <<>> /\ IsOwn(v) /\ BridgeInv'
  BY PublishInv DEF Publish, Takes
<1>2. m \in Messages /\ m \in MessagesOf(v) /\ m.sender = v
  BY <1>1, LooksAt DEF MessagesOf
<1>3. /\ pending_msgs'[v] = Tail(pending_msgs[v]) /\ heard'[v] = heard[v]
      /\ \A u \in Vehicles : u # v => /\ pending_msgs'[u] = Append(pending_msgs[u], m)
                                      /\ heard'[u] = Append(heard[u], h)
  BY DEF Publish
<1>4. ASSUME NEW x \in Vehicles, NEW w \in Vehicles
      PROVE  Link(x, w) = Unsent(x) /\ Link(x, w)' = Unsent(x)'
  <2>1. Readable(w)' = Readable(w)
    BY <1>1, ReadableSame
  <2>2. Sent(x, w) = <<>> /\ Link(x, w) = Unsent(x)
    BY <1>1, NothingSent
  <2>3. Sent(x, w)' = <<>>
    BY <2>1, <2>2 DEF Sent, TextsOf
  <2> DEFINE b == Unsent(x)'
  <2>4. pending_msgs'[x] \in Seq(Messages)
    BY <1>1 DEF BridgeInv, TypeOK
  <2>5. b \in Seq(MessagesOf(x))
    <3>1. b = Picked(pending_msgs'[x], OwnOf(x))
      BY DEF Unsent, OwnOf
    <3> DEFINE f == OwnOf(x)
               D == MessagesOf(x)
               R == MessagesOf(x)
    <3>2. f \in [D -> R]
      BY Pickers
    <3> HIDE DEF f, D, R
    <3>3. Picked(pending_msgs'[x], f) \in Seq(R)
      BY <2>4, <3>2, PickedTypes
    <3> QED BY <3>1, <3>3 DEF f, R
  <2> HIDE DEF b
  <2>6. <<>> \o b = b
    BY <2>5
  <2> QED BY <2>2, <2>3, <2>6 DEF Link, b
<1>5. /\ Unsent(v) # <<>> /\ Head(Unsent(v)) = m /\ Tail(Unsent(v)) = Unsent(v)'
  <2> DEFINE rest == Picked(Tail(pending_msgs[v]), OwnOf(v))
  <2>1. Unsent(v)' = rest
    BY <1>3 DEF Unsent, OwnOf
  <2>2. Unsent(v) = <<m>> \o rest /\ rest \in Seq(MessagesOf(v))
    BY <1>1, UnsentFirst
  <2> HIDE DEF rest, m
  <2> QED BY <1>2, <2>1, <2>2, FirstOf
<1>6. ASSUME NEW u \in Vehicles, u # v PROVE Unsent(u)' = Unsent(u)
  <2>1. Unsent(u)' = Picked(Append(pending_msgs[u], m), OwnOf(u))
    BY <1>3, <1>6 DEF Unsent, OwnOf
  <2>2. pending_msgs[u] \in Seq(Messages)
    BY DEF BridgeInv, TypeOK
  <2> HIDE DEF m
  <2>3. Picked(Append(pending_msgs[u], m), OwnOf(u)) = Picked(pending_msgs[u], OwnOf(u))
    BY <1>2, <1>6, <2>2, UnsentOther
  <2> QED BY <2>1, <2>3 DEF Unsent
<1>7. ASSUME NEW u \in Vehicles
      PROVE  HeardWhole(u)' = IF u \in others THEN Append(HeardWhole(u), m) ELSE HeardWhole(u)
  <2>1. CASE u = v
    BY <1>3, <2>1, HeardSame
  <2>2. CASE u # v
    <3>1. heard[u] \in Seq(Heard)
      BY DEF BridgeInv, TypeOK
    <3>2. HeardWhole(u)' = Picked(Append(heard[u], h), Whole)
      BY <1>3, <2>2 DEF HeardWhole, Whole
    <3>3. Picked(Append(heard[u], h), Whole) = Append(Picked(heard[u], Whole), m)
      <4> HIDE DEF m
      <4> QED BY <1>2, <3>1, HeardMore
    <3> QED BY <2>2, <3>2, <3>3 DEF HeardWhole
  <2> QED BY <2>1, <2>2
<1> HIDE DEF m, h
<1>8. CASE others = {}
  <2>1. \A u \in Vehicles : HeardWhole(u)' = HeardWhole(u)
    BY <1>7, <1>8
  <2>2. \A x, w \in Vehicles : x # w => Link(x, w)' = Link(x, w)
    BY <1>8
  <2>3. Fifo!Lose
    BY <2>1, <2>2, StaysWhen
  <2> QED BY <2>3 DEF Fifo!Next
<1>9. CASE others # {}
  <2>1. \A u \in others : /\ Link(v, u) # <<>> /\ Head(Link(v, u)) = m
                          /\ Tail(Link(v, u)) = Link(v, u)'
    BY <1>4, <1>5
  <2>2. \A x, w \in Vehicles : x # w /\ ~(x = v /\ w \in others) => Link(x, w)' = Link(x, w)
    BY <1>4, <1>6
  <2>3. others \in SUBSET (Vehicles \ {v})
    OBVIOUS
  <2> HIDE DEF others
  <2>4. Fifo!Hear(v, others)
    BY <1>2, <1>7, <2>1, <2>2, <2>3, HearsWhen
  <2> QED BY <1>9, <2>3, <2>4 DEF Fifo!Next
<1> QED BY <1>8, <1>9

\* The receivers who are connected can read the text of the message.
LEMMA WriteReadable ==
    ASSUME BridgeInv, NEW v \in Vehicles, Write(v), NEW u \in Vehicles, u # v,
           connected[v], connected[u]
    PROVE  Readable(u)' = Readable(u) \o <<Body(Head(pending_msgs[v]))>>
<1> DEFINE text == Body(Head(pending_msgs[v]))
           Q == PartsOfOthers(u)
           p == framer[u].pending
           s == stream[u]
           t == texts[u]
           d == Split(p \o s).done
           r == s \o Append(text, Delimiter)
<1>1. /\ Head(pending_msgs[v]) \in MessagesOf(v) /\ Head(pending_msgs[v]) \in Messages
      /\ stream'[u] = r /\ UNCHANGED <<texts, framer>>
  BY WriteIs DEF Write
<1>2. text \in Seq(Q) \ {<<>>} /\ Len(text) = 2 /\ Delimiter \notin Q
  BY <1>1, BodyOfOther, BodyFacts, OthersNoDelimiter DEF MessagesOf
<1>3. IsFramed(Q, t, p, framer[u].delimited, s, TRUE)
  BY DEF BridgeInv, TypeOK, Framed
<1>4. Split(p \o r).done = d \o <<text>>
  <2> HIDE DEF text, Q, p, s, t
  <2>1. ArrivesLast(p, s, text)
    BY <1>2, <1>3, ArrivedText
  <2> QED BY <2>1 DEF ArrivesLast
<1>5. Readable(u)' = t \o (d \o <<text>>)
  <2>1. Readable(u)' = t \o Split(p \o r).done
    BY <1>1 DEF Readable
  <2> QED BY <1>4, <2>1
<1>6. t \in Seq(TextsFor(u)) /\ d \in Seq(TextsFor(u)) /\ text \in TextsFor(u)
  BY <1>2, LinkTypes DEF TextsFor
<1>7. Readable(u) = t \o d
  BY DEF Readable
<1> HIDE DEF t, d, text
<1>8. <<text>> \in Seq(TextsFor(u))
  BY <1>6
<1>9. t \o (d \o <<text>>) = (t \o d) \o <<text>>
  BY <1>6, <1>8, ConcatAssociative
<1> QED BY <1>5, <1>7, <1>9 DEF text

LEMMA WriteStep == ASSUME BridgeInv, NEW v \in Vehicles, Write(v) PROVE Fifo!Next
<1>0. PICK m : m = Head(pending_msgs[v])
  OBVIOUS
<1> DEFINE rest == Picked(Tail(pending_msgs[v]), OwnOf(v))
           Gets(u) == u # v /\ connected[v] /\ connected[u]
<1>1. /\ m \in MessagesOf(v) /\ m \in Messages /\ pending_msgs[v] # <<>> /\ IsOwn(v)
      /\ UNCHANGED <<texts, framer, heard>>
      /\ \A u \in Vehicles : ~Gets(u) => stream'[u] = stream[u]
  BY <1>0, WriteIs DEF Write, Takes
<1>2. /\ pending_msgs'[v] = Tail(pending_msgs[v])
      /\ \A u \in Vehicles : u # v => pending_msgs'[u] = pending_msgs[u]
  BY DEF Write, BridgeInv, TypeOK
<1>3. Unsent(v) = <<m>> \o rest /\ Unsent(v)' = rest /\ rest \in Seq(MessagesOf(v))
  <2>1. Unsent(v)' = rest
    BY <1>2 DEF Unsent, OwnOf
  <2> QED BY <1>0, <1>1, <2>1, UnsentFirst
<1>4. \A u \in Vehicles : HeardWhole(u)' = HeardWhole(u)
  BY <1>1, HeardSame
<1>5. ASSUME NEW w \in Vehicles, ~Gets(w) PROVE Readable(w)' = Readable(w)
  BY <1>1, <1>5, ReadableSame
<1>6. ASSUME NEW u \in Vehicles, NEW w \in Vehicles, Gets(w)
      PROVE  Sent(u, w)' = IF u = v THEN Sent(u, w) \o <<m>> ELSE Sent(u, w)
  <2> DEFINE text == Body(m)
             s == Readable(w)
             L == TextsFor(w)
  <2>1. Readable(w)' = s \o <<text>>
    BY <1>0, <1>6, WriteReadable
  <2>2. s \in Seq(L)
    BY LinkTypes
  <2>3. text \in L
    BY <1>1, <1>6, BodyOfOther DEF MessagesOf, TextsFor
  <2>4. text[1].msg = m /\ (u = v => text \in Texts(u)) /\ (u # v => text \notin Texts(u))
    <3>1. text[1].msg = m
      BY BodyFacts
    <3>2. u = v => text \in Texts(u)
      BY <1>1, Pickers
    <3>3. text \in Texts(u) => m \in MessagesOf(u)
      BY <3>1, TextOfOne
    <3> QED BY <1>1, <3>1, <3>2, <3>3 DEF MessagesOf
  <2>5. Sent(u, w)' = Picked(s \o <<text>>, TextsOf(u))
    BY <2>1 DEF Sent, TextsOf
  <2>6. Sent(u, w) = Picked(s, TextsOf(u)) /\ Sent(u, w) \in Seq(MessagesOf(u))
    BY LinkTypes DEF Sent
  <2> HIDE DEF text, s, L
  <2>7. <<text>> \in Seq(L)
    BY <2>3
  <2>8. Picked(s \o <<text>>, TextsOf(u)) = Picked(s, TextsOf(u)) \o Picked(<<text>>, TextsOf(u))
    BY <2>2, <2>7, TextsConcat
  <2>9. Picked(<<text>>, TextsOf(u)) = IF u = v THEN <<m>> ELSE <<>>
    BY <2>4, TextsOne
  <2> DEFINE a == Sent(u, w)
  <2>10. a \in Seq(MessagesOf(u)) /\ Sent(u, w)' = a \o (IF u = v THEN <<m>> ELSE <<>>)
    BY <2>5, <2>6, <2>8, <2>9
  <2> HIDE DEF a
  <2>11. a \o <<>> = a
    BY <2>10
  <2>12. CASE u = v
    BY <2>10, <2>12 DEF a
  <2>13. CASE u # v
    <3>1. Sent(u, w)' = a \o <<>>
      BY <2>10, <2>13
    <3> QED BY <2>11, <2>13, <3>1 DEF a
  <2> QED BY <2>12, <2>13
<1>7. ASSUME NEW u \in Vehicles, NEW w \in Vehicles, u # v PROVE Link(u, w)' = Link(u, w)
  <2>1. Unsent(u)' = Unsent(u)
    BY <1>2, <1>7 DEF Unsent, OwnOf
  <2>2. Sent(u, w)' = Sent(u, w)
    <3>1. CASE Gets(w)
      BY <1>6, <1>7, <3>1
    <3>2. CASE ~Gets(w)
      BY <1>5, <3>2 DEF Sent, TextsOf
    <3> QED BY <3>1, <3>2
  <2> QED BY <2>1, <2>2 DEF Link
<1>8. ASSUME NEW w \in Vehicles, Gets(w) PROVE Link(v, w)' = Link(v, w)
  <2> DEFINE a == Sent(v, w)
             R == MessagesOf(v)
  <2>1. Link(v, w)' = (a \o <<m>>) \o rest /\ Link(v, w) = a \o (<<m>> \o rest)
    BY <1>3, <1>6, <1>8 DEF Link
  <2>2. a \in Seq(R) /\ rest \in Seq(R) /\ m \in R
    BY <1>1, <1>3, LinkTypes
  <2> HIDE DEF a, R, rest
  <2>3. <<m>> \in Seq(R)
    BY <2>2
  <2>4. (a \o <<m>>) \o rest = a \o (<<m>> \o rest)
    BY <2>2, <2>3, ConcatAssociative
  <2> QED BY <2>1, <2>4
<1>9. ASSUME NEW w \in Vehicles, ~Gets(w) PROVE Fifo!Thinned(Link(v, w)', Link(v, w))
  <2> DEFINE a == Sent(v, w)
             R == MessagesOf(v)
  <2>1. Sent(v, w)' = a
    BY <1>5, <1>9 DEF Sent, TextsOf
  <2>2. Link(v, w)' = a \o rest /\ Link(v, w) = a \o (<<m>> \o rest)
    BY <1>3, <2>1 DEF Link
  <2>3. a \in Seq(R) /\ rest \in Seq(R) /\ m \in R
    BY <1>1, <1>3, LinkTypes
  <2> HIDE DEF a, R, rest
  <2>4. <<m>> \in Seq(R)
    BY <2>3
  <2>5. Fifo!Thinned(a \o rest, a \o (<<m>> \o rest))
    BY <2>3, <2>4, ThinnedAround
  <2> QED BY <2>2, <2>5
<1> HIDE DEF rest, Gets
<1>10. ASSUME NEW u \in Vehicles, NEW w \in Vehicles
       PROVE  Fifo!Thinned(Link(u, w)', Link(u, w))
  <2>1. CASE u = v /\ ~Gets(w)
    BY <1>9, <2>1
  <2>2. CASE ~(u = v /\ ~Gets(w))
    <3>1. Link(u, w)' = Link(u, w)
      BY <1>7, <1>8, <2>2
    <3>2. Link(u, w) \in Seq(MessagesOf(u))
      BY LinkTypes
    <3> QED BY <3>1, <3>2, ThinnedSame
  <2> QED BY <2>1, <2>2
<1>11. Fifo!Lose
  BY <1>4, <1>10, LosesWhen
<1> QED BY <1>11 DEF Fifo!Next

\* What a vehicle reads from delimiter to delimiter it could read before; a first read
\* may be a piece of a message, and the message is lost.
LEMMA ReadThins ==
    ASSUME BridgeInv, NEW v \in Vehicles, Read(v), NEW u \in Vehicles
    PROVE  Fifo!Thinned(Link(u, v)', Link(u, v))
<1> DEFINE Q == PartsOfOthers(v)
           L == TextsFor(v)
           R == MessagesOf(u)
           p == framer[v].pending
           f == TextsOf(u)
           b == Unsent(u)
<1>1. texts[v] = <<>> /\ connected[v] = TRUE
  BY ReadIs
<1>2. PICK data, rest : Reads(v, data, rest)
  BY ReadIs
<1>3. /\ data \in Seq(Q \cup {Delimiter}) \ {<<>>} /\ rest \in Seq(Q \cup {Delimiter})
      /\ stream[v] = data \o rest /\ stream'[v] = rest /\ Delimiter \notin Q
  BY <1>2, OthersNoDelimiter DEF Reads
<1>4. Unsent(u)' = b
  BY DEF Read, Unsent, OwnOf
<1>5. Link(u, v) \in Seq(R) /\ b \in Seq(R) /\ Readable(v) \in Seq(L)
  BY LinkTypes
<1>6. Readable(v) = Split(p \o (data \o rest)).done
  <2> DEFINE d == Split(p \o (data \o rest)).done
  <2>1. d \in Seq(L)
    BY <1>3, LinkTypes
  <2>2. Readable(v) = <<>> \o d
    BY <1>1, <1>3 DEF Readable
  <2> HIDE DEF d, L
  <2>3. <<>> \o d = d
    BY <2>1
  <2> QED BY <2>2, <2>3 DEF d
<1>7. IsFramed(Q, <<>>, p, framer[v].delimited, data \o rest, TRUE)
  BY <1>1, <1>3 DEF BridgeInv, Framed
<1>8. CASE ReadsFrames(v, data)
  <2>1. Readable(v)' = Split(p \o data).done \o Split(Split(p \o data).pending \o rest).done
    BY <1>3, <1>8 DEF ReadsFrames, Readable
  <2>2. Split(p \o (data \o rest)).done
          = Split(p \o data).done \o Split(Split(p \o data).pending \o rest).done
    <3> HIDE DEF Q, p
    <3>1. ReadsOn(p, data, rest)
      BY <1>3, <1>7, ReadFramed
    <3> QED BY <3>1 DEF ReadsOn
  <2>3. Readable(v)' = Readable(v)
    BY <1>6, <2>1, <2>2
  <2>4. Sent(u, v)' = Sent(u, v)
    BY <2>3 DEF Sent, TextsOf
  <2>5. Link(u, v)' = Link(u, v)
    BY <1>4, <2>4 DEF Link
  <2> QED BY <1>5, <2>5, ThinnedSame
<1>9. CASE ReadsText(v, data)
  <2>1. /\ data \in Seq(Q) \ {<<>>} /\ p = <<>> /\ framer'[v] = framer[v]
        /\ texts'[v] = <<data>>
    BY <1>3, <1>9 DEF ReadsText
  <2>2. PICK w \in Seq(Q), z \in Seq(Seq(Q) \ {<<>>}) :
           /\ Len(data \o w) <= 2
           /\ Split(<<>> \o (data \o rest)).done = <<data \o w>> \o z
           /\ Split(<<>> \o rest).done = Listed(w) \o z
    <3> HIDE DEF Q
    <3>1. IsFramed(Q, <<>>, <<>>, framer[v].delimited, data \o rest, TRUE)
      BY <1>7, <2>1
    <3>2. ReadsFirst(Q, data, rest)
      BY <1>3, <2>1, <3>1, FirstReadFramed
    <3> QED BY <3>2 DEF ReadsFirst
  <2> DEFINE text == data \o w
  <2>3. Readable(v) = <<text>> \o z
    BY <1>6, <2>1, <2>2
  <2>4. Readable(v)' = <<data>> \o (Listed(w) \o z)
    BY <1>3, <2>1, <2>2 DEF Readable
  <2>5. z \in Seq(L) /\ data \in L /\ Len(data) \in Nat \ {0} /\ Len(w) \in Nat
    BY <2>1 DEF TextsFor
  <2>6. text \in L /\ Len(text) = Len(data) + Len(w) /\ Len(text) <= 2
    <3>1. text \in Seq(Q) /\ Len(text) = Len(data) + Len(w) /\ Len(text) <= 2
      <4> HIDE DEF Q
      <4> QED BY <2>1, <2>2
    <3>2. text # <<>>
      <4> HIDE DEF text
      <4> QED BY <2>5, <3>1
    <3> QED BY <3>1, <3>2 DEF TextsFor
  <2>7. CASE w = <<>>
    <3>1. text = data
      <4> HIDE DEF Q
      <4> QED BY <2>1, <2>7
    <3>2. Listed(w) \o z = z
      <4>1. Listed(w) = <<>>
        BY <2>7 DEF Listed
      <4>2. <<>> \o z = z
        <5> HIDE DEF L
        <5> QED BY <2>5
      <4> QED BY <4>1, <4>2
    <3>3. Readable(v)' = Readable(v)
      BY <2>3, <2>4, <3>1, <3>2
    <3>4. Sent(u, v)' = Sent(u, v)
      BY <3>3 DEF Sent, TextsOf
    <3>5. Link(u, v)' = Link(u, v)
      BY <1>4, <3>4 DEF Link
    <3> QED BY <1>5, <3>5, ThinnedSame
  <2>8. CASE w # <<>>
    <3>1. Len(w) # 0
      BY <2>8
    <3>2. Len(data) # 2 /\ Len(w) # 2
      <4>1. Len(data) + Len(w) <= 2
        BY <2>6
      <4> DEFINE i == Len(data)
                 j == Len(w)
      <4>2. i \in Nat \ {0} /\ j \in Nat \ {0} /\ i + j <= 2
        BY <2>5, <3>1, <4>1
      <4> HIDE DEF i, j
      <4>3. i # 2 /\ j # 2
        BY <4>2
      <4> QED BY <4>3 DEF i, j
    <3>3. data \notin Texts(u) /\ w \notin Texts(u)
      BY <3>2, TextOfOne
    <3>4. w \in L /\ Listed(w) = <<w>>
      BY <2>8 DEF TextsFor, Listed
    <3> HIDE DEF L, text, f, b, R
    <3>5. <<data>> \in Seq(L) /\ <<w>> \in Seq(L) /\ <<text>> \in Seq(L) /\ z \in Seq(L)
      BY <2>5, <2>6, <3>4
    <3>6. <<w>> \o z \in Seq(L)
      BY <3>5
    <3> DEFINE a == Picked(z, f)
               c == Picked(<<text>>, f)
    <3>7. a \in Seq(R) /\ c \in Seq(R)
      BY <3>5, TextsConcat DEF f, R
    <3>8. Picked(<<data>>, f) = <<>> /\ Picked(<<w>>, f) = <<>>
      BY <3>3, TextsOne DEF f
    <3>9. Sent(u, v) = c \o a
      <4>1. Picked(<<text>> \o z, f) = c \o a
        BY <3>5, TextsConcat DEF f
      <4> QED BY <2>3, <4>1 DEF Sent, f
    <3>10. Sent(u, v)' = <<>> \o (<<>> \o a)
      <4>1. Picked(<<w>> \o z, f) = Picked(<<w>>, f) \o a
        BY <3>5, TextsConcat DEF f
      <4>2. Picked(<<data>> \o (<<w>> \o z), f) = Picked(<<data>>, f) \o Picked(<<w>> \o z, f)
        BY <3>5, <3>6, TextsConcat DEF f
      <4>3. Sent(u, v)' = Picked(<<data>> \o (<<w>> \o z), f)
        BY <2>4, <3>4 DEF Sent, TextsOf, f
      <4> QED BY <3>8, <4>1, <4>2, <4>3
    <3> HIDE DEF a, c
    <3>11. <<>> \o (<<>> \o a) = a /\ (c \o a) \o b = c \o (a \o b) /\ a \o b \in Seq(R)
      BY <1>5, <3>7, ConcatAssociative
    <3>12. Link(u, v) = c \o (a \o b) /\ Link(u, v)' = a \o b
      BY <1>4, <3>9, <3>10, <3>11 DEF Link, b
    <3> DEFINE e == a \o b
    <3>13. e \in Seq(R) /\ <<>> \in Seq(R)
      BY <3>11
    <3> HIDE DEF e
    <3>14. Fifo!Thinned(<<>> \o e, <<>> \o (c \o e))
      BY <3>7, <3>13, ThinnedAround
    <3>15. <<>> \o e = e /\ <<>> \o (c \o e) = c \o e
      BY <3>7, <3>13
    <3> QED BY <3>12, <3>14, <3>15 DEF e
  <2> QED BY <2>7, <2>8
<1> QED BY <1>2, <1>8, <1>9 DEF Reads

LEMMA ReadStep == ASSUME BridgeInv, NEW v \in Vehicles, Read(v) PROVE Fifo!Next
<1>1. /\ UNCHANGED <<pending_msgs, heard>>
      /\ \A w \in Vehicles : w # v => /\ stream'[w] = stream[w] /\ texts'[w] = texts[w]
                                      /\ framer'[w] = framer[w]
  BY DEF Read, Feed, BridgeInv, TypeOK
<1>2. \A w \in Vehicles : HeardWhole(w)' = HeardWhole(w)
  BY <1>1, HeardSame
<1>3. ASSUME NEW u \in Vehicles, NEW w \in Vehicles
      PROVE  Fifo!Thinned(Link(u, w)', Link(u, w))
  <2>1. CASE w = v
    BY <2>1, ReadThins
  <2>2. CASE w # v
    <3>1. Readable(w)' = Readable(w)
      BY <1>1, <2>2, ReadableSame
    <3>2. Link(u, w)' = Link(u, w)
      BY <1>1, <3>1, LinkSame
    <3>3. Link(u, w) \in Seq(MessagesOf(u))
      BY LinkTypes
    <3> QED BY <3>2, <3>3, ThinnedSame
  <2> QED BY <2>1, <2>2
<1>4. Fifo!Lose
  BY <1>2, <1>3, LosesWhen
<1> QED BY <1>4 DEF Fifo!Next

\* A text that is published is the first of those that can be read.
LEMMA PublishReadReadable ==
    ASSUME BridgeInv, NEW v \in Vehicles, PublishRead(v)
    PROVE  /\ Readable(v)' \in Seq(TextsFor(v)) /\ Head(texts[v]) \in TextsFor(v)
           /\ Readable(v) = <<Head(texts[v])>> \o Readable(v)'
<1> DEFINE h == Head(texts[v])
           t == Tail(texts[v])
           d == Split(framer[v].pending \o stream[v]).done
           L == TextsFor(v)
<1>1. texts[v] # <<>> /\ texts[v] \in Seq(L) /\ texts'[v] = t
  <2>1. PICK p : Publishes(v, p)
    BY PublishReadIs
  <2>2. texts[v] # <<>> /\ texts[v] \in Seq(L)
    BY PublishReadIs DEF TextsFor
  <2> QED BY <2>1, <2>2 DEF Publishes
<1>2. h \in L /\ t \in Seq(L) /\ <<h>> \in Seq(L) /\ texts[v] = <<h>> \o t
  <2> HIDE DEF L
  <2> QED BY <1>1, HeadFirst
<1>3. d \in Seq(L)
  BY LinkTypes
<1>4. Readable(v) = texts[v] \o d
  BY DEF Readable
<1>5. Readable(v)' = t \o d
  BY <1>1 DEF Readable, PublishRead
<1> HIDE DEF h, t, d, L
<1>6. (<<h>> \o t) \o d = <<h>> \o (t \o d) /\ t \o d \in Seq(L)
  BY <1>2, <1>3, ConcatAssociative
<1> QED BY <1>2, <1>4, <1>5, <1>6 DEF h, L

LEMMA PublishReadStep == ASSUME BridgeInv, NEW v \in Vehicles, PublishRead(v) PROVE Fifo!Next
<1>0. PICK text : text = Head(texts[v])
  OBVIOUS
<1>1. PICK p : Publishes(v, p)
  BY PublishReadIs
<1>2. PICK m : m = text[1].msg
  OBVIOUS
<1>3. /\ text \in TextsFor(v) /\ m \in Messages /\ m.sender # v /\ m.sender \in Vehicles
      /\ \/ text = Body(m) /\ p = <<[msg |-> m, whole |-> TRUE]>>
         \/ text # Body(m) /\ p = <<>>
         \/ text # Body(m) /\ p = <<[msg |-> m, whole |-> FALSE]>>
      /\ heard'[v] = heard[v] \o p
      /\ pending_msgs'[v] = IF p = <<>> THEN pending_msgs[v] ELSE Append(pending_msgs[v], m)
  BY <1>0, <1>1, <1>2, SenderIsVehicle DEF Publishes, TextsFor
<1>4. /\ UNCHANGED <<framer, stream>>
      /\ \A u \in Vehicles : u # v => /\ heard'[u] = heard[u] /\ texts'[u] = texts[u]
                                      /\ pending_msgs'[u] = pending_msgs[u]
  BY PublishReadIs DEF PublishRead
<1>5. ASSUME NEW u \in Vehicles PROVE Unsent(u)' = Unsent(u)
  <2>1. CASE u # v
    BY <1>4, <2>1 DEF Unsent, OwnOf
  <2>2. CASE u = v /\ p = <<>>
    BY <1>3, <2>2 DEF Unsent, OwnOf
  <2>3. CASE u = v /\ p # <<>>
    <3>1. Unsent(u)' = Picked(Append(pending_msgs[v], m), OwnOf(v))
      BY <1>3, <2>3 DEF Unsent, OwnOf
    <3>2. pending_msgs[v] \in Seq(Messages)
      BY DEF BridgeInv, TypeOK
    <3>3. Picked(Append(pending_msgs[v], m), OwnOf(v)) = Picked(pending_msgs[v], OwnOf(v))
      BY <1>3, <3>2, UnsentOther
    <3> QED BY <2>3, <3>1, <3>3 DEF Unsent
  <2> QED BY <2>1, <2>2, <2>3
<1>6. ASSUME NEW u \in Vehicles
      PROVE  /\ Sent(u, v)' \in Seq(MessagesOf(u))
             /\ text \in Texts(u) => Sent(u, v) = <<m>> \o Sent(u, v)'
             /\ text \notin Texts(u) => Sent(u, v) = Sent(u, v)'
  <2> DEFINE r == Readable(v)'
             L == TextsFor(v)
             R == MessagesOf(u)
             a == Picked(r, TextsOf(u))
  <2>1. r \in Seq(L) /\ text \in L /\ Readable(v) = <<text>> \o r
    BY <1>0, PublishReadReadable
  <2>2. Sent(u, v)' = a
    BY DEF Sent, TextsOf
  <2> HIDE DEF r, L
  <2>3. <<text>> \in Seq(L)
    BY <2>1
  <2>4. Picked(<<text>> \o r, TextsOf(u)) = Picked(<<text>>, TextsOf(u)) \o a /\ a \in Seq(R)
    BY <2>1, <2>3, TextsConcat
  <2>5. Picked(<<text>>, TextsOf(u)) = IF text \in Texts(u) THEN <<m>> ELSE <<>>
    BY <1>2, TextsOne
  <2>6. Sent(u, v) = Picked(<<text>>, TextsOf(u)) \o a
    BY <2>1, <2>4 DEF Sent
  <2> HIDE DEF a, R
  <2>7. <<>> \o a = a
    BY <2>4
  <2>8. CASE text \in Texts(u)
    BY <2>2, <2>4, <2>5, <2>6, <2>8 DEF R
  <2>9. CASE text \notin Texts(u)
    BY <2>2, <2>4, <2>5, <2>6, <2>7, <2>9 DEF R
  <2> QED BY <2>8, <2>9
<1>7. ASSUME NEW x \in Vehicles, NEW w \in Vehicles, ~(w = v /\ text \in Texts(x))
      PROVE  Link(x, w)' = Link(x, w)
  <2>1. CASE w = v
    BY <1>5, <1>6, <1>7, <2>1 DEF Link
  <2>2. CASE w # v
    <3>1. Readable(w)' = Readable(w)
      BY <1>4, <2>2, ReadableSame
    <3>2. Sent(x, w)' = Sent(x, w)
      BY <3>1 DEF Sent, TextsOf
    <3> QED BY <1>5, <3>2 DEF Link
  <2> QED BY <2>1, <2>2
<1>8. heard[v] \in Seq(Heard) /\ HeardWhole(v)' = Picked(heard[v] \o p, Whole)
  BY <1>3 DEF BridgeInv, TypeOK, HeardWhole, Whole
<1>9. \A u \in Vehicles : u # v => HeardWhole(u)' = HeardWhole(u)
  BY <1>4, HeardSame
<1>10. CASE text = Body(m)
  <2> DEFINE s == m.sender
  <2>1. m \in MessagesOf(s) /\ text \in Texts(s) /\ s \in Vehicles /\ s # v
    BY <1>3, <1>10, Pickers DEF MessagesOf
  <2>2. ASSUME NEW x \in Vehicles, text \in Texts(x) PROVE x = s
    BY <1>2, <2>2, TextOfOne DEF MessagesOf
  <2>3. HeardWhole(v)' = Append(HeardWhole(v), m)
    <3>1. p = <<[msg |-> m, whole |-> TRUE]>>
      BY <1>3, <1>10
    <3>2. Picked(heard[v] \o <<[msg |-> m, whole |-> TRUE]>>, Whole) = Append(Picked(heard[v], Whole), m)
      BY <1>3, <1>8, HeardMore
    <3> QED BY <1>8, <3>1, <3>2 DEF HeardWhole
  <2>4. /\ Link(s, v) # <<>> /\ Head(Link(s, v)) = m /\ Tail(Link(s, v)) = Link(s, v)'
    <3> DEFINE a == Sent(s, v)'
               b == Unsent(s)
               R == MessagesOf(s)
    <3>1. a \in Seq(R) /\ b \in Seq(R) /\ m \in R /\ Sent(s, v) = <<m>> \o a
      BY <1>6, <2>1, LinkTypes
    <3>2. Link(s, v) = (<<m>> \o a) \o b /\ Link(s, v)' = a \o b
      BY <1>5, <2>1, <3>1 DEF Link
    <3> HIDE DEF a, b, R
    <3>3. <<m>> \in Seq(R) /\ a \o b \in Seq(R)
      BY <3>1
    <3>4. (<<m>> \o a) \o b = <<m>> \o (a \o b)
      BY <3>1, <3>3, ConcatAssociative
    <3> DEFINE t == a \o b
               l == Link(s, v)
    <3>5. t \in Seq(R) /\ l = <<m>> \o t /\ Link(s, v)' = t
      BY <3>2, <3>3, <3>4
    <3> HIDE DEF t, l
    <3>6. l # <<>> /\ Head(l) = m /\ Tail(l) = t
      BY <3>1, <3>5, FirstOf
    <3> QED BY <3>5, <3>6 DEF l
  <2>5. \A x, w \in Vehicles : x # w /\ ~(x = s /\ w \in {v}) => Link(x, w)' = Link(x, w)
    BY <1>7, <2>2
  <2> HIDE DEF s
  <2>6. {v} \in SUBSET (Vehicles \ {s}) /\ {v} # {}
    BY <2>1
  <2>7. \A u \in Vehicles :
           HeardWhole(u)' = IF u \in {v} THEN Append(HeardWhole(u), m) ELSE HeardWhole(u)
    BY <1>9, <2>3
  <2>8. \A u \in {v} : /\ Link(s, u) # <<>> /\ Head(Link(s, u)) = m
                       /\ Tail(Link(s, u)) = Link(s, u)'
    BY <2>4
  <2>9. Fifo!Hear(s, {v})
    BY <1>3, <2>1, <2>5, <2>6, <2>7, <2>8, HearsWhen
  <2> QED BY <2>1, <2>6, <2>9 DEF Fifo!Next
<1>11. CASE text # Body(m)
  <2>1. \A x \in Vehicles : text \notin Texts(x)
    BY <1>2, <1>11, TextOfOne
  <2>2. HeardWhole(v)' = HeardWhole(v)
    <3>1. p = <<>> \/ p = <<[msg |-> m, whole |-> FALSE]>>
      BY <1>3, <1>11
    <3>2. /\ Picked(heard[v] \o <<>>, Whole) = Picked(heard[v], Whole)
          /\ Picked(heard[v] \o <<[msg |-> m, whole |-> FALSE]>>, Whole) = Picked(heard[v], Whole)
      BY <1>3, <1>8, HeardMore
    <3> QED BY <1>8, <3>1, <3>2 DEF HeardWhole
  <2>3. Fifo!Lose
    BY <1>7, <1>9, <2>1, <2>2, StaysWhen
  <2> QED BY <2>3 DEF Fifo!Next
<1> QED BY <1>10, <1>11

LEMMA DisconnectStep == ASSUME BridgeInv, NEW v \in Vehicles, Disconnect(v) PROVE Fifo!Next
<1>1. /\ UNCHANGED <<pending_msgs, framer, texts, heard>>
      /\ stream'[v] = <<>> /\ \A u \in Vehicles : u # v => stream'[u] = stream[u]
  BY DEF Disconnect, BridgeInv, TypeOK
<1>2. \A u \in Vehicles : HeardWhole(u)' = HeardWhole(u)
  BY <1>1, HeardSame
<1>3. ASSUME NEW u \in Vehicles PROVE Fifo!Thinned(Link(u, v)', Link(u, v))
  <2> DEFINE t == texts[v]
             d == Split(framer[v].pending \o stream[v]).done
             L == TextsFor(v)
             R == MessagesOf(u)
             f == TextsOf(u)
             a == Picked(t, f)
             c == Picked(d, f)
             b == Unsent(u)
  <2>1. t \in Seq(L) /\ d \in Seq(L) /\ b \in Seq(R) /\ Readable(v) = t \o d
    BY LinkTypes DEF Readable
  <2>2. Split(framer[v].pending \o <<>>).done = <<>>
    <3>1. /\ Delimiter \notin PartsOfOthers(v)
          /\ IsFramed(PartsOfOthers(v), texts[v], framer[v].pending, framer[v].delimited, stream[v],
                      connected[v])
      BY OthersNoDelimiter DEF BridgeInv, Framed
    <3> QED BY <3>1, CutOffFramed
  <2>3. Readable(v)' = t
    <3>1. Readable(v)' = t \o <<>>
      BY <1>1, <2>2 DEF Readable
    <3>2. t \o <<>> = t
      <4> HIDE DEF t, L
      <4> QED BY <2>1
    <3> QED BY <3>1, <3>2
  <2>4. Sent(u, v)' = a
    BY <2>3 DEF Sent, TextsOf
  <2>5. Sent(u, v) = a \o c /\ a \in Seq(R) /\ c \in Seq(R)
    <3> HIDE DEF t, d, L
    <3>1. a \in Seq(R) /\ c \in Seq(R) /\ Picked(t \o d, f) = a \o c
      BY <2>1, TextsConcat
    <3> QED BY <2>1, <3>1 DEF Sent
  <2>6. Unsent(u)' = b
    BY <1>1 DEF Unsent, OwnOf
  <2>7. Link(u, v) = (a \o c) \o b /\ Link(u, v)' = a \o b
    BY <2>4, <2>5, <2>6 DEF Link
  <2> HIDE DEF a, b, c, R
  <2>8. (a \o c) \o b = a \o (c \o b)
    BY <2>1, <2>5, ConcatAssociative
  <2>9. Fifo!Thinned(a \o b, a \o (c \o b))
    BY <2>1, <2>5, ThinnedAround
  <2> QED BY <2>7, <2>8, <2>9
<1>4. ASSUME NEW u \in Vehicles, NEW w \in Vehicles
      PROVE  Fifo!Thinned(Link(u, w)', Link(u, w))
  <2>1. CASE w = v
    BY <1>3, <2>1
  <2>2. CASE w # v
    <3>1. Readable(w)' = Readable(w)
      BY <1>1, <2>2, ReadableSame
    <3>2. Link(u, w)' = Link(u, w)
      BY <1>1, <3>1, LinkSame
    <3>3. Link(u, w) \in Seq(MessagesOf(u))
      BY LinkTypes
    <3> QED BY <3>2, <3>3, ThinnedSame
  <2> QED BY <2>1, <2>2
<1>5. Fifo!Lose
  BY <1>2, <1>4, LosesWhen
<1> QED BY <1>5 DEF Fifo!Next

-----------------------------------------------------------------------------
(* The bridge is a lossy channel. *)

LEMMA EmptyChannels == ASSUME Init PROVE Fifo!Init
<1>1. \A v \in Vehicles : /\ texts[v] = <<>> /\ framer[v].pending = <<>> /\ stream[v] = <<>>
                          /\ pending_msgs[v] = <<>> /\ heard[v] = <<>>
  BY DEF Init
<1>2. <<>> \o <<>> = <<>> /\ Split(<<>>).done = <<>>
  BY SplitEmpty DEF Nothing
<1>3. ASSUME NEW u \in Vehicles, NEW v \in Vehicles
      PROVE  Picked(Readable(v), TextsOf(u)) \o Picked(pending_msgs[u], OwnOf(u)) = <<>>
  <2>1. Readable(v) = <<>>
    BY <1>1, <1>2 DEF Readable
  <2>2. Picked(<<>>, TextsOf(u)) = <<>>
    <3> DEFINE f == TextsOf(u)
    <3>1. f \in [Texts(u) -> MessagesOf(u)]
      BY Pickers
    <3> HIDE DEF f
    <3>2. Picked(<<>>, f) = <<>>
      BY <3>1, PickedEmpty
    <3> QED BY <3>2 DEF f
  <2>3. Picked(<<>>, OwnOf(u)) = <<>>
    <3> DEFINE f == OwnOf(u)
               D == MessagesOf(u)
               R == MessagesOf(u)
    <3>1. f \in [D -> R]
      BY Pickers
    <3> HIDE DEF f, D, R
    <3>2. Picked(<<>>, f) = <<>>
      BY <3>1, PickedEmpty
    <3> QED BY <3>2 DEF f
  <2> QED BY <1>1, <1>2, <2>1, <2>2, <2>3
<1>4. ASSUME NEW v \in Vehicles PROVE Picked(heard[v], Whole) = <<>>
  <2> DEFINE f == Whole
  <2>1. f \in [WholeMessages -> Messages]
    BY Pickers
  <2> HIDE DEF f
  <2>2. Picked(<<>>, f) = <<>>
    BY <2>1, PickedEmpty
  <2> QED BY <1>1, <2>2 DEF f
<1>5. \A l \in FifoLinks :
         Picked(Readable(l[2]), TextsOf(l[1])) \o Picked(pending_msgs[l[1]], OwnOf(l[1])) = <<>>
  BY <1>3 DEF FifoLinks
<1> QED BY <1>4, <1>5 DEF Fifo!Init, Fifo!Links, FifoLinks

\* What the channels are is a matter of what is pending, read and heard.
LEMMA SameChannels ==
    ASSUME BridgeInv, UNCHANGED vars
    PROVE  Fifo!Next
<1>1. UNCHANGED <<pending_msgs, framer, texts, stream, heard>>
  BY DEF vars
<1>2. \A v \in Vehicles : HeardWhole(v)' = HeardWhole(v)
  BY <1>1, HeardSame
<1>3. ASSUME NEW u \in Vehicles, NEW v \in Vehicles PROVE Link(u, v)' = Link(u, v)
  <2>1. Readable(v)' = Readable(v)
    BY <1>1, ReadableSame
  <2> QED BY <1>1, <2>1, LinkSame
<1>4. Fifo!Lose
  BY <1>2, <1>3, StaysWhen
<1> QED BY <1>4 DEF Fifo!Next

LEMMA StepOfChannels == BridgeInv /\ [Next]_vars => Fifo!Next
<1> SUFFICES ASSUME BridgeInv, [Next]_vars PROVE Fifo!Next
  OBVIOUS
<1>1. CASE UNCHANGED vars
  BY <1>1, SameChannels
<1>2. CASE Next
  BY <1>2, SayStep, SkipStep, PublishStep, WriteStep, ReadStep, PublishReadStep, DisconnectStep
     DEF Next
<1> QED BY <1>1, <1>2

\* What a vehicle reads is of what others said, between two delimiters stands one
\* message or its end, and on a connection that stands whole frames are to come, after
\* what the framer keeps (SocketMessageFramer::Feed; the writes of comm_node.cpp).
THEOREM BridgeInvHolds == Spec => []BridgeInv
<1> QED BY BridgeInit, BridgeNext, PTL DEF Spec

\* Between the comm nodes of a team messages may be lost, and nothing else: each vehicle
\* hears what another said in the order it was said, each message at most once, and takes
\* for a whole message only what was said (comm_node.cpp, socket_message_framer.cpp).
THEOREM BridgeIsLossyFifo == Spec => ImplementsLossyFifo
<1>1. Init => Fifo!Init
  BY EmptyChannels
<1> QED BY <1>1, BridgeInvHolds, StepOfChannels, PTL DEF Spec, Fifo!Spec, ImplementsLossyFifo

=============================================================================
