----------------------------- MODULE FleetProofs -----------------------------
(***************************************************************************)
(* Proofs about Fleet, for any team, any scripts that keep away from the   *)
(* ids of investigations, and any order of the messages: a vehicle that    *)
(* stands by does so as long as the investigation it was asked for lasts,  *)
(* and not in vain.  That it is let go is left to TLC.  Who moves in a     *)
(* formation until all have arrived leaves it when all have.               *)
(***************************************************************************)
EXTENDS Fleet, TaskListProofs

-----------------------------------------------------------------------------
(* What a subscriber takes from a broadcast, by its recursive definition:  *)
(* the function exists, and it gives the messages listened for, no others. *)
Takes(f, n, ms, ids) ==
    f = [k \in 0..n |->
            IF k = 0 THEN <<>>
            ELSE IF ms[k].id \in ids[ms[k].type] THEN Append(f[k - 1], ms[k])
            ELSE f[k - 1]]

LEMMA TakesExists ==
    ASSUME NEW ms, NEW ids, NEW n \in Nat
    PROVE  \E f : Takes(f, n, ms, ids)
<1> DEFINE Without == {k \in Nat : \A f : ~Takes(f, k, ms, ids)}
           step(k, s) == IF ms[k].id \in ids[ms[k].type] THEN Append(s, ms[k]) ELSE s
<1>1. ASSUME NEW k \in Nat, NEW f, Takes(f, k, ms, ids)
      PROVE  \E g : Takes(g, k + 1, ms, ids)
  <2> DEFINE g == [j \in 0..(k + 1) |-> IF j = k + 1 THEN step(k + 1, f[k]) ELSE f[j]]
  <2>1. \A j \in 0..k : f[j] = IF j = 0 THEN <<>> ELSE step(j, f[j - 1])
    BY <1>1 DEF Takes
  <2>2. \A j \in 0..k : g[j] = f[j]
    OBVIOUS
  <2>3. g[k + 1] = step(k + 1, g[k]) /\ k + 1 # 0 /\ (k + 1) - 1 = k
    OBVIOUS
  <2>4. ASSUME NEW j \in 0..(k + 1)
        PROVE  g[j] = IF j = 0 THEN <<>> ELSE step(j, g[j - 1])
    <3>1. CASE j = k + 1
      BY <2>3, <3>1
    <3>2. CASE j \in 0..k
      <4>1. j # 0 => j - 1 \in 0..k
        BY <3>2
      <4> HIDE DEF g, step
      <4> QED BY <2>1, <2>2, <3>2, <4>1
    <3> QED BY <3>1, <3>2
  <2>5. g = [j \in 0..(k + 1) |-> g[j]]
    OBVIOUS
  <2> HIDE DEF g
  <2>6. g = [j \in 0..(k + 1) |-> IF j = 0 THEN <<>> ELSE step(j, g[j - 1])]
    BY <2>4, <2>5
  <2> QED BY <2>6 DEF Takes
<1>2. \E f : Takes(f, 0, ms, ids)
  <2> DEFINE g == [j \in 0..0 |-> <<>>]
  <2>1. Takes(g, 0, ms, ids)
    BY DEF Takes
  <2> QED BY <2>1
<1>3. SUFFICES ASSUME Without # {} PROVE FALSE
  <2>1. n \notin Without
    BY <1>3
  <2> QED BY <2>1
<1>4. PICK m \in Without : \A k \in Without : m <= k
  BY <1>3, MinProperties
<1>5. m # 0
  BY <1>2
<1>6. m - 1 \in Nat /\ m - 1 \notin Without /\ (m - 1) + 1 = m
  BY <1>4, <1>5
<1>7. \E f : Takes(f, m - 1, ms, ids)
  BY <1>6
<1>8. \E f : Takes(f, m, ms, ids)
  BY <1>1, <1>6, <1>7
<1> QED BY <1>4, <1>8

\* What has been taken of the first k messages.
Taken(s, k, ms, ids) ==
    /\ s \in Seq(Messages)
    /\ \A j \in 1..Len(s) :
          \E i \in 1..k : s[j] = ms[i] /\ ms[i].id \in ids[ms[i].type]
    /\ \A i \in 1..k :
          ms[i].id \in ids[ms[i].type] => \E j \in 1..Len(s) : s[j] = ms[i]

LEMMA TakenNext ==
    ASSUME NEW ms \in Seq(Messages), NEW ids, NEW k \in Nat, k + 1 \in 1..Len(ms),
           NEW s, Taken(s, k, ms, ids)
    PROVE  Taken(IF ms[k + 1].id \in ids[ms[k + 1].type] THEN Append(s, ms[k + 1]) ELSE s,
                 k + 1, ms, ids)
<1> DEFINE m == ms[k + 1]
           heed == m.id \in ids[m.type]
           new == IF heed THEN Append(s, m) ELSE s
<1>1. m \in Messages /\ s \in Seq(Messages) /\ Len(s) \in Nat
  BY DEF Taken
<1>2. \A i \in 1..(k + 1) : i \in 1..k \/ i = k + 1
  OBVIOUS
<1>3. 1..k \subseteq 1..(k + 1) /\ k + 1 \in 1..(k + 1)
  OBVIOUS
<1>4. CASE ~heed
  <2>1. new = s
    BY <1>4
  <2>2. \A i \in 1..(k + 1) : ms[i].id \in ids[ms[i].type] => i \in 1..k
    BY <1>2, <1>4
  <2> HIDE DEF heed, new, m
  <2>3. Taken(new, k + 1, ms, ids)
    BY <1>3, <2>1, <2>2 DEF Taken
  <2> QED BY <2>3 DEF new, heed, m
<1>5. CASE heed
  <2>1. /\ new \in Seq(Messages) /\ Len(new) = Len(s) + 1
        /\ \A j \in 1..Len(s) : new[j] = s[j]
        /\ new[Len(s) + 1] = m
    BY <1>1, <1>5
  <2>2. m = ms[k + 1] /\ ms[k + 1].id \in ids[ms[k + 1].type]
    BY <1>5
  <2> HIDE DEF heed, new, m
  <2>3. \A j \in 1..Len(new) : j \in 1..Len(s) \/ j = Len(s) + 1
    BY <1>1, <2>1
  <2>4. 1..Len(s) \subseteq 1..Len(new) /\ Len(s) + 1 \in 1..Len(new)
    BY <1>1, <2>1
  <2>5. ASSUME NEW j \in 1..Len(new)
        PROVE  \E i \in 1..(k + 1) : new[j] = ms[i] /\ ms[i].id \in ids[ms[i].type]
    <3>1. CASE j \in 1..Len(s)
      <4>1. PICK i \in 1..k : s[j] = ms[i] /\ ms[i].id \in ids[ms[i].type]
        BY <3>1 DEF Taken
      <4> QED BY <1>3, <2>1, <3>1, <4>1
    <3>2. CASE j = Len(s) + 1
      BY <1>3, <2>1, <2>2, <3>2
    <3> QED BY <2>3, <3>1, <3>2
  <2>6. ASSUME NEW i \in 1..(k + 1), ms[i].id \in ids[ms[i].type]
        PROVE  \E j \in 1..Len(new) : new[j] = ms[i]
    <3>1. CASE i \in 1..k
      <4>1. PICK j \in 1..Len(s) : s[j] = ms[i]
        BY <2>6, <3>1 DEF Taken
      <4> QED BY <2>1, <2>4, <4>1
    <3>2. CASE i = k + 1
      BY <2>1, <2>2, <2>4, <3>2
    <3> QED BY <1>2, <3>1, <3>2
  <2>7. Taken(new, k + 1, ms, ids)
    BY <2>1, <2>5, <2>6 DEF Taken
  <2> QED BY <2>7 DEF new, heed, m
<1> QED BY <1>4, <1>5

LEMMA HeededTaken ==
    ASSUME NEW ms \in Seq(Messages), NEW ids
    PROVE  Taken(Heeded(ms, ids), Len(ms), ms, ids)
<1> DEFINE n == Len(ms)
           f == CHOOSE g : Takes(g, n, ms, ids)
           Wrong == {k \in 0..n : ~Taken(f[k], k, ms, ids)}
<1>1. n \in Nat /\ Takes(f, n, ms, ids)
  BY TakesExists
<1>2. Heeded(ms, ids) = f[n]
  BY DEF Heeded, Takes
<1>3. ASSUME NEW k \in 0..n
      PROVE  f[k] = IF k = 0 THEN <<>>
                    ELSE IF ms[k].id \in ids[ms[k].type] THEN Append(f[k - 1], ms[k])
                    ELSE f[k - 1]
  <2> HIDE DEF f
  <2> QED BY <1>1 DEF Takes
<1> HIDE DEF f
<1>4. Taken(f[0], 0, ms, ids)
  <2>1. 0 \in 0..n
    BY <1>1
  <2>2. f[0] = <<>>
    BY <1>3, <2>1
  <2>3. Len(<<>>) = 0 /\ <<>> \in Seq(Messages)
    OBVIOUS
  <2> QED BY <2>2, <2>3 DEF Taken
<1>5. SUFFICES ASSUME Wrong # {} PROVE FALSE
  <2>1. n \notin Wrong /\ n \in 0..n
    BY <1>1, <1>5
  <2> QED BY <1>2, <2>1
<1>6. Wrong \in SUBSET Nat
  BY <1>1
<1>7. PICK m \in Wrong : \A k \in Wrong : m <= k
  BY <1>5, <1>6, MinProperties
<1>8. m \in 0..n /\ ~Taken(f[m], m, ms, ids) /\ m # 0
  BY <1>4, <1>7
<1>9. m - 1 \in Nat /\ (m - 1) + 1 = m /\ m \in 1..n /\ m - 1 \in 0..n /\ ~(m <= m - 1)
  BY <1>1, <1>8
<1>10. Taken(f[m - 1], m - 1, ms, ids)
  BY <1>7, <1>9
<1> DEFINE j == m - 1
<1>11. j \in Nat /\ j + 1 \in 1..Len(ms) /\ j + 1 = m /\ Taken(f[j], j, ms, ids)
  BY <1>9, <1>10
<1>12. f[j + 1] = IF ms[j + 1].id \in ids[ms[j + 1].type] THEN Append(f[j], ms[j + 1]) ELSE f[j]
  BY <1>3, <1>8, <1>9
<1> HIDE DEF j
<1>13. Taken(f[j + 1], j + 1, ms, ids)
  BY <1>11, <1>12, TakenNext
<1> QED BY <1>8, <1>11, <1>13

-----------------------------------------------------------------------------
(* The circles of a list: each has an id of an investigation that its      *)
(* vehicle has handed out, no two the same, and nothing else has one.      *)
HasCircle(tl, id) == \E i \in 1..Len(tl) : tl[i].kind = "Encircle" /\ tl[i].id = id

Circles(tl, m, next) ==
    /\ \A i \in 1..Len(tl) :
          tl[i].kind = "Encircle" => tl[i].id \in EncircleIds(m) /\ tl[i].id > next
    /\ \A i \in 1..Len(tl) : tl[i].id \in EncircleIds(m) => tl[i].kind = "Encircle"
    /\ \A i, j \in 1..Len(tl) :
          /\ tl[i].kind = "Encircle" /\ tl[j].kind = "Encircle"
          /\ tl[i].id = tl[j].id
          => i = j

LEMMA TaskId == ASSUME NEW tl \in Seq(Tasks) PROVE \A i \in 1..Len(tl) : tl[i].id \in Int
<1>1. \A t \in Tasks : t.id \in Int
  BY DEF Tasks
<1> QED BY <1>1

\* Where the tasks of a list go in an insertion.
LEMMA InsertedKeeps ==
    ASSUME NEW tl \in Seq(Tasks), NEW new \in Seq(Tasks), NEW b \in Seq(Tasks), NEW p,
           Inserted(new, tl, p, b)
    PROVE  /\ \A i \in 1..Len(tl) : \E j \in 1..Len(new) : Alike(new[j], tl[i])
           /\ \A i \in 1..Len(b) : \E j \in 1..Len(new) : new[j] = b[i]
<1>1. /\ p \in 1..(Len(tl) + 1) /\ Len(b) \in Nat /\ Len(tl) \in Nat
      /\ Len(new) = Len(tl) + Len(b)
  BY DEF Inserted
<1>2. ASSUME NEW i \in 1..Len(tl) PROVE \E j \in 1..Len(new) : Alike(new[j], tl[i])
  <2>1. CASE i < p
    <3>1. i \in 1..(p - 1) /\ i \in 1..Len(new)
      BY <1>1, <2>1
    <3> QED BY <3>1 DEF Inserted
  <2>2. CASE i >= p
    <3>1. i \in p..Len(tl) /\ i + Len(b) \in 1..Len(new)
      BY <1>1, <2>2
    <3> QED BY <3>1 DEF Inserted
  <2> QED BY <1>1, <2>1, <2>2
<1>3. ASSUME NEW i \in 1..Len(b) PROVE \E j \in 1..Len(new) : new[j] = b[i]
  <2>1. p + i - 1 \in 1..Len(new)
    BY <1>1
  <2> QED BY <2>1 DEF Inserted
<1> QED BY <1>2, <1>3

\* Where the tasks of a list that was shortened come from, and go to.
LEMMA DeletedElements ==
    ASSUME NEW tl \in Seq(Tasks), NEW new \in Seq(Tasks), NEW p, NEW n, Deleted(new, tl, p, n)
    PROVE  /\ p \in 1..(Len(tl) + 1) /\ n \in Nat /\ Len(tl) \in Nat
           /\ \A i \in 1..Len(new) :
                 \/ i < p /\ i \in 1..Len(tl) /\ new[i] = tl[i]
                 \/ i >= p /\ i + n \in 1..Len(tl) /\ new[i] = tl[i + n]
           /\ \A i \in 1..Len(tl) :
                 i \notin p..(p + n - 1) => \E j \in 1..Len(new) : new[j] = tl[i]
<1>1. /\ n \in Nat /\ p \in 1..(Len(tl) + 1) /\ p + n <= Len(tl) + 1 /\ Len(tl) \in Nat
      /\ Len(new) = Len(tl) - n
  BY DEF Deleted
<1>2. ASSUME NEW i \in 1..Len(new)
      PROVE  \/ i < p /\ i \in 1..Len(tl) /\ new[i] = tl[i]
             \/ i >= p /\ i + n \in 1..Len(tl) /\ new[i] = tl[i + n]
  <2>1. CASE i < p
    <3>1. i \in 1..(p - 1) /\ i \in 1..Len(tl)
      BY <1>1, <2>1
    <3> QED BY <2>1, <3>1 DEF Deleted
  <2>2. CASE i >= p
    <3>1. i + n \in (p + n)..Len(tl) /\ i + n \in 1..Len(tl) /\ (i + n) - n = i
      BY <1>1, <2>2
    <3>2. new[(i + n) - n] = tl[i + n]
      BY <3>1 DEF Deleted
    <3> QED BY <2>2, <3>1, <3>2
  <2> QED BY <1>1, <2>1, <2>2
<1>3. ASSUME NEW i \in 1..Len(tl), i \notin p..(p + n - 1)
      PROVE  \E j \in 1..Len(new) : new[j] = tl[i]
  <2>1. CASE i < p
    <3>1. i \in 1..(p - 1) /\ i \in 1..Len(new)
      BY <1>1, <2>1
    <3> QED BY <3>1 DEF Deleted
  <2>2. CASE i >= p + n
    <3>1. i \in (p + n)..Len(tl) /\ i - n \in 1..Len(new)
      BY <1>1, <2>2
    <3> QED BY <3>1 DEF Deleted
  <2> QED BY <1>1, <1>3, <2>1, <2>2
<1> QED BY <1>1, <1>2, <1>3

LEMMA DeletedComes ==
    ASSUME NEW tl \in Seq(Tasks), NEW new \in Seq(Tasks), NEW p, NEW n, Deleted(new, tl, p, n)
    PROVE  \A i \in 1..Len(new) : \E j \in 1..Len(tl) : new[i] = tl[j]
<1> TAKE i \in 1..Len(new)
<1>1. \/ i < p /\ i \in 1..Len(tl) /\ new[i] = tl[i]
      \/ i >= p /\ i + n \in 1..Len(tl) /\ new[i] = tl[i + n]
  BY DeletedElements
<1> QED BY <1>1

LEMMA DeletedOne ==
    ASSUME NEW tl \in Seq(Tasks), NEW new \in Seq(Tasks), NEW p, Deleted(new, tl, p, 1)
    PROVE  \A i \in 1..Len(tl) : i # p => \E j \in 1..Len(new) : new[j] = tl[i]
<1> TAKE i \in 1..Len(tl)
<1>1. p \in 1..(Len(tl) + 1) /\ Len(tl) \in Nat
      /\ (i \notin p..(p + 1 - 1) => \E j \in 1..Len(new) : new[j] = tl[i])
  BY DeletedElements
<1>2. i # p => i \notin p..(p + 1 - 1)
  BY <1>1
<1> QED BY <1>1, <1>2

\* Circles come and go with what is put in and taken out.
LEMMA InsertedCircles ==
    ASSUME NEW tl \in Seq(Tasks), NEW new \in Seq(Tasks), NEW b \in Seq(Tasks), NEW p,
           Inserted(new, tl, p, b),
           NEW m, NEW next \in Int, NEW low \in Int, low <= next, Circles(tl, m, next),
           \A i \in 1..Len(b) :
              /\ b[i].kind = "Encircle" => b[i].id \in EncircleIds(m) /\ b[i].id > low
                                           /\ b[i].id <= next
              /\ b[i].id \in EncircleIds(m) => b[i].kind = "Encircle",
           \A i, j \in 1..Len(b) : b[i].kind = "Encircle" /\ b[j].kind = "Encircle" => i = j
    PROVE  /\ Circles(new, m, low)
           /\ \A id : HasCircle(new, id) <=> HasCircle(tl, id) \/ HasCircle(b, id)
<1>1. /\ p \in 1..(Len(tl) + 1) /\ Len(b) \in Nat /\ Len(tl) \in Nat
      /\ \A i \in 1..Len(new) :
                 \/ i \in 1..Len(tl) /\ i < p /\ Alike(new[i], tl[i])
                 \/ p <= i /\ i < p + Len(b) /\ i - p + 1 \in 1..Len(b) /\ new[i] = b[i - p + 1]
                 \/ /\ i >= p + Len(b) /\ i - Len(b) \in 1..Len(tl)
                    /\ Alike(new[i], tl[i - Len(b)])
  BY InsertedElements
<1>2. \A i \in 1..Len(tl) : tl[i].id \in Int
  BY TaskId
<1>3. ASSUME NEW i \in 1..Len(new)
      PROVE  /\ new[i].kind = "Encircle" => new[i].id \in EncircleIds(m) /\ new[i].id > low
             /\ new[i].id \in EncircleIds(m) => new[i].kind = "Encircle"
  <2>1. ASSUME NEW j \in 1..Len(tl), Alike(new[i], tl[j])
        PROVE  /\ new[i].kind = "Encircle" => new[i].id \in EncircleIds(m) /\ new[i].id > low
               /\ new[i].id \in EncircleIds(m) => new[i].kind = "Encircle"
    <3>1. new[i].kind = tl[j].kind /\ new[i].id = tl[j].id
      BY <2>1 DEF Alike
    <3>2. tl[j].id > next => tl[j].id > low
      BY <1>2
    <3> QED BY <3>1, <3>2 DEF Circles
  <2>2. ASSUME NEW j \in 1..Len(b), new[i] = b[j]
        PROVE  /\ new[i].kind = "Encircle" => new[i].id \in EncircleIds(m) /\ new[i].id > low
               /\ new[i].id \in EncircleIds(m) => new[i].kind = "Encircle"
    BY <2>2
  <2> QED BY <1>1, <2>1, <2>2
<1>4. ASSUME NEW i \in 1..Len(new), NEW j \in 1..Len(new),
             new[i].kind = "Encircle", new[j].kind = "Encircle", new[i].id = new[j].id
      PROVE  i = j
  <2> DEFINE Old(x, y) == y \in 1..Len(tl) /\ Alike(new[x], tl[y])
             Put(x) == x - p + 1 \in 1..Len(b) /\ new[x] = b[x - p + 1]
             From(x) == \/ x < p /\ Old(x, x)
                        \/ Put(x)
                        \/ x >= p + Len(b) /\ Old(x, x - Len(b))
  <2>1. \A x, y : Old(x, y) => y \in 1..Len(tl) /\ new[x].kind = tl[y].kind
                               /\ new[x].id = tl[y].id
    BY DEF Alike
  <2>2. ASSUME NEW x \in 1..Len(new) PROVE From(x)
    <3>1. CASE x \in 1..Len(tl) /\ x < p /\ Alike(new[x], tl[x])
      BY <3>1
    <3>2. CASE x - p + 1 \in 1..Len(b) /\ new[x] = b[x - p + 1]
      BY <1>1, <3>2
    <3>3. CASE x >= p + Len(b) /\ x - Len(b) \in 1..Len(tl) /\ Alike(new[x], tl[x - Len(b)])
      BY <1>1, <3>3
    <3> QED BY <1>1, <3>1, <3>2, <3>3
  <2>3. Put(i) => new[i].id <= next
    BY <1>4
  <2>4. Put(j) => new[j].id <= next
    BY <1>4
  <2>5. Put(i) /\ Put(j) => i - p + 1 = j - p + 1
    BY <1>4
  <2>6. From(i) /\ From(j)
    BY <2>2
  <2>7. ASSUME NEW x, NEW y, Old(i, x), Old(j, y) PROVE x = y
    <3> HIDE DEF Old
    <3>1. /\ x \in 1..Len(tl) /\ y \in 1..Len(tl)
          /\ tl[x].kind = "Encircle" /\ tl[y].kind = "Encircle" /\ tl[x].id = tl[y].id
      BY <1>4, <2>1, <2>7
    <3> QED BY <3>1 DEF Circles
  <2>8. ASSUME NEW x, Old(i, x) \/ Old(j, x) PROVE new[i].id > next
    <3> HIDE DEF Old
    <3>1. x \in 1..Len(tl) /\ tl[x].kind = "Encircle" /\ tl[x].id = new[i].id
      BY <1>4, <2>1, <2>8
    <3> QED BY <3>1 DEF Circles
  <2>9. new[i].id \in Int
    BY TaskId
  <2> HIDE DEF Old, Put
  <2>10. ~(Put(i) /\ \E x : Old(j, x)) /\ ~(Put(j) /\ \E x : Old(i, x))
    BY <1>4, <2>3, <2>4, <2>8, <2>9
  <2> QED BY <1>1, <2>1, <2>5, <2>6, <2>7, <2>10
<1>5. ASSUME NEW id, HasCircle(new, id) PROVE HasCircle(tl, id) \/ HasCircle(b, id)
  <2>1. PICK i \in 1..Len(new) : new[i].kind = "Encircle" /\ new[i].id = id
    BY <1>5 DEF HasCircle
  <2>2. \/ \E j \in 1..Len(tl) : Alike(new[i], tl[j])
        \/ \E j \in 1..Len(b) : new[i] = b[j]
    BY <1>1
  <2> QED BY <2>1, <2>2 DEF HasCircle, Alike
<1>6. ASSUME NEW id, HasCircle(tl, id) PROVE HasCircle(new, id)
  <2>1. PICK i \in 1..Len(tl) : tl[i].kind = "Encircle" /\ tl[i].id = id
    BY <1>6 DEF HasCircle
  <2>2. \E j \in 1..Len(new) : Alike(new[j], tl[i])
    BY InsertedKeeps
  <2> QED BY <2>1, <2>2 DEF HasCircle, Alike
<1>7. ASSUME NEW id, HasCircle(b, id) PROVE HasCircle(new, id)
  <2>1. PICK i \in 1..Len(b) : b[i].kind = "Encircle" /\ b[i].id = id
    BY <1>7 DEF HasCircle
  <2>2. \E j \in 1..Len(new) : new[j] = b[i]
    BY InsertedKeeps
  <2> QED BY <2>1, <2>2 DEF HasCircle
<1>8. Circles(new, m, low)
  BY <1>3, <1>4 DEF Circles
<1> QED BY <1>5, <1>6, <1>7, <1>8

LEMMA DeletedCircles ==
    ASSUME NEW tl \in Seq(Tasks), NEW new \in Seq(Tasks), NEW p, NEW n, Deleted(new, tl, p, n),
           NEW m, NEW next, Circles(tl, m, next)
    PROVE  /\ Circles(new, m, next)
           /\ \A id : HasCircle(new, id) => HasCircle(tl, id)
           /\ \A i \in p..(p + n - 1) :
                 i \in 1..Len(tl) /\ tl[i].kind = "Encircle" => ~HasCircle(new, tl[i].id)
<1>1. /\ p \in 1..(Len(tl) + 1) /\ n \in Nat /\ Len(tl) \in Nat
      /\ \A i \in 1..Len(new) :
            \/ i < p /\ i \in 1..Len(tl) /\ new[i] = tl[i]
            \/ i >= p /\ i + n \in 1..Len(tl) /\ new[i] = tl[i + n]
  BY DeletedElements
<1> DEFINE From(i) == IF i < p THEN i ELSE i + n
<1>2. \A i \in 1..Len(new) : From(i) \in 1..Len(tl) /\ new[i] = tl[From(i)]
  BY <1>1
<1>3. \A i, j \in 1..Len(new) : From(i) = From(j) => i = j
  BY <1>1
<1>4. \A i \in 1..Len(new) : From(i) \notin p..(p + n - 1)
  BY <1>1
<1> HIDE DEF From
<1>5. Circles(new, m, next)
  <2>1. \A i \in 1..Len(new) :
           /\ new[i].kind = "Encircle" => new[i].id \in EncircleIds(m) /\ new[i].id > next
           /\ new[i].id \in EncircleIds(m) => new[i].kind = "Encircle"
    BY <1>2 DEF Circles
  <2>2. ASSUME NEW i \in 1..Len(new), NEW j \in 1..Len(new), new[i].kind = "Encircle",
               new[j].kind = "Encircle", new[i].id = new[j].id
        PROVE  i = j
    <3>1. From(i) = From(j)
      BY <1>2, <2>2 DEF Circles
    <3> QED BY <1>3, <3>1
  <2> QED BY <2>1, <2>2 DEF Circles
<1>6. \A id : HasCircle(new, id) => HasCircle(tl, id)
  BY <1>2 DEF HasCircle
<1>7. ASSUME NEW i \in p..(p + n - 1), i \in 1..Len(tl), tl[i].kind = "Encircle",
             HasCircle(new, tl[i].id)
      PROVE  FALSE
  <2>1. PICK j \in 1..Len(new) : new[j].kind = "Encircle" /\ new[j].id = tl[i].id
    BY <1>7 DEF HasCircle
  <2>2. From(j) = i
    BY <1>2, <1>7, <2>1 DEF Circles
  <2> QED BY <1>4, <1>7, <2>2
<1> QED BY <1>5, <1>6, <1>7

\* Nothing in one list that is not in the other.
ComesFrom(n, o) == \A i \in 1..Len(n) : \E j \in 1..Len(o) : n[i] = o[j]

LEMMA CancelCircles ==
    ASSUME NEW tl \in Seq(Tasks), NEW id, NEW m, NEW next, Circles(tl, m, next)
    PROVE  LET new == CancelTask(tl, id)
               out == CancelledTasks(tl, id)
           IN  /\ new \in Seq(Tasks) /\ out \in Seq(Tasks) /\ Circles(new, m, next)
               /\ \A c : HasCircle(new, c) => HasCircle(tl, c)
               /\ \A c : HasCircle(tl, c) => HasCircle(new, c) \/ HasCircle(out, c)
               /\ \A i \in 1..Len(out) :
                     ~HasCircle(new, out[i].id) /\ \E j \in 1..Len(tl) : out[i] = tl[j]
               /\ ComesFrom(new, tl)
<1> DEFINE k == FindTask(tl, id)
           c == tl[k].contact
           rest == RemoveAt(tl, k)
           isCircle == tl[k].kind = "Encircle" /\ c # NoContact
           a == FindApproach(tl, c)
           ar == FindApproach(rest, c)
           new == CancelTask(tl, id)
           out == CancelledTasks(tl, id)
           Fewer(n, o) == \A x : HasCircle(n, x) => HasCircle(o, x)
<1>1. k \in 0..Len(tl) /\ Len(tl) \in Nat
  BY FindTaskRange
<1>2. /\ k = 0 => new = tl /\ out = <<>>
      /\ k # 0 /\ (~isCircle \/ a = 0) => out = <<tl[k]>>
      /\ k # 0 /\ isCircle /\ a # 0 => out = <<tl[k], tl[a]>>
      /\ k # 0 /\ (~isCircle \/ ar = 0) => new = rest
      /\ k # 0 /\ isCircle /\ ar # 0 => new = RemoveAt(rest, ar)
  BY DEF CancelTask, CancelledTasks
<1> HIDE DEF k, new, out
<1>3. CASE k = 0
  <2>1. Len(<<>>) = 0 /\ <<>> \in Seq(Tasks)
    OBVIOUS
  <2> QED BY <1>2, <1>3, <2>1 DEF new, out, ComesFrom
<1>4. CASE k # 0
  <2>1. k \in 1..Len(tl)
    BY <1>1, <1>4
  <2>2. rest \in Seq(Tasks) /\ Deleted(rest, tl, k, 1)
    BY <2>1, RemoveAtElements, RemoveAtDeleted
  <2>3. /\ Circles(rest, m, next) /\ Fewer(rest, tl)
        /\ \A i \in k..(k + 1 - 1) :
              i \in 1..Len(tl) /\ tl[i].kind = "Encircle" => ~HasCircle(rest, tl[i].id)
    <3> HIDE DEF rest
    <3> QED BY <2>1, <2>2, DeletedCircles
  <2>4. tl[k].kind = "Encircle" => ~HasCircle(rest, tl[k].id)
    <3>1. k \in k..(k + 1 - 1)
      BY <2>1
    <3> QED BY <2>1, <2>3, <3>1
  <2>5. \A x : HasCircle(tl, x) => HasCircle(rest, x) \/ (tl[k].kind = "Encircle" /\ tl[k].id = x)
    <3> TAKE x
    <3> SUFFICES ASSUME HasCircle(tl, x), ~(tl[k].kind = "Encircle" /\ tl[k].id = x)
                 PROVE  HasCircle(rest, x)
      OBVIOUS
    <3>1. PICK i \in 1..Len(tl) : tl[i].kind = "Encircle" /\ tl[i].id = x
      BY DEF HasCircle
    <3>2. i # k
      BY <3>1
    <3>3. \E j \in 1..Len(rest) : rest[j] = tl[i]
      <4> HIDE DEF rest
      <4> QED BY <2>2, <3>2, DeletedOne
    <3> QED BY <3>1, <3>3 DEF HasCircle
  <2>6. ComesFrom(rest, tl)
    <3> HIDE DEF rest
    <3> QED BY <2>2, DeletedComes DEF ComesFrom
  <2>7. /\ new \in Seq(Tasks) /\ Circles(new, m, next) /\ Fewer(new, rest)
        /\ \A x : HasCircle(rest, x) => HasCircle(new, x)
        /\ ComesFrom(new, rest)
    <3>1. CASE new = rest
      BY <2>2, <2>3, <3>1 DEF ComesFrom
    <3>2. CASE ar # 0 /\ new = RemoveAt(rest, ar)
      <4> HIDE DEF rest, ar
      <4>1. ar \in 1..Len(rest) /\ IsApproachOf(rest[ar], c)
        <5>1. ar \in 0..Len(rest) /\ Len(rest) \in Nat
          BY <2>2, FindApproachRange DEF ar
        <5>2. IsApproachOf(rest[ar], c)
          BY <2>2, <3>2, FindApproachFound DEF ar
        <5> QED BY <3>2, <5>1, <5>2
      <4>2. new \in Seq(Tasks) /\ Deleted(new, rest, ar, 1)
        BY <2>2, <3>2, <4>1, RemoveAtElements, RemoveAtDeleted
      <4>3. Circles(new, m, next) /\ Fewer(new, rest)
        BY <2>2, <2>3, <4>1, <4>2, DeletedCircles
      <4>4. ASSUME NEW x, HasCircle(rest, x) PROVE HasCircle(new, x)
        <5>1. PICK i \in 1..Len(rest) : rest[i].kind = "Encircle" /\ rest[i].id = x
          BY <4>4 DEF HasCircle
        <5>2. i # ar
          BY <4>1, <5>1 DEF IsApproachOf
        <5>3. \E j \in 1..Len(new) : new[j] = rest[i]
          BY <2>2, <4>2, <5>2, DeletedOne
        <5> QED BY <5>1, <5>3 DEF HasCircle
      <4>5. ComesFrom(new, rest)
        BY <2>2, <4>2, DeletedComes DEF ComesFrom
      <4> QED BY <4>2, <4>3, <4>4, <4>5
    <3> QED BY <1>2, <1>4, <3>1, <3>2
  <2>8. Fewer(new, tl) /\ ComesFrom(new, tl)
    <3> HIDE DEF rest
    <3>1. Fewer(new, tl)
      BY <2>3, <2>7
    <3>2. ASSUME NEW i \in 1..Len(new) PROVE \E j \in 1..Len(tl) : new[i] = tl[j]
      <4>1. PICK j \in 1..Len(rest) : new[i] = rest[j]
        BY <2>7 DEF ComesFrom
      <4>2. PICK h \in 1..Len(tl) : rest[j] = tl[h]
        BY <2>6 DEF ComesFrom
      <4> QED BY <4>1, <4>2
    <3> QED BY <3>1, <3>2 DEF ComesFrom
  <2>9. a # 0 => a \in 1..Len(tl) /\ tl[a].kind = "MoveTo"
    <3>1. a \in 0..Len(tl)
      BY FindApproachRange
    <3>2. a # 0 => IsApproachOf(tl[a], c)
      BY FindApproachFound
    <3> QED BY <1>1, <3>1, <3>2 DEF IsApproachOf
  <2>10. /\ out \in Seq(Tasks)
         /\ 1 \in 1..Len(out) /\ out[1] = tl[k]
         /\ \A i \in 1..Len(out) : out[i] = tl[k] \/ (a # 0 /\ out[i] = tl[a])
    <3>1. CASE out = <<tl[k]>>
      BY <2>1, <3>1
    <3>2. CASE a # 0 /\ out = <<tl[k], tl[a]>>
      <4>1. tl[k] \in Tasks /\ tl[a] \in Tasks
        BY <2>1, <2>9, <3>2
      <4> HIDE DEF a
      <4> QED BY <3>2, <4>1
    <3> QED BY <1>2, <1>4, <3>1, <3>2
  <2>11. \A x : HasCircle(tl, x) => HasCircle(new, x) \/ HasCircle(out, x)
    <3>1. tl[k].kind = "Encircle" => HasCircle(out, tl[k].id)
      BY <2>10 DEF HasCircle
    <3> HIDE DEF rest
    <3> QED BY <2>5, <2>7, <3>1
  <2>12. ASSUME NEW i \in 1..Len(out)
         PROVE  ~HasCircle(new, out[i].id) /\ \E j \in 1..Len(tl) : out[i] = tl[j]
    <3>1. \A x : HasCircle(new, x) => x \in EncircleIds(m)
      BY <2>7 DEF HasCircle, Circles
    <3>2. CASE out[i] = tl[k]
      <4>1. tl[k].kind # "Encircle" => tl[k].id \notin EncircleIds(m)
        BY <2>1 DEF Circles
      <4>2. ~HasCircle(new, tl[k].id)
        BY <2>4, <2>7, <3>1, <4>1
      <4> QED BY <2>1, <3>2, <4>2
    <3>3. CASE a # 0 /\ out[i] = tl[a]
      <4>1. tl[a].id \notin EncircleIds(m)
        BY <2>9, <3>3 DEF Circles
      <4> QED BY <2>9, <3>1, <3>3, <4>1
    <3> QED BY <2>10, <3>2, <3>3
  <2> QED BY <2>7, <2>8, <2>10, <2>11, <2>12 DEF new, out
<1> QED BY <1>3, <1>4

-----------------------------------------------------------------------------
(* What a step of a vehicle does to its list, and what it says of it: of   *)
(* every circle that goes, and of none that stays or is still to come.     *)
Announced(ms, id) == \E j \in 1..Len(ms) : ms[j] = [type |-> "TASK_COMPLETE", id |-> id]

Worked(new, tl, ms, m, next) ==
    /\ new \in Seq(Tasks) /\ Circles(new, m, next) /\ ms \in Seq(Messages)
    /\ \A c : HasCircle(new, c) => HasCircle(tl, c)
    /\ \A c : HasCircle(tl, c) => HasCircle(new, c) \/ Announced(ms, c)
    /\ \A j \in 1..Len(ms) :
          \/ ms[j].type = "ARRIVE"
          \/ /\ ms[j].type = "TASK_COMPLETE" /\ ~HasCircle(new, ms[j].id)
             /\ ms[j].id \in EncircleIds(m) => ms[j].id > next

\* The vehicle stands by for nothing it did not stand by for before.
KeptWaits(new, tl) ==
    \A i \in 1..Len(new) :
        StandsBy(new[i]) => \E j \in 1..Len(tl) :
            StandsBy(tl[j]) /\ new[i].target = tl[j].target /\ new[i].since = tl[j].since

LEMMA CompletionIsMessage ==
    ASSUME NEW t, t.id \in Int
    PROVE  CompletionOf(t) \in Messages
BY DEF CompletionOf, Messages

LEMMA WorkedBy ==
    ASSUME NEW tl \in Seq(Tasks), NEW new \in Seq(Tasks), NEW out \in Seq(Tasks), NEW m, NEW next,
           Circles(tl, m, next), Circles(new, m, next),
           \A c : HasCircle(new, c) => HasCircle(tl, c),
           \A c : HasCircle(tl, c) => HasCircle(new, c) \/ HasCircle(out, c),
           \A i \in 1..Len(out) :
              ~HasCircle(new, out[i].id) /\ \E j \in 1..Len(tl) : out[i] = tl[j],
           NEW ms \in Seq(Messages),
           \A j \in 1..Len(ms) :
              \/ ms[j].type = "ARRIVE"
              \/ \E i \in 1..Len(out) : ms[j] = CompletionOf(out[i])
              \/ ms[j].type = "TASK_COMPLETE" /\ ms[j].id \notin EncircleIds(m),
           \A i \in 1..Len(out) : \E j \in 1..Len(ms) : ms[j] = CompletionOf(out[i])
    PROVE  Worked(new, tl, ms, m, next)
<1>1. \A c : HasCircle(new, c) => c \in EncircleIds(m)
  BY DEF HasCircle, Circles
<1>2. ASSUME NEW c, HasCircle(out, c) PROVE Announced(ms, c)
  <2>1. PICK i \in 1..Len(out) : out[i].id = c
    BY <1>2 DEF HasCircle
  <2>2. PICK j \in 1..Len(ms) : ms[j] = CompletionOf(out[i])
    OBVIOUS
  <2> QED BY <2>1, <2>2 DEF Announced, CompletionOf
<1>3. ASSUME NEW i \in 1..Len(out)
      PROVE  out[i].id \in EncircleIds(m) => out[i].id > next
  <2>1. PICK j \in 1..Len(tl) : out[i] = tl[j]
    OBVIOUS
  <2> QED BY <2>1 DEF Circles
<1>4. ASSUME NEW j \in 1..Len(ms)
      PROVE  \/ ms[j].type = "ARRIVE"
             \/ /\ ms[j].type = "TASK_COMPLETE" /\ ~HasCircle(new, ms[j].id)
                /\ ms[j].id \in EncircleIds(m) => ms[j].id > next
  <2>1. ASSUME NEW i \in 1..Len(out), ms[j] = CompletionOf(out[i])
        PROVE  /\ ms[j].type = "TASK_COMPLETE" /\ ~HasCircle(new, ms[j].id)
               /\ ms[j].id \in EncircleIds(m) => ms[j].id > next
    <3>1. ms[j].type = "TASK_COMPLETE" /\ ms[j].id = out[i].id
      BY <2>1 DEF CompletionOf
    <3> QED BY <1>3, <3>1
  <2>2. CASE ms[j].type = "TASK_COMPLETE" /\ ms[j].id \notin EncircleIds(m)
    BY <1>1, <2>2
  <2> QED BY <2>1, <2>2
<1> QED BY <1>2, <1>4 DEF Worked

\* The waits of a list after an insertion.
LEMMA InsertedWaits ==
    ASSUME NEW tl \in Seq(Tasks), NEW new \in Seq(Tasks), NEW b \in Seq(Tasks), NEW p,
           Inserted(new, tl, p, b), NEW i \in 1..Len(new), StandsBy(new[i])
    PROVE  \/ \E j \in 1..Len(tl) :
                 StandsBy(tl[j]) /\ new[i].target = tl[j].target /\ new[i].since = tl[j].since
           \/ \E j \in 1..Len(b) : new[i] = b[j]
<1>1. \/ i \in 1..Len(tl) /\ i < p /\ Alike(new[i], tl[i])
      \/ p <= i /\ i < p + Len(b) /\ i - p + 1 \in 1..Len(b) /\ new[i] = b[i - p + 1]
      \/ i >= p + Len(b) /\ i - Len(b) \in 1..Len(tl) /\ Alike(new[i], tl[i - Len(b)])
  BY InsertedElements
<1>2. \/ \E j \in 1..Len(tl) : Alike(new[i], tl[j])
      \/ \E j \in 1..Len(b) : new[i] = b[j]
  BY <1>1
<1> QED BY <1>2 DEF Alike, StandsBy, IsWait

LEMMA AddCircles ==
    ASSUME NEW tl \in Seq(Tasks), NEW t \in Tasks, NEW prio \in Priorities, NEW m, NEW next \in Int,
           Circles(tl, m, next), t.kind # "Encircle", t.id \notin EncircleIds(m), ~StandsBy(t)
    PROVE  LET new == AddTask(tl, t, prio)
           IN  /\ new \in Seq(Tasks) /\ Circles(new, m, next) /\ KeptWaits(new, tl)
               /\ \A c : HasCircle(new, c) => HasCircle(tl, c)
               /\ prio # "CANCEL_ALL" => \A c : HasCircle(tl, c) => HasCircle(new, c)
               /\ prio = "CANCEL_ALL" => \A c : ~HasCircle(new, c)
<1> DEFINE new == AddTask(tl, t, prio)
           b == <<t>>
<1>1. b \in Seq(Tasks) /\ Len(b) = 1 /\ \A i \in 1..Len(b) : b[i] = t
  OBVIOUS
<1> HIDE DEF b
<1>2. CASE prio = "CANCEL_ALL"
  <2>1. new = b
    BY <1>2 DEF AddTask, b
  <2>2. \A c : ~HasCircle(b, c)
    BY <1>1 DEF HasCircle
  <2>3. Circles(b, m, next) /\ KeptWaits(b, tl)
    BY <1>1 DEF Circles, KeptWaits
  <2> HIDE DEF new
  <2>4. /\ new \in Seq(Tasks) /\ Circles(new, m, next) /\ KeptWaits(new, tl)
        /\ \A c : ~HasCircle(new, c)
    BY <1>1, <2>1, <2>2, <2>3
  <2> QED BY <1>2, <2>4 DEF new
<1>3. CASE prio # "CANCEL_ALL"
  <2> DEFINE p == AddPosition(tl, prio)
  <2>1. Inserted(new, tl, p, b)
    BY <1>3, AddInserted DEF b
  <2>2. new \in Seq(Tasks)
    <3>1. CASE prio = "PREEMPT"
      BY <3>1, PreemptInsertElements DEF AddTask
    <3>2. CASE prio = "QUEUE"
      BY <3>2 DEF AddTask
    <3> QED BY <1>3, <3>1, <3>2 DEF Priorities
  <2> HIDE DEF new, p
  <2>3. Circles(new, m, next) /\ \A c : HasCircle(new, c) <=> HasCircle(tl, c) \/ HasCircle(b, c)
    <3>1. /\ next <= next
          /\ \A i \in 1..Len(b) : b[i].kind # "Encircle" /\ b[i].id \notin EncircleIds(m)
      BY <1>1
    <3> QED BY <1>1, <2>1, <2>2, <3>1, InsertedCircles
  <2>4. \A c : ~HasCircle(b, c)
    BY <1>1 DEF HasCircle
  <2>5. KeptWaits(new, tl)
    <3> SUFFICES ASSUME NEW i \in 1..Len(new), StandsBy(new[i])
                 PROVE  \E j \in 1..Len(tl) : StandsBy(tl[j]) /\ new[i].target = tl[j].target
                                              /\ new[i].since = tl[j].since
      BY DEF KeptWaits
    <3>1. ~\E j \in 1..Len(b) : new[i] = b[j]
      BY <1>1
    <3> QED BY <1>1, <2>1, <2>2, <3>1, InsertedWaits
  <2>6. /\ new \in Seq(Tasks) /\ Circles(new, m, next) /\ KeptWaits(new, tl)
        /\ \A c : HasCircle(new, c) <=> HasCircle(tl, c)
    BY <2>2, <2>3, <2>4, <2>5
  <2> QED BY <1>3, <2>6 DEF new
<1> QED BY <1>2, <1>3

LEMMA ConcatElements ==
    ASSUME NEW S, NEW p \in Seq(S), NEW q \in Seq(S)
    PROVE  /\ p \o q \in Seq(S) /\ Len(p \o q) = Len(p) + Len(q)
           /\ Len(p) \in Nat /\ Len(q) \in Nat
           /\ \A i \in 1..Len(p \o q) :
                 \/ i \in 1..Len(p) /\ (p \o q)[i] = p[i]
                 \/ i > Len(p) /\ i - Len(p) \in 1..Len(q) /\ (p \o q)[i] = q[i - Len(p)]
           /\ \A i \in 1..Len(p) : i \in 1..Len(p \o q) /\ (p \o q)[i] = p[i]
           /\ \A i \in 1..Len(q) :
                 i + Len(p) \in 1..Len(p \o q) /\ (p \o q)[i + Len(p)] = q[i]
<1>1. p \o q \in Seq(S) /\ Len(p \o q) = Len(p) + Len(q) /\ Len(p) \in Nat /\ Len(q) \in Nat
  OBVIOUS
<1>2. \A i \in 1..(Len(p) + Len(q)) : (p \o q)[i] = IF i <= Len(p) THEN p[i] ELSE q[i - Len(p)]
  BY ConcatProperties
<1> DEFINE r == p \o q
<1>3. \A i \in 1..(Len(p) + Len(q)) : r[i] = IF i <= Len(p) THEN p[i] ELSE q[i - Len(p)]
  BY <1>2
<1>4. Len(r) = Len(p) + Len(q)
  BY <1>1
<1> HIDE DEF r
<1>5. \A i \in 1..Len(r) :
                 \/ i \in 1..Len(p) /\ r[i] = p[i]
                 \/ i > Len(p) /\ i - Len(p) \in 1..Len(q) /\ r[i] = q[i - Len(p)]
  BY <1>1, <1>3, <1>4
<1>6. \A i \in 1..Len(p) : i \in 1..Len(r) /\ r[i] = p[i]
  BY <1>1, <1>3, <1>4
<1>7. ASSUME NEW i \in 1..Len(q) PROVE i + Len(p) \in 1..Len(r) /\ r[i + Len(p)] = q[i]
  <2>1. i + Len(p) \in 1..Len(r) /\ ~(i + Len(p) <= Len(p)) /\ (i + Len(p)) - Len(p) = i
    BY <1>1, <1>4
  <2> QED BY <1>3, <1>4, <2>1
<1> QED BY <1>1, <1>5, <1>6, <1>7 DEF r

\* The completions of the dropped tasks, and one of the command itself.
LEMMA AnswersElements ==
    ASSUME NEW out \in Seq(Tasks), NEW x \in Seq(Messages)
    PROVE  LET ms == [i \in 1..Len(out) |-> CompletionOf(out[i])] \o x
           IN  /\ ms \in Seq(Messages)
               /\ \A j \in 1..Len(ms) : \/ \E i \in 1..Len(out) : ms[j] = CompletionOf(out[i])
                                        \/ \E i \in 1..Len(x) : ms[j] = x[i]
               /\ \A i \in 1..Len(out) : \E j \in 1..Len(ms) : ms[j] = CompletionOf(out[i])
<1> DEFINE said == [i \in 1..Len(out) |-> CompletionOf(out[i])]
           ms == said \o x
<1>1. \A i \in 1..Len(out) : CompletionOf(out[i]) \in Messages
  BY TaskId, CompletionIsMessage
<1>2. /\ said \in Seq(Messages) /\ Len(said) = Len(out)
      /\ \A i \in 1..Len(out) : said[i] = CompletionOf(out[i])
  BY <1>1
<1> HIDE DEF said
<1>3. /\ ms \in Seq(Messages)
      /\ \A i \in 1..Len(ms) :
            \/ i \in 1..Len(said) /\ ms[i] = said[i]
            \/ i > Len(said) /\ i - Len(said) \in 1..Len(x) /\ ms[i] = x[i - Len(said)]
      /\ \A i \in 1..Len(said) : i \in 1..Len(ms) /\ ms[i] = said[i]
  BY <1>2, ConcatElements
<1> HIDE DEF ms
<1>4. ASSUME NEW j \in 1..Len(ms)
      PROVE  \/ \E i \in 1..Len(out) : ms[j] = CompletionOf(out[i])
             \/ \E i \in 1..Len(x) : ms[j] = x[i]
  <2>1. CASE j \in 1..Len(said) /\ ms[j] = said[j]
    BY <1>2, <2>1
  <2>2. CASE j - Len(said) \in 1..Len(x) /\ ms[j] = x[j - Len(said)]
    BY <2>2
  <2> QED BY <1>3, <2>1, <2>2
<1>5. \A i \in 1..Len(out) : \E j \in 1..Len(ms) : ms[j] = CompletionOf(out[i])
  BY <1>2, <1>3
<1> QED BY <1>3, <1>4, <1>5 DEF ms, said

Commands == {"MOVETO", "WAIT_UNTIL_COMPLETE", "FORM", "CANCEL", "CANCEL_ALL"}

\* The task that a command asks for.
LEMMA CommandTasks ==
    ASSUME NEW v, NEW s \in Agents, NEW m \in Messages, NEW since \in Nat
    PROVE  /\ m.type = "MOVETO" =>
                LET t == NewTask("MoveTo", s, m.id)
                IN  t \in Tasks /\ t.kind # "Encircle" /\ t.id = m.id /\ ~StandsBy(t)
           /\ m.type = "WAIT_UNTIL_COMPLETE" =>
                LET t == WaitTask(s, m.id, m.target, since)
                IN  t \in Tasks /\ t.kind # "Encircle" /\ t.id = m.id /\ ~StandsBy(t)
           /\ m.type = "FORM" =>
                LET t == FormationTask(v, s, m)
                IN  t \in Tasks /\ t.kind # "Encircle" /\ t.id = m.id /\ ~StandsBy(t)
<1>1. ASSUME NEW k \in TaskKinds, NEW id \in Int
      PROVE  /\ NewTask(k, s, id) \in Tasks /\ NewTask(k, s, id).kind = k
             /\ NewTask(k, s, id).id = id /\ NewTask(k, s, id).is_preemptable
  <2>1. NoFormation \in Formations /\ NoTarget \in Targets /\ NoContact \in Nat /\ 0 \in Nat
        /\ "first" \in Poses
    BY DEF NoFormation, Formations, NoTarget, Targets, NoContact, Poses
  <2> QED BY <2>1 DEF NewTask, Tasks
<1>5. {"MoveTo", "Follow", "WaitUntilComplete"} \subseteq TaskKinds \ {"Encircle"}
  BY DEF TaskKinds
<1>2. CASE m.type = "MOVETO"
  <2>1. m.id \in Int
    BY <1>2 DEF Messages
  <2>2. m.type # "WAIT_UNTIL_COMPLETE" /\ m.type # "FORM"
    BY <1>2
  <2> QED BY <1>1, <1>5, <2>1, <2>2 DEF StandsBy
<1>3. CASE m.type = "WAIT_UNTIL_COMPLETE"
  <2>1. m.id \in Int /\ m.target \in Targets
    BY <1>3 DEF Messages
  <2> DEFINE n == NewTask("WaitUntilComplete", s, m.id)
             t == [n EXCEPT !.target = m.target, !.since = since]
  <2>2. /\ n \in Tasks /\ n.kind = "WaitUntilComplete" /\ n.id = m.id /\ n.is_preemptable
    BY <1>1, <1>5, <2>1
  <2> HIDE DEF n
  <2>3. t \in Tasks /\ t.kind = n.kind /\ t.id = n.id /\ (t.is_preemptable <=> n.is_preemptable)
    BY <2>1, <2>2 DEF Tasks
  <2>4. WaitTask(s, m.id, m.target, since) = t
    BY DEF WaitTask, n
  <2> HIDE DEF t
  <2>5. m.type # "MOVETO" /\ m.type # "FORM"
    BY <1>3
  <2> QED BY <2>2, <2>3, <2>4, <2>5 DEF StandsBy
<1>4. CASE m.type = "FORM"
  <2>1. m.id \in Int /\ m.formation \in Formations
    BY <1>4 DEF Messages
  <2> DEFINE k == IF m.formation.leader = v \/ m.at_goal THEN "MoveTo" ELSE "Follow"
             n == NewTask(k, s, m.id)
             t == [n EXCEPT !.formation = m.formation]
  <2>2. n \in Tasks /\ n.kind \in {"MoveTo", "Follow"} /\ n.id = m.id
    BY <1>1, <1>5, <2>1
  <2> HIDE DEF n
  <2>3. t \in Tasks /\ t.kind = n.kind /\ t.id = n.id
    BY <2>1, <2>2 DEF Tasks
  <2>4. FormationTask(v, s, m) = t
    BY DEF FormationTask, n
  <2> HIDE DEF t
  <2>5. m.type # "MOVETO" /\ m.type # "WAIT_UNTIL_COMPLETE"
    BY <1>4
  <2> QED BY <2>2, <2>3, <2>4, <2>5 DEF StandsBy, IsWait
<1>6. m.type \notin {"MOVETO", "WAIT_UNTIL_COMPLETE", "FORM"} \/ m.type = "MOVETO"
      \/ m.type = "WAIT_UNTIL_COMPLETE" \/ m.type = "FORM"
  OBVIOUS
<1> QED BY <1>2, <1>3, <1>4, <1>6

LEMMA MessageId ==
    ASSUME NEW m \in Messages, m.type # "OVERWATCH"
    PROVE  m.id \in Int
BY DEF Messages

\* Every command is a step of a vehicle as Worked says.
LEMMA CommandWorks ==
    ASSUME NEW v \in Vehicles, NEW s \in Agents, NEW m \in Messages, m.type \in Commands,
           m.id \notin EncircleIds(mission), Len(task_completions[v]) \in Nat,
           task_list[v] \in Seq(Tasks),
           NEW next \in Int, Circles(task_list[v], mission, next)
    PROVE  /\ Worked(ListAfter(v, s, m), task_list[v], Answers(v, m), mission, next)
           /\ KeptWaits(ListAfter(v, s, m), task_list[v])
<1> DEFINE tl == task_list[v]
           new == ListAfter(v, s, m)
           out == Dropped(v, m)
           x == IF m.type \in {"CANCEL", "CANCEL_ALL"} THEN <<CompletionOf(m)>> ELSE <<>>
           ms == [i \in 1..Len(out) |-> CompletionOf(out[i])] \o x
           Good(n, o) ==
              /\ n \in Seq(Tasks) /\ o \in Seq(Tasks)
              /\ Circles(n, mission, next) /\ KeptWaits(n, tl)
              /\ \A c : HasCircle(n, c) => HasCircle(tl, c)
              /\ \A c : HasCircle(tl, c) => HasCircle(n, c) \/ HasCircle(o, c)
              /\ \A i \in 1..Len(o) : ~HasCircle(n, o[i].id) /\ \E j \in 1..Len(tl) : o[i] = tl[j]
<1>1. m.id \in Int
  BY MessageId DEF Commands
<1>2. x \in Seq(Messages) /\ \A i \in 1..Len(x) : x[i] = CompletionOf(m)
  <2>1. CompletionOf(m) \in Messages
    BY <1>1, CompletionIsMessage
  <2> QED BY <2>1
<1>3. Good(tl, <<>>)
  <2> DEFINE none == <<>>
  <2>1. none \in Seq(Tasks) /\ Len(none) = 0
    OBVIOUS
  <2> HIDE DEF none
  <2>2. Good(tl, none)
    BY <2>1 DEF KeptWaits
  <2> QED BY <2>2 DEF none
<1>4. ASSUME NEW t \in Tasks, t.kind # "Encircle", t.id = m.id, ~StandsBy(t),
             m.prio \in Priorities, new = AddTask(tl, t, m.prio),
             out = IF m.prio = "CANCEL_ALL" THEN tl ELSE <<>>
      PROVE  Good(new, out)
  <2> DEFINE n == AddTask(tl, t, m.prio)
  <2>1. /\ n \in Seq(Tasks) /\ Circles(n, mission, next) /\ KeptWaits(n, tl)
        /\ \A c : HasCircle(n, c) => HasCircle(tl, c)
        /\ m.prio # "CANCEL_ALL" => \A c : HasCircle(tl, c) => HasCircle(n, c)
        /\ m.prio = "CANCEL_ALL" => \A c : ~HasCircle(n, c)
    BY <1>4, AddCircles
  <2> HIDE DEF n
  <2>2. CASE m.prio = "CANCEL_ALL"
    <3>1. Good(n, tl)
      BY <2>1, <2>2
    <3> HIDE DEF new, out, Good
    <3> QED BY <1>4, <2>2, <3>1 DEF n
  <2>3. CASE m.prio # "CANCEL_ALL"
    <3>1. Good(n, <<>>)
      <4> DEFINE none == <<>>
      <4>1. none \in Seq(Tasks) /\ Len(none) = 0
        OBVIOUS
      <4> HIDE DEF none
      <4>2. Good(n, none)
        BY <2>1, <2>3, <4>1
      <4> QED BY <4>2 DEF none
    <3> HIDE DEF new, out, Good
    <3> QED BY <1>4, <2>3, <3>1 DEF n
  <2> QED BY <2>2, <2>3
<1>5. Good(new, out)
  <2>1. CASE m.type = "MOVETO"
    <3>1. m.prio \in Priorities
      BY <2>1 DEF Messages
    <3>2. new = AddTask(tl, NewTask("MoveTo", s, m.id), m.prio)
      BY <2>1 DEF ListAfter
    <3>3. out = IF m.prio = "CANCEL_ALL" THEN tl ELSE <<>>
      BY <2>1 DEF Dropped, Supersedes, Rejects
    <3> HIDE DEF new, out, Good
    <3>4. LET t == NewTask("MoveTo", s, m.id)
          IN  t \in Tasks /\ t.kind # "Encircle" /\ t.id = m.id /\ ~StandsBy(t)
      BY <2>1, CommandTasks
    <3> QED BY <1>4, <3>1, <3>2, <3>3, <3>4
  <2>2. CASE m.type = "WAIT_UNTIL_COMPLETE" /\ ~Rejects(v, m)
    <3> DEFINE t == WaitTask(s, m.id, m.target, Len(task_completions[v]))
    <3>1. m.prio \in Priorities
      BY <2>2 DEF Messages
    <3>2. new = AddTask(tl, t, m.prio)
      BY <2>2 DEF ListAfter
    <3>3. out = IF m.prio = "CANCEL_ALL" THEN tl ELSE <<>>
      BY <2>2 DEF Dropped, Supersedes
    <3>4. t \in Tasks /\ t.kind # "Encircle" /\ t.id = m.id /\ ~StandsBy(t)
      BY <2>2, CommandTasks
    <3> HIDE DEF new, out, Good, t
    <3> QED BY <1>4, <3>1, <3>2, <3>3, <3>4
  <2>3. CASE m.type = "WAIT_UNTIL_COMPLETE" /\ Rejects(v, m)
    <3>1. new = tl
      BY <2>3 DEF ListAfter
    <3>2. out = <<>>
      BY <2>3 DEF Dropped, Supersedes
    <3> HIDE DEF new, out, Good
    <3> QED BY <1>3, <3>1, <3>2
  <2>4. CASE m.type = "FORM"
    <3> DEFINE t == FormationTask(v, s, m)
    <3>1. m.prio \in Priorities
      BY <2>4 DEF Messages
    <3>2. new = AddTask(tl, t, m.prio)
      BY <2>4 DEF ListAfter
    <3>3. out = IF m.prio = "CANCEL_ALL" THEN tl ELSE <<>>
      BY <2>4 DEF Dropped, Supersedes, Rejects
    <3>4. t \in Tasks /\ t.kind # "Encircle" /\ t.id = m.id /\ ~StandsBy(t)
      BY <2>4, CommandTasks, 0 \in Nat
    <3> HIDE DEF new, out, Good, t
    <3> QED BY <1>4, <3>1, <3>2, <3>3, <3>4
  <2>5. CASE m.type = "CANCEL"
    <3> DEFINE n == CancelTask(tl, m.target_msg_id)
               o == CancelledTasks(tl, m.target_msg_id)
    <3>1. new = n /\ out = o
      BY <2>5 DEF ListAfter, Dropped, Supersedes
    <3>2. /\ n \in Seq(Tasks) /\ o \in Seq(Tasks) /\ Circles(n, mission, next)
          /\ \A c : HasCircle(n, c) => HasCircle(tl, c)
          /\ \A c : HasCircle(tl, c) => HasCircle(n, c) \/ HasCircle(o, c)
          /\ \A i \in 1..Len(o) :
                ~HasCircle(n, o[i].id) /\ \E j \in 1..Len(tl) : o[i] = tl[j]
          /\ ComesFrom(n, tl)
      <4>1. tl \in Seq(Tasks) /\ Circles(tl, mission, next)
        OBVIOUS
      <4> HIDE DEF tl, new, out, x, ms, Good
      <4> QED BY <4>1, CancelCircles
    <3> HIDE DEF n, o, new, out
    <3>3. KeptWaits(n, tl)
      BY <3>2 DEF KeptWaits, ComesFrom
    <3>4. Good(n, o)
      BY <3>2, <3>3
    <3> HIDE DEF Good
    <3> QED BY <3>1, <3>4
  <2>6. CASE m.type = "CANCEL_ALL"
    <3> DEFINE n == <<>>
    <3>1. new = n /\ out = tl
      BY <2>6 DEF ListAfter, Dropped
    <3>2. n \in Seq(Tasks) /\ Len(n) = 0
      OBVIOUS
    <3> HIDE DEF n, new, out
    <3>3. Circles(n, mission, next) /\ KeptWaits(n, tl) /\ \A c : ~HasCircle(n, c)
      BY <3>2 DEF Circles, KeptWaits, HasCircle
    <3>4. Good(n, tl)
      BY <3>2, <3>3
    <3> HIDE DEF Good
    <3> QED BY <3>1, <3>4
  <2> QED BY <2>1, <2>2, <2>3, <2>4, <2>5, <2>6 DEF Commands
<1>6. Answers(v, m) = ms
  BY DEF Answers
<1> HIDE DEF new, out, x
<1>7. /\ ms \in Seq(Messages)
      /\ \A j \in 1..Len(ms) : \/ \E i \in 1..Len(out) : ms[j] = CompletionOf(out[i])
                               \/ \E i \in 1..Len(x) : ms[j] = x[i]
      /\ \A i \in 1..Len(out) : \E j \in 1..Len(ms) : ms[j] = CompletionOf(out[i])
  BY <1>2, <1>5, AnswersElements
<1> HIDE DEF ms
<1>8. ASSUME NEW j \in 1..Len(ms)
      PROVE  \/ ms[j].type = "ARRIVE"
             \/ \E i \in 1..Len(out) : ms[j] = CompletionOf(out[i])
             \/ ms[j].type = "TASK_COMPLETE" /\ ms[j].id \notin EncircleIds(mission)
  <2>1. CompletionOf(m).type = "TASK_COMPLETE" /\ CompletionOf(m).id = m.id
    BY DEF CompletionOf
  <2> QED BY <1>2, <1>7, <2>1
<1>9. Worked(new, tl, ms, mission, next)
  BY <1>5, <1>7, <1>8, WorkedBy
<1> QED BY <1>5, <1>6, <1>9 DEF new

-----------------------------------------------------------------------------
(* A queue of messages from which at most the first was taken, and to      *)
(* which s was added.                                                      *)
Behind(q, id, i) == \E j \in (i + 1)..Len(q) : q[j] = [type |-> "TASK_COMPLETE", id |-> id]

Flow(q, q0, d, s) ==
    /\ d \in {0, 1} /\ d <= Len(q0)
    /\ Len(q) = (Len(q0) - d) + Len(s)
    /\ \A i \in 1..(Len(q0) - d) : q[i] = q0[i + d]
    /\ \A i \in 1..Len(s) : q[(Len(q0) - d) + i] = s[i]

LEMMA FlowElements ==
    ASSUME NEW q \in Seq(Messages), NEW q0 \in Seq(Messages), NEW s \in Seq(Messages), NEW d,
           Flow(q, q0, d, s)
    PROVE  /\ \A i \in 1..Len(q) :
                 \/ i + d \in 1..Len(q0) /\ q[i] = q0[i + d] /\ i \in 0..(Len(q0) - d)
                 \/ \E j \in 1..Len(s) : q[i] = s[j]
           /\ \A id, i : i \in Nat /\ Behind(q0, id, i + d) => Behind(q, id, i)
           /\ \A id, i : i \in 0..(Len(q0) - d) /\ Announced(s, id) => Behind(q, id, i)
           /\ \A id : Behind(q0, id, 0) =>
                 \/ Behind(q, id, 0)
                 \/ d = 1 /\ 1 \in 1..Len(q0) /\ q0[1] = [type |-> "TASK_COMPLETE", id |-> id]
<1>1. /\ Len(q) \in Nat /\ Len(q0) \in Nat /\ Len(s) \in Nat
      /\ d \in {0, 1} /\ d <= Len(q0) /\ Len(q) = (Len(q0) - d) + Len(s)
  BY DEF Flow
<1>2. ASSUME NEW i \in 1..Len(q)
      PROVE  \/ i + d \in 1..Len(q0) /\ q[i] = q0[i + d] /\ i \in 0..(Len(q0) - d)
             \/ \E j \in 1..Len(s) : q[i] = s[j]
  <2>1. CASE i <= Len(q0) - d
    <3>1. i \in 1..(Len(q0) - d) /\ i + d \in 1..Len(q0) /\ i \in 0..(Len(q0) - d)
      BY <1>1, <2>1
    <3> QED BY <3>1 DEF Flow
  <2>2. CASE i > Len(q0) - d
    <3> DEFINE j == i - (Len(q0) - d)
    <3>1. j \in 1..Len(s) /\ (Len(q0) - d) + j = i
      BY <1>1, <2>2
    <3> HIDE DEF j
    <3>2. q[(Len(q0) - d) + j] = s[j]
      BY <3>1 DEF Flow
    <3> QED BY <3>1, <3>2
  <2> QED BY <1>1, <2>1, <2>2
<1>3. ASSUME NEW id, NEW i \in Nat, Behind(q0, id, i + d)
      PROVE  Behind(q, id, i)
  <2>1. PICK j \in ((i + d) + 1)..Len(q0) : q0[j] = [type |-> "TASK_COMPLETE", id |-> id]
    BY <1>3 DEF Behind
  <2>2. j - d \in 1..(Len(q0) - d) /\ j - d \in (i + 1)..Len(q) /\ (j - d) + d = j
    BY <1>1, <2>1
  <2>3. q[j - d] = q0[(j - d) + d]
    BY <2>2 DEF Flow
  <2>4. q[j - d] = [type |-> "TASK_COMPLETE", id |-> id]
    BY <2>1, <2>2, <2>3
  <2> QED BY <2>2, <2>4 DEF Behind
<1>4. ASSUME NEW id, NEW i \in 0..(Len(q0) - d), Announced(s, id)
      PROVE  Behind(q, id, i)
  <2>1. PICK j \in 1..Len(s) : s[j] = [type |-> "TASK_COMPLETE", id |-> id]
    BY <1>4 DEF Announced
  <2>2. (Len(q0) - d) + j \in (i + 1)..Len(q)
    BY <1>1
  <2>3. q[(Len(q0) - d) + j] = [type |-> "TASK_COMPLETE", id |-> id]
    BY <2>1 DEF Flow
  <2> QED BY <2>2, <2>3 DEF Behind
<1>5. ASSUME NEW id, Behind(q0, id, 0), ~Behind(q, id, 0)
      PROVE  d = 1 /\ 1 \in 1..Len(q0) /\ q0[1] = [type |-> "TASK_COMPLETE", id |-> id]
  <2>1. PICK j \in (0 + 1)..Len(q0) : q0[j] = [type |-> "TASK_COMPLETE", id |-> id]
    BY <1>5 DEF Behind
  <2>2. ~Behind(q0, id, 0 + d)
    BY <1>3, <1>5
  <2>3. j \notin ((0 + d) + 1)..Len(q0)
    BY <2>1, <2>2 DEF Behind
  <2>4. d = 1 /\ j = 1 /\ 1 \in 1..Len(q0)
    BY <1>1, <2>1, <2>3
  <2> QED BY <2>1, <2>4
<1> QED BY <1>2, <1>3, <1>4, <1>5

\* What is left of a queue, with what is added to it.
LEMMA FlowOf ==
    ASSUME NEW q0 \in Seq(Messages), NEW s \in Seq(Messages)
    PROVE  /\ q0 \o s \in Seq(Messages) /\ Flow(q0 \o s, q0, 0, s)
           /\ q0 # <<>> => Tail(q0) \o s \in Seq(Messages) /\ Flow(Tail(q0) \o s, q0, 1, s)
<1>1. ASSUME NEW r \in Seq(Messages), NEW d \in {0, 1}, d <= Len(q0), Len(r) = Len(q0) - d,
             \A i \in 1..Len(r) : r[i] = q0[i + d]
      PROVE  r \o s \in Seq(Messages) /\ Flow(r \o s, q0, d, s)
  <2> DEFINE q == r \o s
  <2>1. /\ q \in Seq(Messages) /\ Len(q) = Len(r) + Len(s)
        /\ \A i \in 1..Len(r) : q[i] = r[i]
        /\ \A i \in 1..Len(s) : i + Len(r) \in 1..Len(q) /\ q[i + Len(r)] = s[i]
    BY ConcatElements
  <2> HIDE DEF q
  <2>2. \A i \in 1..Len(s) : Len(r) + i = i + Len(r)
    OBVIOUS
  <2> QED BY <1>1, <2>1, <2>2 DEF Flow, q
<1>2. q0 \o s \in Seq(Messages) /\ Flow(q0 \o s, q0, 0, s)
  <2>1. 0 <= Len(q0) /\ Len(q0) = Len(q0) - 0 /\ \A i \in 1..Len(q0) : q0[i] = q0[i + 0]
    OBVIOUS
  <2> QED BY <1>1, <2>1
<1>3. CASE q0 # <<>>
  <2> DEFINE r == Tail(q0)
  <2>1. r \in Seq(Messages) /\ 1 <= Len(q0) /\ Len(r) = Len(q0) - 1
        /\ \A i \in 1..Len(r) : r[i] = q0[i + 1]
    BY <1>3
  <2> HIDE DEF r
  <2>2. r \o s \in Seq(Messages) /\ Flow(r \o s, q0, 1, s)
    BY <1>1, <2>1
  <2> QED BY <1>2, <2>2 DEF r
<1> QED BY <1>2, <1>3

-----------------------------------------------------------------------------
(* The inductive invariant.  An id that the completions under it are about *)
(* is over for good: nothing in the list of the vehicle has it, and of the *)
(* ids of investigations it is one that was handed out already.            *)
Log == [sender : Agents, id : Int]

FleetTypes ==
    /\ mission \in Missions
    /\ task_list \in [Vehicles -> Seq(Tasks)]
    /\ task_completions \in [Agents -> Seq(Log)]
    /\ arrivals \in [Vehicles -> SUBSET Log]
    /\ obj_detection_cnt \in [Vehicles -> Int]
    /\ channel \in [Links -> Seq(Messages)]
    /\ sent \in [Vehicles -> Nat]
    /\ investigations \in 0..MaxInvestigations[mission]

Counted ==
    \A v \in Vehicles :
        /\ FirstToiId - investigations <= obj_detection_cnt[v]
        /\ obj_detection_cnt[v] <= FirstToiId
        /\ Circles(task_list[v], mission, obj_detection_cnt[v])

Over(v, id) ==
    /\ ~HasCircle(task_list[v], id)
    /\ id \in EncircleIds(mission) => id > obj_detection_cnt[v]

\* v may be asked to stand by for the investigation id of w.
Watches(v, w, id) ==
    /\ v \in Vehicles /\ w \in Vehicles /\ v # w
    /\ {v} \in Known[mission] /\ id \in EncircleIds(mission)

\* What may be on a link, apart from its being late.
Carries(l, m) ==
    /\ l[1] = Operator => m.type \in Commands /\ m.id \notin EncircleIds(mission)
    /\ l[1] # Operator => /\ m.type \in {"TASK_COMPLETE", "ARRIVE", "OVERWATCH"}
                          /\ l[2] = Operator => m.type = "TASK_COMPLETE"
                          /\ m.type = "TASK_COMPLETE" => Over(l[1], m.id)
                          /\ m.type = "OVERWATCH" => Watches(l[2], l[1], m.wait_for_msg_id)
Carried == \A l \in Links : \A i \in 1..Len(channel[l]) : Carries(l, channel[l][i])

HeardWhenOver ==
    \A a \in Agents : \A i \in 1..Len(task_completions[a]) :
        /\ task_completions[a][i].sender \in Vehicles
        /\ Over(task_completions[a][i].sender, task_completions[a][i].id)

WaitCovered(v, t) ==
    /\ Watches(v, t.target.veh, t.target.id) /\ t.since <= Len(task_completions[v])
    /\ \/ Heard(v, t.target, t.since)
       \/ Behind(channel[<<t.target.veh, v>>], t.target.id, 0)
       \/ HasCircle(task_list[t.target.veh], t.target.id)
WaitsCovered ==
    \A v \in Vehicles : \A i \in 1..Len(task_list[v]) :
        StandsBy(task_list[v][i]) => WaitCovered(v, task_list[v][i])

RequestsCovered ==
    \A l \in Links : \A i \in 1..Len(channel[l]) :
        channel[l][i].type = "OVERWATCH" =>
            \/ Behind(channel[l], channel[l][i].wait_for_msg_id, i)
            \/ HasCircle(task_list[l[1]], channel[l][i].wait_for_msg_id)

FleetInv == /\ FleetTypes /\ Counted /\ Carried /\ HeardWhenOver
            /\ WaitsCovered /\ RequestsCovered

-----------------------------------------------------------------------------
(* What every step comes down to.  From each link l at most one message is *)
(* taken, d[l], and a completion is written down; s[l] is added, and among *)
(* it is the completion of any circle that goes.                           *)
Taking(d) ==
    \A l \in Links :
        /\ d[l] \in {0, 1}
        /\ d[l] = 1 /\ channel[l][1].type = "TASK_COMPLETE" =>
              \E i \in (Len(task_completions[l[2]]) + 1)..Len(task_completions'[l[2]]) :
                  task_completions'[l[2]][i] = [sender |-> l[1], id |-> channel[l][1].id]

Saying(d, s) ==
    \A l \in Links :
        /\ s[l] \in Seq(Messages) /\ Flow(channel'[l], channel[l], d[l], s[l])
        /\ \A m \in Messages : (\E i \in 1..Len(s[l]) : s[l][i] = m) =>
              /\ Carries(l, m)'
              /\ m.type = "OVERWATCH" => HasCircle(task_list'[l[1]], m.wait_for_msg_id)

WritingDown ==
    \A a \in Agents :
        /\ Len(task_completions[a]) <= Len(task_completions'[a])
        /\ \A i \in 1..Len(task_completions[a]) :
              task_completions'[a][i] = task_completions[a][i]
        /\ \A i \in (Len(task_completions[a]) + 1)..Len(task_completions'[a]) :
              LET c == task_completions'[a][i]
              IN  c.sender \in Vehicles /\ Over(c.sender, c.id)

Ending(s) ==
    /\ \A u \in Vehicles : \A id : Over(u, id) => Over(u, id)'
    /\ \A v, w, id : /\ Watches(v, w, id) /\ HasCircle(task_list[w], id)
                     /\ ~HasCircle(task_list'[w], id)
                     => Announced(s[<<w, v>>], id)

\* A wait that is new answers the request that was taken.
Answering(v, t, d) ==
    /\ t.target.veh \in Agents /\ <<t.target.veh, v>> \in Links
    /\ d[<<t.target.veh, v>>] = 1
    /\ channel[<<t.target.veh, v>>][1].type = "OVERWATCH"
    /\ channel[<<t.target.veh, v>>][1].wait_for_msg_id = t.target.id
    /\ t.since = Len(task_completions[v])
Waiting(d) ==
    \A v \in Vehicles : \A i \in 1..Len(task_list'[v]) :
        LET t == task_list'[v][i]
        IN  StandsBy(t) => \/ Answering(v, t, d)
                           \/ \E j \in 1..Len(task_list[v]) :
                                 LET u == task_list[v][j]
                                 IN  StandsBy(u) /\ t.target = u.target /\ t.since = u.since

TeamStep(d, s) ==
    mission' = mission /\ Taking(d) /\ Saying(d, s) /\ WritingDown /\ Ending(s) /\ Waiting(d)

LEMMA LinkEnds ==
    /\ \A l \in Links : /\ l[1] \in Agents /\ l[2] \in Agents /\ l = <<l[1], l[2]>>
                        /\ l[1] # Operator => l[1] \in Vehicles
                        /\ l[2] # Operator => l[2] \in Vehicles
    /\ \A v \in Vehicles, a \in Agents : <<v, a>> \in Links /\ <<a, v>> \in Links
    /\ \A v \in Vehicles : v # Operator /\ v \in Agents
BY NamesAssumption DEF Links, Agents

LEMMA TeamKeeps ==
    ASSUME FleetInv, NEW d, NEW s, TeamStep(d, s), FleetTypes', Counted'
    PROVE  FleetInv'
<1> USE DEF TeamStep, FleetInv
<1>1. /\ mission' = mission
      /\ \A l \in Links : channel[l] \in Seq(Messages) /\ channel'[l] \in Seq(Messages)
      /\ \A u \in Vehicles : \A id : Over(u, id) => Over(u, id)'
  BY DEF FleetTypes, Ending
<1>2. ASSUME NEW l \in Links
      PROVE  /\ s[l] \in Seq(Messages) /\ d[l] \in {0, 1}
             /\ \A i \in 1..Len(channel'[l]) :
                   \/ /\ i + d[l] \in 1..Len(channel[l]) /\ channel'[l][i] = channel[l][i + d[l]]
                      /\ i \in 0..(Len(channel[l]) - d[l])
                   \/ \E j \in 1..Len(s[l]) : channel'[l][i] = s[l][j]
             /\ \A id, i : i \in Nat /\ Behind(channel[l], id, i + d[l])
                              => Behind(channel'[l], id, i)
             /\ \A id, i : i \in 0..(Len(channel[l]) - d[l]) /\ Announced(s[l], id)
                              => Behind(channel'[l], id, i)
             /\ \A id : Behind(channel[l], id, 0) =>
                   \/ Behind(channel'[l], id, 0)
                   \/ /\ d[l] = 1 /\ 1 \in 1..Len(channel[l])
                      /\ channel[l][1] = [type |-> "TASK_COMPLETE", id |-> id]
  <2>1. /\ s[l] \in Seq(Messages) /\ Flow(channel'[l], channel[l], d[l], s[l])
        /\ d[l] \in {0, 1}
    BY DEF Saying, Taking
  <2> QED BY SMTT(40), <1>1, <2>1, FlowElements
<1>3. Carried'
  <2>1. ASSUME NEW l \in Links, NEW m \in Messages, Carries(l, m)
        PROVE  Carries(l, m)'
    <3>1. l[1] # Operator => l[1] \in Vehicles
      BY LinkEnds
    <3> QED BY <1>1, <2>1, <3>1 DEF Carries, Watches
  <2>2. ASSUME NEW l \in Links, NEW i \in 1..Len(channel'[l]), NEW m, m = channel'[l][i]
        PROVE  Carries(l, m)'
    <3>1. m \in Messages
      BY <1>1, <2>2
    <3>2. CASE i + d[l] \in 1..Len(channel[l]) /\ m = channel[l][i + d[l]]
      <4>1. Carries(l, channel[l][i + d[l]])
        BY <3>2 DEF Carried
      <4>2. Carries(l, m)
        BY <3>2, <4>1
      <4> QED BY <2>1, <3>1, <4>2
    <3>3. CASE \E j \in 1..Len(s[l]) : m = s[l][j]
      BY <3>1, <3>3 DEF Saying
    <3> QED BY <1>2, <2>2, <3>2, <3>3
  <2>3. ASSUME NEW l \in Links, NEW i \in 1..Len(channel'[l])
        PROVE  Carries(l, channel[l][i])'
    <3>1. PICK m : m = channel'[l][i]
      OBVIOUS
    <3>2. Carries(l, m)'
      BY <2>2, <3>1
    <3> QED BY <3>1, <3>2 DEF Carries
  <2> QED BY <2>3 DEF Carried
<1>4. HeardWhenOver'
  <2>1. ASSUME NEW a \in Agents, NEW i \in 1..Len(task_completions'[a]),
               NEW c, c = task_completions'[a][i]
        PROVE  c.sender \in Vehicles /\ Over(c.sender, c.id)'
    <3>1. Len(task_completions[a]) \in Nat /\ Len(task_completions'[a]) \in Nat
      BY DEF FleetTypes
    <3>2. CASE i \in 1..Len(task_completions[a])
      <4>1. c = task_completions[a][i]
        BY <2>1, <3>2 DEF WritingDown
      <4>2. c.sender \in Vehicles /\ Over(c.sender, c.id)
        BY <3>2, <4>1 DEF HeardWhenOver
      <4> QED BY <1>1, <4>2
    <3>3. CASE i \in (Len(task_completions[a]) + 1)..Len(task_completions'[a])
      <4>1. c.sender \in Vehicles /\ Over(c.sender, c.id)
        BY <2>1, <3>3 DEF WritingDown
      <4> QED BY <1>1, <4>1
    <3> QED BY <3>1, <3>2, <3>3
  <2>2. ASSUME NEW a \in Agents, NEW i \in 1..Len(task_completions'[a])
        PROVE  /\ task_completions'[a][i].sender \in Vehicles
               /\ Over(task_completions[a][i].sender, task_completions[a][i].id)'
    <3>1. PICK c : c = task_completions'[a][i]
      OBVIOUS
    <3>2. c.sender \in Vehicles /\ Over(c.sender, c.id)'
      BY <2>1, <3>1
    <3> QED BY <3>1, <3>2 DEF Over
  <2> QED BY <2>2 DEF HeardWhenOver
<1>5. ASSUME NEW v, NEW w, NEW id, Watches(v, w, id), NEW i \in Nat,
             i \in 0..(Len(channel[<<w, v>>]) - d[<<w, v>>]),
             Behind(channel[<<w, v>>], id, i + d[<<w, v>>]) \/ HasCircle(task_list[w], id)
      PROVE  Behind(channel'[<<w, v>>], id, i) \/ HasCircle(task_list'[w], id)
  <2> DEFINE l == <<w, v>>
  <2>1. l \in Links
    BY <1>5, LinkEnds DEF Watches
  <2>2. HasCircle(task_list[w], id) => HasCircle(task_list'[w], id) \/ Announced(s[l], id)
    BY <1>5 DEF Ending
  <2> QED BY <1>2, <1>5, <2>1, <2>2
<1>6. RequestsCovered'
  <2> SUFFICES ASSUME NEW l \in Links, NEW i \in 1..Len(channel'[l]),
                      channel'[l][i].type = "OVERWATCH"
               PROVE  \/ Behind(channel'[l], channel'[l][i].wait_for_msg_id, i)
                      \/ HasCircle(task_list'[l[1]], channel'[l][i].wait_for_msg_id)
    BY DEF RequestsCovered
  <2>1. CASE /\ i + d[l] \in 1..Len(channel[l]) /\ channel'[l][i] = channel[l][i + d[l]]
             /\ i \in 0..(Len(channel[l]) - d[l])
    <3> DEFINE m == channel[l][i + d[l]]
    <3>1. m.type = "OVERWATCH" /\ Carries(l, m)
          /\ (Behind(channel[l], m.wait_for_msg_id, i + d[l])
              \/ HasCircle(task_list[l[1]], m.wait_for_msg_id))
      BY <2>1 DEF RequestsCovered, Carried
    <3>2. Watches(l[2], l[1], m.wait_for_msg_id) /\ l = <<l[1], l[2]>>
      <4> HIDE DEF m
      <4>1. l[1] # Operator
        BY <3>1 DEF Carries, Commands
      <4> QED BY <3>1, <4>1, LinkEnds DEF Carries
    <3>3. Behind(channel'[l], m.wait_for_msg_id, i) \/ HasCircle(task_list'[l[1]], m.wait_for_msg_id)
      <4> HIDE DEF m
      <4> QED BY <1>5, <2>1, <3>1, <3>2
    <3> QED BY <2>1, <3>3
  <2>2. CASE \E j \in 1..Len(s[l]) : channel'[l][i] = s[l][j]
    <3>1. channel'[l][i] \in Messages
      BY <1>1
    <3> QED BY <2>2, <3>1 DEF Saying
  <2> QED BY <1>2, <2>1, <2>2
<1>7. WaitsCovered'
  <2> SUFFICES ASSUME NEW v \in Vehicles, NEW i \in 1..Len(task_list'[v]),
                      NEW t, t = task_list'[v][i], StandsBy(t)
               PROVE  WaitCovered(v, t)'
    <3>1. ASSUME NEW v \in Vehicles, NEW i \in 1..Len(task_list'[v]), StandsBy(task_list'[v][i]),
                 \A t : t = task_list'[v][i] /\ StandsBy(t) => WaitCovered(v, t)'
          PROVE  WaitCovered(v, task_list[v][i])'
      <4>1. PICK t : t = task_list'[v][i]
        OBVIOUS
      <4>2. WaitCovered(v, t)'
        BY <3>1, <4>1
      <4> QED BY <4>1, <4>2 DEF WaitCovered, Watches, Heard
    <3> QED BY <3>1 DEF WaitsCovered
  <2> DEFINE w == t.target.veh
             id == t.target.id
             l == <<w, v>>
  <2>1. Len(task_completions[v]) \in Nat /\ Len(task_completions'[v]) \in Nat
        /\ Len(task_completions[v]) <= Len(task_completions'[v])
        /\ v \in Agents
    BY LinkEnds DEF FleetTypes, WritingDown
  <2>2. CASE Answering(v, t, d)
    <3> DEFINE m == channel[l][1]
    <3>1. l \in Links /\ d[l] = 1 /\ m.type = "OVERWATCH" /\ m.wait_for_msg_id = id
          /\ t.since = Len(task_completions[v])
      BY <2>2 DEF Answering
    <3>2. 1 \in 1..Len(channel[l]) /\ Len(channel[l]) \in Nat
      BY <1>1, <3>1 DEF Saying, Flow
    <3>3. Carries(l, m) /\ (Behind(channel[l], id, 1) \/ HasCircle(task_list[l[1]], id))
      BY <3>1, <3>2 DEF RequestsCovered, Carried
    <3>4. Watches(v, w, id)
      <4> HIDE DEF m
      <4>1. l[1] = w /\ l[2] = v
        OBVIOUS
      <4> HIDE DEF l, w, id
      <4>2. l[1] # Operator
        BY <3>1, <3>3 DEF Carries, Commands
      <4> QED BY <3>1, <3>3, <4>1, <4>2 DEF Carries
    <3>5. Behind(channel'[l], id, 0) \/ HasCircle(task_list'[w], id)
      <4>1. 0 \in Nat /\ 0 + d[l] = 1 /\ 0 \in 0..(Len(channel[l]) - d[l]) /\ l[1] = w
        BY <3>1, <3>2
      <4> QED BY <1>5, <3>3, <3>4, <4>1
    <3>6. Watches(v, w, id)'
      BY <1>1, <3>4 DEF Watches
    <3> QED BY <2>1, <3>1, <3>5, <3>6 DEF WaitCovered
  <2>3. CASE \E j \in 1..Len(task_list[v]) :
                /\ StandsBy(task_list[v][j]) /\ t.target = task_list[v][j].target
                /\ t.since = task_list[v][j].since
    <3>1. PICK j \in 1..Len(task_list[v]) :
                /\ StandsBy(task_list[v][j]) /\ t.target = task_list[v][j].target
                /\ t.since = task_list[v][j].since
      BY <2>3
    <3>2. WaitCovered(v, task_list[v][j])
      BY <3>1 DEF WaitsCovered
    <3>3. /\ Watches(v, w, id) /\ t.since <= Len(task_completions[v])
          /\ \/ Heard(v, t.target, t.since)
             \/ Behind(channel[l], id, 0)
             \/ HasCircle(task_list[w], id)
      BY <3>1, <3>2 DEF WaitCovered
    <3>4. t.since \in Nat /\ l \in Links /\ w \in Vehicles
      <4>1. task_list[v][j].since \in Nat
        <5>1. task_list[v] \in Seq(Tasks)
          BY DEF FleetTypes
        <5>2. task_list[v][j] \in Tasks
          BY <5>1
        <5> QED BY <5>2 DEF Tasks
      <4> QED BY <3>1, <3>3, <4>1, LinkEnds DEF Watches
    <3>5. Watches(v, w, id)' /\ t.since <= Len(task_completions'[v])
      BY <1>1, <2>1, <3>3, <3>4 DEF Watches
    <3>6. CASE Heard(v, t.target, t.since)
      <4>1. PICK h \in (t.since + 1)..Len(task_completions[v]) :
              task_completions[v][h] = [sender |-> w, id |-> id]
        BY <3>6 DEF Heard
      <4>2. h \in (t.since + 1)..Len(task_completions'[v]) /\ h \in 1..Len(task_completions[v])
        BY <2>1, <3>4
      <4>3. task_completions'[v][h] = [sender |-> w, id |-> id]
        BY <2>1, <4>1, <4>2 DEF WritingDown
      <4>4. Heard(v, t.target, t.since)'
        BY <4>2, <4>3 DEF Heard
      <4> QED BY <3>5, <4>4 DEF WaitCovered
    <3>7. CASE Behind(channel[l], id, 0)
      <4>1. CASE Behind(channel'[l], id, 0)
        BY <3>5, <4>1 DEF WaitCovered
      <4>2. CASE d[l] = 1 /\ channel[l][1] = [type |-> "TASK_COMPLETE", id |-> id]
        <5>1. channel[l][1].type = "TASK_COMPLETE" /\ channel[l][1].id = id /\ l[1] = w /\ l[2] = v
          BY <4>2
        <5>2. PICK h \in (Len(task_completions[v]) + 1)..Len(task_completions'[v]) :
                task_completions'[v][h] = [sender |-> w, id |-> id]
          BY <3>4, <4>2, <5>1 DEF Taking
        <5>3. h \in (t.since + 1)..Len(task_completions'[v])
          BY <2>1, <3>3, <3>4
        <5>4. Heard(v, t.target, t.since)'
          BY <5>2, <5>3 DEF Heard
        <5> QED BY <3>5, <5>4 DEF WaitCovered
      <4> QED BY <1>2, <3>4, <3>7, <4>1, <4>2
    <3>8. CASE HasCircle(task_list[w], id)
      <4>1. Behind(channel'[l], id, 0) \/ HasCircle(task_list'[w], id)
        <5>1. HasCircle(task_list'[w], id) \/ Announced(s[l], id)
          BY <3>3, <3>8 DEF Ending
        <5>2. 0 \in 0..(Len(channel[l]) - d[l])
          BY <1>1, <3>4 DEF Saying, Flow
        <5> QED BY <1>2, <3>4, <5>1, <5>2
      <4> QED BY <3>5, <4>1 DEF WaitCovered
    <3> QED BY <3>3, <3>6, <3>7, <3>8
  <2>4. Answering(v, t, d) \/ \E j \in 1..Len(task_list[v]) :
                /\ StandsBy(task_list[v][j]) /\ t.target = task_list[v][j].target
                /\ t.since = task_list[v][j].since
    BY DEF Waiting
  <2> QED BY <2>2, <2>3, <2>4
<1> QED BY <1>3, <1>4, <1>6, <1>7

-----------------------------------------------------------------------------
(* A vehicle that works on its list and says what has to be said.          *)
Spoken(v, ms) ==
    [l \in Links |-> IF l[1] = v THEN Heeded(ms, ListensFor[mission][l]) ELSE <<>>]

LEMMA Listeners ==
    ASSUME mission \in Missions, NEW l \in Links
    PROVE  /\ l[2] = Operator => ListensFor[mission][l]["ARRIVE"] = {}
           /\ l[1] # l[2] /\ l[2] # Operator /\ {l[2]} \in Known[mission] =>
                EncircleIds(mission) \subseteq ListensFor[mission][l]["TASK_COMPLETE"]
<1>1. l[2] = Operator => ListensFor[mission][l]["ARRIVE"] = {}
  <2> SUFFICES ASSUME l[2] = Operator
               PROVE  ListensFor[mission][l]["ARRIVE"] = {}
    OBVIOUS
  <2>1. "ARRIVE" \in {"ARRIVE", "TASK_COMPLETE"}
    OBVIOUS
  <2>2. ListensFor[mission][l]["ARRIVE"] = IF l[2] = Operator THEN {} ELSE FormationIds(mission, l[2])
    BY <2>1, Zenon DEF ListensFor
  <2> QED BY <2>2
<1>2. CASE l[1] # l[2] /\ l[2] # Operator /\ {l[2]} \in Known[mission]
  <2>1. ListensFor[mission][l]["TASK_COMPLETE"]
          = OrderedWaits(mission, l[2]) \cup FormationIds(mission, l[2])
            \cup (IF {l[2]} \in Known[mission] THEN EncircleIds(mission) ELSE {})
    BY <1>2 DEF ListensFor
  <2> QED BY <1>1, <1>2, <2>1
<1> QED BY <1>1, <1>2

LEMMA SpokenElements ==
    ASSUME mission \in Missions, NEW v \in Vehicles, NEW ms \in Seq(Messages),
           \A i \in 1..Len(ms) : ms[i].type \in {"ARRIVE", "TASK_COMPLETE"}
    PROVE  /\ \A l \in Links :
                 /\ Spoken(v, ms)[l] \in Seq(Messages)
                 /\ \A j \in 1..Len(Spoken(v, ms)[l]) :
                       /\ l[1] = v
                       /\ \E i \in 1..Len(ms) : Spoken(v, ms)[l][j] = ms[i]
                       /\ l[2] = Operator => Spoken(v, ms)[l][j].type = "TASK_COMPLETE"
           /\ \A w, id : Watches(w, v, id) /\ Announced(ms, id)
                           => Announced(Spoken(v, ms)[<<v, w>>], id)
<1>1. ASSUME NEW l \in Links, l[1] = v
      PROVE  LET q == Spoken(v, ms)[l]
                 ids == ListensFor[mission][l]
             IN  /\ q \in Seq(Messages)
                 /\ \A j \in 1..Len(q) :
                       \E i \in 1..Len(ms) : q[j] = ms[i] /\ ms[i].id \in ids[ms[i].type]
                 /\ \A i \in 1..Len(ms) :
                       ms[i].id \in ids[ms[i].type] => \E j \in 1..Len(q) : q[j] = ms[i]
  <2> DEFINE q == Spoken(v, ms)[l]
             ids == ListensFor[mission][l]
  <2>1. q = Heeded(ms, ids)
    BY <1>1 DEF Spoken
  <2> HIDE DEF q, ids
  <2>2. Taken(q, Len(ms), ms, ids)
    BY <2>1, HeededTaken
  <2>3. /\ q \in Seq(Messages)
        /\ \A j \in 1..Len(q) :
              \E i \in 1..Len(ms) : q[j] = ms[i] /\ ms[i].id \in ids[ms[i].type]
        /\ \A i \in 1..Len(ms) :
              ms[i].id \in ids[ms[i].type] => \E j \in 1..Len(q) : q[j] = ms[i]
    BY <2>2 DEF Taken
  <2> QED BY <2>3 DEF q, ids
<1>2. ASSUME NEW l \in Links, l[1] # v
      PROVE  Spoken(v, ms)[l] \in Seq(Messages) /\ Len(Spoken(v, ms)[l]) = 0
  <2>1. Spoken(v, ms)[l] = <<>>
    BY <1>2 DEF Spoken
  <2> QED BY <2>1
<1>3. ASSUME NEW l \in Links
      PROVE  /\ Spoken(v, ms)[l] \in Seq(Messages)
             /\ \A j \in 1..Len(Spoken(v, ms)[l]) :
                   /\ l[1] = v
                   /\ \E i \in 1..Len(ms) : Spoken(v, ms)[l][j] = ms[i]
                   /\ l[2] = Operator => Spoken(v, ms)[l][j].type = "TASK_COMPLETE"
  <2>1. CASE l[1] # v
    <3> DEFINE q == Spoken(v, ms)[l]
    <3>1. q \in Seq(Messages) /\ Len(q) = 0
      BY <1>2, <2>1
    <3> HIDE DEF q
    <3>2. \A j \in 1..Len(q) : FALSE
      BY <3>1
    <3> QED BY <3>1, <3>2 DEF q
  <2>2. CASE l[1] = v
    <3> DEFINE q == Spoken(v, ms)[l]
               ids == ListensFor[mission][l]
    <3>1. /\ q \in Seq(Messages)
          /\ \A j \in 1..Len(q) :
                \E i \in 1..Len(ms) : q[j] = ms[i] /\ ms[i].id \in ids[ms[i].type]
      BY <1>1, <2>2
    <3>2. l[2] = Operator => ids["ARRIVE"] = {}
      BY Listeners
    <3> HIDE DEF q, ids
    <3>3. ASSUME NEW j \in 1..Len(q)
          PROVE  /\ \E i \in 1..Len(ms) : q[j] = ms[i]
                 /\ l[2] = Operator => q[j].type = "TASK_COMPLETE"
      <4>1. PICK i \in 1..Len(ms) : q[j] = ms[i] /\ ms[i].id \in ids[ms[i].type]
        BY <3>1
      <4>2. ms[i].type \in {"ARRIVE", "TASK_COMPLETE"}
        OBVIOUS
      <4> QED BY <3>2, <4>1, <4>2
    <3> QED BY <2>2, <3>1, <3>3 DEF q
  <2> QED BY <2>1, <2>2
<1>4. ASSUME NEW w, NEW id, Watches(w, v, id), Announced(ms, id)
      PROVE  Announced(Spoken(v, ms)[<<v, w>>], id)
  <2> DEFINE l == <<v, w>>
             q == Spoken(v, ms)[l]
             ids == ListensFor[mission][l]
  <2>1. l \in Links /\ l[1] = v /\ l[2] = w /\ w # v /\ w # Operator /\ {w} \in Known[mission]
        /\ id \in EncircleIds(mission)
    BY <1>4, LinkEnds DEF Watches
  <2>2. \A i \in 1..Len(ms) : ms[i].id \in ids[ms[i].type] => \E j \in 1..Len(q) : q[j] = ms[i]
    BY <1>1, <2>1
  <2>3. id \in ids["TASK_COMPLETE"]
    <3> HIDE DEF l
    <3> QED BY <2>1, Listeners
  <2> HIDE DEF q, ids, l
  <2>4. PICK i \in 1..Len(ms) : ms[i] = [type |-> "TASK_COMPLETE", id |-> id]
    BY <1>4 DEF Announced
  <2>5. PICK j \in 1..Len(q) : q[j] = ms[i]
    BY <2>2, <2>3, <2>4
  <2>6. Announced(q, id)
    BY <2>4, <2>5 DEF Announced
  <2> QED BY <2>6 DEF q, l
<1> QED BY <1>3, <1>4

Working(v, new, ms, d, rest) ==
    /\ Worked(new, task_list[v], ms, mission, obj_detection_cnt[v])
    /\ \A l \in Links : /\ d[l] \in {0, 1}
                        /\ d[l] = 1 => channel[l] # <<>> /\ channel[l][1].type # "TASK_COMPLETE"
                        /\ rest[l] = IF d[l] = 1 THEN Tail(channel[l]) ELSE channel[l]
    /\ \A i \in 1..Len(new) : StandsBy(new[i]) =>
          \/ Answering(v, new[i], d)
          \/ \E j \in 1..Len(task_list[v]) :
                /\ StandsBy(task_list[v][j]) /\ new[i].target = task_list[v][j].target
                /\ new[i].since = task_list[v][j].since
    /\ task_list' = [task_list EXCEPT ![v] = new] /\ channel' = Broadcast(rest, v, ms)
    /\ UNCHANGED <<mission, task_completions, arrivals, obj_detection_cnt, sent, investigations>>

LEMMA WorkedKeeps ==
    ASSUME FleetInv, NEW v \in Vehicles, NEW new, NEW ms, NEW d, NEW rest,
           Working(v, new, ms, d, rest)
    PROVE  FleetInv'
<1> USE DEF Working
<1> DEFINE s == Spoken(v, ms)
<1>1. /\ mission \in Missions /\ task_list \in [Vehicles -> Seq(Tasks)]
      /\ task_completions \in [Agents -> Seq(Log)]
      /\ channel \in [Links -> Seq(Messages)] /\ obj_detection_cnt \in [Vehicles -> Int]
  BY DEF FleetInv, FleetTypes
<1>2. /\ new \in Seq(Tasks) /\ ms \in Seq(Messages)
      /\ Circles(new, mission, obj_detection_cnt[v])
      /\ \A c : HasCircle(new, c) => HasCircle(task_list[v], c)
      /\ \A c : HasCircle(task_list[v], c) => HasCircle(new, c) \/ Announced(ms, c)
      /\ \A j \in 1..Len(ms) :
            \/ ms[j].type = "ARRIVE"
            \/ /\ ms[j].type = "TASK_COMPLETE" /\ ~HasCircle(new, ms[j].id)
               /\ ms[j].id \in EncircleIds(mission) => ms[j].id > obj_detection_cnt[v]
  BY DEF Worked
<1>3. /\ task_list'[v] = new /\ \A u \in Vehicles : u # v => task_list'[u] = task_list[u]
      /\ task_list' \in [Vehicles -> Seq(Tasks)]
  BY <1>1, <1>2
<1>4. /\ \A l \in Links :
            /\ s[l] \in Seq(Messages)
            /\ \A j \in 1..Len(s[l]) :
                  /\ l[1] = v
                  /\ \E i \in 1..Len(ms) : s[l][j] = ms[i]
                  /\ l[2] = Operator => s[l][j].type = "TASK_COMPLETE"
      /\ \A w, id : Watches(w, v, id) /\ Announced(ms, id) => Announced(s[<<v, w>>], id)
  BY <1>1, <1>2, SpokenElements
<1>5. ASSUME NEW l \in Links
      PROVE  channel'[l] \in Seq(Messages) /\ Flow(channel'[l], channel[l], d[l], s[l])
  <2>1. channel'[l] = IF l[1] = v THEN rest[l] \o Heeded(ms, ListensFor[mission][l]) ELSE rest[l]
    BY DEF Broadcast
  <2>2. s[l] = IF l[1] = v THEN Heeded(ms, ListensFor[mission][l]) ELSE <<>>
    BY DEF Spoken
  <2>3. rest[l] = IF d[l] = 1 THEN Tail(channel[l]) ELSE channel[l]
    OBVIOUS
  <2>4. rest[l] \in Seq(Messages) /\ channel[l] \in Seq(Messages)
    BY <1>1, <2>3
  <2>5. channel'[l] = rest[l] \o s[l]
    <3>1. \A q \in Seq(Messages) : q \o <<>> = q
      OBVIOUS
    <3> HIDE DEF s
    <3> QED BY <2>1, <2>2, <2>4, <3>1
  <2>6. s[l] \in Seq(Messages)
    BY <1>4
  <2> HIDE DEF s
  <2>7. /\ channel[l] \o s[l] \in Seq(Messages) /\ Flow(channel[l] \o s[l], channel[l], 0, s[l])
        /\ channel[l] # <<>> =>
             /\ Tail(channel[l]) \o s[l] \in Seq(Messages)
             /\ Flow(Tail(channel[l]) \o s[l], channel[l], 1, s[l])
    BY <2>4, <2>6, FlowOf
  <2>8. d[l] = 1 => channel[l] # <<>>
    OBVIOUS
  <2>9. d[l] = 0 \/ d[l] = 1
    OBVIOUS
  <2> QED BY <2>3, <2>5, <2>7, <2>8, <2>9
<1> HIDE DEF s
<1>6. channel' \in [Links -> Seq(Messages)]
  <2>1. channel' = [l \in Links |-> channel'[l]]
    BY DEF Broadcast
  <2> QED BY <1>5, <2>1
<1>7. FleetTypes'
  BY <1>3, <1>6 DEF FleetInv, FleetTypes
<1>8. Counted'
  <2>1. \A u \in Vehicles : Circles(task_list'[u], mission, obj_detection_cnt[u])
    BY <1>2, <1>3 DEF FleetInv, Counted
  <2> QED BY <2>1 DEF FleetInv, Counted
<1>9. ASSUME NEW u \in Vehicles, NEW id, Over(u, id) PROVE Over(u, id)'
  BY <1>2, <1>3, <1>9 DEF Over
<1>10. Taking(d)
  BY DEF Taking
<1>11. Saying(d, s)
  <2> SUFFICES ASSUME NEW l \in Links, NEW m \in Messages, NEW i \in 1..Len(s[l]), s[l][i] = m
               PROVE  /\ Carries(l, m)'
                      /\ m.type = "OVERWATCH" => HasCircle(task_list'[l[1]], m.wait_for_msg_id)
    BY <1>4, <1>5 DEF Saying
  <2>1. l[1] = v /\ (l[2] = Operator => m.type = "TASK_COMPLETE")
    BY <1>4
  <2>2. PICK j \in 1..Len(ms) : m = ms[j]
    BY <1>4
  <2>3. \/ m.type = "ARRIVE"
        \/ m.type = "TASK_COMPLETE" /\ Over(v, m.id)'
    BY <1>2, <1>3, <2>2 DEF Over
  <2>4. v # Operator
    BY LinkEnds
  <2> QED BY <2>1, <2>3, <2>4 DEF Carries
<1>12. WritingDown
  <2>1. \A a \in Agents : Len(task_completions[a]) \in Nat
    BY <1>1
  <2> QED BY <2>1 DEF WritingDown
<1>13. Ending(s)
  <2>1. ASSUME NEW a, NEW w, NEW id, Watches(a, w, id), HasCircle(task_list[w], id),
               ~HasCircle(task_list'[w], id)
        PROVE  Announced(s[<<w, a>>], id)
    <3>1. w = v
      BY <1>3, <2>1 DEF Watches
    <3> QED BY <1>2, <1>3, <1>4, <2>1, <3>1
  <2> QED BY <1>9, <2>1 DEF Ending
<1>14. Waiting(d)
  <2> SUFFICES ASSUME NEW u \in Vehicles, NEW i \in 1..Len(task_list'[u]), StandsBy(task_list'[u][i])
               PROVE  \/ Answering(u, task_list'[u][i], d)
                      \/ \E j \in 1..Len(task_list[u]) :
                            /\ StandsBy(task_list[u][j])
                            /\ task_list'[u][i].target = task_list[u][j].target
                            /\ task_list'[u][i].since = task_list[u][j].since
    BY DEF Waiting
  <2>1. CASE u = v
    BY <1>3, <2>1
  <2>2. CASE u # v
    BY <1>3, <2>2
  <2> QED BY <2>1, <2>2
<1>15. TeamStep(d, s)
  BY <1>10, <1>11, <1>12, <1>13, <1>14 DEF TeamStep
<1> QED BY <1>7, <1>8, <1>15, TeamKeeps

-----------------------------------------------------------------------------
(* The steps.                                                              *)

\* The tasks of an investigation and of an overwatch.
LEMMA OwnTasks ==
    ASSUME NEW v \in Agents, NEW id \in Int, NEW c \in Nat, NEW target \in Targets, NEW since \in Nat
    PROVE  /\ LET t == ApproachTask(v, c, "first")
              IN  t \in Tasks /\ t.kind = "MoveTo" /\ t.id = -1 /\ ~t.is_preemptable
           /\ LET t == EncircleTask(v, id, c, "first")
              IN  t \in Tasks /\ t.kind = "Encircle" /\ t.id = id
           /\ LET t == OverwatchMove(v)
              IN  t \in Tasks /\ t.kind = "MoveTo" /\ t.id = -1 /\ ~t.is_preemptable
           /\ LET t == OverwatchWait(v, target, since)
              IN  /\ t \in Tasks /\ t.kind = "WaitUntilComplete" /\ t.id = -1
                  /\ t.target = target /\ t.since = since
<1>1. ASSUME NEW k \in TaskKinds, NEW i \in Int
      PROVE  /\ NewTask(k, v, i) \in Tasks /\ NewTask(k, v, i).kind = k
             /\ NewTask(k, v, i).id = i
  <2>1. NoFormation \in Formations /\ NoTarget \in Targets /\ NoContact \in Nat /\ 0 \in Nat
        /\ "first" \in Poses
    BY DEF NoFormation, Formations, NoTarget, Targets, NoContact, Poses
  <2> QED BY <2>1 DEF NewTask, Tasks
<1>2. {"MoveTo", "Encircle", "WaitUntilComplete"} \subseteq TaskKinds /\ -1 \in Int
      /\ "first" \in Poses
  BY DEF TaskKinds, Poses
<1>3. LET t == ApproachTask(v, c, "first")
      IN  t \in Tasks /\ t.kind = "MoveTo" /\ t.id = -1 /\ ~t.is_preemptable
  <2> DEFINE n == NewTask("MoveTo", v, -1)
  <2>1. n \in Tasks /\ n.kind = "MoveTo" /\ n.id = -1
    BY <1>1, <1>2
  <2>2. ApproachTask(v, c, "first")
          = [n EXCEPT !.is_preemptable = FALSE, !.contact = c, !.pose = "first"]
    BY DEF ApproachTask
  <2> HIDE DEF n
  <2> QED BY <1>2, <2>1, <2>2 DEF Tasks
<1>4. LET t == EncircleTask(v, id, c, "first")
      IN  t \in Tasks /\ t.kind = "Encircle" /\ t.id = id
  <2> DEFINE n == NewTask("Encircle", v, id)
  <2>1. n \in Tasks /\ n.kind = "Encircle" /\ n.id = id
    BY <1>1, <1>2
  <2>2. EncircleTask(v, id, c, "first")
          = [n EXCEPT !.is_preemptable = FALSE, !.contact = c, !.pose = "first"]
    BY DEF EncircleTask
  <2> HIDE DEF n
  <2> QED BY <1>2, <2>1, <2>2 DEF Tasks
<1>5. LET t == OverwatchMove(v)
      IN  t \in Tasks /\ t.kind = "MoveTo" /\ t.id = -1 /\ ~t.is_preemptable
  <2> DEFINE n == NewTask("MoveTo", v, -1)
  <2>1. n \in Tasks /\ n.kind = "MoveTo" /\ n.id = -1
    BY <1>1, <1>2
  <2>2. OverwatchMove(v) = [n EXCEPT !.is_preemptable = FALSE]
    BY DEF OverwatchMove
  <2> HIDE DEF n
  <2> QED BY <2>1, <2>2 DEF Tasks
<1>6. LET t == OverwatchWait(v, target, since)
      IN  /\ t \in Tasks /\ t.kind = "WaitUntilComplete" /\ t.id = -1
          /\ t.target = target /\ t.since = since
  <2> DEFINE n == NewTask("WaitUntilComplete", v, -1)
             w == [n EXCEPT !.target = target, !.since = since]
  <2>1. n \in Tasks /\ n.kind = "WaitUntilComplete" /\ n.id = -1
    BY <1>1, <1>2
  <2> HIDE DEF n
  <2>2. /\ w \in Tasks /\ w.kind = "WaitUntilComplete" /\ w.id = -1
        /\ w.target = target /\ w.since = since
    BY <2>1 DEF Tasks
  <2>3. OverwatchWait(v, target, since) = [w EXCEPT !.is_preemptable = FALSE]
    BY DEF OverwatchWait, WaitTask, n
  <2> HIDE DEF w
  <2> QED BY <2>2, <2>3 DEF Tasks
<1> QED BY <1>3, <1>4, <1>5, <1>6

\* No investigation has the id of an approach, and the next one has one of them.
LEMMA InvestigationIds ==
    ASSUME NEW m \in Missions
    PROVE  /\ -1 \notin EncircleIds(m)
           /\ \A k \in 0..(MaxInvestigations[m] - 1) : \A id \in Int :
                 FirstToiId - k <= id /\ id <= FirstToiId => id \in EncircleIds(m)
<1>1. FirstToiId \in Nat /\ MaxInvestigations[m] \in Nat /\ MaxInvestigations[m] <= FirstToiId
  BY FleetAssumption, ScriptAssumption
<1>2. -1 \notin EncircleIds(m)
  BY <1>1 DEF EncircleIds
<1>3. ASSUME NEW k \in 0..(MaxInvestigations[m] - 1), NEW id \in Int,
             FirstToiId - k <= id, id <= FirstToiId
      PROVE  id \in EncircleIds(m)
  <2>1. FirstToiId - id \in 0..(MaxInvestigations[m] - 1) /\ FirstToiId - (FirstToiId - id) = id
    BY <1>1, <1>3
  <2> QED BY <2>1 DEF EncircleIds
<1> QED BY <1>2, <1>3

LEMMA InvestigateKeeps ==
    ASSUME FleetInv, NEW v \in Vehicles, NEW W, W = {} \/ \E w \in Vehicles \ {v} : W = {w},
           Investigate(v, W)
    PROVE  FleetInv'
<1> DEFINE tl == task_list[v]
           id == obj_detection_cnt[v]
           c == FirstToiId - id + 1
           approach == ApproachTask(v, c, "first")
           encircle == EncircleTask(v, id, c, "first")
           b == <<approach, encircle>>
           new == PreemptInsert(PreemptInsert(tl, approach), encircle)
           d == [l \in Links |-> 0]
           s == [l \in Links |-> IF l[1] = v /\ l[2] \in W THEN <<OverwatchRequest(id)>> ELSE <<>>]
<1>1. /\ mission \in Missions /\ task_list \in [Vehicles -> Seq(Tasks)]
      /\ task_completions \in [Agents -> Seq(Log)]
      /\ channel \in [Links -> Seq(Messages)] /\ obj_detection_cnt \in [Vehicles -> Int]
      /\ investigations \in 0..MaxInvestigations[mission] /\ MaxInvestigations[mission] \in Nat
      /\ FirstToiId \in Nat /\ tl \in Seq(Tasks) /\ id \in Int /\ v \in Agents
  BY FleetAssumption, LinkEnds DEF FleetInv, FleetTypes
<1>2. /\ investigations < MaxInvestigations[mission] /\ investigations' = investigations + 1
      /\ W \in Known[mission] /\ task_list' = [task_list EXCEPT ![v] = new]
      /\ obj_detection_cnt' = [obj_detection_cnt EXCEPT ![v] = id - 1]
      /\ channel' = [l \in Links |-> IF l[1] = v /\ l[2] \in W
                                       THEN Append(channel[l], OverwatchRequest(id)) ELSE channel[l]]
      /\ UNCHANGED <<mission, task_completions, arrivals, sent>>
  BY DEF Investigate, NextToiId
<1>3. FirstToiId - investigations <= id /\ id <= FirstToiId /\ Circles(tl, mission, id)
  BY DEF FleetInv, Counted
<1>4. id \in EncircleIds(mission) /\ -1 \notin EncircleIds(mission) /\ c \in Nat
  <2>1. investigations \in 0..(MaxInvestigations[mission] - 1)
    BY <1>1, <1>2
  <2> QED BY <1>1, <1>3, <2>1, InvestigationIds
<1>5. /\ approach \in Tasks /\ approach.kind = "MoveTo" /\ approach.id = -1
      /\ ~approach.is_preemptable
      /\ encircle \in Tasks /\ encircle.kind = "Encircle" /\ encircle.id = id
  <2>1. NoTarget \in Targets /\ 0 \in Nat
    BY DEF NoTarget, Targets
  <2> QED BY <1>1, <1>4, <2>1, OwnTasks
<1> HIDE DEF approach, encircle, c
<1>6. b \in Seq(Tasks) /\ Len(b) = 2 /\ b[1] = approach /\ b[2] = encircle
  BY <1>5
<1>7. new \in Seq(Tasks) /\ Inserted(new, tl, FirstPreemptable(tl), b)
  BY <1>1, <1>5, PreemptInsertElements, PreemptTwiceInserted
<1> HIDE DEF b, new, tl, id
<1>8. \A i \in 1..Len(b) : i = 1 \/ i = 2
  BY <1>6
<1>9. Circles(new, mission, id - 1) /\ \A x : HasCircle(new, x) <=> HasCircle(tl, x) \/ HasCircle(b, x)
  <2>1. /\ \A i \in 1..Len(b) :
              /\ b[i].kind = "Encircle" => b[i].id \in EncircleIds(mission) /\ b[i].id > id - 1
                                           /\ b[i].id <= id
              /\ b[i].id \in EncircleIds(mission) => b[i].kind = "Encircle"
        /\ \A i, j \in 1..Len(b) : b[i].kind = "Encircle" /\ b[j].kind = "Encircle" => i = j
    BY <1>1, <1>4, <1>5, <1>6, <1>8
  <2>2. id - 1 \in Int /\ id - 1 <= id
    BY <1>1
  <2> QED BY ZenonT(40), <1>1, <1>3, <1>6, <1>7, <2>1, <2>2, InsertedCircles
<1>10. \A x : HasCircle(b, x) <=> x = id
  BY <1>5, <1>6, <1>8 DEF HasCircle
<1>11. /\ task_list'[v] = new /\ \A u \in Vehicles : u # v => task_list'[u] = task_list[u]
       /\ task_list' \in [Vehicles -> Seq(Tasks)]
       /\ obj_detection_cnt'[v] = id - 1
       /\ \A u \in Vehicles : u # v => obj_detection_cnt'[u] = obj_detection_cnt[u]
       /\ obj_detection_cnt' \in [Vehicles -> Int]
  BY <1>1, <1>2, <1>7
<1>12. OverwatchRequest(id) \in Messages
  BY <1>1 DEF OverwatchRequest, Messages
<1>13. ASSUME NEW l \in Links
       PROVE  /\ s[l] \in Seq(Messages) /\ d[l] = 0
              /\ channel'[l] \in Seq(Messages) /\ Flow(channel'[l], channel[l], d[l], s[l])
  <2>1. channel[l] \in Seq(Messages) /\ d[l] = 0
    BY <1>1
  <2>2. s[l] \in Seq(Messages)
    BY <1>12
  <2>3. channel'[l] = channel[l] \o s[l]
    <3>1. CASE l[1] = v /\ l[2] \in W
      <4>1. s[l] = <<OverwatchRequest(id)>> /\ channel'[l] = Append(channel[l], OverwatchRequest(id))
        BY <1>2, <3>1
      <4>2. \A q \in Seq(Messages), m \in Messages : Append(q, m) = q \o <<m>>
        OBVIOUS
      <4> HIDE DEF s
      <4> QED BY <1>12, <2>1, <4>1, <4>2
    <3>2. CASE ~(l[1] = v /\ l[2] \in W)
      <4>1. s[l] = <<>> /\ channel'[l] = channel[l]
        BY <1>2, <3>2
      <4>2. \A q \in Seq(Messages) : q = q \o <<>>
        OBVIOUS
      <4> HIDE DEF s
      <4> QED BY <2>1, <4>1, <4>2
    <3> QED BY <3>1, <3>2
  <2> HIDE DEF s, d
  <2> QED BY <2>1, <2>2, <2>3, FlowOf
<1>14. channel' \in [Links -> Seq(Messages)]
  <2>1. channel' = [l \in Links |-> channel'[l]]
    BY <1>2
  <2> QED BY <1>13, <2>1
<1>15. FleetTypes'
  BY <1>1, <1>2, <1>11, <1>14 DEF FleetInv, FleetTypes
<1>16. Counted'
  <2>1. ASSUME NEW u \in Vehicles
        PROVE  /\ FirstToiId - (investigations + 1) <= obj_detection_cnt'[u]
               /\ obj_detection_cnt'[u] <= FirstToiId
               /\ Circles(task_list'[u], mission, obj_detection_cnt'[u])
    <3>1. CASE u = v
      BY <1>1, <1>3, <1>9, <1>11, <3>1
    <3>2. CASE u # v
      <4>1. /\ FirstToiId - investigations <= obj_detection_cnt[u]
            /\ obj_detection_cnt[u] <= FirstToiId
            /\ Circles(task_list[u], mission, obj_detection_cnt[u])
            /\ obj_detection_cnt[u] \in Int
        BY <1>1 DEF FleetInv, Counted
      <4> QED BY <1>1, <1>11, <3>2, <4>1
    <3> QED BY <3>1, <3>2
  <2> QED BY <1>2, <2>1 DEF Counted
<1>17. ASSUME NEW u \in Vehicles, NEW x, Over(u, x) PROVE Over(u, x)'
  <2>1. CASE u = v
    <3>1. x # id
      BY <1>1, <1>4, <1>17, <2>1 DEF Over, id
    <3>2. ~HasCircle(task_list'[v], x)
      BY <1>9, <1>10, <1>11, <1>17, <2>1, <3>1 DEF Over, tl
    <3>3. x \in EncircleIds(mission) => x \in Int /\ x > id - 1
      <4>1. \A k \in 0..(MaxInvestigations[mission] - 1) : FirstToiId - k \in Int
        BY <1>1
      <4>2. x \in EncircleIds(mission) => x \in Int
        BY <4>1 DEF EncircleIds
      <4>3. x \in EncircleIds(mission) => x > id
        BY <1>17, <2>1 DEF Over, id
      <4> QED BY <1>1, <4>2, <4>3
    <3> QED BY <1>2, <1>11, <2>1, <3>2, <3>3 DEF Over
  <2>2. CASE u # v
    BY <1>2, <1>11, <1>17, <2>2 DEF Over
  <2> QED BY <2>1, <2>2
<1>18. Taking(d)
  <2> HIDE DEF d
  <2>1. ASSUME NEW l \in Links PROVE d[l] \in {0, 1} /\ d[l] # 1
    BY <1>13
  <2> QED BY <2>1 DEF Taking
<1>19. ASSUME NEW l \in Links, NEW m \in Messages, NEW i \in 1..Len(s[l]), s[l][i] = m
       PROVE  /\ Carries(l, m)'
              /\ m.type = "OVERWATCH" => HasCircle(task_list'[l[1]], m.wait_for_msg_id)
  <2>1. l[1] = v /\ l[2] \in W /\ m = OverwatchRequest(id)
    <3>1. CASE l[1] = v /\ l[2] \in W
      <4>1. s[l] = <<OverwatchRequest(id)>>
        BY <3>1
      <4> HIDE DEF s
      <4> QED BY <1>19, <3>1, <4>1
    <3>2. CASE ~(l[1] = v /\ l[2] \in W)
      <4>1. s[l] = <<>>
        BY <3>2
      <4> HIDE DEF s
      <4> QED BY <1>19, <4>1
    <3> QED BY <3>1, <3>2
  <2>2. m.type = "OVERWATCH" /\ m.wait_for_msg_id = id
    BY <2>1 DEF OverwatchRequest
  <2>3. HasCircle(task_list'[v], id)
    BY <1>9, <1>10, <1>11
  <2>4. l[2] \in Vehicles /\ l[2] # v /\ W = {l[2]}
    BY <2>1
  <2>5. Watches(l[2], v, id)
    BY <1>2, <1>4, <2>4 DEF Watches
  <2>6. v # Operator /\ l[2] # Operator
    BY <2>4, LinkEnds
  <2> QED BY <1>2, <2>1, <2>2, <2>3, <2>5, <2>6 DEF Carries, Watches
<1> HIDE DEF d, s
<1>20. Saying(d, s)
  BY <1>13, <1>19 DEF Saying
<1>21. WritingDown
  <2>1. \A a \in Agents : Len(task_completions[a]) \in Nat
    BY <1>1
  <2> QED BY <1>2, <2>1 DEF WritingDown
<1>22. Ending(s)
  <2>1. ASSUME NEW a, NEW w, NEW x, Watches(a, w, x), HasCircle(task_list[w], x)
        PROVE  HasCircle(task_list'[w], x)
    BY <1>9, <1>11, <2>1 DEF Watches, tl
  <2> QED BY <1>17, <2>1 DEF Ending
<1>23. Waiting(d)
  <2> SUFFICES ASSUME NEW u \in Vehicles, NEW i \in 1..Len(task_list'[u]), StandsBy(task_list'[u][i])
               PROVE  \E j \in 1..Len(task_list[u]) :
                            /\ StandsBy(task_list[u][j])
                            /\ task_list'[u][i].target = task_list[u][j].target
                            /\ task_list'[u][i].since = task_list[u][j].since
    BY DEF Waiting
  <2>1. CASE u = v
    <3>1. i \in 1..Len(new) /\ StandsBy(new[i])
      BY <1>11, <2>1
    <3>2. ~\E j \in 1..Len(b) : new[i] = b[j]
      BY <1>5, <1>6, <1>8, <3>1 DEF StandsBy, IsWait
    <3>3. \E j \in 1..Len(tl) :
              StandsBy(tl[j]) /\ new[i].target = tl[j].target /\ new[i].since = tl[j].since
      BY ZenonT(40), <1>1, <1>6, <1>7, <3>1, <3>2, InsertedWaits
    <3> QED BY <1>11, <2>1, <3>3 DEF tl
  <2>2. CASE u # v
    BY <1>11, <2>2
  <2> QED BY <2>1, <2>2
<1>24. TeamStep(d, s)
  BY <1>2, <1>18, <1>20, <1>21, <1>22, <1>23 DEF TeamStep
<1> QED BY <1>15, <1>16, <1>24, TeamKeeps

\* Messages go, and what was heard is written down; the lists stay.
LEMMA QuietKeeps ==
    ASSUME FleetInv, NEW d, NEW s, FleetTypes',
           UNCHANGED <<mission, task_list, obj_detection_cnt, investigations>>,
           Taking(d), Saying(d, s), WritingDown
    PROVE  FleetInv'
<1>1. Counted'
  BY DEF FleetInv, Counted
<1>2. Ending(s)
  BY DEF Ending, Over
<1>3. Waiting(d)
  BY DEF Waiting
<1>4. TeamStep(d, s)
  BY <1>2, <1>3 DEF TeamStep
<1> QED BY <1>1, <1>4, TeamKeeps

LEMMA SendKeeps ==
    ASSUME FleetInv, NEW v \in Vehicles, Send(v)
    PROVE  FleetInv'
<1> DEFINE o == Script[mission][v][sent[v] + 1]
           k == <<Operator, v>>
           d == [l \in Links |-> 0]
           s == [l \in Links |-> IF l = k THEN <<o.m>> ELSE <<>>]
<1>1. /\ mission \in Missions /\ sent \in [Vehicles -> Nat] /\ sent[v] < Len(Script[mission][v])
      /\ channel \in [Links -> Seq(Messages)] /\ task_completions \in [Agents -> Seq(Log)]
      /\ channel' = [channel EXCEPT ![k] = Append(@, o.m)]
      /\ sent' = [sent EXCEPT ![v] = @ + 1]
      /\ UNCHANGED <<mission, task_list, task_completions, arrivals, obj_detection_cnt, investigations>>
  BY DEF FleetInv, FleetTypes, Send
<1>2. /\ o.m \in Messages /\ o.m.type \in Commands /\ o.m.id \notin EncircleIds(mission)
  <2>1. Script[mission][v] \in Seq(Orders) /\ sent[v] + 1 \in 1..Len(Script[mission][v])
    BY <1>1, FleetAssumption
  <2>2. o \in Orders
    BY <2>1
  <2>3. o.m \in Messages
    BY <2>2 DEF Orders
  <2>4. o.m.type \notin {"OVERWATCH", "TASK_COMPLETE", "ARRIVE"} /\ o.m.id \notin EncircleIds(mission)
    BY <1>1, <2>1, ScriptAssumption
  <2>5. \A m \in Messages : m.type \in Commands \cup {"OVERWATCH", "TASK_COMPLETE", "ARRIVE"}
    BY DEF Messages, Commands
  <2> QED BY <2>3, <2>4, <2>5
<1>3. k \in Links
  BY LinkEnds DEF Agents
<1> HIDE DEF o
<1>4. ASSUME NEW l \in Links
      PROVE  /\ s[l] \in Seq(Messages) /\ d[l] = 0
             /\ channel'[l] \in Seq(Messages) /\ Flow(channel'[l], channel[l], d[l], s[l])
  <2>1. channel[l] \in Seq(Messages) /\ d[l] = 0 /\ s[l] \in Seq(Messages)
    BY <1>1, <1>2
  <2>2. channel'[l] = channel[l] \o s[l]
    <3>1. CASE l = k
      <4>1. s[l] = <<o.m>> /\ channel'[l] = Append(channel[l], o.m)
        BY <1>1, <3>1
      <4>2. \A q \in Seq(Messages), m \in Messages : Append(q, m) = q \o <<m>>
        OBVIOUS
      <4> HIDE DEF s
      <4> QED BY <1>2, <2>1, <4>1, <4>2
    <3>2. CASE l # k
      <4>1. s[l] = <<>> /\ channel'[l] = channel[l]
        BY <1>1, <3>2
      <4>2. \A q \in Seq(Messages) : q = q \o <<>>
        OBVIOUS
      <4> HIDE DEF s
      <4> QED BY <2>1, <4>1, <4>2
    <3> QED BY <3>1, <3>2
  <2> HIDE DEF s, d
  <2> QED BY <2>1, <2>2, FlowOf
<1>5. ASSUME NEW l \in Links, NEW i \in 1..Len(s[l])
      PROVE  l[1] = Operator /\ s[l][i] = o.m
  <2>1. CASE l = k
    <3>1. s[l] = <<o.m>> /\ l[1] = Operator
      BY <2>1
    <3> HIDE DEF s
    <3> QED BY <1>5, <3>1
  <2>2. CASE l # k
    <3>1. s[l] = <<>>
      BY <2>2
    <3> HIDE DEF s
    <3> QED BY <1>5, <3>1
  <2> QED BY <2>1, <2>2
<1> HIDE DEF s, d, k
<1>6. FleetTypes'
  <2>1. channel' \in [Links -> Seq(Messages)]
    BY <1>1, <1>2, <1>3
  <2> QED BY <1>1, <2>1 DEF FleetInv, FleetTypes
<1>7. Taking(d)
  <2>1. ASSUME NEW l \in Links PROVE d[l] \in {0, 1} /\ d[l] # 1
    BY <1>4
  <2> QED BY <2>1 DEF Taking
<1>8. Saying(d, s)
  <2>1. ASSUME NEW l \in Links, NEW m \in Messages, NEW i \in 1..Len(s[l]), s[l][i] = m
        PROVE  Carries(l, m)' /\ m.type # "OVERWATCH"
    <3>1. l[1] = Operator /\ m.type \in Commands /\ m.id \notin EncircleIds(mission)
      BY <1>2, <1>5, <2>1
    <3> QED BY <1>1, <3>1 DEF Carries, Commands
  <2> QED BY <1>4, <2>1 DEF Saying
<1>9. WritingDown
  <2>1. \A a \in Agents : Len(task_completions[a]) \in Nat
    BY <1>1
  <2> QED BY <1>1, <2>1 DEF WritingDown
<1> QED BY <1>1, <1>6, <1>7, <1>8, <1>9, QuietKeeps

\* The next message of link k is taken, and nothing is said.
LEMMA TakenFlow ==
    ASSUME FleetTypes, NEW k \in Links, channel[k] # <<>>,
           channel' = [channel EXCEPT ![k] = Tail(@)]
    PROVE  LET d == [l \in Links |-> IF l = k THEN 1 ELSE 0]
               s == [l \in Links |-> <<>>]
           IN  /\ channel' \in [Links -> Seq(Messages)] /\ Saying(d, s)
               /\ \A l \in Links : d[l] \in {0, 1} /\ (d[l] = 1 <=> l = k)
<1> DEFINE d == [l \in Links |-> IF l = k THEN 1 ELSE 0]
           s == [l \in Links |-> <<>>]
<1>1. channel \in [Links -> Seq(Messages)]
  BY DEF FleetTypes
<1>2. \A l \in Links : s[l] \in Seq(Messages) /\ Len(s[l]) = 0
  OBVIOUS
<1>3. ASSUME NEW l \in Links PROVE Flow(channel'[l], channel[l], d[l], s[l])
  <2>1. channel[l] \in Seq(Messages) /\ s[l] \in Seq(Messages)
    BY <1>1
  <2>2. \A q \in Seq(Messages) : q = q \o <<>>
    OBVIOUS
  <2>3. s[l] = <<>> /\ (l = k => d[l] = 1 /\ channel'[l] = Tail(channel[l]))
                    /\ (l # k => d[l] = 0 /\ channel'[l] = channel[l])
    BY <1>1
  <2> HIDE DEF d, s
  <2>4. channel[l] # <<>> => Tail(channel[l]) \in Seq(Messages)
    BY <2>1
  <2>5. channel'[l] \o s[l] = channel'[l]
    BY <2>1, <2>2, <2>3, <2>4
  <2> QED BY <2>1, <2>3, <2>5, FlowOf
<1>4. \A l \in Links : d[l] \in {0, 1} /\ (d[l] = 1 <=> l = k)
  OBVIOUS
<1>5. channel' \in [Links -> Seq(Messages)]
  <2>1. Tail(channel[k]) \in Seq(Messages)
    BY <1>1
  <2> QED BY <1>1, <2>1
<1> HIDE DEF d, s
<1>6. Saying(d, s)
  <2>1. \A l \in Links : \A i \in 1..Len(s[l]) : FALSE
    BY <1>2
  <2> QED BY <1>2, <1>3, <2>1 DEF Saying
<1> QED BY <1>4, <1>5, <1>6 DEF d, s

\* A completion is heard by a vehicle or the operator, a.
LEMMA HearKeeps ==
    ASSUME FleetInv, NEW a \in Agents, NEW u \in Agents, <<u, a>> \in Links,
           channel[<<u, a>>] # <<>>, Head(channel[<<u, a>>]).type = "TASK_COMPLETE",
           task_completions' = [task_completions EXCEPT
              ![a] = Append(@, [sender |-> u, id |-> Head(channel[<<u, a>>]).id])],
           channel' = [channel EXCEPT ![<<u, a>>] = Tail(@)],
           UNCHANGED <<mission, task_list, arrivals, obj_detection_cnt, sent, investigations>>
    PROVE  FleetInv'
<1> DEFINE k == <<u, a>>
           m == Head(channel[k])
           c == [sender |-> u, id |-> m.id]
           d == [l \in Links |-> IF l = k THEN 1 ELSE 0]
           s == [l \in Links |-> <<>>]
           log == task_completions[a]
<1>1. /\ task_completions \in [Agents -> Seq(Log)] /\ log \in Seq(Log)
      /\ \A b \in Agents : Len(task_completions[b]) \in Nat
      /\ channel[k] \in Seq(Messages) /\ Len(log) \in Nat
  BY DEF FleetInv, FleetTypes
<1>2. m \in Messages /\ m = channel[k][1] /\ 1 \in 1..Len(channel[k])
  BY <1>1
<1>3. /\ m.id \in Int /\ u \in Vehicles /\ Over(u, m.id)
  <2>1. Carries(k, m)
    <3>1. Carries(k, channel[k][1])
      BY <1>2 DEF FleetInv, Carried
    <3> QED BY <1>2, <3>1
  <2>2. k[1] = u /\ (k[1] # Operator => k[1] \in Vehicles)
    BY LinkEnds
  <2>3. m.type = "TASK_COMPLETE"
    OBVIOUS
  <2> HIDE DEF m, k
  <2>4. k[1] # Operator
    BY <2>1, <2>3 DEF Carries, Commands
  <2>5. Over(u, m.id)
    BY <2>1, <2>2, <2>3, <2>4 DEF Carries
  <2>6. m.type # "OVERWATCH"
    BY <2>3
  <2>7. m.id \in Int
    BY <1>2, <2>6, MessageId
  <2> QED BY <2>2, <2>4, <2>5, <2>7
<1>4. /\ channel' \in [Links -> Seq(Messages)] /\ Saying(d, s)
      /\ \A l \in Links : d[l] \in {0, 1} /\ (d[l] = 1 <=> l = k)
  BY TakenFlow DEF FleetInv
<1>5. c \in Log
  BY <1>3 DEF Log
<1>6. /\ task_completions'[a] = Append(log, c)
      /\ \A b \in Agents : b # a => task_completions'[b] = task_completions[b]
      /\ task_completions' \in [Agents -> Seq(Log)]
  <2>1. Append(log, c) \in Seq(Log)
    BY <1>1, <1>5
  <2> HIDE DEF c
  <2> QED BY <1>1, <2>1 DEF c
<1> HIDE DEF d, s, c, m
<1>7. /\ Len(task_completions'[a]) = Len(log) + 1
      /\ \A i \in 1..Len(log) : task_completions'[a][i] = log[i]
      /\ task_completions'[a][Len(log) + 1] = c
  <2>1. \A q \in Seq(Log), x \in Log :
           /\ Len(Append(q, x)) = Len(q) + 1 /\ Append(q, x)[Len(q) + 1] = x
           /\ \A i \in 1..Len(q) : Append(q, x)[i] = q[i]
    OBVIOUS
  <2> HIDE DEF log
  <2>2. /\ Len(Append(log, c)) = Len(log) + 1 /\ Append(log, c)[Len(log) + 1] = c
        /\ \A i \in 1..Len(log) : Append(log, c)[i] = log[i]
    BY <1>1, <1>5, <2>1
  <2>3. task_completions'[a] = Append(log, c)
    BY <1>6
  <2> QED BY <2>2, <2>3
<1>8. FleetTypes'
  BY <1>4, <1>6 DEF FleetInv, FleetTypes
<1>9. Taking(d)
  <2>1. Len(log) + 1 \in (Len(log) + 1)..Len(task_completions'[a])
    BY <1>1, <1>7
  <2>2. c = [sender |-> k[1], id |-> channel[k][1].id] /\ k[2] = a
    BY <1>2 DEF c
  <2> HIDE DEF k, log
  <2>3. \E i \in (Len(log) + 1)..Len(task_completions'[a]) :
           task_completions'[a][i] = [sender |-> k[1], id |-> channel[k][1].id]
    BY <1>7, <2>1, <2>2
  <2> QED BY <1>4, <2>2, <2>3 DEF Taking, log
<1>10. WritingDown
  <2>1. ASSUME NEW b \in Agents
        PROVE  /\ Len(task_completions[b]) <= Len(task_completions'[b])
               /\ \A i \in 1..Len(task_completions[b]) :
                     task_completions'[b][i] = task_completions[b][i]
               /\ \A i \in (Len(task_completions[b]) + 1)..Len(task_completions'[b]) :
                     task_completions'[b][i] = c
    <3>1. CASE b = a
      <4>1. \A i \in (Len(log) + 1)..(Len(log) + 1) : i = Len(log) + 1
        BY <1>1
      <4> QED BY <1>1, <1>7, <3>1, <4>1
    <3>2. CASE b # a
      BY <1>1, <1>6, <3>2
    <3> QED BY <3>1, <3>2
  <2>2. c.sender \in Vehicles /\ Over(c.sender, c.id)
    BY <1>3 DEF c
  <2> QED BY <2>1, <2>2 DEF WritingDown
<1> QED BY <1>4, <1>8, <1>9, <1>10, QuietKeeps

\* A vehicle handles what the next message of link k asks for.
LEMMA HandleKeeps ==
    ASSUME FleetInv, NEW v \in Vehicles, NEW k \in Links, k[2] = v, channel[k] # <<>>,
           channel[k][1].type # "TASK_COMPLETE", NEW new, NEW ms,
           Worked(new, task_list[v], ms, mission, obj_detection_cnt[v]),
           \A i \in 1..Len(new) : StandsBy(new[i]) =>
              \/ /\ channel[k][1].type = "OVERWATCH"
                 /\ new[i].target = [veh |-> k[1], id |-> channel[k][1].wait_for_msg_id]
                 /\ new[i].since = Len(task_completions[v])
              \/ \E j \in 1..Len(task_list[v]) :
                    /\ StandsBy(task_list[v][j]) /\ new[i].target = task_list[v][j].target
                    /\ new[i].since = task_list[v][j].since,
           task_list' = [task_list EXCEPT ![v] = new],
           channel' = Broadcast([channel EXCEPT ![k] = Tail(@)], v, ms),
           UNCHANGED <<mission, task_completions, arrivals, obj_detection_cnt, sent, investigations>>
    PROVE  FleetInv'
<1> DEFINE d == [l \in Links |-> IF l = k THEN 1 ELSE 0]
           rest == [channel EXCEPT ![k] = Tail(@)]
<1>1. /\ channel \in [Links -> Seq(Messages)] /\ arrivals \in [Vehicles -> SUBSET Log]
  BY DEF FleetInv, FleetTypes
<1>2. \A l \in Links : d[l] \in {0, 1} /\ (d[l] = 1 <=> l = k)
  OBVIOUS
<1> HIDE DEF d
<1>3. \A l \in Links : rest[l] = IF d[l] = 1 THEN Tail(channel[l]) ELSE channel[l]
  BY <1>1, <1>2
<1> HIDE DEF rest
<1>4. ASSUME NEW i \in 1..Len(new), StandsBy(new[i])
      PROVE  \/ Answering(v, new[i], d)
             \/ \E j \in 1..Len(task_list[v]) :
                   /\ StandsBy(task_list[v][j]) /\ new[i].target = task_list[v][j].target
                   /\ new[i].since = task_list[v][j].since
  <2> SUFFICES ASSUME /\ channel[k][1].type = "OVERWATCH"
                      /\ new[i].target = [veh |-> k[1], id |-> channel[k][1].wait_for_msg_id]
                      /\ new[i].since = Len(task_completions[v])
               PROVE  Answering(v, new[i], d)
    BY <1>4
  <2>1. new[i].target.veh = k[1] /\ new[i].target.id = channel[k][1].wait_for_msg_id
    OBVIOUS
  <2>2. k = <<k[1], k[2]>> /\ k[1] \in Agents
    BY LinkEnds
  <2>3. <<new[i].target.veh, v>> = k
    BY <2>1, <2>2
  <2> QED BY <1>2, <2>1, <2>2, <2>3 DEF Answering
<1>5. \A l \in Links : /\ d[l] \in {0, 1}
                       /\ d[l] = 1 => channel[l] # <<>> /\ channel[l][1].type # "TASK_COMPLETE"
  BY <1>2
<1>6. channel' = Broadcast(rest, v, ms)
  BY DEF rest
<1>7. Working(v, new, ms, d, rest)
  BY <1>3, <1>4, <1>5, <1>6 DEF Working
<1> QED BY <1>7, WorkedKeeps

\* A vehicle works on its list by itself.
LEMMA WorkKeeps ==
    ASSUME FleetInv, NEW v \in Vehicles, NEW new, NEW ms,
           Worked(new, task_list[v], ms, mission, obj_detection_cnt[v]),
           KeptWaits(new, task_list[v]),
           task_list' = [task_list EXCEPT ![v] = new], channel' = Broadcast(channel, v, ms),
           UNCHANGED <<mission, task_completions, arrivals, obj_detection_cnt, sent, investigations>>
    PROVE  FleetInv'
<1> DEFINE d == [l \in Links |-> 0]
<1>1. /\ channel \in [Links -> Seq(Messages)] /\ arrivals \in [Vehicles -> SUBSET Log]
  BY DEF FleetInv, FleetTypes
<1>2. \A l \in Links : d[l] \in {0, 1} /\ d[l] # 1
  OBVIOUS
<1> HIDE DEF d
<1>3. \A l \in Links : channel[l] = IF d[l] = 1 THEN Tail(channel[l]) ELSE channel[l]
  BY <1>1, <1>2
<1>4. \A i \in 1..Len(new) : StandsBy(new[i]) =>
         \E j \in 1..Len(task_list[v]) :
            /\ StandsBy(task_list[v][j]) /\ new[i].target = task_list[v][j].target
            /\ new[i].since = task_list[v][j].since
  BY DEF KeptWaits
<1> DEFINE rest == channel
<1>5. /\ \A l \in Links : rest[l] = IF d[l] = 1 THEN Tail(channel[l]) ELSE channel[l]
      /\ channel' = Broadcast(rest, v, ms)
  BY <1>3
<1> HIDE DEF rest
<1>6. Working(v, new, ms, d, rest)
  BY <1>2, <1>4, <1>5 DEF Working
<1> QED BY <1>6, WorkedKeeps

LEMMA OverwatchWorks ==
    ASSUME NEW v \in Vehicles, NEW u \in Vehicles, NEW m \in Messages, m.type = "OVERWATCH",
           mission \in Missions, Len(task_completions[v]) \in Nat,
           task_list[v] \in Seq(Tasks),
           NEW next \in Int, Circles(task_list[v], mission, next)
    PROVE  LET new == Overwatch(v, u, m)
           IN  /\ Worked(new, task_list[v], <<>>, mission, next)
               /\ \A i \in 1..Len(new) : StandsBy(new[i]) =>
                     \/ /\ new[i].target = [veh |-> u, id |-> m.wait_for_msg_id]
                        /\ new[i].since = Len(task_completions[v])
                     \/ \E j \in 1..Len(task_list[v]) :
                           /\ StandsBy(task_list[v][j]) /\ new[i].target = task_list[v][j].target
                           /\ new[i].since = task_list[v][j].since
<1> DEFINE tl == task_list[v]
           target == [veh |-> u, id |-> m.wait_for_msg_id]
           since == Len(task_completions[v])
           move == OverwatchMove(v)
           wait == OverwatchWait(v, target, since)
           b == <<move, wait>>
           new == PreemptInsert(PreemptInsert(tl, move), wait)
<1>1. target \in Targets /\ v \in Agents
  <2>1. m.wait_for_msg_id \in Int
    BY DEF Messages
  <2> QED BY <2>1, LinkEnds DEF Targets
<1>2. Overwatch(v, u, m) = new
  BY DEF Overwatch
<1> HIDE DEF target, since
<1>3. /\ move \in Tasks /\ move.kind = "MoveTo" /\ move.id = -1 /\ ~move.is_preemptable
      /\ wait \in Tasks /\ wait.kind = "WaitUntilComplete" /\ wait.id = -1
      /\ wait.target = target /\ wait.since = since
  <2>1. since \in Nat /\ 0 \in Int /\ 0 \in Nat
    BY DEF since
  <2> QED BY <1>1, <2>1, OwnTasks
<1> HIDE DEF move, wait
<1>4. b \in Seq(Tasks) /\ Len(b) = 2 /\ b[1] = move /\ b[2] = wait
  BY <1>3
<1>5. new \in Seq(Tasks) /\ Inserted(new, tl, FirstPreemptable(tl), b)
  BY <1>3, PreemptInsertElements, PreemptTwiceInserted
<1> HIDE DEF b, new
<1>6. \A i \in 1..Len(b) : /\ b[i].kind # "Encircle" /\ b[i].id = -1
                           /\ b[i] = move \/ b[i] = wait
  <2>1. \A i \in 1..Len(b) : i = 1 \/ i = 2
    BY <1>4
  <2> QED BY <1>3, <1>4, <2>1
<1>7. Circles(new, mission, next) /\ \A x : HasCircle(new, x) <=> HasCircle(tl, x)
  <2>1. -1 \notin EncircleIds(mission)
    BY InvestigationIds
  <2>2. \A i \in 1..Len(b) : b[i].kind # "Encircle" /\ b[i].id \notin EncircleIds(mission)
    BY <1>6, <2>1
  <2>3. \A x : ~HasCircle(b, x)
    BY <2>2 DEF HasCircle
  <2>4. Circles(new, mission, next) /\ \A x : HasCircle(new, x) <=> HasCircle(tl, x) \/ HasCircle(b, x)
    <3>1. next <= next
      OBVIOUS
    <3> HIDE DEF tl
    <3>2. tl \in Seq(Tasks) /\ Circles(tl, mission, next)
      BY DEF tl
    <3> QED BY <1>4, <1>5, <2>2, <3>1, <3>2, InsertedCircles
  <2> QED BY <2>3, <2>4
<1>8. Worked(new, tl, <<>>, mission, next)
  <2> DEFINE none == <<>>
  <2>1. none \in Seq(Messages) /\ Len(none) = 0
    OBVIOUS
  <2> HIDE DEF none
  <2>2. Worked(new, tl, none, mission, next)
    BY <1>5, <1>7, <2>1 DEF Worked
  <2> QED BY <2>2 DEF none
<1>9. ASSUME NEW i \in 1..Len(new), StandsBy(new[i])
      PROVE  \/ new[i].target = target /\ new[i].since = since
             \/ \E j \in 1..Len(tl) :
                   /\ StandsBy(tl[j]) /\ new[i].target = tl[j].target
                   /\ new[i].since = tl[j].since
  <2>1. \/ \E j \in 1..Len(tl) :
              StandsBy(tl[j]) /\ new[i].target = tl[j].target /\ new[i].since = tl[j].since
        \/ \E j \in 1..Len(b) : new[i] = b[j]
    <3> HIDE DEF tl
    <3>1. tl \in Seq(Tasks)
      BY DEF tl
    <3> QED BY <1>4, <1>5, <1>9, <3>1, InsertedWaits
  <2>2. ASSUME NEW j \in 1..Len(b), new[i] = b[j]
        PROVE  new[i].target = target /\ new[i].since = since
    BY <1>3, <1>6, <1>9, <2>2 DEF StandsBy, IsWait
  <2> QED BY <2>1, <2>2
<1> QED BY <1>2, <1>8, <1>9 DEF target, since

LEMMA ReceiveKeeps ==
    ASSUME FleetInv, NEW v \in Vehicles, NEW s \in Agents, Receive(v, s)
    PROVE  FleetInv'
<1> DEFINE k == <<s, v>>
           m == Head(channel[k])
           rest == [channel EXCEPT ![k] = Tail(@)]
           tl == task_list[v]
           next == obj_detection_cnt[v]
<1>1. /\ mission \in Missions /\ tl \in Seq(Tasks) /\ next \in Int /\ v \in Agents /\ k \in Links
      /\ channel[k] \in Seq(Messages) /\ Len(task_completions[v]) \in Nat
      /\ Circles(tl, mission, next)
  <2>1. k \in Links /\ v \in Agents
    BY LinkEnds
  <2>2. channel[k] \in Seq(Messages) /\ task_completions[v] \in Seq(Log)
    BY <2>1 DEF FleetInv, FleetTypes
  <2> QED BY <2>1, <2>2 DEF FleetInv, FleetTypes, Counted
<1>2. channel[k] # <<>> /\ m \in Messages /\ m = channel[k][1] /\ 1 \in 1..Len(channel[k])
  BY SMTT(40), <1>1 DEF Receive
<1>3. Carries(k, m)
  <2>1. Carries(k, channel[k][1])
    BY <1>1, <1>2 DEF FleetInv, Carried
  <2> QED BY <1>2, <2>1
<1>4. k[1] = s /\ k[2] = v
  OBVIOUS
<1>5. UNCHANGED <<mission, obj_detection_cnt, sent, investigations>>
  BY DEF Receive
<1>6. CASE m.type = "TASK_COMPLETE"
  <2>1. /\ task_completions' = [task_completions EXCEPT ![v] = Append(@, [sender |-> s, id |-> m.id])]
        /\ channel' = rest /\ UNCHANGED <<task_list, arrivals>>
    BY <1>6 DEF Receive
  <2> QED BY <1>1, <1>2, <1>5, <1>6, <2>1, HearKeeps
<1>7. CASE m.type = "ARRIVE"
  <2>1. /\ arrivals' = [arrivals EXCEPT ![v] = @ \cup {[sender |-> s, id |-> m.id]}]
        /\ channel' = rest /\ UNCHANGED <<task_list, task_completions>>
    BY <1>7 DEF Receive
  <2> DEFINE d == [l \in Links |-> IF l = k THEN 1 ELSE 0]
             n == [l \in Links |-> <<>>]
  <2>2. /\ channel' \in [Links -> Seq(Messages)] /\ Saying(d, n)
        /\ \A l \in Links : d[l] \in {0, 1} /\ (d[l] = 1 <=> l = k)
    <3> HIDE DEF k
    <3> QED BY <1>1, <1>2, <2>1, TakenFlow DEF FleetInv
  <2> HIDE DEF d, n
  <2>3. FleetTypes'
    <3>1. m.id \in Int
      <4>1. m.type # "OVERWATCH"
        BY <1>7
      <4> HIDE DEF m
      <4> QED BY <1>2, <4>1, MessageId
    <3>2. [sender |-> s, id |-> m.id] \in Log
      BY <3>1 DEF Log
    <3> HIDE DEF m
    <3>3. arrivals' \in [Vehicles -> SUBSET Log]
      BY <2>1, <3>2 DEF FleetInv, FleetTypes
    <3> QED BY <1>5, <2>1, <2>2, <3>3 DEF FleetInv, FleetTypes
  <2>4. Taking(d)
    <3>1. \A l \in Links : d[l] = 1 => channel[l][1].type = "ARRIVE"
      BY <1>2, <1>7, <2>2
    <3> QED BY <2>2, <3>1 DEF Taking
  <2>5. WritingDown
    <3>1. \A a \in Agents : Len(task_completions[a]) \in Nat
      BY DEF FleetInv, FleetTypes
    <3> QED BY <2>1, <3>1 DEF WritingDown
  <2> QED BY <1>5, <2>1, <2>2, <2>3, <2>4, <2>5, QuietKeeps
<1>8. CASE m.type \notin {"TASK_COMPLETE", "ARRIVE"}
  <2> DEFINE new == ListAfter(v, s, m)
             ms == Answers(v, m)
  <2>1. /\ task_list' = [task_list EXCEPT ![v] = new] /\ channel' = Broadcast(rest, v, ms)
        /\ UNCHANGED <<task_completions, arrivals>>
    BY <1>8 DEF Receive
  <2>2. CASE m.type = "OVERWATCH"
    <3>1. s \in Vehicles
      <4> HIDE DEF m
      <4>1. k[1] # Operator
        BY <1>3, <2>2 DEF Carries, Commands
      <4> QED BY <1>1, <1>4, <4>1, LinkEnds
    <3>2. new = Overwatch(v, s, m)
      BY <2>2 DEF ListAfter
    <3>3. ms = <<>>
      <4>1. Dropped(v, m) = <<>>
        BY <2>2 DEF Dropped, Supersedes
      <4>2. ms = [i \in 1..Len(<<>>) |-> CompletionOf(Dropped(v, m)[i])] \o <<>>
        BY <2>2, <4>1 DEF Answers
      <4> QED BY <4>2
    <3> HIDE DEF new, ms, m
    <3>4. /\ Worked(new, tl, ms, mission, next)
          /\ \A i \in 1..Len(new) : StandsBy(new[i]) =>
                \/ /\ new[i].target = [veh |-> s, id |-> m.wait_for_msg_id]
                   /\ new[i].since = Len(task_completions[v])
                \/ \E j \in 1..Len(tl) :
                      /\ StandsBy(tl[j]) /\ new[i].target = tl[j].target
                      /\ new[i].since = tl[j].since
      BY ZenonT(40), <1>1, <1>2, <2>2, <3>1, <3>2, <3>3, OverwatchWorks
    <3>5. \A i \in 1..Len(new) : StandsBy(new[i]) =>
              \/ /\ channel[k][1].type = "OVERWATCH"
                 /\ new[i].target = [veh |-> k[1], id |-> channel[k][1].wait_for_msg_id]
                 /\ new[i].since = Len(task_completions[v])
              \/ \E j \in 1..Len(task_list[v]) :
                    /\ StandsBy(task_list[v][j]) /\ new[i].target = task_list[v][j].target
                    /\ new[i].since = task_list[v][j].since
      BY <1>2, <1>4, <2>2, <3>4
    <3> HIDE DEF k
    <3> QED BY <1>1, <1>2, <1>4, <1>5, <1>8, <2>1, <3>4, <3>5, HandleKeeps
  <2>3. CASE m.type # "OVERWATCH"
    <3>1. m.type \in Commands /\ m.id \notin EncircleIds(mission)
      <4>1. k[1] # Operator => k[1] \in Vehicles
        BY <1>1, LinkEnds
      <4> HIDE DEF m, k
      <4> QED BY <1>3, <1>8, <2>3, <4>1 DEF Carries
    <3> HIDE DEF new, ms, m
    <3>2. Worked(new, tl, ms, mission, next) /\ KeptWaits(new, tl)
      BY <1>1, <1>2, <3>1, CommandWorks DEF new, ms
    <3>3. \A i \in 1..Len(new) : StandsBy(new[i]) =>
              \/ /\ channel[k][1].type = "OVERWATCH"
                 /\ new[i].target = [veh |-> k[1], id |-> channel[k][1].wait_for_msg_id]
                 /\ new[i].since = Len(task_completions[v])
              \/ \E j \in 1..Len(task_list[v]) :
                    /\ StandsBy(task_list[v][j]) /\ new[i].target = task_list[v][j].target
                    /\ new[i].since = task_list[v][j].since
      BY <3>2 DEF KeptWaits
    <3> HIDE DEF k
    <3> QED BY <1>1, <1>2, <1>4, <1>5, <1>8, <2>1, <3>2, <3>3, HandleKeeps
  <2> QED BY <2>2, <2>3
<1> QED BY <1>6, <1>7, <1>8

LEMMA OperatorHearsKeeps ==
    ASSUME FleetInv, NEW s \in Vehicles, OperatorHears(s)
    PROVE  FleetInv'
<1> DEFINE k == <<s, Operator>>
           m == Head(channel[k])
<1>1. /\ k \in Links /\ s \in Agents /\ Operator \in Agents /\ k[1] # Operator /\ k[2] = Operator
  BY LinkEnds DEF Agents
<1>2. channel[k] # <<>> /\ channel[k] \in Seq(Messages)
  BY <1>1 DEF OperatorHears, FleetInv, FleetTypes
<1>3. Carries(k, channel[k][1]) /\ m = channel[k][1]
  BY <1>1, <1>2 DEF FleetInv, Carried
<1>4. m.type = "TASK_COMPLETE"
  <2> HIDE DEF k
  <2> QED BY <1>1, <1>3 DEF Carries
<1>5. /\ task_completions' = [task_completions EXCEPT
              ![Operator] = Append(@, [sender |-> s, id |-> Head(channel[<<s, Operator>>]).id])]
      /\ channel' = [channel EXCEPT ![<<s, Operator>>] = Tail(@)]
      /\ UNCHANGED <<mission, task_list, arrivals, obj_detection_cnt, sent, investigations>>
  BY DEF OperatorHears
<1> QED BY <1>1, <1>2, <1>4, <1>5, HearKeeps

LEMMA ArriveKeeps ==
    ASSUME FleetInv, NEW v \in Vehicles, Arrive(v)
    PROVE  FleetInv'
<1> DEFINE tl == task_list[v]
           t == tl[1]
           new == [tl EXCEPT ![1].arrived = TRUE]
           said == [type |-> "ARRIVE", id |-> t.id]
           ms == <<said>>
           next == obj_detection_cnt[v]
<1>1. /\ tl \in Seq(Tasks) /\ tl # <<>> /\ Circles(tl, mission, next) /\ next \in Int
      /\ task_list \in [Vehicles -> Seq(Tasks)]
  BY DEF FleetInv, FleetTypes, Counted, Arrive
<1>2. /\ t \in Tasks /\ 1 \in 1..Len(tl) /\ Head(tl) = t
  BY <1>1
<1>3. /\ channel' = Broadcast(channel, v, ms)
      /\ task_list' = [task_list EXCEPT ![v] = new]
      /\ UNCHANGED <<mission, task_completions, arrivals, obj_detection_cnt, sent, investigations>>
  BY <1>1, <1>2 DEF Arrive
<1>4. said \in Messages
  <2>1. t.id \in Int
    BY <1>2 DEF Tasks
  <2> QED BY <2>1 DEF Messages
<1> DEFINE there == [t EXCEPT !.arrived = TRUE]
<1>5. there \in Tasks /\ Alike(there, t)
  <2> HIDE DEF t
  <2> QED BY <1>2 DEF Tasks, Alike
<1>6. /\ new \in Seq(Tasks) /\ Len(new) = Len(tl)
      /\ \A i \in 1..Len(tl) : Alike(new[i], tl[i])
  <2>1. new = [tl EXCEPT ![1] = there]
    BY <1>2
  <2> HIDE DEF there, new
  <2>2. \A q \in Seq(Tasks), x \in Tasks : 1 \in 1..Len(q) =>
           /\ [q EXCEPT ![1] = x] \in Seq(Tasks) /\ Len([q EXCEPT ![1] = x]) = Len(q)
           /\ \A i \in 1..Len(q) : [q EXCEPT ![1] = x][i] = IF i = 1 THEN x ELSE q[i]
    OBVIOUS
  <2>3. /\ new \in Seq(Tasks) /\ Len(new) = Len(tl)
        /\ \A i \in 1..Len(tl) : new[i] = IF i = 1 THEN there ELSE tl[i]
    BY <1>1, <1>2, <1>5, <2>1, <2>2
  <2>4. \A x : Alike(x, x)
    BY DEF Alike
  <2> QED BY <1>5, <2>3, <2>4
<1> HIDE DEF new, there, t
<1> DEFINE none == <<>>
<1>7. none \in Seq(Tasks) /\ Len(none) = 0 /\ Inserted(new, tl, Len(tl) + 1, none)
  BY <1>1, <1>6, AlikeInserted
<1> HIDE DEF none
<1>8. Circles(new, mission, next) /\ \A x : HasCircle(new, x) <=> HasCircle(tl, x)
  <2>1. \A i \in 1..Len(none) : FALSE
    BY <1>7
  <2>2. \A x : ~HasCircle(none, x)
    BY <2>1 DEF HasCircle
  <2>3. Circles(new, mission, next) /\ \A x : HasCircle(new, x) <=> HasCircle(tl, x) \/ HasCircle(none, x)
    <3>1. next <= next
      BY <1>1
    <3> HIDE DEF tl, next
    <3> QED BY ZenonT(40), <1>1, <1>6, <1>7, <2>1, <3>1, InsertedCircles
  <2> QED BY <2>2, <2>3
<1>9. Worked(new, tl, ms, mission, next)
  <2>1. ms \in Seq(Messages) /\ \A j \in 1..Len(ms) : ms[j].type = "ARRIVE"
    BY <1>4
  <2> HIDE DEF ms
  <2> QED BY <1>6, <1>8, <2>1 DEF Worked
<1>10. KeptWaits(new, tl)
  BY <1>6 DEF KeptWaits, Alike, StandsBy, IsWait
<1> HIDE DEF ms
<1> QED BY <1>3, <1>9, <1>10, WorkKeeps

LEMMA FinishKeeps ==
    ASSUME FleetInv, NEW v \in Vehicles, Finish(v)
    PROVE  FleetInv'
<1> DEFINE tl == task_list[v]
           t == tl[1]
           new == Tail(tl)
           out == <<t>>
           ms == <<CompletionOf(t)>>
           next == obj_detection_cnt[v]
<1>1. /\ tl \in Seq(Tasks) /\ tl # <<>> /\ Circles(tl, mission, next) /\ next \in Int
      /\ task_list \in [Vehicles -> Seq(Tasks)]
  BY DEF FleetInv, FleetTypes, Counted, Finish
<1>2. /\ t \in Tasks /\ 1 \in 1..Len(tl) /\ Head(tl) = t /\ new \in Seq(Tasks)
  BY <1>1
<1>3. /\ channel' = Broadcast(channel, v, ms)
      /\ task_list' = [task_list EXCEPT ![v] = new]
      /\ UNCHANGED <<mission, task_completions, arrivals, obj_detection_cnt, sent, investigations>>
  BY <1>1, <1>2 DEF Finish
<1>4. Deleted(new, tl, 1, 1)
  BY <1>1, TailDeleted
<1>5. CompletionOf(t) \in Messages
  <2>1. t.id \in Int
    BY <1>2 DEF Tasks
  <2> QED BY <2>1, CompletionIsMessage
<1>6. /\ out \in Seq(Tasks) /\ Len(out) = 1 /\ out[1] = t
      /\ ms \in Seq(Messages) /\ Len(ms) = 1 /\ ms[1] = CompletionOf(t)
  BY <1>2, <1>5
<1> HIDE DEF new, out, ms
<1>7. /\ Circles(new, mission, next)
      /\ \A c : HasCircle(new, c) => HasCircle(tl, c)
      /\ t.kind = "Encircle" => ~HasCircle(new, t.id)
  <2>1. 1 \in 1..(1 + 1 - 1)
    OBVIOUS
  <2> QED BY <1>1, <1>2, <1>4, <2>1, DeletedCircles
<1>8. \A c : HasCircle(tl, c) => HasCircle(new, c) \/ HasCircle(out, c)
  <2> SUFFICES ASSUME NEW c, HasCircle(tl, c), ~HasCircle(new, c) PROVE HasCircle(out, c)
    OBVIOUS
  <2>1. PICK i \in 1..Len(tl) : tl[i].kind = "Encircle" /\ tl[i].id = c
    BY DEF HasCircle
  <2>2. i # 1 => \E j \in 1..Len(new) : new[j] = tl[i]
    BY <1>1, <1>2, <1>4, DeletedOne
  <2>3. i = 1
    BY <2>1, <2>2 DEF HasCircle
  <2> QED BY <1>6, <2>1, <2>3 DEF HasCircle
<1>9. \A i \in 1..Len(out) : ~HasCircle(new, out[i].id) /\ \E j \in 1..Len(tl) : out[i] = tl[j]
  <2>1. \A i \in 1..Len(out) : out[i] = tl[1]
    BY <1>6
  <2>2. ~HasCircle(new, t.id)
    <3>1. t.kind # "Encircle" => t.id \notin EncircleIds(mission)
      BY <1>1, <1>2 DEF Circles
    <3>2. \A c : HasCircle(new, c) => c \in EncircleIds(mission)
      BY <1>7 DEF HasCircle, Circles
    <3> QED BY <1>7, <3>1, <3>2
  <2> QED BY <1>2, <2>1, <2>2
<1>10. /\ \A j \in 1..Len(ms) : \E i \in 1..Len(out) : ms[j] = CompletionOf(out[i])
       /\ \A i \in 1..Len(out) : \E j \in 1..Len(ms) : ms[j] = CompletionOf(out[i])
  BY <1>6
<1>11. Worked(new, tl, ms, mission, next)
  <2> HIDE DEF tl, t, next
  <2> QED BY <1>1, <1>2, <1>6, <1>7, <1>8, <1>9, <1>10, WorkedBy
<1>12. KeptWaits(new, tl)
  <2>1. \A i \in 1..Len(new) : \E j \in 1..Len(tl) : new[i] = tl[j]
    BY <1>1, <1>2, <1>4, DeletedComes
  <2> QED BY <2>1 DEF KeptWaits
<1> QED BY <1>3, <1>11, <1>12, WorkKeeps

-----------------------------------------------------------------------------
LEMMA InitKeeps == Init => FleetInv
<1> SUFFICES ASSUME Init PROVE FleetInv
  OBVIOUS
<1> DEFINE none == <<>>
<1>1. /\ none \in Seq(Tasks) /\ none \in Seq(Log) /\ none \in Seq(Messages) /\ Len(none) = 0
  OBVIOUS
<1> HIDE DEF none
<1>2. /\ mission \in Missions
      /\ task_list = [v \in Vehicles |-> none]
      /\ task_completions = [a \in Agents |-> none]
      /\ arrivals = [v \in Vehicles |-> {}]
      /\ obj_detection_cnt = [v \in Vehicles |-> FirstToiId]
      /\ channel = [l \in Links |-> none]
      /\ sent = [v \in Vehicles |-> 0]
      /\ investigations = 0
  BY DEF Init, none
<1>3. FirstToiId \in Nat /\ MaxInvestigations[mission] \in Nat
  BY <1>2, FleetAssumption
<1>4. FleetTypes
  BY <1>1, <1>2, <1>3 DEF FleetTypes
<1>5. \A i \in 1..Len(none) : FALSE
  BY <1>1
<1>6. Circles(none, mission, FirstToiId)
  BY <1>5 DEF Circles
<1>7. Counted
  BY <1>2, <1>3, <1>6 DEF Counted
<1>8. /\ \A v \in Vehicles : task_list[v] = none
      /\ \A a \in Agents : task_completions[a] = none
      /\ \A l \in Links : channel[l] = none
  BY <1>2
<1>9. Carried /\ HeardWhenOver /\ WaitsCovered /\ RequestsCovered
  BY <1>5, <1>8 DEF Carried, HeardWhenOver, WaitsCovered, RequestsCovered
<1> QED BY <1>4, <1>7, <1>9 DEF FleetInv

LEMMA NextKeeps == FleetInv /\ [Next]_vars => FleetInv'
<1> SUFFICES ASSUME FleetInv, [Next]_vars PROVE FleetInv'
  OBVIOUS
<1>1. CASE UNCHANGED vars
  BY ZenonT(40), <1>1 DEF vars, FleetInv, FleetTypes, Counted, Carried, Carries, Over, Watches,
     HeardWhenOver, WaitsCovered, WaitCovered, Heard, RequestsCovered
<1>2. ASSUME NEW v \in Vehicles, Send(v) PROVE FleetInv'
  BY <1>2, SendKeeps
<1>3. ASSUME NEW v \in Vehicles, NEW w \in Vehicles, v # w, Investigate(v, {w}) PROVE FleetInv'
  <2> DEFINE W == {w}
  <2>1. \E u \in Vehicles \ {v} : W = {u}
    BY <1>3
  <2> HIDE DEF W
  <2> QED BY <1>3, <2>1, InvestigateKeeps DEF W
<1>4. ASSUME NEW v \in Vehicles, Investigate(v, {}) PROVE FleetInv'
  BY <1>4, InvestigateKeeps
<1>5. ASSUME NEW v \in Vehicles, NEW s \in Agents, Receive(v, s) PROVE FleetInv'
  BY <1>5, ReceiveKeeps
<1>6. ASSUME NEW s \in Vehicles, OperatorHears(s) PROVE FleetInv'
  BY <1>6, OperatorHearsKeeps
<1>7. ASSUME NEW v \in Vehicles, Arrive(v) PROVE FleetInv'
  BY <1>7, ArriveKeeps
<1>8. ASSUME NEW v \in Vehicles, Finish(v) PROVE FleetInv'
  BY <1>8, FinishKeeps
<1> QED BY <1>1, <1>2, <1>3, <1>4, <1>5, <1>6, <1>7, <1>8 DEF Next

\* The team keeps the invariant, whatever the operator sends and whoever
\* investigates.
THEOREM FleetInvHolds == Spec => []FleetInv
BY InitKeeps, NextKeeps, PTL DEF Spec

\* The lists, logs and links of the team hold what they are declared to hold
\* (mission_manager.hpp), and vehicles count their investigations down from the
\* id that they start with.
THEOREM FleetTypeCorrect == Spec => [](FleetTypes /\ Counted)
<1>1. FleetInv => FleetTypes /\ Counted
  BY DEF FleetInv
<1> QED BY <1>1, FleetInvHolds, PTL

\* No vehicle stands by for nothing: what it waits for is in the list of the
\* vehicle that asked, or its completion is on the way or was heard; cancelling
\* and superseding tasks do not change that (handleOverwatch, clearTasks,
\* publishTaskCompletion).
THEOREM OverwatchIsCovered == Spec => []OverwatchCovered
<1>1. FleetInv => OverwatchCovered
  <2> SUFFICES ASSUME FleetInv PROVE OverwatchCovered
    OBVIOUS
  <2>1. /\ \A l, id, i : Coming(l, id, i) <=> Behind(channel[l], id, i)
        /\ \A w, id : Encircles(w, id) <=> HasCircle(task_list[w], id)
    BY DEF Coming, Behind, Encircles, HasCircle
  <2>2. ASSUME NEW v \in Vehicles, NEW i \in 1..Len(task_list[v]), NEW t, t = task_list[v][i],
               StandsBy(t)
        PROVE  \/ IsReleased(v, t)
               \/ Coming(<<t.target.veh, v>>, t.target.id, 0)
               \/ Encircles(t.target.veh, t.target.id)
    <3>1. WaitCovered(v, t)
      BY <2>2 DEF FleetInv, WaitsCovered
    <3> QED BY <2>1, <2>2, <3>1 DEF WaitCovered, IsReleased, StandsBy
  <2>3. ASSUME NEW l \in Links, NEW i \in 1..Len(channel[l]), NEW m, m = channel[l][i],
               m.type = "OVERWATCH"
        PROVE  Coming(l, m.wait_for_msg_id, i) \/ Encircles(l[1], m.wait_for_msg_id)
    BY <2>1, <2>3 DEF FleetInv, RequestsCovered
  <2> QED BY <2>2, <2>3 DEF OverwatchCovered
<1> QED BY <1>1, FleetInvHolds, PTL

\* No vehicle leaves its overwatch early: while an investigation is in the list
\* of a vehicle, no completion under its id is on its way or has been heard
\* (publishTaskCompletion, hasCompletedTask).
THEOREM StandsByUntilDone == Spec => []StandByUntilDone
<1>1. FleetInv => StandByUntilDone
  <2> SUFFICES ASSUME FleetInv, NEW l \in Links, l[1] \in Vehicles
               PROVE  /\ \A i \in 1..Len(channel[l]) :
                            channel[l][i].type = "TASK_COMPLETE" => ~Encircles(l[1], channel[l][i].id)
                      /\ \A i \in 1..Len(task_completions[l[2]]) :
                            LET c == task_completions[l[2]][i]
                            IN  c.sender = l[1] => ~Encircles(c.sender, c.id)
    BY DEF StandByUntilDone
  <2>1. \A w, id : Encircles(w, id) <=> HasCircle(task_list[w], id)
    BY DEF Encircles, HasCircle
  <2>2. l[1] # Operator /\ l[2] \in Agents
    BY LinkEnds
  <2>3. ASSUME NEW i \in 1..Len(channel[l]), channel[l][i].type = "TASK_COMPLETE"
        PROVE  ~Encircles(l[1], channel[l][i].id)
    <3>1. Carries(l, channel[l][i])
      BY DEF FleetInv, Carried
    <3> QED BY <2>1, <2>2, <2>3, <3>1 DEF Carries, Over
  <2>4. ASSUME NEW i \in 1..Len(task_completions[l[2]]), NEW c, c = task_completions[l[2]][i]
        PROVE  ~Encircles(c.sender, c.id)
    BY <2>1, <2>2, <2>4 DEF FleetInv, HeardWhenOver, Over
  <2> QED BY <2>3, <2>4
<1> QED BY <1>1, FleetInvHolds, PTL
-----------------------------------------------------------------------------
(* Formations that end together.  A vehicle handles what it is sent in     *)
(* order; a formation in its list is one that it was sent, so while its    *)
(* place in it is not reached nobody has heard that it is.                 *)

\* No vehicle is sent two formations under one id.
FormedOnce ==
    \A m \in Missions, u \in Vehicles : \A i, j \in 1..Len(Script[m][u]) :
        /\ Script[m][u][i].m.type = "FORM" /\ Script[m][u][j].m.type = "FORM"
        /\ Script[m][u][i].m.id = Script[m][u][j].m.id
        => i = j

\* How much of its script vehicle u has handled; the rest that was sent is on
\* its way, in order.
Handled(u) == sent[u] - Len(channel[<<Operator, u>>])
FollowsScript ==
    \A u \in Vehicles :
        /\ Handled(u) \in Nat /\ sent[u] <= Len(Script[mission][u])
        /\ \A i \in 1..Len(channel[<<Operator, u>>]) :
              channel[<<Operator, u>>][i] = Script[mission][u][Handled(u) + i].m

IsOrder(u, k, id) ==
    Script[mission][u][k].m.type = "FORM" /\ Script[mission][u][k].m.id = id
Ordered(u, id) == \E k \in 1..Handled(u) : IsOrder(u, k, id)

\* The list of a vehicle has one task for a formation, which it was sent.
PartIn(t, id) == IsFormation(t) /\ t.id = id
OnePart(tl) ==
    \A i, j \in 1..Len(tl) :
        IsFormation(tl[i]) /\ IsFormation(tl[j]) /\ tl[i].id = tl[j].id => i = j
FromScript ==
    \A u \in Vehicles :
        /\ OnePart(task_list[u])
        /\ \A i \in 1..Len(task_list[u]) :
              IsFormation(task_list[u][i]) => Ordered(u, task_list[u][i].id)

\* A vehicle that was said to be in its place was sent the formation, and is.
AllThere(tl, id) == \A i \in 1..Len(tl) : PartIn(tl[i], id) => tl[i].arrived
There(u, id) == Ordered(u, id) /\ AllThere(task_list[u], id)
WhoIsThere ==
    /\ \A v \in Vehicles : \A a \in arrivals[v] : a.sender \in Vehicles /\ There(a.sender, a.id)
    /\ \A l \in Links : \A i \in 1..Len(channel[l]) :
          channel[l][i].type = "ARRIVE" => l[1] \in Vehicles /\ There(l[1], channel[l][i].id)

FormInv == FollowsScript /\ FromScript /\ WhoIsThere

-----------------------------------------------------------------------------
(* What becomes of the formations of a list: but for those under ids, the  *)
(* ones in the new list were in the old one, and are as far as they were.  *)
PartsBut(new, tl, ids) ==
    /\ \A i \in 1..Len(new) : IsFormation(new[i]) =>
          \/ new[i].id \in ids
          \/ \E j \in 1..Len(tl) : PartIn(tl[j], new[i].id) /\ (tl[j].arrived => new[i].arrived)
    /\ OnePart(tl) /\ (\A j \in 1..Len(tl) : IsFormation(tl[j]) => tl[j].id \notin ids)
          => OnePart(new)

LEMMA InsertedParts ==
    ASSUME NEW tl \in Seq(Tasks), NEW new \in Seq(Tasks), NEW b \in Seq(Tasks), NEW p,
           Inserted(new, tl, p, b), NEW ids,
           \A i \in 1..Len(b) : IsFormation(b[i]) => b[i].id \in ids,
           \A i, j \in 1..Len(b) : IsFormation(b[i]) /\ IsFormation(b[j]) => i = j
    PROVE  PartsBut(new, tl, ids)
<1> DEFINE Kept(i, j) == j \in 1..Len(tl) /\ Alike(new[i], tl[j])
           Added(i, j) == j \in 1..Len(b) /\ new[i] = b[j]
<1>1. ASSUME NEW i \in 1..Len(new), NEW j \in 1..Len(new)
      PROVE  /\ (\E x : Kept(i, x)) \/ (\E x : Added(i, x))
             /\ \/ \E x : Added(i, x)
                \/ \E x : Added(j, x)
                \/ \E x, y : Kept(i, x) /\ Kept(j, y) /\ (x = y => i = j)
             /\ (\E x : Kept(i, x)) \/ (\E x : Kept(j, x))
                \/ \E x, y : Added(i, x) /\ Added(j, y) /\ (x = y => i = j)
  <2>1. p \in Int /\ Len(b) \in Nat /\ Len(tl) \in Nat
    BY InsertedElements
  <2>2. ASSUME NEW h \in 1..Len(new)
        PROVE  \/ h < p /\ Kept(h, h)
               \/ p <= h /\ h < p + Len(b) /\ Added(h, h - p + 1)
               \/ h >= p + Len(b) /\ Kept(h, h - Len(b))
    BY InsertedElements
  <2> HIDE DEF Kept, Added
  <2>3. (\E x : Kept(i, x)) \/ (\E x : Added(i, x))
    BY <2>2
  <2>4. (i - p + 1 = j - p + 1 => i = j) /\ (i - Len(b) = j - Len(b) => i = j)
        /\ (i < p /\ j >= p + Len(b) => i # j - Len(b))
        /\ (j < p /\ i >= p + Len(b) => j # i - Len(b))
    BY <2>1
  <2>5. \/ \E x : Added(i, x)
        \/ \E x : Added(j, x)
        \/ \E x, y : Kept(i, x) /\ Kept(j, y) /\ (x = y => i = j)
    BY <2>2, <2>4
  <2>6. (\E x : Kept(i, x)) \/ (\E x : Kept(j, x))
        \/ \E x, y : Added(i, x) /\ Added(j, y) /\ (x = y => i = j)
    BY <2>2, <2>4
  <2> QED BY <2>3, <2>5, <2>6
<1>2. ASSUME NEW i, NEW j, Kept(i, j)
      PROVE  /\ IsFormation(tl[j]) <=> IsFormation(new[i])
             /\ tl[j].id = new[i].id /\ (tl[j].arrived => new[i].arrived)
  BY <1>2 DEF Alike, IsFormation
<1>3. ASSUME NEW i \in 1..Len(new), IsFormation(new[i])
      PROVE  \/ new[i].id \in ids
             \/ \E j \in 1..Len(tl) : PartIn(tl[j], new[i].id) /\ (tl[j].arrived => new[i].arrived)
  <2>1. CASE \E x : Kept(i, x)
    BY <1>2, <1>3, <2>1 DEF PartIn
  <2>2. CASE \E x : Added(i, x)
    BY <1>3, <2>2
  <2> QED BY <1>1, <2>1, <2>2
<1>4. ASSUME OnePart(tl), \A j \in 1..Len(tl) : IsFormation(tl[j]) => tl[j].id \notin ids,
             NEW i \in 1..Len(new), NEW j \in 1..Len(new),
             IsFormation(new[i]), IsFormation(new[j]), new[i].id = new[j].id
      PROVE  i = j
  <2>1. ASSUME NEW h \in 1..Len(new), IsFormation(new[h]), NEW x
        PROVE  /\ Kept(h, x) => new[h].id \notin ids
               /\ Added(h, x) => new[h].id \in ids
    BY <1>2, <1>4, <2>1
  <2>2. CASE new[i].id \notin ids
    <3>1. PICK x, y : Kept(i, x) /\ Kept(j, y) /\ (x = y => i = j)
      <4> HIDE DEF Kept, Added
      <4> QED BY <1>1, <1>4, <2>1, <2>2
    <3>2. x \in 1..Len(tl) /\ IsFormation(tl[x]) /\ tl[x].id = new[i].id
      BY <1>2, <1>4, <3>1
    <3>3. y \in 1..Len(tl) /\ IsFormation(tl[y]) /\ tl[y].id = new[j].id
      BY <1>2, <1>4, <3>1
    <3>4. tl[x].id = tl[y].id
      BY <1>4, <3>2, <3>3
    <3>5. x = y
      BY <1>4, <3>2, <3>3, <3>4 DEF OnePart
    <3> QED BY <3>1, <3>5
  <2>3. CASE new[i].id \in ids
    <3>1. PICK x, y : Added(i, x) /\ Added(j, y) /\ (x = y => i = j)
      <4> HIDE DEF Kept, Added
      <4> QED BY <1>1, <1>4, <2>1, <2>3
    <3>2. x \in 1..Len(b) /\ y \in 1..Len(b) /\ IsFormation(b[x]) /\ IsFormation(b[y])
      BY <1>4, <3>1
    <3> QED BY <3>1, <3>2
  <2> QED BY <2>2, <2>3
<1> QED BY <1>3, <1>4 DEF PartsBut, OnePart

LEMMA DeletedParts ==
    ASSUME NEW tl \in Seq(Tasks), NEW new \in Seq(Tasks), NEW p, NEW n, Deleted(new, tl, p, n)
    PROVE  PartsBut(new, tl, {})
<1> DEFINE Kept(i, j) == j \in 1..Len(tl) /\ new[i] = tl[j]
<1>1. ASSUME NEW i \in 1..Len(new), NEW j \in 1..Len(new)
      PROVE  \E x, y : Kept(i, x) /\ Kept(j, y) /\ (x = y => i = j)
  <2>1. p \in Int /\ n \in Nat /\ Len(tl) \in Nat
    BY DeletedElements
  <2>2. ASSUME NEW h \in 1..Len(new)
        PROVE  \/ h < p /\ Kept(h, h)
               \/ h >= p /\ Kept(h, h + n)
    BY DeletedElements
  <2> HIDE DEF Kept
  <2>3. (i + n = j + n => i = j) /\ (i < p /\ j >= p => i # j + n) /\ (j < p /\ i >= p => j # i + n)
    BY <2>1
  <2> QED BY <2>2, <2>3
<1>2. ASSUME NEW i \in 1..Len(new), IsFormation(new[i])
      PROVE  \E j \in 1..Len(tl) : PartIn(tl[j], new[i].id) /\ (tl[j].arrived => new[i].arrived)
  <2>1. PICK j : Kept(i, j)
    BY <1>1
  <2> QED BY <1>2, <2>1 DEF PartIn
<1>3. ASSUME OnePart(tl), NEW i \in 1..Len(new), NEW j \in 1..Len(new),
             IsFormation(new[i]), IsFormation(new[j]), new[i].id = new[j].id
      PROVE  i = j
  <2>1. PICK x, y : Kept(i, x) /\ Kept(j, y) /\ (x = y => i = j)
    BY <1>1
  <2> QED BY <1>3, <2>1 DEF OnePart
<1> QED BY <1>2, <1>3 DEF PartsBut, OnePart

\* Two changes that bring no formation are one.
LEMMA PartsTwice ==
    ASSUME NEW tl, NEW mid, NEW new, PartsBut(mid, tl, {}), PartsBut(new, mid, {})
    PROVE  PartsBut(new, tl, {})
<1>1. ASSUME NEW i \in 1..Len(new), IsFormation(new[i])
      PROVE  \E j \in 1..Len(tl) : PartIn(tl[j], new[i].id) /\ (tl[j].arrived => new[i].arrived)
  <2>1. PICK h \in 1..Len(mid) : PartIn(mid[h], new[i].id) /\ (mid[h].arrived => new[i].arrived)
    BY <1>1 DEF PartsBut
  <2>2. PICK j \in 1..Len(tl) : PartIn(tl[j], mid[h].id) /\ (tl[j].arrived => mid[h].arrived)
    BY <2>1 DEF PartsBut, PartIn
  <2> QED BY <2>1, <2>2 DEF PartIn
<1>2. OnePart(tl) => OnePart(new)
  BY DEF PartsBut
<1> QED BY <1>1, <1>2 DEF PartsBut

LEMMA PartsStay ==
    ASSUME NEW tl, NEW ids
    PROVE  PartsBut(tl, tl, ids)
BY DEF PartsBut, PartIn

\* addTask brings the task that it is given.
LEMMA AddParts ==
    ASSUME NEW tl \in Seq(Tasks), NEW t \in Tasks, NEW prio \in Priorities, NEW ids,
           IsFormation(t) => t.id \in ids
    PROVE  PartsBut(AddTask(tl, t, prio), tl, ids)
<1> DEFINE new == AddTask(tl, t, prio)
           b == <<t>>
<1>1. b \in Seq(Tasks) /\ \A i \in 1..Len(b) : i = 1 /\ b[i] = t
  OBVIOUS
<1> HIDE DEF b
<1>2. CASE prio = "CANCEL_ALL"
  <2>1. new = b
    BY <1>2 DEF AddTask, b
  <2> HIDE DEF new
  <2>2. \A i \in 1..Len(new) : IsFormation(new[i]) => new[i].id \in ids
    BY <1>1, <2>1
  <2>3. OnePart(new)
    BY <1>1, <2>1 DEF OnePart
  <2>4. PartsBut(new, tl, ids)
    BY <2>2, <2>3 DEF PartsBut
  <2> QED BY <2>4 DEF new
<1>3. CASE prio # "CANCEL_ALL"
  <2> DEFINE p == AddPosition(tl, prio)
  <2>1. new \in Seq(Tasks) /\ Inserted(new, tl, p, b)
    BY <1>3, AddInserted, AddTaskWellFormed DEF b
  <2> HIDE DEF new, p
  <2>2. /\ \A i \in 1..Len(b) : IsFormation(b[i]) => b[i].id \in ids
        /\ \A i, j \in 1..Len(b) : IsFormation(b[i]) /\ IsFormation(b[j]) => i = j
    BY <1>1
  <2>3. PartsBut(new, tl, ids)
    BY <1>1, <2>1, <2>2, InsertedParts
  <2> QED BY <2>3 DEF new
<1> QED BY <1>2, <1>3

\* cancelTask brings no formation.
LEMMA CancelParts ==
    ASSUME NEW tl \in Seq(Tasks), NEW id
    PROVE  PartsBut(CancelTask(tl, id), tl, {})
<1> DEFINE k == FindTask(tl, id)
           rest == RemoveAt(tl, k)
           a == FindApproach(rest, tl[k].contact)
           new == CancelTask(tl, id)
<1>1. k \in 0..Len(tl) /\ Len(tl) \in Nat
  BY FindTaskRange
<1>2. \/ new = tl
      \/ k # 0 /\ new = rest
      \/ k # 0 /\ a # 0 /\ new = RemoveAt(rest, a)
  BY DEF CancelTask
<1> HIDE DEF new, k
<1>3. CASE k # 0
  <2>1. rest \in Seq(Tasks) /\ Deleted(rest, tl, k, 1)
    BY <1>1, <1>3, RemoveAtElements, RemoveAtDeleted
  <2> HIDE DEF rest
  <2>2. PartsBut(rest, tl, {})
    BY <2>1, DeletedParts
  <2>3. CASE a # 0 /\ new = RemoveAt(rest, a)
    <3>1. a \in 0..Len(rest)
      BY <2>1, FindApproachRange
    <3> HIDE DEF a
    <3>2. a \in 1..Len(rest)
      BY <2>1, <2>3, <3>1
    <3>3. new \in Seq(Tasks) /\ Deleted(new, rest, a, 1)
      BY <2>1, <2>3, <3>2, RemoveAtElements, RemoveAtDeleted
    <3>4. PartsBut(new, rest, {})
      BY <2>1, <3>3, DeletedParts
    <3>5. PartsBut(new, tl, {})
      BY <2>2, <3>4, PartsTwice
    <3> QED BY <3>5 DEF new
  <2> HIDE DEF a
  <2>4. CASE new = rest
    BY <2>2, <2>4 DEF new
  <2>5. CASE new = tl
    BY <2>5, PartsStay DEF new
  <2> QED BY <1>2, <2>3, <2>4, <2>5
<1>4. CASE k = 0
  <2>1. new = tl
    BY <1>2, <1>4
  <2> QED BY <2>1, PartsStay DEF new
<1> QED BY <1>3, <1>4

\* Which of the tasks that vehicles are given are formations.
LEMMA WhichForm ==
    ASSUME NEW v, NEW s, NEW m, NEW c, NEW id, NEW target, NEW since
    PROVE  /\ ~IsFormation(NewTask("MoveTo", s, id))
           /\ ~IsFormation(WaitTask(s, id, target, since))
           /\ ~IsFormation(ApproachTask(v, c, "first"))
           /\ ~IsFormation(EncircleTask(v, id, c, "first"))
           /\ ~IsFormation(OverwatchMove(v))
           /\ ~IsFormation(OverwatchWait(v, target, since))
<1>1. \A kind, who, x : /\ NewTask(kind, who, x).formation.term = ""
                        /\ "formation" \in DOMAIN NewTask(kind, who, x)
  BY DEF NewTask, NoFormation
<1> QED BY <1>1 DEF IsFormation, WaitTask, ApproachTask, EncircleTask, OverwatchMove,
                    OverwatchWait, NewTask, NoFormation

\* The formations of a list after a command: it brings one at most.
Formed(m) == IF m.type = "FORM" THEN {m.id} ELSE {}
LEMMA CommandParts ==
    ASSUME NEW v \in Vehicles, NEW s \in Agents, NEW m \in Messages, m.type \in Commands,
           Len(task_completions[v]) \in Nat, task_list[v] \in Seq(Tasks)
    PROVE  PartsBut(ListAfter(v, s, m), task_list[v], Formed(m))
<1> DEFINE tl == task_list[v]
           new == ListAfter(v, s, m)
<1>1. CASE m.type = "MOVETO"
  <2> DEFINE t == NewTask("MoveTo", s, m.id)
  <2>1. m.prio \in Priorities /\ new = AddTask(tl, t, m.prio)
    BY <1>1 DEF Messages, ListAfter
  <2>2. t \in Tasks /\ ~IsFormation(t)
    BY <1>1, CommandTasks, WhichForm
  <2> HIDE DEF t, new
  <2>3. PartsBut(new, tl, Formed(m))
    BY <2>1, <2>2, AddParts
  <2> QED BY <2>3 DEF new
<1>2. CASE m.type = "WAIT_UNTIL_COMPLETE"
  <2> DEFINE t == WaitTask(s, m.id, m.target, Len(task_completions[v]))
  <2>1. m.prio \in Priorities /\ new = IF Rejects(v, m) THEN tl ELSE AddTask(tl, t, m.prio)
    BY <1>2 DEF Messages, ListAfter
  <2>2. t \in Tasks /\ ~IsFormation(t)
    BY <1>2, CommandTasks, WhichForm
  <2> HIDE DEF t, new
  <2>3. PartsBut(new, tl, Formed(m))
    BY <2>1, <2>2, AddParts, PartsStay
  <2> QED BY <2>3 DEF new
<1>3. CASE m.type = "FORM"
  <2> DEFINE t == FormationTask(v, s, m)
  <2>1. m.prio \in Priorities /\ new = AddTask(tl, t, m.prio)
    BY <1>3 DEF Messages, ListAfter
  <2>2. t \in Tasks /\ t.id = m.id
    BY <1>3, CommandTasks, 0 \in Nat
  <2>3. t.id \in Formed(m)
    BY <1>3, <2>2 DEF Formed
  <2> HIDE DEF t, new
  <2>4. PartsBut(new, tl, Formed(m))
    BY <2>1, <2>2, <2>3, AddParts
  <2> QED BY <2>4 DEF new
<1>4. CASE m.type = "CANCEL"
  <2>1. new = CancelTask(tl, m.target_msg_id) /\ Formed(m) = {}
    BY <1>4 DEF ListAfter, Formed
  <2> HIDE DEF new, tl
  <2>2. PartsBut(new, tl, Formed(m))
    BY <2>1, CancelParts DEF tl
  <2> QED BY <2>2 DEF new, tl
<1>5. CASE m.type = "CANCEL_ALL"
  <2> DEFINE none == <<>>
  <2>1. new = none
    BY <1>5 DEF ListAfter
  <2>2. \A i \in 1..Len(none) : FALSE
    OBVIOUS
  <2> HIDE DEF new, none
  <2>3. PartsBut(new, tl, Formed(m))
    BY <2>1, <2>2 DEF PartsBut, OnePart
  <2> QED BY <2>3 DEF new
<1> QED BY <1>1, <1>2, <1>3, <1>4, <1>5 DEF Commands

\* m is among the messages of q.
On(q, m) == \E i \in 1..Len(q) : q[i] = m

\* What a vehicle's list becomes, and who is said to be in place, when it keeps
\* the invariant.
LEMMA FormKeeps ==
    ASSUME FormInv, FleetTypes', mission' = mission, FollowsScript',
           \A u \in Vehicles : Handled(u) <= Handled(u)',
           \A u \in Vehicles : \E ids :
              /\ PartsBut(task_list'[u], task_list[u], ids)
              /\ \A id \in ids : ~Ordered(u, id) /\ Ordered(u, id)',
           \A v \in Vehicles : \A a \in Log : a \in arrivals'[v] =>
              a.sender \in Vehicles /\ (There(a.sender, a.id) \/ There(a.sender, a.id)'),
           \A l \in Links, m \in Messages : m.type = "ARRIVE" /\ On(channel'[l], m) =>
              l[1] \in Vehicles /\ (There(l[1], m.id) \/ There(l[1], m.id)')
    PROVE  FormInv'
<1>1. ASSUME NEW u \in Vehicles, NEW id, Ordered(u, id)
      PROVE  Ordered(u, id)'
  <2>1. PICK k \in 1..Handled(u) : IsOrder(u, k, id)
    BY <1>1 DEF Ordered
  <2>2. Handled(u) \in Nat /\ Handled(u)' \in Nat /\ Handled(u) <= Handled(u)'
    BY DEF FormInv, FollowsScript
  <2> HIDE DEF Handled
  <2>3. k \in 1..Handled(u)'
    BY <2>2
  <2>4. IsOrder(u, k, id)'
    BY <2>1 DEF IsOrder
  <2> QED BY <2>3, <2>4 DEF Ordered
<1>2. ASSUME NEW u \in Vehicles, NEW id, NEW t, PartIn(t, id),
             \E i \in 1..Len(task_list'[u]) : t = task_list'[u][i]
      PROVE  /\ Ordered(u, id)'
             /\ Ordered(u, id) => \E j \in 1..Len(task_list[u]) :
                   PartIn(task_list[u][j], id) /\ (task_list[u][j].arrived => t.arrived)
  <2>1. PICK ids : /\ PartsBut(task_list'[u], task_list[u], ids)
                   /\ \A x \in ids : ~Ordered(u, x) /\ Ordered(u, x)'
    OBVIOUS
  <2>2. CASE id \in ids
    BY <2>1, <2>2
  <2>3. CASE \E j \in 1..Len(task_list[u]) :
                   PartIn(task_list[u][j], id) /\ (task_list[u][j].arrived => t.arrived)
    <3>1. Ordered(u, id)
      BY <2>3 DEF FormInv, FromScript, PartIn
    <3> QED BY <1>1, <2>3, <3>1
  <2> QED BY <1>2, <2>1, <2>2, <2>3 DEF PartsBut, PartIn
<1>3. ASSUME NEW u \in Vehicles
      PROVE  OnePart(task_list'[u])
  <2>1. PICK ids : /\ PartsBut(task_list'[u], task_list[u], ids)
                   /\ \A id \in ids : ~Ordered(u, id) /\ Ordered(u, id)'
    OBVIOUS
  <2>2. /\ OnePart(task_list[u])
        /\ \A j \in 1..Len(task_list[u]) :
              IsFormation(task_list[u][j]) => Ordered(u, task_list[u][j].id)
    BY DEF FormInv, FromScript
  <2>3. \A j \in 1..Len(task_list[u]) :
              IsFormation(task_list[u][j]) => task_list[u][j].id \notin ids
    BY <2>1, <2>2
  <2> QED BY <2>1, <2>2, <2>3 DEF PartsBut
<1>4. FromScript'
  <2>1. \A u \in Vehicles : \A id : \A i \in 1..Len(task_list'[u]) :
           PartIn(task_list'[u][i], id) => Ordered(u, id)'
    BY <1>2
  <2> QED BY <1>3, <2>1 DEF FromScript, PartIn
<1>5. ASSUME NEW u \in Vehicles, NEW id, There(u, id) \/ There(u, id)'
      PROVE  There(u, id)'
  <2> SUFFICES ASSUME There(u, id) PROVE There(u, id)'
    BY <1>5
  <2>1. Ordered(u, id) /\ Ordered(u, id)'
    BY <1>1 DEF There
  <2>2. ASSUME NEW i \in 1..Len(task_list'[u]), PartIn(task_list'[u][i], id)
        PROVE  task_list'[u][i].arrived
    <3>1. PICK j \in 1..Len(task_list[u]) :
             PartIn(task_list[u][j], id) /\ (task_list[u][j].arrived => task_list'[u][i].arrived)
      BY <1>2, <2>1, <2>2
    <3> QED BY <3>1 DEF There, AllThere
  <2> QED BY <2>1, <2>2 DEF There, AllThere
<1>6. WhoIsThere'
  <2>1. \A v \in Vehicles : \A a \in Log : a \in arrivals'[v] =>
           a.sender \in Vehicles /\ There(a.sender, a.id)'
    BY <1>5
  <2>2. \A l \in Links, m \in Messages : m.type = "ARRIVE" /\ On(channel'[l], m) =>
           l[1] \in Vehicles /\ There(l[1], m.id)'
    BY <1>5
  <2>3. \A v \in Vehicles : arrivals'[v] \subseteq Log
    BY DEF FleetTypes
  <2>4. \A l \in Links : \A i \in 1..Len(channel'[l]) :
           channel'[l][i] \in Messages /\ On(channel'[l], channel'[l][i])
    BY DEF FleetTypes, On
  <2> QED BY <2>1, <2>2, <2>3, <2>4 DEF WhoIsThere
<1> QED BY <1>4, <1>6 DEF FormInv

\* A vehicle goes on in its script when it takes a message of the operator.
LEMMA ScriptKept ==
    ASSUME FleetTypes, FollowsScript, mission' = mission, sent' = sent, FleetTypes',
           NEW k \in Links, channel[k] # <<>>,
           \A u \in Vehicles :
              channel'[<<Operator, u>>] = IF k = <<Operator, u>> THEN Tail(channel[k])
                                          ELSE channel[<<Operator, u>>]
    PROVE  /\ FollowsScript'
           /\ \A u \in Vehicles :
                 Handled(u)' = IF k = <<Operator, u>> THEN Handled(u) + 1 ELSE Handled(u)
<1>1. ASSUME NEW u \in Vehicles
      PROVE  /\ Handled(u)' = IF k = <<Operator, u>> THEN Handled(u) + 1 ELSE Handled(u)
             /\ Handled(u)' \in Nat /\ sent'[u] <= Len(Script[mission'][u])
             /\ \A i \in 1..Len(channel'[<<Operator, u>>]) :
                   channel'[<<Operator, u>>][i] = Script[mission'][u][Handled(u)' + i].m
  <2> DEFINE l == <<Operator, u>>
             q == channel[l]
             r == channel'[l]
             h == Handled(u)
             g == Handled(u)'
             o == Script[mission][u]
  <2>1. /\ q \in Seq(Messages) /\ sent[u] \in Nat /\ h = sent[u] - Len(q) /\ h \in Nat
        /\ sent[u] <= Len(o) /\ \A i \in 1..Len(q) : q[i] = o[h + i].m
        /\ g = sent[u] - Len(r)
    BY LinkEnds DEF FleetTypes, FollowsScript, Handled, Agents
  <2>2. r = IF k = l THEN Tail(q) ELSE q
    OBVIOUS
  <2>3. k = l => q # <<>>
    OBVIOUS
  <2> HIDE DEF l, q, r, h, g, o
  <2>4. /\ g = IF k = l THEN h + 1 ELSE h
        /\ g \in Nat /\ \A i \in 1..Len(r) : r[i] = o[g + i].m
    <3>1. CASE k = l
      <4>1. /\ Len(r) = Len(q) - 1 /\ Len(q) \in Nat
            /\ \A i \in 1..Len(r) : i + 1 \in 1..Len(q) /\ r[i] = q[i + 1]
        BY <2>1, <2>2, <2>3, <3>1
      <4>2. g = h + 1
        BY <2>1, <4>1
      <4>3. ASSUME NEW i \in 1..Len(r) PROVE r[i] = o[g + i].m
        <5>1. r[i] = o[h + (i + 1)].m
          BY <2>1, <4>1
        <5>2. i + 1 \in 1..Len(q) /\ Len(q) \in Nat /\ h \in Nat
          BY <2>1, <4>1
        <5>3. i \in Int
          BY <4>1
        <5>4. h + (i + 1) = g + i
          BY <4>2, <5>2, <5>3
        <5> QED BY <5>1, <5>4
      <4> QED BY <2>1, <3>1, <4>2, <4>3
    <3>2. CASE k # l
      BY <2>1, <2>2, <3>2
    <3> QED BY <3>1, <3>2
  <2> QED BY <2>1, <2>4 DEF l, r, h, g, o
<1>2. FollowsScript'
  BY <1>1 DEF FollowsScript
<1> QED BY <1>1, <1>2

\* It does not when no message of the operator is taken or sent.
LEMMA ScriptStays ==
    ASSUME FollowsScript, mission' = mission, sent' = sent,
           \A u \in Vehicles : channel'[<<Operator, u>>] = channel[<<Operator, u>>]
    PROVE  FollowsScript' /\ \A u \in Vehicles : Handled(u)' = Handled(u)
<1>1. \A u \in Vehicles : Handled(u)' = Handled(u)
  BY DEF Handled
<1> HIDE DEF Handled
<1>2. FollowsScript'
  BY <1>1 DEF FollowsScript
<1> QED BY <1>1, <1>2

\* What is on a link, q, once ms may have been spoken: what was on it, r, and ms.
Carrying(q, r, spoken, ms) ==
    /\ ~spoken => q = r
    /\ \A i \in 1..Len(q) : \/ \E j \in 1..Len(r) : q[i] = r[j]
                            \/ spoken /\ \E j \in 1..Len(ms) : q[i] = ms[j]
LEMMA BroadcastElements ==
    ASSUME mission \in Missions, NEW v \in Vehicles, NEW rest \in [Links -> Seq(Messages)],
           NEW ms \in Seq(Messages), \A i \in 1..Len(ms) : ms[i].type \in {"ARRIVE", "TASK_COMPLETE"},
           NEW ch, ch = Broadcast(rest, v, ms), NEW l \in Links
    PROVE  Carrying(ch[l], rest[l], l[1] = v, ms)
<1> DEFINE q == ch[l]
           s == Spoken(v, ms)[l]
<1>1. CASE l[1] # v
  <2>1. q = rest[l]
    BY <1>1 DEF Broadcast
  <2> HIDE DEF q
  <2> QED BY <1>1, <2>1 DEF q, Carrying
<1>2. CASE l[1] = v
  <2>1. q = rest[l] \o s
    BY <1>2 DEF Broadcast, Spoken
  <2>2. s \in Seq(Messages) /\ \A j \in 1..Len(s) : \E i \in 1..Len(ms) : s[j] = ms[i]
    BY SpokenElements
  <2> HIDE DEF q, s
  <2>3. \A i \in 1..Len(q) : \/ \E j \in 1..Len(rest[l]) : q[i] = rest[l][j]
                             \/ \E j \in 1..Len(s) : q[i] = s[j]
    <3> DEFINE r == rest[l]
    <3>1. r \in Seq(Messages)
      OBVIOUS
    <3> HIDE DEF r
    <3>2. Len(r \o s) = Len(r) + Len(s)
          /\ \A i \in 1..(Len(r) + Len(s)) :
                (r \o s)[i] = IF i <= Len(r) THEN r[i] ELSE s[i - Len(r)]
      BY <2>2, <3>1, ConcatProperties
    <3>3. Len(r) \in Nat /\ Len(s) \in Nat
      BY <2>2, <3>1
    <3>4. \A i \in 1..Len(r \o s) : \/ \E j \in 1..Len(r) : (r \o s)[i] = r[j]
                                    \/ \E j \in 1..Len(s) : (r \o s)[i] = s[j]
      <4> TAKE i \in 1..Len(r \o s)
      <4>1. CASE i <= Len(r)
        BY <3>2, <3>3, <4>1
      <4>2. CASE ~(i <= Len(r))
        <5>1. i - Len(r) \in 1..Len(s) /\ (r \o s)[i] = s[i - Len(r)]
          BY <3>2, <3>3, <4>2
        <5> QED BY <5>1
      <4> QED BY <4>1, <4>2
    <3> QED BY <2>1, <3>4 DEF r
  <2>4. \A i \in 1..Len(q) : \/ \E j \in 1..Len(rest[l]) : q[i] = rest[l][j]
                             \/ \E j \in 1..Len(ms) : q[i] = ms[j]
    BY <2>2, <2>3
  <2> QED BY <1>2, <2>4 DEF q, Carrying
<1> QED BY <1>1, <1>2

ArriveOf(id) == [type |-> "ARRIVE", id |-> id]

\* A step in which the list of vehicle v becomes new.
LEMMA FormStep ==
    ASSUME FormInv, FleetTypes, FleetTypes', mission' = mission, FollowsScript',
           \A u \in Vehicles : Handled(u) <= Handled(u)',
           NEW v \in Vehicles, NEW new, task_list' = [task_list EXCEPT ![v] = new],
           NEW ids, PartsBut(new, task_list[v], ids),
           \A id \in ids : ~Ordered(v, id) /\ Ordered(v, id)',
           \A u \in Vehicles : \A a \in Log : a \in arrivals'[u] =>
              a \in arrivals[u] \/ On(channel[<<a.sender, u>>], ArriveOf(a.id)),
           \A l \in Links, m \in Messages : m.type = "ARRIVE" /\ On(channel'[l], m) =>
              On(channel[l], m) \/ (l[1] = v /\ Ordered(v, m.id)' /\ AllThere(new, m.id))
    PROVE  FormInv'
<1>1. task_list \in [Vehicles -> Seq(Tasks)] /\ task_list'[v] = new
  BY DEF FleetTypes
<1>2. ASSUME NEW u \in Vehicles
      PROVE  \E x : /\ PartsBut(task_list'[u], task_list[u], x)
                    /\ \A id \in x : ~Ordered(u, id) /\ Ordered(u, id)'
  <2>1. CASE u = v
    BY <1>1, <2>1
  <2>2. CASE u # v
    <3>1. task_list'[u] = task_list[u]
      BY <1>1, <2>2
    <3>2. PartsBut(task_list'[u], task_list[u], {})
      BY <3>1, PartsStay
    <3> QED BY <3>2
  <2> QED BY <2>1, <2>2
<1>3. ASSUME NEW l \in Links, NEW id, On(channel[l], ArriveOf(id))
      PROVE  l[1] \in Vehicles /\ There(l[1], id)
  <2>1. PICK i \in 1..Len(channel[l]) : channel[l][i] = ArriveOf(id)
    BY <1>3 DEF On
  <2>2. channel[l][i].type = "ARRIVE" /\ channel[l][i].id = id
    BY <2>1 DEF ArriveOf
  <2> QED BY <2>2 DEF FormInv, WhoIsThere
<1>4. ASSUME NEW u \in Vehicles, NEW a \in Log, a \in arrivals'[u]
      PROVE  a.sender \in Vehicles /\ There(a.sender, a.id)
  <2>1. CASE a \in arrivals[u]
    BY <2>1 DEF FormInv, WhoIsThere
  <2>2. CASE On(channel[<<a.sender, u>>], ArriveOf(a.id))
    <3>1. <<a.sender, u>> \in Links
      BY LinkEnds DEF Log
    <3>2. <<a.sender, u>>[1] = a.sender
      OBVIOUS
    <3> QED BY <1>3, <2>2, <3>1, <3>2
  <2> QED BY <1>4, <2>1, <2>2
<1>5. ASSUME NEW l \in Links, NEW m \in Messages, m.type = "ARRIVE", On(channel'[l], m)
      PROVE  l[1] \in Vehicles /\ (There(l[1], m.id) \/ There(l[1], m.id)')
  <2>1. CASE On(channel[l], m)
    <3>1. PICK i \in 1..Len(channel[l]) : channel[l][i] = m
      BY <2>1 DEF On
    <3> QED BY <1>5, <3>1 DEF FormInv, WhoIsThere
  <2>2. CASE l[1] = v /\ Ordered(v, m.id)' /\ AllThere(new, m.id)
    <3>1. There(v, m.id)'
      BY <1>1, <2>2 DEF There
    <3> QED BY <2>2, <3>1
  <2> QED BY <1>5, <2>1, <2>2
<1> QED BY <1>2, <1>4, <1>5, FormKeeps

\* What v broadcasts, and what was on its way already.
Spreads(now, old, v, ms) ==
    \A l \in Links, m \in Messages : On(now[l], m) => On(old[l], m) \/ (l[1] = v /\ On(ms, m))
LEMMA BroadcastArrivals ==
    ASSUME mission \in Missions, channel \in [Links -> Seq(Messages)],
           NEW v \in Vehicles, NEW rest \in [Links -> Seq(Messages)],
           NEW ms \in Seq(Messages), \A i \in 1..Len(ms) : ms[i].type \in {"ARRIVE", "TASK_COMPLETE"},
           \A l \in Links : rest[l] # channel[l] => channel[l] # <<>> /\ rest[l] = Tail(channel[l]),
           channel' = Broadcast(rest, v, ms)
    PROVE  /\ \A u \in Vehicles : channel'[<<Operator, u>>] = rest[<<Operator, u>>]
           /\ Spreads(channel', channel, v, ms)
<1>1. \A l \in Links : Carrying(channel'[l], rest[l], l[1] = v, ms)
  BY BroadcastElements
<1>2. ASSUME NEW u \in Vehicles PROVE channel'[<<Operator, u>>] = rest[<<Operator, u>>]
  <2>1. <<Operator, u>> \in Links /\ <<Operator, u>>[1] # v
    BY LinkEnds DEF Agents
  <2> QED BY <1>1, <2>1 DEF Carrying
<1>3. ASSUME NEW l \in Links, NEW j \in 1..Len(rest[l])
      PROVE  \E i \in 1..Len(channel[l]) : channel[l][i] = rest[l][j]
  <2> DEFINE q == channel[l]
             r == rest[l]
  <2>1. q \in Seq(Messages) /\ (r # q => q # <<>> /\ r = Tail(q)) /\ j \in 1..Len(r)
    OBVIOUS
  <2> HIDE DEF q, r
  <2>2. \E i \in 1..Len(q) : q[i] = r[j]
    <3>1. CASE r = q
      BY <2>1, <3>1
    <3>2. CASE r # q
      <4>1. \A x \in Seq(Messages) : x # <<>> =>
               \A i \in 1..Len(Tail(x)) : i + 1 \in 1..Len(x) /\ Tail(x)[i] = x[i + 1]
        OBVIOUS
      <4>2. j + 1 \in 1..Len(q) /\ r[j] = q[j + 1]
        BY <2>1, <3>2, <4>1
      <4> QED BY <4>2
    <3> QED BY <3>1, <3>2
  <2> USE DEF q, r
  <2> QED BY <2>2
<1>4. ASSUME NEW l \in Links, NEW m \in Messages, On(channel'[l], m)
      PROVE  On(channel[l], m) \/ (l[1] = v /\ On(ms, m))
  <2>1. PICK i \in 1..Len(channel'[l]) : channel'[l][i] = m
    BY <1>4 DEF On
  <2>2. CASE \E j \in 1..Len(rest[l]) : channel'[l][i] = rest[l][j]
    BY <1>3, <2>1, <2>2 DEF On
  <2> QED BY <1>1, <2>1, <2>2 DEF Carrying, On
<1> QED BY <1>2, <1>4 DEF Spreads

\* A vehicle works on its list by itself.
LEMMA FormWorks ==
    ASSUME FleetInv, FleetInv', FormInv, NEW v \in Vehicles, NEW new, NEW ms \in Seq(Messages),
           \A i \in 1..Len(ms) :
              \/ ms[i].type = "TASK_COMPLETE"
              \/ ms[i].type = "ARRIVE" /\ Ordered(v, ms[i].id) /\ AllThere(new, ms[i].id),
           task_list' = [task_list EXCEPT ![v] = new], PartsBut(new, task_list[v], {}),
           channel' = Broadcast(channel, v, ms), UNCHANGED <<mission, arrivals, sent>>
    PROVE  FormInv'
<1>1. /\ mission \in Missions /\ channel \in [Links -> Seq(Messages)] /\ FleetTypes /\ FleetTypes'
      /\ \A i \in 1..Len(ms) : ms[i].type \in {"ARRIVE", "TASK_COMPLETE"}
  BY DEF FleetInv, FleetTypes
<1>2. /\ \A u \in Vehicles : channel'[<<Operator, u>>] = channel[<<Operator, u>>]
      /\ Spreads(channel', channel, v, ms)
  BY <1>1, BroadcastArrivals
<1>3. FollowsScript' /\ \A u \in Vehicles : Handled(u)' = Handled(u) /\ Handled(u) <= Handled(u)'
  <2>1. FollowsScript' /\ \A u \in Vehicles : Handled(u)' = Handled(u)
    BY <1>2, ScriptStays DEF FormInv
  <2>2. \A u \in Vehicles : Handled(u) \in Nat
    BY DEF FormInv, FollowsScript
  <2> HIDE DEF Handled
  <2> QED BY <2>1, <2>2
<1>4. \A id : Ordered(v, id) => Ordered(v, id)'
  BY <1>3 DEF Ordered, IsOrder
<1>5. ASSUME NEW l \in Links, NEW m \in Messages, m.type = "ARRIVE", On(channel'[l], m)
      PROVE  On(channel[l], m) \/ (l[1] = v /\ Ordered(v, m.id)' /\ AllThere(new, m.id))
  BY <1>2, <1>4, <1>5 DEF Spreads, On
<1> DEFINE ids == {}
<1>6. /\ PartsBut(new, task_list[v], ids)
      /\ \A id \in ids : ~Ordered(v, id) /\ Ordered(v, id)'
  OBVIOUS
<1>7. \A u \in Vehicles : \A a \in Log : a \in arrivals'[u] =>
         a \in arrivals[u] \/ On(channel[<<a.sender, u>>], ArriveOf(a.id))
  OBVIOUS
<1> HIDE DEF ids
<1> QED BY <1>1, <1>3, <1>5, <1>6, <1>7, FormStep

\* Two tasks of a vehicle's own are put into its list.
LEMMA PreemptTwiceParts ==
    ASSUME NEW tl \in Seq(Tasks), NEW t \in Tasks, NEW u \in Tasks, ~t.is_preemptable,
           ~IsFormation(t), ~IsFormation(u)
    PROVE  PartsBut(PreemptInsert(PreemptInsert(tl, t), u), tl, {})
<1> DEFINE b == <<t, u>>
           new == PreemptInsert(PreemptInsert(tl, t), u)
<1>1. b \in Seq(Tasks) /\ \A i \in 1..Len(b) : b[i] = t \/ b[i] = u
  OBVIOUS
<1>2. new \in Seq(Tasks) /\ Inserted(new, tl, FirstPreemptable(tl), b)
  BY PreemptInsertElements, PreemptTwiceInserted
<1> HIDE DEF b, new
<1>3. \A i \in 1..Len(b) : ~IsFormation(b[i])
  BY <1>1
<1>4. /\ \A i \in 1..Len(b) : IsFormation(b[i]) => b[i].id \in {}
      /\ \A i, j \in 1..Len(b) : IsFormation(b[i]) /\ IsFormation(b[j]) => i = j
  BY <1>3
<1>5. PartsBut(new, tl, {})
  BY <1>1, <1>2, <1>4, InsertedParts
<1> QED BY <1>5 DEF new

\* The lists stay as they are.
LEMMA FormRests ==
    ASSUME FormInv, FleetTypes, FleetTypes', UNCHANGED <<mission, task_list>>, FollowsScript',
           \A u \in Vehicles : Handled(u) <= Handled(u)', Vehicles # {},
           \A u \in Vehicles : \A a \in Log : a \in arrivals'[u] =>
              a \in arrivals[u] \/ On(channel[<<a.sender, u>>], ArriveOf(a.id)),
           \A l \in Links, m \in Messages :
              m.type = "ARRIVE" /\ On(channel'[l], m) => On(channel[l], m)
    PROVE  FormInv'
<1>1. PICK v : v \in Vehicles
  OBVIOUS
<1> DEFINE ids == {}
           new == task_list[v]
<1>2. task_list' = [task_list EXCEPT ![v] = new]
  BY DEF FleetTypes
<1>3. PartsBut(new, task_list[v], ids) /\ \A id \in ids : ~Ordered(v, id) /\ Ordered(v, id)'
  BY PartsStay
<1> HIDE DEF ids, new
<1>4. \A l \in Links, m \in Messages : m.type = "ARRIVE" /\ On(channel'[l], m) =>
              On(channel[l], m) \/ (l[1] = v /\ Ordered(v, m.id)' /\ AllThere(new, m.id))
  OBVIOUS
<1> QED BY <1>1, <1>2, <1>3, <1>4, FormStep

\* A message is heard: what is on link k.
LEMMA FormHears ==
    ASSUME FleetInv, FleetInv', FormInv, NEW k \in Links, channel[k] # <<>>, Vehicles # {},
           channel' = [channel EXCEPT ![k] = Tail(@)], UNCHANGED <<mission, task_list, sent>>,
           \A u \in Vehicles : \A a \in Log : a \in arrivals'[u] =>
              a \in arrivals[u] \/ On(channel[<<a.sender, u>>], ArriveOf(a.id))
    PROVE  FormInv'
<1>1. FleetTypes /\ FleetTypes' /\ channel \in [Links -> Seq(Messages)]
  BY DEF FleetInv, FleetTypes
<1>2. \A l \in Links : channel'[l] = IF l = k THEN Tail(channel[l]) ELSE channel[l]
  BY <1>1
<1>3. ASSUME NEW u \in Vehicles
      PROVE  channel'[<<Operator, u>>] = IF k = <<Operator, u>> THEN Tail(channel[k])
                                         ELSE channel[<<Operator, u>>]
  <2> DEFINE l == <<Operator, u>>
  <2>1. l \in Links
    BY LinkEnds DEF Agents
  <2> HIDE DEF l
  <2>2. channel'[l] = IF k = l THEN Tail(channel[k]) ELSE channel[l]
    BY <1>2, <2>1
  <2> QED BY <2>2 DEF l
<1>4. FollowsScript' /\ \A u \in Vehicles :
         Handled(u)' = IF k = <<Operator, u>> THEN Handled(u) + 1 ELSE Handled(u)
  BY <1>1, <1>3, ScriptKept DEF FormInv
<1>5. \A u \in Vehicles : Handled(u) <= Handled(u)'
  <2>1. \A u \in Vehicles : Handled(u) \in Nat
    BY DEF FormInv, FollowsScript
  <2> HIDE DEF Handled
  <2> QED BY <1>4, <2>1
<1>6. ASSUME NEW l \in Links, NEW m \in Messages, On(channel'[l], m)
      PROVE  On(channel[l], m)
  <2> DEFINE q == channel[l]
             r == channel'[l]
  <2>1. q \in Seq(Messages) /\ r = (IF l = k THEN Tail(q) ELSE q) /\ (l = k => q # <<>>)
    BY <1>1, <1>2
  <2>2. PICK i \in 1..Len(r) : r[i] = m
    BY <1>6 DEF On
  <2> HIDE DEF q, r
  <2>3. \A x \in Seq(Messages) : x # <<>> =>
               \A j \in 1..Len(Tail(x)) : j + 1 \in 1..Len(x) /\ Tail(x)[j] = x[j + 1]
    OBVIOUS
  <2>4. \E j \in 1..Len(q) : q[j] = m
    <3>1. CASE l = k
      <4>1. i + 1 \in 1..Len(q) /\ q[i + 1] = m
        BY <2>1, <2>2, <2>3, <3>1
      <4> QED BY <4>1
    <3>2. CASE l # k
      BY <2>1, <2>2, <3>2
    <3> QED BY <3>1, <3>2
  <2> QED BY <2>4 DEF q, On
<1> QED BY <1>1, <1>4, <1>5, <1>6, FormRests

LEMMA FormSend ==
    ASSUME FleetInv, FleetInv', FormInv, NEW v \in Vehicles, Send(v)
    PROVE  FormInv'
<1> DEFINE n == sent[v] + 1
           o == Script[mission][v][n]
           k == <<Operator, v>>
<1>1. /\ FleetTypes /\ FleetTypes' /\ mission \in Missions /\ sent \in [Vehicles -> Nat]
      /\ channel \in [Links -> Seq(Messages)] /\ k \in Links
  BY LinkEnds DEF FleetInv, FleetTypes, Agents
<1>2. /\ sent[v] < Len(Script[mission][v])
      /\ channel' = [channel EXCEPT ![k] = Append(@, o.m)]
      /\ sent' = [sent EXCEPT ![v] = n]
      /\ UNCHANGED <<mission, task_list, arrivals>>
  BY DEF Send
<1>3. n \in 1..Len(Script[mission][v]) /\ n \in Nat /\ n = sent[v] + 1
      /\ o.m \in Messages /\ o.m.type # "ARRIVE"
  <2>1. Script[mission][v] \in Seq(Orders) /\ n \in 1..Len(Script[mission][v]) /\ n \in Nat
    BY <1>1, <1>2, FleetAssumption
  <2>2. o \in Orders
    BY <2>1
  <2>3. o.m.type # "ARRIVE"
    BY <1>1, <2>1, ScriptAssumption
  <2> QED BY <2>1, <2>2, <2>3 DEF Orders
<1> HIDE DEF n, k
<1>4. \A l \in Links : channel'[l] = IF l = k THEN Append(channel[l], o.m) ELSE channel[l]
  BY <1>1, <1>2
<1>5. \A x \in Seq(Messages), y \in Messages :
         /\ Len(Append(x, y)) = Len(x) + 1
         /\ \A i \in 1..Len(Append(x, y)) :
               Append(x, y)[i] = IF i = Len(x) + 1 THEN y ELSE x[i]
  OBVIOUS
<1>6. ASSUME NEW u \in Vehicles
      PROVE  /\ Handled(u)' = Handled(u) /\ Handled(u)' \in Nat
             /\ sent'[u] <= Len(Script[mission'][u])
             /\ \A i \in 1..Len(channel'[<<Operator, u>>]) :
                   channel'[<<Operator, u>>][i] = Script[mission'][u][Handled(u)' + i].m
  <2> DEFINE l == <<Operator, u>>
             q == channel[l]
             r == channel'[l]
             h == Handled(u)
             g == Handled(u)'
             s == Script[mission][u]
  <2>1. /\ q \in Seq(Messages) /\ sent[u] \in Nat /\ h = sent[u] - Len(q) /\ h \in Nat
        /\ sent[u] <= Len(s) /\ \A i \in 1..Len(q) : q[i] = s[h + i].m
        /\ g = sent'[u] - Len(r)
    BY <1>1, LinkEnds DEF FormInv, FollowsScript, Handled, Agents
  <2>2. CASE u = v
    <3>1. l = k /\ r = Append(q, o.m) /\ sent'[u] = n
      BY <1>1, <1>2, <1>4, <2>2 DEF k
    <3>2. o.m = s[n].m /\ n = sent[u] + 1 /\ n <= Len(s)
      BY <1>3, <2>2
    <3> HIDE DEF l, q, r, h, g, s, o
    <3>3. Len(r) = Len(q) + 1 /\ Len(q) \in Nat
          /\ \A i \in 1..Len(r) : r[i] = IF i = Len(q) + 1 THEN o.m ELSE q[i]
      BY <1>3, <1>5, <2>1, <3>1
    <3>4. g = h /\ h + (Len(q) + 1) = n
      BY <1>3, <2>1, <3>1, <3>2, <3>3
    <3>5. ASSUME NEW i \in 1..Len(r) PROVE r[i] = s[g + i].m
      <4>1. CASE i = Len(q) + 1
        <5>1. r[i] = o.m /\ g + i = n
          BY <3>3, <3>4, <4>1
        <5> QED BY <3>2, <5>1
      <4>2. CASE i # Len(q) + 1
        <5>1. i \in 1..Len(q)
          BY <3>3, <4>2
        <5> QED BY <2>1, <3>3, <3>4, <4>2, <5>1
      <4> QED BY <4>1, <4>2
    <3>6. g = h /\ g \in Nat /\ sent'[u] <= Len(s)
      BY <2>1, <3>1, <3>2, <3>4
    <3>7. mission' = mission
      BY <1>2
    <3> QED BY <3>5, <3>6, <3>7 DEF l, r, h, g, s
  <2>3. CASE u # v
    <3>1. l # k /\ l \in Links
      BY <2>3, LinkEnds DEF k, Agents
    <3>2. r = q /\ sent'[u] = sent[u] /\ mission' = mission
      BY <1>1, <1>2, <1>4, <2>3, <3>1
    <3>3. g = h
      BY <2>1, <3>2
    <3> HIDE DEF l, q, r, h, g, s, o
    <3>4. \A i \in 1..Len(r) : r[i] = s[g + i].m
      BY <2>1, <3>2, <3>3
    <3> QED BY <2>1, <3>2, <3>3, <3>4 DEF l, r, h, g, s
  <2> QED BY <2>2, <2>3
<1>7. FollowsScript'
  BY <1>6 DEF FollowsScript
<1>8. \A u \in Vehicles : Handled(u) <= Handled(u)'
  <2>1. \A u \in Vehicles : Handled(u) \in Nat
    BY DEF FormInv, FollowsScript
  <2>2. \A u \in Vehicles : Handled(u)' = Handled(u)
    BY <1>6
  <2> HIDE DEF Handled
  <2> QED BY <2>1, <2>2
<1>9. ASSUME NEW l \in Links, NEW m \in Messages, m.type = "ARRIVE", On(channel'[l], m)
      PROVE  On(channel[l], m)
  <2>1. CASE l # k
    BY <1>4, <1>9, <2>1 DEF On
  <2>2. CASE l = k
    <3> DEFINE q == channel[l]
    <3>1. q \in Seq(Messages) /\ channel'[l] = Append(q, o.m)
      BY <1>1, <1>4, <2>2
    <3> HIDE DEF q, o
    <3>2. PICK i \in 1..Len(Append(q, o.m)) : Append(q, o.m)[i] = m
      BY <1>9, <3>1 DEF On
    <3>3. i # Len(q) + 1
      BY <1>3, <1>5, <1>9, <3>1, <3>2
    <3>4. i \in 1..Len(q) /\ q[i] = m
      BY <1>3, <1>5, <3>1, <3>2, <3>3
    <3> QED BY <3>4 DEF q, On
  <2> QED BY <2>1, <2>2
<1> QED BY <1>1, <1>2, <1>7, <1>8, <1>9, FormRests

LEMMA FormInvestigate ==
    ASSUME FleetInv, FleetInv', FormInv, NEW v \in Vehicles, NEW W, Investigate(v, W)
    PROVE  FormInv'
<1> DEFINE tl == task_list[v]
           id == obj_detection_cnt[v]
           c == FirstToiId - id + 1
           approach == ApproachTask(v, c, "first")
           encircle == EncircleTask(v, id, c, "first")
           new == PreemptInsert(PreemptInsert(tl, approach), encircle)
           ids == {}
<1>1. /\ FleetTypes /\ FleetTypes' /\ channel \in [Links -> Seq(Messages)] /\ tl \in Seq(Tasks)
      /\ id \in Int /\ FirstToiId \in Nat /\ FirstToiId - investigations <= id
      /\ id <= FirstToiId /\ v \in Agents
  BY FleetAssumption, LinkEnds DEF FleetInv, FleetTypes, Counted
<1>2. /\ task_list' = [task_list EXCEPT ![v] = new]
      /\ channel' = [l \in Links |-> IF l[1] = v /\ l[2] \in W
                                       THEN Append(channel[l], OverwatchRequest(id)) ELSE channel[l]]
      /\ UNCHANGED <<mission, arrivals, sent>>
  BY DEF Investigate
<1>3. /\ approach \in Tasks /\ ~approach.is_preemptable /\ ~IsFormation(approach)
      /\ encircle \in Tasks /\ ~IsFormation(encircle)
  <2>1. NoTarget \in Targets /\ 0 \in Nat /\ c \in Nat
    BY <1>1 DEF NoTarget, Targets
  <2> QED BY <1>1, <2>1, OwnTasks, WhichForm
<1> HIDE DEF approach, encircle
<1>4. PartsBut(new, task_list[v], ids) /\ \A x \in ids : ~Ordered(v, x) /\ Ordered(v, x)'
  BY <1>1, <1>3, PreemptTwiceParts
<1> HIDE DEF new, ids
<1>5. ASSUME NEW u \in Vehicles
      PROVE  channel'[<<Operator, u>>] = channel[<<Operator, u>>]
  <2> DEFINE l == <<Operator, u>>
  <2>1. l \in Links /\ l[1] # v
    BY LinkEnds DEF Agents
  <2> HIDE DEF l
  <2>2. channel'[l] = channel[l]
    BY <1>2, <2>1
  <2> QED BY <2>2 DEF l
<1>6. FollowsScript' /\ \A u \in Vehicles : Handled(u)' = Handled(u)
  BY <1>2, <1>5, ScriptStays DEF FormInv
<1>7. \A u \in Vehicles : Handled(u) <= Handled(u)'
  <2>1. \A u \in Vehicles : Handled(u) \in Nat
    BY DEF FormInv, FollowsScript
  <2> HIDE DEF Handled
  <2> QED BY <1>6, <2>1
<1>8. ASSUME NEW l \in Links, NEW m \in Messages, m.type = "ARRIVE", On(channel'[l], m)
      PROVE  On(channel[l], m)
  <2> DEFINE q == channel[l]
             x == OverwatchRequest(id)
  <2>1. q \in Seq(Messages) /\ (channel'[l] = q \/ channel'[l] = Append(q, x))
    BY <1>1, <1>2
  <2>2. x \in Messages /\ x.type # "ARRIVE"
    BY <1>1 DEF OverwatchRequest, Messages
  <2> HIDE DEF q, x
  <2>3. CASE channel'[l] = q
    BY <1>8, <2>3 DEF q, On
  <2>4. CASE channel'[l] = Append(q, x)
    <3>1. PICK i \in 1..Len(Append(q, x)) : Append(q, x)[i] = m
      BY <1>8, <2>4 DEF On
    <3>2. /\ Len(Append(q, x)) = Len(q) + 1 /\ Len(q) \in Nat
          /\ Append(q, x)[i] = IF i = Len(q) + 1 THEN x ELSE q[i]
      BY <2>1, <2>2
    <3>3. i \in 1..Len(q) /\ q[i] = m
      BY <1>8, <2>2, <3>1, <3>2
    <3> QED BY <3>3 DEF q, On
  <2> QED BY <2>1, <2>3, <2>4
<1>9. /\ \A u \in Vehicles : \A a \in Log : a \in arrivals'[u] =>
            a \in arrivals[u] \/ On(channel[<<a.sender, u>>], ArriveOf(a.id))
      /\ \A l \in Links, m \in Messages : m.type = "ARRIVE" /\ On(channel'[l], m) =>
            On(channel[l], m) \/ (l[1] = v /\ Ordered(v, m.id)' /\ AllThere(new, m.id))
  BY <1>2, <1>8
<1>10. mission' = mission
  BY <1>2
<1> QED BY <1>1, <1>2, <1>4, <1>6, <1>7, <1>9, <1>10, FormStep

\* What v says about a command that it handles, it says about completions.
LEMMA AnswersComplete ==
    ASSUME NEW v \in Vehicles, NEW m \in Messages, task_list[v] \in Seq(Tasks)
    PROVE  /\ Answers(v, m) \in Seq(Messages)
           /\ \A i \in 1..Len(Answers(v, m)) : Answers(v, m)[i].type = "TASK_COMPLETE"
<1> DEFINE out == Dropped(v, m)
           x == IF m.type \in {"CANCEL", "CANCEL_ALL"} THEN <<CompletionOf(m)>> ELSE <<>>
           ms == [i \in 1..Len(out) |-> CompletionOf(out[i])] \o x
<1>1. out \in Seq(Tasks)
  <2> DEFINE tl == task_list[v]
             k == FindTask(tl, m.target_msg_id)
             a == FindApproach(tl, tl[k].contact)
             off == CancelledTasks(tl, m.target_msg_id)
  <2>1. k \in 0..Len(tl) /\ a \in 0..Len(tl) /\ Len(tl) \in Nat
    BY FindTaskRange, FindApproachRange
  <2>2. off = <<>> \/ (k # 0 /\ off = <<tl[k]>>) \/ (k # 0 /\ a # 0 /\ off = <<tl[k], tl[a]>>)
    BY DEF CancelledTasks
  <2> HIDE DEF k, a, off, tl
  <2>3. (k # 0 => tl[k] \in Tasks) /\ (a # 0 => tl[a] \in Tasks) /\ tl \in Seq(Tasks)
    BY <2>1 DEF tl
  <2>4. /\ \A t, u \in Tasks : <<t>> \in Seq(Tasks) /\ <<t, u>> \in Seq(Tasks)
        /\ <<>> \in Seq(Tasks)
    OBVIOUS
  <2>5. out = off \/ out = tl \/ out = <<>>
    BY DEF Dropped, off, tl
  <2>6. off \in Seq(Tasks)
    BY <2>2, <2>3, <2>4
  <2> HIDE DEF out
  <2> QED BY <2>3, <2>4, <2>5, <2>6
<1>2. x \in Seq(Messages) /\ \A i \in 1..Len(x) : x[i].type = "TASK_COMPLETE"
  <2>1. CASE m.type \in {"CANCEL", "CANCEL_ALL"}
    <3>1. m.type # "OVERWATCH"
      BY <2>1
    <3>2. m.id \in Int
      BY <3>1, MessageId
    <3>3. CompletionOf(m) \in Messages /\ CompletionOf(m).type = "TASK_COMPLETE"
      BY <3>2, CompletionIsMessage DEF CompletionOf
    <3> QED BY <2>1, <3>3
  <2>2. CASE m.type \notin {"CANCEL", "CANCEL_ALL"}
    BY <2>2
  <2> QED BY <2>1, <2>2
<1>3. Answers(v, m) = ms
  BY DEF Answers
<1> HIDE DEF out, x
<1>4. /\ ms \in Seq(Messages)
      /\ \A j \in 1..Len(ms) : \/ \E i \in 1..Len(out) : ms[j] = CompletionOf(out[i])
                               \/ \E i \in 1..Len(x) : ms[j] = x[i]
  BY <1>1, <1>2, AnswersElements
<1>5. \A t : CompletionOf(t).type = "TASK_COMPLETE"
  BY DEF CompletionOf
<1> HIDE DEF ms
<1> QED BY <1>2, <1>3, <1>4, <1>5

\* A command that is handled is the next of the script, and a formation that it
\* brings is new.
LEMMA CommandIsNext ==
    ASSUME FleetTypes, FollowsScript, FormedOnce, NEW v \in Vehicles, NEW m,
           channel[<<Operator, v>>] # <<>>, m = channel[<<Operator, v>>][1],
           mission' = mission, Handled(v)' = Handled(v) + 1
    PROVE  \A id \in Formed(m) : ~Ordered(v, id) /\ Ordered(v, id)'
<1> DEFINE q == channel[<<Operator, v>>]
           o == Script[mission][v]
           h == Handled(v)
           n == h + 1
<1>1. /\ q \in Seq(Messages) /\ sent[v] \in Nat /\ h = sent[v] - Len(q) /\ h \in Nat
      /\ sent[v] <= Len(o) /\ (1 \in 1..Len(q) => q[1] = o[h + 1].m)
      /\ q # <<>> /\ m = q[1] /\ mission \in Missions
  BY LinkEnds DEF FleetTypes, FollowsScript, Handled, Agents
<1>2. o \in Seq(Orders) /\ Len(o) \in Nat
  BY <1>1, FleetAssumption
<1> SUFFICES ASSUME NEW id \in Formed(m) PROVE ~Ordered(v, id) /\ Ordered(v, id)'
  OBVIOUS
<1>3. m.type = "FORM" /\ m.id = id
  BY DEF Formed
<1> HIDE DEF q, o, h
<1>4. n \in 1..Len(o) /\ m = o[n].m /\ \A k \in 1..h : k \in 1..Len(o) /\ k # n
  BY <1>1, <1>2
<1>5. IsOrder(v, n, id)
  BY <1>3, <1>4 DEF IsOrder, o
<1>6. ASSUME NEW k \in 1..h, IsOrder(v, k, id) PROVE FALSE
  BY <1>1, <1>4, <1>5, <1>6 DEF IsOrder, FormedOnce, o
<1>7. ~Ordered(v, id)
  BY <1>6 DEF Ordered, h
<1>8. Ordered(v, id)'
  <2>1. PICK k : k = n
    OBVIOUS
  <2>2. Handled(v)' = k /\ k \in 1..k
    BY <1>1, <2>1 DEF h
  <2>3. IsOrder(v, k, id)'
    BY <1>5, <2>1 DEF IsOrder
  <2> HIDE DEF Handled
  <2>4. k \in 1..Handled(v)'
    BY <2>2
  <2> QED BY <2>3, <2>4 DEF Ordered
<1> QED BY <1>7, <1>8

\* The list after a message, and the formation that is new in it.
LEMMA FormHandles ==
    ASSUME FleetInv, FleetInv', FormInv, FormedOnce, NEW v \in Vehicles, NEW s \in Agents,
           NEW m \in Messages, m.type \notin {"TASK_COMPLETE", "ARRIVE"},
           channel[<<s, v>>] # <<>>, m = channel[<<s, v>>][1], mission' = mission,
           s = Operator => Handled(v)' = Handled(v) + 1
    PROVE  \E ids : /\ PartsBut(ListAfter(v, s, m), task_list[v], ids)
                    /\ \A id \in ids : ~Ordered(v, id) /\ Ordered(v, id)'
<1> DEFINE k == <<s, v>>
<1>1. /\ k \in Links /\ FleetTypes /\ task_list[v] \in Seq(Tasks) /\ v \in Agents
      /\ Len(task_completions[v]) \in Nat /\ channel[k] \in Seq(Messages)
      /\ k[1] = s /\ k[2] = v
  <2>1. k \in Links /\ v \in Agents
    BY LinkEnds
  <2>2. channel[k] \in Seq(Messages) /\ task_completions[v] \in Seq(Log)
    BY <2>1 DEF FleetInv, FleetTypes
  <2>3. FleetTypes /\ task_list[v] \in Seq(Tasks)
    BY DEF FleetInv, FleetTypes
  <2>4. k[1] = s /\ k[2] = v
    OBVIOUS
  <2>5. Len(task_completions[v]) \in Nat
    BY <2>2
  <2> HIDE DEF k
  <2> QED BY <2>1, <2>2, <2>3, <2>4, <2>5
<1>2. Carries(k, m)
  <2>1. 1 \in 1..Len(channel[k])
    BY <1>1
  <2> QED BY <1>1, <2>1 DEF FleetInv, Carried
<1>3. CASE s = Operator
  <2>1. m.type \in Commands
    <3> HIDE DEF k
    <3> QED BY <1>1, <1>2, <1>3 DEF Carries
  <2>2. PartsBut(ListAfter(v, s, m), task_list[v], Formed(m))
    BY <1>1, <2>1, CommandParts
  <2>3. \A id \in Formed(m) : ~Ordered(v, id) /\ Ordered(v, id)'
    BY <1>1, <1>3, CommandIsNext DEF FormInv
  <2> QED BY <2>2, <2>3
<1>4. CASE s # Operator
  <2>1. m.type = "OVERWATCH" /\ s \in Vehicles
    <3> HIDE DEF k
    <3> QED BY <1>1, <1>2, <1>4, LinkEnds DEF Carries
  <2> DEFINE target == [veh |-> s, id |-> m.wait_for_msg_id]
             since == Len(task_completions[v])
             move == OverwatchMove(v)
             wait == OverwatchWait(v, target, since)
             new == PreemptInsert(PreemptInsert(task_list[v], move), wait)
             ids == {}
  <2>2. ListAfter(v, s, m) = new
    BY <2>1 DEF ListAfter, Overwatch
  <2>3. target \in Targets /\ since \in Nat /\ 0 \in Nat /\ 0 \in Int
    <3>1. m.wait_for_msg_id \in Int
      BY <2>1 DEF Messages
    <3> QED BY <1>1, <2>1, <3>1 DEF Targets, Agents
  <2> HIDE DEF target, since
  <2>4. /\ move \in Tasks /\ ~move.is_preemptable /\ ~IsFormation(move)
        /\ wait \in Tasks /\ ~IsFormation(wait)
    BY <1>1, <2>3, OwnTasks, WhichForm
  <2> HIDE DEF move, wait
  <2>5. PartsBut(new, task_list[v], ids) /\ \A id \in ids : ~Ordered(v, id) /\ Ordered(v, id)'
    BY <1>1, <2>4, PreemptTwiceParts
  <2> HIDE DEF new, ids
  <2> QED BY <2>2, <2>5
<1> QED BY <1>3, <1>4

LEMMA FormReceive ==
    ASSUME FleetInv, FleetInv', FormInv, FormedOnce, NEW v \in Vehicles, NEW s \in Agents,
           Receive(v, s)
    PROVE  FormInv'
<1> DEFINE k == <<s, v>>
           m == Head(channel[k])
           rest == [channel EXCEPT ![k] = Tail(@)]
           tl == task_list[v]
<1>1. /\ k \in Links /\ FleetTypes /\ FleetTypes' /\ tl \in Seq(Tasks) /\ mission \in Missions
      /\ channel \in [Links -> Seq(Messages)] /\ channel[k] \in Seq(Messages)
      /\ rest \in [Links -> Seq(Messages)] /\ arrivals \in [Vehicles -> SUBSET Log]
  <2>1. k \in Links
    BY LinkEnds
  <2>2. channel \in [Links -> Seq(Messages)]
    BY DEF FleetInv, FleetTypes
  <2>3. channel[k] \in Seq(Messages) /\ channel[k] # <<>>
    BY <2>1, <2>2 DEF Receive
  <2> HIDE DEF k
  <2>4. rest \in [Links -> Seq(Messages)]
    BY <2>1, <2>2, <2>3
  <2> QED BY <2>1, <2>2, <2>3, <2>4 DEF FleetInv, FleetTypes
<1>2. channel[k] # <<>> /\ m \in Messages /\ m = channel[k][1] /\ 1 \in 1..Len(channel[k])
  BY SMTT(40), <1>1 DEF Receive
<1>3. UNCHANGED <<mission, sent>>
  BY DEF Receive
<1>4. CASE m.type = "TASK_COMPLETE"
  <2>1. channel' = rest /\ UNCHANGED <<task_list, arrivals>>
    BY <1>4 DEF Receive
  <2>2. \A u \in Vehicles : \A a \in Log : a \in arrivals'[u] =>
           a \in arrivals[u] \/ On(channel[<<a.sender, u>>], ArriveOf(a.id))
    BY <2>1
  <2> HIDE DEF k
  <2> QED BY <1>1, <1>2, <1>3, <2>1, <2>2, FormHears
<1>5. CASE m.type = "ARRIVE"
  <2>1. /\ arrivals' = [arrivals EXCEPT ![v] = @ \cup {[sender |-> s, id |-> m.id]}]
        /\ channel' = rest /\ UNCHANGED task_list
    BY <1>5 DEF Receive
  <2>2. m = ArriveOf(m.id)
    <3> HIDE DEF m
    <3> QED BY <1>2, <1>5 DEF Messages, ArriveOf
  <2>3. On(channel[k], ArriveOf(m.id))
    <3> HIDE DEF m
    <3>1. channel[k][1] = ArriveOf(m.id)
      BY <1>2, <2>2
    <3> HIDE DEF k
    <3> QED BY <1>2, <3>1 DEF On
  <2>4. ASSUME NEW u \in Vehicles, NEW a \in Log, a \in arrivals'[u]
        PROVE  a \in arrivals[u] \/ On(channel[<<a.sender, u>>], ArriveOf(a.id))
    <3> DEFINE new == [sender |-> s, id |-> m.id]
    <3>1. new.sender = s /\ new.id = m.id
      OBVIOUS
    <3> HIDE DEF new
    <3>2. a \in arrivals[u] \/ (u = v /\ a = new)
      <4>1. arrivals' = [arrivals EXCEPT ![v] = @ \cup {new}]
        BY <2>1 DEF new
      <4> HIDE DEF m
      <4> QED BY <1>1, <2>4, <4>1
    <3>3. CASE u = v /\ a = new
      <4>1. a.sender = s /\ a.id = m.id
        BY <3>1, <3>3
      <4> HIDE DEF m
      <4> QED BY <2>3, <3>3, <4>1
    <3> QED BY <3>2, <3>3
  <2> HIDE DEF k
  <2> QED BY <1>1, <1>2, <1>3, <2>1, <2>4, FormHears
<1>6. CASE m.type \notin {"TASK_COMPLETE", "ARRIVE"}
  <2> DEFINE new == ListAfter(v, s, m)
             ms == Answers(v, m)
  <2>1. /\ task_list' = [task_list EXCEPT ![v] = new] /\ channel' = Broadcast(rest, v, ms)
        /\ UNCHANGED arrivals
    BY <1>6 DEF Receive
  <2>2. ms \in Seq(Messages) /\ \A i \in 1..Len(ms) : ms[i].type = "TASK_COMPLETE"
    BY <1>1, <1>2, AnswersComplete
  <2> HIDE DEF new, ms
  <2>3. \A l \in Links : rest[l] # channel[l] => channel[l] # <<>> /\ rest[l] = Tail(channel[l])
    <3> HIDE DEF k
    <3> QED BY <1>1, <1>2
  <2>4. /\ \A u \in Vehicles : channel'[<<Operator, u>>] = rest[<<Operator, u>>]
        /\ Spreads(channel', channel, v, ms)
    <3>1. \A i \in 1..Len(ms) : ms[i].type \in {"ARRIVE", "TASK_COMPLETE"}
      BY <2>2
    <3> HIDE DEF rest, m, k
    <3> QED BY <1>1, <2>1, <2>2, <2>3, <3>1, BroadcastArrivals
  <2>5. ASSUME NEW u \in Vehicles
        PROVE  channel'[<<Operator, u>>] = IF k = <<Operator, u>> THEN Tail(channel[k])
                                           ELSE channel[<<Operator, u>>]
    <3> DEFINE l == <<Operator, u>>
    <3>1. l \in Links /\ channel'[l] = rest[l]
      BY <2>4, LinkEnds DEF Agents
    <3> HIDE DEF l, k
    <3>2. channel'[l] = IF k = l THEN Tail(channel[k]) ELSE channel[l]
      BY <1>1, <3>1
    <3> QED BY <3>2 DEF l
  <2>6. FollowsScript' /\ \A u \in Vehicles :
           Handled(u)' = IF k = <<Operator, u>> THEN Handled(u) + 1 ELSE Handled(u)
    <3> HIDE DEF k, m
    <3> QED BY <1>1, <1>2, <1>3, <2>5, ScriptKept DEF FormInv
  <2>7. /\ \A u \in Vehicles : Handled(u) <= Handled(u)'
        /\ s = Operator => Handled(v)' = Handled(v) + 1
    <3>1. \A u \in Vehicles : Handled(u) \in Nat
      BY DEF FormInv, FollowsScript
    <3> HIDE DEF Handled
    <3> QED BY <2>6, <3>1
  <2>8. PICK ids : /\ PartsBut(new, task_list[v], ids)
                   /\ \A id \in ids : ~Ordered(v, id) /\ Ordered(v, id)'
    <3> HIDE DEF m
    <3> QED BY <1>2, <1>3, <1>6, <2>7, FormHandles DEF new
  <2>9. /\ \A u \in Vehicles : \A a \in Log : a \in arrivals'[u] =>
              a \in arrivals[u] \/ On(channel[<<a.sender, u>>], ArriveOf(a.id))
        /\ \A l \in Links, x \in Messages : x.type = "ARRIVE" /\ On(channel'[l], x) =>
              On(channel[l], x) \/ (l[1] = v /\ Ordered(v, x.id)' /\ AllThere(new, x.id))
    BY <2>1, <2>2, <2>4 DEF Spreads, On
  <2>10. mission' = mission /\ FollowsScript' /\ \A u \in Vehicles : Handled(u) <= Handled(u)'
    BY <1>3, <2>6, <2>7
  <2> HIDE DEF k, m, rest
  <2> QED BY <1>1, <2>1, <2>8, <2>9, <2>10, FormStep
<1> QED BY <1>4, <1>5, <1>6

\* A vehicle that gets to its place says so: its part is the one in its list.
LEMMA FormArrive ==
    ASSUME FleetInv, FleetInv', FormInv, NEW v \in Vehicles, Arrive(v)
    PROVE  FormInv'
<1> DEFINE tl == task_list[v]
           t == tl[1]
           there == [t EXCEPT !.arrived = TRUE]
           new == [tl EXCEPT ![1].arrived = TRUE]
           said == [type |-> "ARRIVE", id |-> t.id]
           ms == <<said>>
           none == <<>>
<1>1. /\ tl \in Seq(Tasks) /\ tl # <<>> /\ task_list \in [Vehicles -> Seq(Tasks)]
  BY DEF FleetInv, FleetTypes, Arrive
<1>2. /\ t \in Tasks /\ 1 \in 1..Len(tl) /\ Head(tl) = t
  BY <1>1
<1>3. /\ channel' = Broadcast(channel, v, ms)
      /\ task_list' = [task_list EXCEPT ![v] = new]
      /\ UNCHANGED <<mission, arrivals, sent>> /\ IsFormation(t)
  BY <1>1, <1>2 DEF Arrive
<1>4. said \in Messages /\ said.type = "ARRIVE" /\ said.id = t.id
  <2>1. t.id \in Int
    BY <1>2 DEF Tasks
  <2> QED BY <2>1 DEF Messages
<1>5. /\ there \in Tasks /\ Alike(there, t) /\ there.arrived
      /\ there.id = t.id /\ (IsFormation(there) <=> IsFormation(t))
  <2> HIDE DEF t
  <2> QED BY <1>2 DEF Tasks, Alike, IsFormation
<1>6. /\ new \in Seq(Tasks) /\ Len(new) = Len(tl)
      /\ \A i \in 1..Len(tl) : new[i] = IF i = 1 THEN there ELSE tl[i]
  <2>1. new = [tl EXCEPT ![1] = there]
    BY <1>2
  <2> HIDE DEF there, new
  <2>2. \A q \in Seq(Tasks), x \in Tasks : 1 \in 1..Len(q) =>
           /\ [q EXCEPT ![1] = x] \in Seq(Tasks) /\ Len([q EXCEPT ![1] = x]) = Len(q)
           /\ \A i \in 1..Len(q) : [q EXCEPT ![1] = x][i] = IF i = 1 THEN x ELSE q[i]
    OBVIOUS
  <2> QED BY <1>1, <1>2, <1>5, <2>1, <2>2
<1> HIDE DEF new, there, t
<1>7. PartsBut(new, tl, {})
  <2>1. \A x : Alike(x, x)
    BY DEF Alike
  <2>2. \A i \in 1..Len(tl) : Alike(new[i], tl[i])
    BY <1>5, <1>6, <2>1 DEF t
  <2>3. none \in Seq(Tasks) /\ Len(none) = 0 /\ Inserted(new, tl, Len(tl) + 1, none)
    BY <1>1, <1>6, <2>2, AlikeInserted
  <2> HIDE DEF none
  <2>4. /\ \A i \in 1..Len(none) : IsFormation(none[i]) => none[i].id \in {}
        /\ \A i, j \in 1..Len(none) : IsFormation(none[i]) /\ IsFormation(none[j]) => i = j
    BY <2>3
  <2> QED BY <1>1, <1>6, <2>3, <2>4, InsertedParts
<1>8. OnePart(tl) /\ Ordered(v, t.id)
  BY <1>2, <1>3 DEF FormInv, FromScript, t
<1>9. AllThere(new, t.id)
  <2> SUFFICES ASSUME NEW i \in 1..Len(new), PartIn(new[i], t.id) PROVE new[i].arrived
    BY DEF AllThere
  <2>1. CASE i = 1
    BY <1>2, <1>5, <1>6, <2>1
  <2>2. CASE i # 1
    <3>1. i \in 1..Len(tl) /\ IsFormation(tl[i]) /\ tl[i].id = tl[1].id /\ IsFormation(tl[1])
      BY <1>3, <1>6, <2>2 DEF PartIn, t
    <3> QED BY <1>2, <1>8, <2>2, <3>1 DEF OnePart
  <2> QED BY <2>1, <2>2
<1>10. /\ ms \in Seq(Messages)
       /\ \A i \in 1..Len(ms) :
              \/ ms[i].type = "TASK_COMPLETE"
              \/ ms[i].type = "ARRIVE" /\ Ordered(v, ms[i].id) /\ AllThere(new, ms[i].id)
  <2>1. ms \in Seq(Messages) /\ \A i \in 1..Len(ms) : ms[i] = said
    BY <1>4
  <2> HIDE DEF ms, said
  <2> QED BY <1>4, <1>8, <1>9, <2>1
<1> HIDE DEF ms
<1> QED BY <1>3, <1>7, <1>10, FormWorks

LEMMA FormFinish ==
    ASSUME FleetInv, FleetInv', FormInv, NEW v \in Vehicles, Finish(v)
    PROVE  FormInv'
<1> DEFINE tl == task_list[v]
           t == tl[1]
           new == Tail(tl)
           ms == <<CompletionOf(t)>>
<1>1. /\ tl \in Seq(Tasks) /\ tl # <<>> /\ task_list \in [Vehicles -> Seq(Tasks)]
  BY DEF FleetInv, FleetTypes, Finish
<1>2. /\ t \in Tasks /\ Head(tl) = t /\ new \in Seq(Tasks)
  BY <1>1
<1>3. /\ channel' = Broadcast(channel, v, ms)
      /\ task_list' = [task_list EXCEPT ![v] = new]
      /\ UNCHANGED <<mission, arrivals, sent>>
  BY <1>1, <1>2 DEF Finish
<1>4. CompletionOf(t) \in Messages /\ CompletionOf(t).type = "TASK_COMPLETE"
  <2>1. t.id \in Int
    BY <1>2 DEF Tasks
  <2> QED BY <2>1, CompletionIsMessage DEF CompletionOf
<1>5. ms \in Seq(Messages) /\ \A i \in 1..Len(ms) : ms[i].type = "TASK_COMPLETE"
  BY <1>4
<1>6. PartsBut(new, tl, {})
  BY <1>1, <1>2, TailDeleted, DeletedParts
<1> HIDE DEF ms, new
<1> QED BY <1>3, <1>5, <1>6, FormWorks

LEMMA FormInit == Init => FormInv
<1> SUFFICES ASSUME Init PROVE FormInv
  OBVIOUS
<1> DEFINE none == <<>>
<1>1. Len(none) = 0 /\ \A i \in 1..Len(none) : FALSE
  OBVIOUS
<1> HIDE DEF none
<1>2. /\ mission \in Missions
      /\ \A v \in Vehicles : task_list[v] = none /\ arrivals[v] = {} /\ sent[v] = 0
      /\ \A l \in Links : channel[l] = none
  BY DEF Init, none
<1>3. FollowsScript
  <2>1. ASSUME NEW u \in Vehicles
        PROVE  /\ Handled(u) \in Nat /\ sent[u] <= Len(Script[mission][u])
               /\ \A i \in 1..Len(channel[<<Operator, u>>]) : FALSE
    <3>1. channel[<<Operator, u>>] = none
      BY <1>2, LinkEnds DEF Agents
    <3>2. Script[mission][u] \in Seq(Orders)
      BY <1>2, FleetAssumption
    <3>3. Len(Script[mission][u]) \in Nat
      BY <3>2
    <3> QED BY <1>1, <1>2, <3>1, <3>3 DEF Handled
  <2> QED BY <2>1 DEF FollowsScript
<1>4. FromScript
  BY <1>1, <1>2 DEF FromScript, OnePart
<1>5. WhoIsThere
  BY <1>1, <1>2 DEF WhoIsThere
<1> QED BY <1>3, <1>4, <1>5 DEF FormInv

LEMMA FormNext == FormedOnce /\ FleetInv /\ FormInv /\ [Next]_vars => FormInv'
<1> SUFFICES ASSUME FormedOnce, FleetInv, FormInv, [Next]_vars PROVE FormInv'
  OBVIOUS
<1>1. FleetInv'
  BY NextKeeps
<1>2. CASE UNCHANGED vars
  <2>1. UNCHANGED <<mission, task_list, arrivals, channel, sent>>
    BY <1>2 DEF vars
  <2>2. FollowsScript'
    BY <2>1, ScriptStays DEF FormInv
  <2>3. \A u \in Vehicles : Handled(u) <= Handled(u)'
    <3>1. \A u \in Vehicles : Handled(u) \in Nat /\ Handled(u)' = Handled(u)
      BY <2>1, ScriptStays DEF FormInv, FollowsScript
    <3> HIDE DEF Handled
    <3> QED BY <3>1
  <2>4. ASSUME NEW u \in Vehicles
        PROVE  \E ids : /\ PartsBut(task_list'[u], task_list[u], ids)
                        /\ \A id \in ids : ~Ordered(u, id) /\ Ordered(u, id)'
    <3>1. PartsBut(task_list'[u], task_list[u], {})
      BY <2>1, PartsStay
    <3> QED BY <3>1
  <2>5. \A v \in Vehicles : \A a \in Log : a \in arrivals'[v] =>
           a.sender \in Vehicles /\ There(a.sender, a.id)
    BY <2>1 DEF FormInv, WhoIsThere
  <2>6. \A l \in Links, m \in Messages : m.type = "ARRIVE" /\ On(channel'[l], m) =>
           l[1] \in Vehicles /\ There(l[1], m.id)
    BY <2>1 DEF FormInv, WhoIsThere, On
  <2>7. FleetTypes'
    BY <1>1 DEF FleetInv
  <2> QED BY <2>1, <2>2, <2>3, <2>4, <2>5, <2>6, <2>7, FormKeeps
<1>3. ASSUME NEW v \in Vehicles, Send(v) PROVE FormInv'
  BY <1>1, <1>3, FormSend
<1>4. ASSUME NEW v \in Vehicles, NEW w \in Vehicles, Investigate(v, {w}) PROVE FormInv'
  BY <1>1, <1>4, FormInvestigate
<1>5. ASSUME NEW v \in Vehicles, Investigate(v, {}) PROVE FormInv'
  BY <1>1, <1>5, FormInvestigate
<1>6. ASSUME NEW v \in Vehicles, NEW s \in Agents, Receive(v, s) PROVE FormInv'
  BY <1>1, <1>6, FormReceive
<1>7. ASSUME NEW s \in Vehicles, OperatorHears(s) PROVE FormInv'
  <2> DEFINE k == <<s, Operator>>
  <2>1. k \in Links /\ Vehicles # {}
    BY LinkEnds DEF Agents
  <2>2. /\ channel[k] # <<>> /\ channel' = [channel EXCEPT ![k] = Tail(@)]
        /\ UNCHANGED <<mission, task_list, sent>> /\ UNCHANGED arrivals
    BY <1>7 DEF OperatorHears
  <2> HIDE DEF k
  <2>3. \A u \in Vehicles : \A a \in Log : a \in arrivals'[u] =>
           a \in arrivals[u] \/ On(channel[<<a.sender, u>>], ArriveOf(a.id))
    BY <2>2
  <2> QED BY <1>1, <2>1, <2>2, <2>3, FormHears
<1>8. ASSUME NEW v \in Vehicles, Arrive(v) PROVE FormInv'
  BY <1>1, <1>8, FormArrive
<1>9. ASSUME NEW v \in Vehicles, Finish(v) PROVE FormInv'
  BY <1>1, <1>9, FormFinish
<1> QED BY <1>2, <1>3, <1>4, <1>5, <1>6, <1>7, <1>8, <1>9 DEF Next

\* The team keeps this too, when the operator sends no vehicle two formations under
\* one id: an arrival under an id is of a vehicle that was sent the formation
\* and is in its place (publishArrival, handleFormationRequest).
THEOREM FormationsKept == ASSUME FormedOnce PROVE Spec => [](FleetInv /\ FormInv)
<1>1. Init => FleetInv /\ FormInv
  BY InitKeeps, FormInit
<1>2. FleetInv /\ FormInv /\ [Next]_vars => (FleetInv /\ FormInv)'
  BY NextKeeps, FormNext
<1> QED BY <1>1, <1>2, PTL DEF Spec

\* Nobody leaves an ALL_ARRIVED formation before everyone in it is in place: who
\* has heard all arrive, nobody has yet to receive the command or to get there
\* (task_follow.cpp, task_moveto.cpp, MissionManager::hasArrival).
THEOREM FormationsEndTogether == ASSUME FormedOnce PROVE Spec => EndsTogether
<1> DEFINE Ends(v) ==
              LET t == Head(task_list[v])
              IN  /\ task_list[v] # <<>> /\ task_list'[v] = Tail(task_list[v])
                  /\ t.formation.term = "ALL_ARRIVED" /\ UNCHANGED arrivals
                  /\ FormationDone(v, t)
                  => \A u \in t.formation.members : InPlace(u, t.id)
<1>1. ASSUME FleetInv, FormInv, NEW v \in Vehicles, NEW t, t.formation.term = "ALL_ARRIVED",
             FormationDone(v, t), NEW u \in t.formation.members
      PROVE  InPlace(u, t.id)
  <2>1. u \in Vehicles /\ There(u, t.id)
    <3>1. [sender |-> u, id |-> t.id] \in arrivals[v]
      BY <1>1 DEF FormationDone, AllArrived, HasArrival
    <3> QED BY <1>1, <3>1 DEF FormInv, WhoIsThere
  <2>2. \A i \in 1..Len(task_list[u]) :
           IsFormation(task_list[u][i]) /\ task_list[u][i].id = t.id => task_list[u][i].arrived
    BY <2>1 DEF There, AllThere, PartIn
  <2>3. ASSUME NEW i \in 1..Len(channel[<<Operator, u>>]), NEW m,
               m = channel[<<Operator, u>>][i], m.type = "FORM", m.id = t.id
        PROVE  FALSE
    <3> DEFINE q == channel[<<Operator, u>>]
               o == Script[mission][u]
               h == Handled(u)
               n == h + i
    <3>1. /\ q \in Seq(Messages) /\ sent[u] \in Nat /\ h = sent[u] - Len(q) /\ h \in Nat
          /\ sent[u] <= Len(o) /\ m = o[n].m /\ mission \in Missions
      BY <1>1, <2>1, <2>3, LinkEnds DEF FleetInv, FleetTypes, FormInv, FollowsScript, Handled, Agents
    <3>2. o \in Seq(Orders) /\ Len(o) \in Nat
      BY <2>1, <3>1, FleetAssumption
    <3>3. PICK k \in 1..h : IsOrder(u, k, t.id)
      BY <2>1 DEF There, Ordered
    <3>4. i \in 1..Len(q)
      OBVIOUS
    <3> HIDE DEF q, o, h
    <3>5. k \in 1..Len(o) /\ n \in 1..Len(o) /\ k # n
      BY <3>1, <3>2, <3>4
    <3>6. o[k].m.type = "FORM" /\ o[k].m.id = t.id
      BY <3>3 DEF IsOrder, o
    <3>7. o[n].m.type = "FORM" /\ o[n].m.id = t.id
      BY <2>3, <3>1
    <3> HIDE DEF n
    <3> QED BY <2>1, <3>1, <3>5, <3>6, <3>7 DEF FormedOnce, o
  <2> QED BY <2>2, <2>3 DEF InPlace
<1>2. FleetInv /\ FormInv => \A v \in Vehicles : Ends(v)
  BY <1>1
<1>3. FleetInv /\ FormInv => [\A v \in Vehicles : Ends(v)]_vars
  BY <1>2
<1>4. Spec => [](FleetInv /\ FormInv)
  BY FormationsKept
<1> QED BY <1>3, <1>4, PTL DEF EndsTogether
=============================================================================
