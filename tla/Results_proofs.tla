---------------------------- MODULE Results_proofs ---------------------------
(***************************************************************************)
(* The tables of results, for any numbers of events, competitors, judges   *)
(* and rows.  The memory store of the tests implements the tables: what it *)
(* saves, reads and clears are the rows of a table by its keys.  And of    *)
(* whatever scores the rows hold, the list is one run of places per event, *)
(* and the all-around list has everyone with three routines.               *)
(***************************************************************************)
EXTENDS MemoryStore, Rankings, Lists_proofs

-----------------------------------------------------------------------------
(* The memory store: what clearScores deletes.                              *)

\* The indices of the rows of rt among the first k, the later first.
Flagged(list, k, n, rt) ==
    /\ list \in Seq(1..n)
    /\ \A a, b \in 1..Len(list) : a < b => list[b] < list[a]
    /\ \A a \in 1..Len(list) : list[a] <= k /\ scores[list[a]].routine = rt
    /\ \A i \in 1..k : scores[i].routine = rt => \E a \in 1..Len(list) : list[a] = i

Flag(list, i, rt) == IF scores[i].routine = rt THEN <<i>> \o list ELSE list

\* The loop puts the index of one row more in front when it is of rt.
LEMMA FlagOne ==
    ASSUME NEW n \in Nat, NEW rt, NEW k \in 1..n, NEW list, Flagged(list, k - 1, n, rt)
    PROVE  Flagged(Flag(list, k, rt), k, n, rt)
<1>1. /\ list \in Seq(1..n) /\ Len(list) \in Nat
      /\ \A a \in 1..Len(list) : list[a] \in 1..n
  BY DEF Flagged
<1>2. CASE scores[k].routine # rt
  <2>1. Flag(list, k, rt) = list
    BY <1>2 DEF Flag
  <2>2. \A i \in 1..k : scores[i].routine = rt => i \in 1..(k - 1)
    BY <1>2
  <2>3. \A a \in 1..Len(list) : list[a] <= k
    BY <1>1 DEF Flagged
  <2> QED BY <2>1, <2>2, <2>3 DEF Flagged
<1>3. CASE scores[k].routine = rt
  <2> DEFINE one == <<k>>
             new == one \o list
             m == Len(list)
  <2>1. one \in Seq(1..n) /\ Len(one) = 1 /\ one[1] = k
    OBVIOUS
  <2> HIDE DEF one
  <2>2. /\ new \in Seq(1..n) /\ Len(new) = m + 1
        /\ \A a \in 1..(m + 1) : new[a] = IF a <= 1 THEN k ELSE list[a - 1]
    <3>1. /\ new \in Seq(1..n) /\ Len(new) = Len(one) + Len(list)
          /\ \A a \in 1..(Len(one) + Len(list)) :
                new[a] = IF a <= Len(one) THEN one[a] ELSE list[a - Len(one)]
      BY <1>1, <2>1, ConcatProperties, Zenon
    <3>2. Len(one) + Len(list) = m + 1
      BY <1>1, <2>1
    <3>3. \A a \in 1..(m + 1) : a <= 1 => a = 1
      OBVIOUS
    <3> HIDE DEF new, m
    <3> QED BY <2>1, <3>1, <3>2, <3>3
  <2> HIDE DEF new
  <2>3. \A a \in 1..m : list[a] < k /\ list[a] <= k - 1 /\ scores[list[a]].routine = rt
    BY <1>1 DEF Flagged
  <2>4. \A a, b \in 1..(m + 1) : a < b => new[b] < new[a]
    <3> SUFFICES ASSUME NEW a \in 1..(m + 1), NEW b \in 1..(m + 1), a < b PROVE new[b] < new[a]
      OBVIOUS
    <3>1. b - 1 \in 1..m /\ ~(b <= 1) /\ new[b] = list[b - 1]
      BY <1>1, <2>2
    <3>2. CASE a <= 1
      BY <2>2, <2>3, <3>1, <3>2
    <3>3. CASE ~(a <= 1)
      <4>1. a - 1 \in 1..m /\ a - 1 < b - 1 /\ new[a] = list[a - 1]
        BY <1>1, <2>2, <3>3
      <4> QED BY <3>1, <4>1 DEF Flagged
    <3> QED BY <3>2, <3>3
  <2>5. \A a \in 1..(m + 1) : new[a] <= k /\ scores[new[a]].routine = rt
    <3> SUFFICES ASSUME NEW a \in 1..(m + 1) PROVE new[a] <= k /\ scores[new[a]].routine = rt
      OBVIOUS
    <3>1. CASE a <= 1
      BY <1>3, <2>2, <3>1
    <3>2. CASE ~(a <= 1)
      <4>1. a - 1 \in 1..m /\ new[a] = list[a - 1]
        BY <1>1, <2>2, <3>2
      <4> QED BY <1>1, <2>3, <4>1
    <3> QED BY <3>1, <3>2
  <2>6. ASSUME NEW i \in 1..k, scores[i].routine = rt PROVE \E a \in 1..(m + 1) : new[a] = i
    <3>1. CASE i = k
      <4>1. 1 \in 1..(m + 1) /\ new[1] = i
        BY <1>1, <2>2, <3>1
      <4> QED BY <4>1
    <3>2. CASE i # k
      <4>1. i \in 1..(k - 1)
        BY <3>2
      <4>2. PICK a \in 1..m : list[a] = i
        BY <2>6, <4>1 DEF Flagged
      <4>3. a + 1 \in 1..(m + 1) /\ ~(a + 1 <= 1) /\ (a + 1) - 1 = a
        BY <1>1
      <4>4. new[a + 1] = i
        BY <2>2, <4>2, <4>3
      <4> QED BY <4>3, <4>4
    <3> QED BY <3>1, <3>2
  <2>7. Flag(list, k, rt) = new
    BY <1>3 DEF Flag, new, one
  <2> QED BY <2>2, <2>4, <2>5, <2>6, <2>7 DEF Flagged
<1> QED BY <1>2, <1>3

\* The loop flags every row of the routine.
LEMMA AllFlagged ==
    ASSUME NEW n \in Nat, DOMAIN scores = 1..n, NEW rt
    PROVE  Flagged(ToDelete(rt), n, n, rt)
<1> DEFINE A == Seq(1..n)
           idx == [i \in DOMAIN scores |-> i]
           body(g) == [t \in SUBSET (1..n) |-> IF t = {} THEN <<>> ELSE Flag(g[t \ {Max(t)}], idx[Max(t)], rt)]
           it == CHOOSE g : g = body(g)
           F == [p \in A \X (1..n) |-> Flag(p[1], p[2], rt)]
<1>1. DOMAIN idx = 1..n /\ \A k \in 1..n : idx[k] = k
  OBVIOUS
<1>2. ToDelete(rt) = it[1..n]
  <2>1. ToDelete(rt) = (CHOOSE g : g = [t \in SUBSET (DOMAIN idx) |-> IF t = {} THEN <<>>
             ELSE IF scores[idx[Max(t)]].routine = rt THEN <<idx[Max(t)]>> \o g[t \ {Max(t)}]
                  ELSE g[t \ {Max(t)}]])[DOMAIN idx]
    BY DEF ToDelete, FoldLeftDomain, FoldLeft, MapThenFoldSet
  <2> HIDE DEF idx
  <2> QED BY <1>1, <2>1 DEF Flag
<1> HIDE DEF idx
<1>3. <<>> \in A
  OBVIOUS
<1>4. F \in [A \X (1..n) -> A]
  <2>1. ASSUME NEW list \in A, NEW i \in 1..n PROVE Flag(list, i, rt) \in A
    <3>1. <<i>> \in Seq(1..n)
      OBVIOUS
    <3>2. <<i>> \o list \in Seq(1..n)
      BY <3>1, ConcatProperties
    <3> QED BY <3>2 DEF Flag
  <2> HIDE DEF A
  <2> QED BY <2>1
<1> HIDE DEF A
<1>5. PICK g : FoldsTo(g, n, A, <<>>, F)
  <2> HIDE DEF F
  <2> QED BY <1>3, <1>4, FoldExists
<1>6. g = body(g)
  <2>1. ASSUME NEW t \in SUBSET (1..n), t # {}
        PROVE  F[<<g[t \ {Max(t)}], Max(t)>>] = Flag(g[t \ {Max(t)}], idx[Max(t)], rt)
    <3>1. Max(t) \in 1..n
      BY <2>1, MaxIsMember
    <3>2. g[t \ {Max(t)}] \in A
      BY <1>5, <2>1 DEF FoldsTo
    <3> QED BY <1>1, <3>1, <3>2
  <2> HIDE DEF F
  <2> QED BY <1>5, <2>1 DEF FoldsTo
<1>7. it = body(it)
  <2> HIDE DEF body
  <2> QED BY <1>6
<1> HIDE DEF it, F
<1>8. it[1..0] = <<>>
  <2>1. 1..0 = {}
    OBVIOUS
  <2> QED BY <1>7, <2>1
<1>9. ASSUME NEW k \in 1..n PROVE it[1..k] = Flag(it[1..(k - 1)], k, rt)
  <2>1. /\ 1..k \in SUBSET (1..n) /\ 1..k # {}
        /\ Max(1..k) = k /\ (1..k) \ {k} = 1..(k - 1)
    BY FirstOnes
  <2>2. it[1..k] = body(it)[1..k]
    BY <1>7
  <2> QED BY <1>1, <2>1, <2>2
<1> DEFINE S == {k \in 0..n : Flagged(it[1..k], k, n, rt)}
<1>10. 0 \in S
  <2>1. <<>> \in Seq(1..n) /\ Len(<<>>) = 0 /\ 1..0 = {} /\ 0 \in 0..n
    OBVIOUS
  <2> QED BY <1>8, <2>1 DEF Flagged
<1>11. ASSUME NEW k \in 0..(n - 1), k \in S PROVE k + 1 \in S
  <2> DEFINE m == k + 1
             list == it[1..k]
  <2>1. m \in 1..n /\ m \in 0..n /\ m - 1 = k
    OBVIOUS
  <2>2. Flagged(list, m - 1, n, rt)
    BY <1>11, <2>1
  <2> HIDE DEF m
  <2>3. it[1..m] = Flag(list, m, rt)
    BY <1>9, <2>1
  <2> HIDE DEF list
  <2>4. Flagged(it[1..m], m, n, rt)
    BY <2>1, <2>2, <2>3, FlagOne
  <2> QED BY <2>1, <2>4 DEF m
<1>12. n \in S
  <2>1. n \in 0..n
    OBVIOUS
  <2> HIDE DEF S
  <2> QED BY <1>10, <1>11, <2>1, CountingUp
<1> QED BY <1>2, <1>12

\* Deleted so far: the last k indices of the list, the last of them b.
Cleared(rows, b, rt) ==
    /\ rows \in Seq(StoredRow) /\ b - 1 <= Len(rows)
    /\ \A i \in 1..(b - 1) : rows[i] = scores[i]
    /\ \A i \in b..Len(rows) : rows[i].routine # rt
    /\ \A x \in StoredRow : x.routine # rt =>
          Cardinality(Held(rows, x)) = Cardinality(Held(scores, x))

\* Deleting a row of the routine before those deleted so far.
LEMMA ClearOne ==
    ASSUME scores \in Seq(StoredRow), NEW rt, NEW rows, NEW b \in 1..(Len(scores) + 1), Cleared(rows, b, rt),
           NEW d \in 1..(b - 1), scores[d].routine = rt,
           \A i \in (d + 1)..(b - 1) : scores[i].routine # rt
    PROVE  Cleared(RemoveAt(rows, d), d, rt)
<1> DEFINE n == Len(rows)
           new == RemoveAt(rows, d)
<1>1. rows \in Seq(StoredRow) /\ n \in Nat /\ b - 1 <= n /\ Len(scores) \in Nat /\ b \in Nat /\ d \in Nat
  BY DEF Cleared
<1>2. d \in 1..n
  BY <1>1
<1>3. /\ new \in Seq(StoredRow) /\ Len(new) = n - 1
      /\ \A k \in 1..(n - 1) : new[k] = IF k < d THEN rows[k] ELSE rows[k + 1]
  BY <1>1, <1>2, RowRemoved
<1>4. \A x \in StoredRow : x.routine # rt => Cardinality(Held(new, x)) = Cardinality(Held(rows, x))
  <2>1. rows[d] = scores[d]
    BY DEF Cleared
  <2>2. ASSUME NEW x \in StoredRow, x.routine # rt PROVE rows[d] # x
    BY <2>1, <2>2
  <2> QED BY <1>1, <1>2, <2>2, HeldAsOften
<1> HIDE DEF new, n
<1>5. ASSUME NEW i \in 1..(d - 1) PROVE new[i] = scores[i]
  <2>1. i \in 1..(n - 1) /\ i < d /\ i \in 1..(b - 1)
    BY <1>1, <1>2
  <2> QED BY <1>3, <2>1 DEF Cleared
<1>6. ASSUME NEW i \in d..(n - 1) PROVE new[i].routine # rt
  <2>1. i \in 1..(n - 1) /\ ~(i < d) /\ i + 1 \in 1..n
    BY <1>1, <1>2
  <2>2. new[i] = rows[i + 1]
    BY <1>3, <2>1
  <2>3. CASE i + 1 >= b
    <3>1. i + 1 \in b..n
      BY <1>1, <2>1, <2>3
    <3> QED BY <2>2, <3>1 DEF Cleared, n
  <2>4. CASE i + 1 < b
    <3>1. i + 1 \in 1..(b - 1) /\ i + 1 \in (d + 1)..(b - 1)
      BY <1>1, <2>1, <2>4
    <3>2. rows[i + 1] = scores[i + 1]
      BY <3>1 DEF Cleared
    <3> QED BY <2>2, <3>1, <3>2
  <2> QED BY <1>1, <2>1, <2>3, <2>4
<1>7. d - 1 <= Len(new)
  BY <1>1, <1>2, <1>3
<1>8. \A x \in StoredRow : x.routine # rt => Cardinality(Held(new, x)) = Cardinality(Held(scores, x))
  BY <1>4 DEF Cleared
<1> QED BY <1>3, <1>5, <1>6, <1>7, <1>8 DEF Cleared, new

\* The function that the fold over the flagged indices picks exists.
Removes(g, n, list, D) ==
    g = [t \in SUBSET (1..n) |-> IF t = {} THEN list ELSE RemoveAt(g[t \ {Max(t)}], D[Max(t)])]

\* It exists for any list and any indices.
LEMMA RemovalExists ==
    ASSUME NEW n \in Nat, NEW list, NEW D PROVE \E g : Removes(g, n, list, D)
<1> DEFINE S == {m \in 0..n : \E g : Removes(g, m, list, D)}
<1>1. 0 \in S
  <2> DEFINE g == [t \in SUBSET (1..0) |-> list]
  <2>1. SUBSET (1..0) = {{}} /\ 0 \in 0..n
    OBVIOUS
  <2>2. Removes(g, 0, list, D)
    BY <2>1 DEF Removes
  <2> QED BY <2>1, <2>2
<1>2. ASSUME NEW m \in 0..(n - 1), m \in S PROVE m + 1 \in S
  <2>1. PICK g : Removes(g, m, list, D)
    BY <1>2
  <2> DEFINE k == m + 1
             h == [t \in SUBSET (1..k) |-> IF k \in t THEN RemoveAt(g[t \ {k}], D[k]) ELSE g[t]]
  <2>2. m \in Nat /\ k \in 0..n /\ 1..k = (1..m) \cup {k} /\ k \notin 1..m
    OBVIOUS
  <2>3. ASSUME NEW t \in SUBSET (1..k)
        PROVE  h[t] = IF t = {} THEN list ELSE RemoveAt(h[t \ {Max(t)}], D[Max(t)])
    <3>1. CASE k \in t
      <4>1. Max(t) = k
        BY <2>2, <3>1, LastIsMax
      <4>2. h[t \ {k}] = g[t \ {k}]
        BY <2>2
      <4>3. h[t] = RemoveAt(g[t \ {k}], D[k])
        BY <3>1
      <4> HIDE DEF h, k
      <4> QED BY <3>1, <4>1, <4>2, <4>3
    <3>2. CASE k \notin t
      <4>1. t \in SUBSET (1..m)
        BY <2>2, <3>2
      <4>2. g[t] = IF t = {} THEN list ELSE RemoveAt(g[t \ {Max(t)}], D[Max(t)])
        BY <2>1, <4>1 DEF Removes
      <4>3. h[t] = g[t] /\ h[t \ {Max(t)}] = g[t \ {Max(t)}]
        BY <3>2, <4>1, <2>2
      <4> HIDE DEF h, k
      <4> QED BY <4>2, <4>3
    <3> QED BY <3>1, <3>2
  <2>4. Removes(h, k, list, D)
    <3>1. h = [t \in SUBSET (1..k) |-> h[t]]
      OBVIOUS
    <3> HIDE DEF h
    <3> QED BY <2>3, <3>1 DEF Removes
  <2> QED BY <2>2, <2>4
<1>3. n \in S
  <2>1. n \in 0..n
    OBVIOUS
  <2> HIDE DEF S
  <2> QED BY <1>1, <1>2, <2>1, CountingUp
<1> QED BY <1>3

\* What is left: no row of the routine, and those of others as often as before.
LEMMA ClearedAll ==
    ASSUME scores \in Seq(StoredRow), NEW rt
    PROVE  LET left == FoldLeft(RemoveAt, scores, ToDelete(rt))
           IN  /\ left \in Seq(StoredRow)
               /\ \A x \in StoredRow :
                     Cardinality(Held(left, x)) = IF x.routine = rt THEN 0 ELSE Cardinality(Held(scores, x))
<1> DEFINE N == Len(scores)
           D == ToDelete(rt)
           n == Len(D)
           it == CHOOSE g : Removes(g, n, scores, D)
           left == FoldLeft(RemoveAt, scores, D)
           bound == [k \in 0..n |-> IF k = 0 THEN N + 1 ELSE D[k]]
<1>1. N \in Nat /\ DOMAIN scores = 1..N
  OBVIOUS
<1>2. Flagged(D, N, N, rt)
  BY <1>1, AllFlagged
<1> HIDE DEF D, N
<1>3. D \in Seq(1..N) /\ n \in Nat /\ DOMAIN D = 1..n /\ \A k \in 1..n : D[k] \in 1..N
  <2>1. D \in Seq(1..N)
    BY <1>2 DEF Flagged
  <2>2. \A T : D \in Seq(T) => Len(D) \in Nat /\ DOMAIN D = 1..Len(D) /\ \A k \in 1..Len(D) : D[k] \in T
    OBVIOUS
  <2> QED BY <2>1, <2>2
<1>4. left = it[1..n]
  BY <1>3 DEF FoldLeft, MapThenFoldSet, Removes
<1>5. Removes(it, n, scores, D)
  BY <1>3, RemovalExists
<1> HIDE DEF it
<1>6. it[1..0] = scores
  <2>1. 1..0 = {} /\ {} \in SUBSET (1..n)
    OBVIOUS
  <2> QED BY <1>5, <2>1 DEF Removes
<1>7. ASSUME NEW k \in 1..n PROVE it[1..k] = RemoveAt(it[1..(k - 1)], D[k])
  <2>1. /\ 1..k \in SUBSET (1..n) /\ 1..k # {}
        /\ Max(1..k) = k /\ (1..k) \ {k} = 1..(k - 1)
    BY <1>3, FirstOnes
  <2> QED BY <1>5, <2>1 DEF Removes
<1>8. \A k \in 0..n : bound[k] \in 1..(N + 1)
  BY <1>1, <1>3
<1>9. bound[0] = N + 1 /\ \A k \in 1..n : bound[k] = D[k]
  BY <1>3
<1> HIDE DEF bound, n
<1>10. ASSUME NEW k \in 1..n
       PROVE  /\ D[k] \in 1..(bound[k - 1] - 1) /\ scores[D[k]].routine = rt
              /\ \A i \in (D[k] + 1)..(bound[k - 1] - 1) : scores[i].routine # rt
  <2>1. k - 1 \in 0..n /\ (k = 1 \/ k - 1 \in 1..n)
    BY <1>3
  <2>2. D[k] \in 1..N /\ scores[D[k]].routine = rt /\ bound[k - 1] \in 1..(N + 1)
    BY <1>2, <1>3, <1>8, <2>1 DEF Flagged, n
  <2>3. D[k] < bound[k - 1]
    <3>1. CASE k = 1
      BY <1>1, <1>9, <2>2, <3>1
    <3>2. CASE k - 1 \in 1..n
      BY <1>2, <1>9, <3>2 DEF Flagged, n
    <3> QED BY <2>1, <3>1, <3>2
  <2>4. ASSUME NEW i \in (D[k] + 1)..(bound[k - 1] - 1), scores[i].routine = rt PROVE FALSE
    <3>1. i \in 1..N
      BY <1>1, <2>2, <2>4
    <3>2. PICK a \in 1..n : D[a] = i
      BY <1>2, <2>4, <3>1 DEF Flagged, n
    <3>3. D[k] < D[a]
      BY <2>2, <3>2
    <3>4. a < k
      <4>1. a # k /\ ~(k < a)
        BY <1>2, <1>3, <3>2, <3>3 DEF Flagged, n
      <4> QED BY <4>1, <1>3
    <3>5. k - 1 \in 1..n /\ (a = k - 1 \/ a < k - 1)
      BY <1>3, <3>4
    <3>6. D[k - 1] <= D[a]
      BY <1>2, <1>3, <3>5 DEF Flagged, n
    <3> QED BY <1>3, <1>9, <2>4, <3>2, <3>5, <3>6
  <2> QED BY <2>2, <2>3, <2>4
<1> DEFINE S == {k \in 0..n : Cleared(it[1..k], bound[k], rt)}
<1>11. 0 \in S
  <2>1. (N + 1) - 1 = N /\ \A i \in (N + 1)..N : FALSE
    BY <1>1
  <2>2. Cleared(scores, N + 1, rt)
    BY <1>1, <2>1 DEF Cleared, N
  <2>3. 0 \in 0..n
    BY <1>3
  <2> QED BY <1>6, <1>9, <2>2, <2>3
<1>12. ASSUME NEW k \in 0..(n - 1), k \in S PROVE k + 1 \in S
  <2> DEFINE m == k + 1
             rows == it[1..k]
             b == bound[k]
             d == D[m]
  <2>1. m \in 1..n /\ m \in 0..n /\ m - 1 = k
    BY <1>3
  <2>2. Cleared(rows, b, rt) /\ b \in 1..(Len(scores) + 1)
    BY <1>8, <1>12 DEF N
  <2> HIDE DEF m
  <2>3. it[1..m] = RemoveAt(rows, d) /\ bound[m] = d
    BY <1>7, <1>9, <2>1
  <2>4. d \in 1..(b - 1) /\ scores[d].routine = rt /\ \A i \in (d + 1)..(b - 1) : scores[i].routine # rt
    BY <1>10, <2>1
  <2> HIDE DEF rows, b, d
  <2>5. Cleared(RemoveAt(rows, d), d, rt)
    BY <2>2, <2>4, ClearOne
  <2> QED BY <2>1, <2>3, <2>5 DEF m
<1>13. Cleared(left, bound[n], rt)
  <2>1. n \in 0..n
    BY <1>3
  <2> HIDE DEF S
  <2>2. n \in S
    BY <1>3, <1>11, <1>12, <2>1, CountingUp
  <2> QED BY <1>4, <2>2 DEF S
<1>14. ASSUME NEW i \in 1..Len(left) PROVE left[i].routine # rt
  <2>1. n \in 0..n /\ (n = 0 \/ n \in 1..n)
    BY <1>3
  <2>2. bound[n] \in 1..(N + 1)
    BY <1>8, <2>1
  <2>3. CASE i >= bound[n]
    <3>1. i \in bound[n]..Len(left)
      BY <2>2, <2>3
    <3> QED BY <1>13, <3>1 DEF Cleared
  <2>4. CASE i < bound[n]
    <3>1. i \in 1..(bound[n] - 1) /\ i \in 1..N
      BY <1>1, <2>2, <2>4
    <3>2. left[i] = scores[i]
      BY <1>13, <3>1 DEF Cleared
    <3>3. ASSUME scores[i].routine = rt PROVE FALSE
      <4>1. PICK a \in 1..n : D[a] = i
        BY <1>2, <3>1, <3>3 DEF Flagged, n
      <4>2. n \in 1..n /\ (a = n \/ a < n)
        BY <1>3
      <4>3. D[n] <= D[a]
        <5>1. D[n] \in 1..N /\ D[a] \in 1..N
          BY <1>3, <4>2
        <5>2. a < n => D[n] < D[a]
          BY <1>2, <4>2 DEF Flagged, n
        <5> QED BY <1>1, <4>2, <5>1, <5>2
      <4> QED BY <1>3, <1>9, <2>4, <4>1, <4>2, <4>3
    <3> QED BY <3>2, <3>3
  <2> QED BY <1>1, <2>2, <2>3, <2>4
<1>15. ASSUME NEW x \in StoredRow, x.routine = rt PROVE Cardinality(Held(left, x)) = 0
  <2>1. left \in Seq(StoredRow)
    BY <1>13 DEF Cleared
  <2>2. DOMAIN left = 1..Len(left)
    BY <2>1
  <2> HIDE DEF left
  <2>3. Held(left, x) = {}
    BY <1>14, <1>15, <2>2 DEF Held
  <2> QED BY <2>3, FS_EmptySet
<1> QED BY <1>13, <1>15 DEF Cleared, D

-----------------------------------------------------------------------------
(* The memory store implements the tables.                                  *)

StoredMark == [id : MarkIds, row : StoredRow]

\* The slices hold rows, and no two marks have the same id.
StoreInv ==
    /\ scores \in Seq(StoredRow) /\ adjustments \in Seq(StoredRow)
    /\ storedMarks \in Seq(StoredMark)
    /\ \A i, j \in DOMAIN storedMarks : storedMarks[i].id = storedMarks[j].id => i = j

\* A row more in a slice is a row more in the table.
LEMMA CountedOnceMore ==
    ASSUME NEW list \in Seq(StoredRow), NEW row \in StoredRow
    PROVE  Counted(Append(list, row)) = [Counted(list) EXCEPT ![row] = @ + 1]
<1>1. \A r \in StoredRow : Cardinality(Held(Append(list, row), r))
          = IF r = row THEN Cardinality(Held(list, r)) + 1 ELSE Cardinality(Held(list, r))
  BY HeldOnceMore
<1>2. \A any : Counted(any) = [r \in StoredRow |-> Cardinality(Held(any, r))]
  BY DEF Counted, Held
<1>3. Counted(Append(list, row)) = [r \in StoredRow |-> Cardinality(Held(Append(list, row), r))]
  BY <1>2
<1>4. Counted(list) = [r \in StoredRow |-> Cardinality(Held(list, r))]
  BY <1>2
<1> QED BY <1>1, <1>3, <1>4

\* clearScores is the DELETE of the routine's rows.
LEMMA CountedCleared ==
    ASSUME StoreInv, NEW rt
    PROVE  LET left == FoldLeft(RemoveAt, scores, ToDelete(rt))
           IN  /\ left \in Seq(StoredRow)
               /\ Counted(left) = [r \in StoredRow |-> IF r.routine = rt THEN 0 ELSE Counted(scores)[r]]
<1> DEFINE left == FoldLeft(RemoveAt, scores, ToDelete(rt))
<1>1. /\ left \in Seq(StoredRow)
      /\ \A x \in StoredRow :
            Cardinality(Held(left, x)) = IF x.routine = rt THEN 0 ELSE Cardinality(Held(scores, x))
  BY ClearedAll DEF StoreInv
<1> HIDE DEF left
<1>2. Counted(left) = [r \in StoredRow |-> Cardinality(Held(left, r))]
  BY DEF Counted, Held
<1>3. Counted(scores) = [r \in StoredRow |-> Cardinality(Held(scores, r))]
  BY DEF Counted, Held
<1> QED BY <1>1, <1>2, <1>3 DEF left

\* What one mark less leaves.
LEMMA MarkRemoved ==
    ASSUME StoreInv, NEW id, RemoveMarkById(id)
    PROVE  StoreInv' /\ ToSet(storedMarks') = {d \in ToSet(storedMarks) : d.id # id}
<1> DEFINE n == Len(storedMarks)
<1>1. n \in Nat /\ DOMAIN storedMarks = 1..n /\ \A i \in 1..n : storedMarks[i] \in StoredMark
  BY DEF StoreInv
<1>2. UNCHANGED <<scores, adjustments>>
  BY DEF RemoveMarkById
<1>3. CASE ~\E i \in DOMAIN storedMarks : storedMarks[i].id = id
  <2>1. storedMarks' = storedMarks
    BY <1>3 DEF RemoveMarkById
  <2> QED BY <1>2, <1>3, <2>1 DEF StoreInv, ToSet
<1>4. CASE \E i \in DOMAIN storedMarks : storedMarks[i].id = id
  <2>1. PICK i \in 1..n : storedMarks[i].id = id
    BY <1>1, <1>4
  <2>2. \A k \in 1..n : storedMarks[k].id = id => k = i
    BY <1>1, <2>1 DEF StoreInv
  <2>3. {k \in 1..n : storedMarks[k].id = id} = {i}
    BY <2>1, <2>2
  <2>4. storedMarks' = RemoveAt(storedMarks, i)
    <3>1. storedMarks' = RemoveAt(storedMarks,
              IF {k \in 1..n : storedMarks[k].id = id} # {}
              THEN Min({k \in 1..n : storedMarks[k].id = id}) ELSE 0)
      BY <1>4 DEF RemoveMarkById, SelectInSeq
    <3>2. Min({i}) = i
      BY <1>1 DEF Min
    <3> QED BY <2>3, <3>1, <3>2
  <2>5. /\ storedMarks' \in Seq(StoredMark) /\ Len(storedMarks') = n - 1
        /\ \A k \in 1..(n - 1) : storedMarks'[k] = IF k < i THEN storedMarks[k] ELSE storedMarks[k + 1]
    BY <2>4, RowRemoved DEF StoreInv
  <2>6. DOMAIN storedMarks' = 1..(n - 1)
    BY <2>5
  <2> HIDE DEF n
  <2>7. ASSUME NEW k \in 1..(n - 1)
        PROVE  \E l \in 1..n : l # i /\ storedMarks'[k] = storedMarks[l] /\ l = IF k < i THEN k ELSE k + 1
    <3>1. k \in 1..n /\ k + 1 \in 1..n
      BY <1>1
    <3> QED BY <1>1, <2>5, <3>1
  <2>8. ASSUME NEW l \in 1..n, l # i PROVE \E k \in 1..(n - 1) : storedMarks'[k] = storedMarks[l]
    <3>1. CASE l < i
      <4>1. l \in 1..(n - 1)
        BY <1>1, <3>1
      <4> QED BY <2>5, <3>1, <4>1
    <3>2. CASE l > i
      <4>1. l - 1 \in 1..(n - 1) /\ ~(l - 1 < i) /\ (l - 1) + 1 = l
        BY <1>1, <3>2
      <4> QED BY <2>5, <4>1
    <3> QED BY <1>1, <2>8, <3>1, <3>2
  <2>9. \A k, l \in 1..(n - 1) : storedMarks'[k].id = storedMarks'[l].id => k = l
    <3> SUFFICES ASSUME NEW k \in 1..(n - 1), NEW l \in 1..(n - 1),
                        storedMarks'[k].id = storedMarks'[l].id
                 PROVE  k = l
      OBVIOUS
    <3>1. PICK a \in 1..n : storedMarks'[k] = storedMarks[a] /\ a = IF k < i THEN k ELSE k + 1
      BY <2>7
    <3>2. PICK b \in 1..n : storedMarks'[l] = storedMarks[b] /\ b = IF l < i THEN l ELSE l + 1
      BY <2>7
    <3>3. a = b
      BY <1>1, <3>1, <3>2 DEF StoreInv
    <3> QED BY <1>1, <3>1, <3>2, <3>3
  <2>10. ToSet(storedMarks') = {d \in ToSet(storedMarks) : d.id # id}
    <3>1. ASSUME NEW d \in ToSet(storedMarks') PROVE d \in ToSet(storedMarks) /\ d.id # id
      BY <1>1, <2>2, <2>6, <2>7 DEF ToSet
    <3>2. ASSUME NEW d \in ToSet(storedMarks), d.id # id PROVE d \in ToSet(storedMarks')
      BY <1>1, <2>1, <2>6, <2>8, <3>2 DEF ToSet
    <3> QED BY <3>1, <3>2
  <2> QED BY <1>2, <2>5, <2>6, <2>9, <2>10 DEF StoreInv
<1> QED BY <1>3, <1>4

\* A changed mark keeps its id.
LEMMA MarkChanged ==
    ASSUME StoreInv, NEW id, NEW code \in StoreValues, UpdateMark(id, code)
    PROVE  /\ StoreInv'
           /\ ToSet(storedMarks') = {IF d.id = id THEN [d EXCEPT !.row.value = code] ELSE d :
                                        d \in ToSet(storedMarks)}
<1> DEFINE changed(d) == IF d.id = id THEN [d EXCEPT !.row.value = code] ELSE d
           n == Len(storedMarks)
<1>1. /\ n \in Nat /\ DOMAIN storedMarks = 1..n /\ \A i \in 1..n : storedMarks[i] \in StoredMark
      /\ UNCHANGED <<scores, adjustments>>
  BY DEF StoreInv, UpdateMark
<1>2. storedMarks' = [i \in 1..n |-> changed(storedMarks[i])]
  BY <1>1 DEF UpdateMark
<1>3. ASSUME NEW d \in StoredMark PROVE changed(d) \in StoredMark /\ changed(d).id = d.id
  BY DEF StoredMark, StoredRow
<1> HIDE DEF n, changed
<1>4. storedMarks' \in Seq(StoredMark) /\ DOMAIN storedMarks' = 1..n
  BY <1>1, <1>2, <1>3
<1>5. \A i \in 1..n : storedMarks'[i].id = storedMarks[i].id
  BY <1>1, <1>2, <1>3
<1>6. ToSet(storedMarks') = {changed(d) : d \in ToSet(storedMarks)}
  BY <1>1, <1>2 DEF ToSet
<1>7. StoreInv'
  BY <1>1, <1>4, <1>5 DEF StoreInv
<1> QED BY <1>6, <1>7 DEF changed

\* A mark more.
LEMMA MarkSaved ==
    ASSUME StoreInv, NEW id \in MarkIds, NEW row \in StoredRow, SaveMark(id, row)
    PROVE  /\ StoreInv' /\ \A d \in ToSet(storedMarks) : d.id # id
           /\ ToSet(storedMarks') = ToSet(storedMarks) \cup {[id |-> id, row |-> row]}
<1> DEFINE n == Len(storedMarks)
           d == [id |-> id, row |-> row]
<1>1. n \in Nat /\ DOMAIN storedMarks = 1..n /\ UNCHANGED <<scores, adjustments>>
  BY DEF StoreInv, SaveMark
<1>2. d \in StoredMark /\ d.id = id
  BY DEF StoredMark
<1> HIDE DEF d
<1>3. storedMarks' = Append(storedMarks, d) /\ \A i \in 1..n : storedMarks[i].id # id
  BY <1>1 DEF SaveMark, d
<1>4. /\ storedMarks' \in Seq(StoredMark) /\ Len(storedMarks') = n + 1
      /\ \A i \in 1..n : storedMarks'[i] = storedMarks[i]
      /\ storedMarks'[n + 1] = d
  BY <1>2, <1>3, AppendProperties DEF StoreInv
<1>5. DOMAIN storedMarks' = 1..(n + 1) /\ 1..(n + 1) = 1..n \cup {n + 1}
  BY <1>1, <1>4
<1> HIDE DEF n
<1>6. StoreInv'
  BY <1>1, <1>2, <1>3, <1>4, <1>5 DEF StoreInv
<1>7. ToSet(storedMarks') = ToSet(storedMarks) \cup {d}
  BY <1>1, <1>4, <1>5 DEF ToSet
<1>8. \A e \in ToSet(storedMarks) : e.id # id
  BY <1>1, <1>3 DEF ToSet
<1> QED BY <1>6, <1>7, <1>8 DEF d

Nandus == [rt \in StoreRoutines |-> [j \in StoreJudges |-> NanduOf(rt, j)]]

\* The last result of a judge is what the maps give.
LEMMA NanduSaved ==
    ASSUME NEW row \in StoredRow, SaveNandu(row)
    PROVE  Nandus' = [Nandus EXCEPT ![row.routine][row.judge] = row.value]
<1> DEFINE nr == IF row.routine \in DOMAIN nanduresults THEN nanduresults[row.routine] ELSE [j \in {} |-> Unset]
           judged == [j \in DOMAIN nr \cup {row.judge} |-> IF j = row.judge THEN row.value ELSE nr[j]]
<1>1. nanduresults' = [rt \in DOMAIN nanduresults \cup {row.routine} |->
                           IF rt = row.routine THEN judged ELSE nanduresults[rt]]
  BY DEF SaveNandu
<1>2. row.routine \in StoreRoutines /\ row.judge \in StoreJudges
  BY DEF StoredRow
<1>3. ASSUME NEW rt \in StoreRoutines, NEW j \in StoreJudges
      PROVE  NanduOf(rt, j)' = IF rt = row.routine /\ j = row.judge THEN row.value ELSE NanduOf(rt, j)
  <2>1. CASE rt # row.routine
    BY <1>1, <2>1 DEF NanduOf
  <2>2. CASE rt = row.routine
    <3>1. rt \in DOMAIN nanduresults' /\ nanduresults'[rt] = judged
      BY <1>1, <2>2
    <3>2. j \in DOMAIN judged <=> j \in DOMAIN nr \/ j = row.judge
      OBVIOUS
    <3>3. j \in DOMAIN judged => judged[j] = IF j = row.judge THEN row.value ELSE nr[j]
      OBVIOUS
    <3>4. NanduOf(rt, j) = IF j \in DOMAIN nr THEN nr[j] ELSE Unset
      BY <2>2 DEF NanduOf
    <3> HIDE DEF nr, judged
    <3>5. NanduOf(rt, j)' = IF j \in DOMAIN judged THEN judged[j] ELSE Unset
      BY <3>1 DEF NanduOf
    <3> QED BY <2>2, <3>2, <3>3, <3>4, <3>5
  <2> QED BY <2>1, <2>2
<1>4. Nandus' = [rt \in StoreRoutines |-> [j \in StoreJudges |-> NanduOf(rt, j)']]
  BY DEF Nandus
<1> QED BY <1>2, <1>3, <1>4 DEF Nandus

\* Every step of the store keeps the invariant and is one of the tables.
LEMMA StoreStep ==
    ASSUME StoreInv, StoreNext PROVE StoreInv' /\ Db!TablesNext
<1>0. Db!StoreRow = StoredRow
  BY DEF Db!StoreRow, StoredRow
<1>1. ASSUME NEW row \in StoredRow, saveScore(row) PROVE StoreInv' /\ Db!InsertScore(row)
  <2>1. scores' = Append(scores, row) /\ UNCHANGED <<adjustments, storedMarks, nanduresults, finalScores>>
    BY <1>1 DEF saveScore
  <2>2. Counted(scores') = [Counted(scores) EXCEPT ![row] = @ + 1]
    BY <2>1, CountedOnceMore DEF StoreInv
  <2>3. scores' \in Seq(StoredRow)
    BY <2>1, AppendProperties DEF StoreInv
  <2> QED BY <2>1, <2>2, <2>3 DEF StoreInv, Db!InsertScore, Counted, NanduOf
<1>2. ASSUME NEW row \in StoredRow, SaveAdjustment(row) PROVE StoreInv' /\ Db!InsertAdjustment(row)
  <2>1. adjustments' = Append(adjustments, row) /\ UNCHANGED <<scores, storedMarks, nanduresults, finalScores>>
    BY <1>2 DEF SaveAdjustment
  <2>2. Counted(adjustments') = [Counted(adjustments) EXCEPT ![row] = @ + 1]
    BY <2>1, CountedOnceMore DEF StoreInv
  <2>3. adjustments' \in Seq(StoredRow)
    BY <2>1, AppendProperties DEF StoreInv
  <2> QED BY <2>1, <2>2, <2>3 DEF StoreInv, Db!InsertAdjustment, Counted, NanduOf
<1>3. ASSUME NEW row \in StoredRow, SaveNandu(row) PROVE StoreInv' /\ Db!InsertNandu(row)
  <2>1. UNCHANGED <<scores, adjustments, storedMarks, finalScores>>
    BY <1>3 DEF SaveNandu
  <2>2. Nandus' = [Nandus EXCEPT ![row.routine][row.judge] = row.value]
    BY <1>3, NanduSaved
  <2> QED BY <2>1, <2>2 DEF StoreInv, Db!InsertNandu, Counted, Nandus
<1>4. ASSUME NEW rt \in StoreRoutines, clearScores(rt) PROVE StoreInv' /\ Db!DeleteScores(rt)
  <2>1. /\ scores' = FoldLeft(RemoveAt, scores, ToDelete(rt))
        /\ UNCHANGED <<adjustments, storedMarks, nanduresults, finalScores>>
    BY <1>4 DEF clearScores
  <2>2. /\ scores' \in Seq(StoredRow)
        /\ Counted(scores') = [r \in StoredRow |-> IF r.routine = rt THEN 0 ELSE Counted(scores)[r]]
    BY <2>1, CountedCleared
  <2> QED BY <1>0, <2>1, <2>2 DEF StoreInv, Db!DeleteScores, Counted, NanduOf
<1>5. ASSUME NEW rt \in StoreRoutines, NEW v \in StoreValues, SaveFinal(rt, v)
      PROVE  StoreInv' /\ Db!UpdateFinal(rt, v)
  BY <1>5 DEF SaveFinal, StoreInv, Db!UpdateFinal, Counted, NanduOf
<1>6. ASSUME NEW id \in MarkIds, RemoveMarkById(id) PROVE StoreInv' /\ Db!DeleteDeduction(id)
  <2>1. StoreInv' /\ ToSet(storedMarks') = {d \in ToSet(storedMarks) : d.id # id}
    BY <1>6, MarkRemoved
  <2>2. UNCHANGED <<scores, adjustments, nanduresults, finalScores>>
    BY <1>6 DEF RemoveMarkById
  <2> QED BY <2>1, <2>2 DEF Db!DeleteDeduction, Counted, NanduOf
<1>7. ASSUME NEW id \in MarkIds, NEW row \in StoredRow, SaveMark(id, row)
      PROVE  StoreInv' /\ Db!InsertDeduction(id, row)
  <2>1. /\ StoreInv' /\ \A d \in ToSet(storedMarks) : d.id # id
        /\ ToSet(storedMarks') = ToSet(storedMarks) \cup {[id |-> id, row |-> row]}
    BY <1>7, MarkSaved
  <2>2. UNCHANGED <<scores, adjustments, nanduresults, finalScores>>
    BY <1>7 DEF SaveMark
  <2> QED BY <2>1, <2>2 DEF Db!InsertDeduction, Counted, NanduOf
<1>8. ASSUME NEW id \in MarkIds, NEW code \in StoreValues, UpdateMark(id, code)
      PROVE  StoreInv' /\ Db!UpdateDeduction(id, code)
  <2>1. /\ StoreInv'
        /\ ToSet(storedMarks') = {IF d.id = id THEN [d EXCEPT !.row.value = code] ELSE d :
                                     d \in ToSet(storedMarks)}
    BY <1>8, MarkChanged
  <2>2. UNCHANGED <<scores, adjustments, nanduresults, finalScores>>
    BY <1>8 DEF UpdateMark
  <2> QED BY <2>1, <2>2 DEF Db!UpdateDeduction, Counted, NanduOf
<1> QED BY <1>0, <1>1, <1>2, <1>3, <1>4, <1>5, <1>6, <1>7, <1>8 DEF StoreNext, Db!TablesNext

\* The empty store is empty tables.
LEMMA StoreStart == StoreInit => StoreInv /\ Db!TablesInit
<1> SUFFICES ASSUME StoreInit PROVE StoreInv /\ Db!TablesInit
  OBVIOUS
<1>1. scores = <<>> /\ adjustments = <<>> /\ storedMarks = <<>> /\ DOMAIN nanduresults = {}
  BY DEF StoreInit
<1>2. \A r : {i \in DOMAIN <<>> : <<>>[i] = r} = {}
  OBVIOUS
<1>3. Counted(<<>>) = [r \in StoredRow |-> 0]
  BY <1>2, FS_EmptySet DEF Counted
<1>4. StoreInv
  BY <1>1 DEF StoreInv
<1>5. ToSet(<<>>) = {}
  BY DEF ToSet
<1> QED BY <1>1, <1>3, <1>4, <1>5 DEF StoreInit, Db!TablesInit, Db!StoreRow, StoredRow, NanduOf

\* The slices of the memory store are the database's tables, however their rows
\* are mixed: the handlers' statements on them do what they do there.
THEOREM StoreImplementsTables == StoreSpec => ImplementsTables
<1>1. StoreInv /\ [StoreNext]_storeVars => StoreInv'
  BY StoreStep DEF storeVars, StoreInv
<1>2. StoreInv /\ [StoreNext]_storeVars => [UNCHANGED storeVars \/ Db!TablesNext]_storeVars
  BY StoreStep
<1> QED BY StoreStart, <1>1, <1>2, PTL DEF StoreSpec, ImplementsTables

\* That is the tables' specification itself.
THEOREM StoreImplementsTablesSpec == StoreSpec => Db!TablesSpec
<1>1. StoreInv /\ [StoreNext]_storeVars => StoreInv'
  BY StoreStep DEF storeVars, StoreInv
<1>2. StoreInv /\ [StoreNext]_storeVars => [Db!TablesNext]_(Db!tableVars)
  <2>1. UNCHANGED storeVars => UNCHANGED Db!tableVars
    BY DEF storeVars, Db!tableVars, Counted, NanduOf
  <2> QED BY StoreStep, <2>1
<1> QED BY StoreStart, <1>1, <1>2, PTL DEF StoreSpec, Db!TablesSpec

-----------------------------------------------------------------------------
(* Results: the rows that are ranked.                                       *)

RankRow == [event : RankedEvents, competitor : RankedCompetitors, final : Nat, total : Nat]

\* The rows of the table, each with its scores.
RowsHold == routines \in Seq(RankRow)

\* What a row of the table is made of.
LEMMA RowsAreRows ==
    ASSUME RowsHold
    PROVE  /\ Len(routines) \in Nat
           /\ \A i \in 1..Len(routines) :
                  /\ routines[i] \in RankRow
                  /\ routines[i].event \in Nat /\ routines[i].competitor \in RankedCompetitors
                  /\ routines[i].final \in Nat /\ routines[i].total \in Nat
<1>1. Len(routines) \in Nat /\ \A i \in 1..Len(routines) : routines[i] \in RankRow
  BY DEF RowsHold
<1>2. ASSUME NEW r \in RankRow
      PROVE  /\ r.event \in Nat /\ r.competitor \in RankedCompetitors
             /\ r.final \in Nat /\ r.total \in Nat
  BY RankingsBounds DEF RankRow
<1> QED BY <1>1, <1>2

\* Entering and finalizing routines keeps them so.
LEMMA RankingsInvariant == RankingsSpec => []RowsHold
<1>1. RankingsInit => RowsHold
  BY DEF RankingsInit, RowsHold
<1>2. RowsHold /\ [RankingsNext]_routines => RowsHold'
  <2> SUFFICES ASSUME RowsHold, [RankingsNext]_routines PROVE RowsHold'
    OBVIOUS
  <2>1. CASE UNCHANGED routines
    BY <2>1 DEF RowsHold
  <2>2. ASSUME NEW e \in RankedEvents, NEW c \in RankedCompetitors, EnterRoutine(e, c)
        PROVE RowsHold'
    <3>1. RoutineRow(e, c) \in RankRow
      BY DEF RoutineRow, RankRow
    <3> QED BY <2>2, <3>1 DEF RowsHold, EnterRoutine
  <2>3. ASSUME NEW e \in RankedEvents, NEW c \in RankedCompetitors,
               NEW f \in Finals, NEW t \in Totals, SaveFinalScore(e, c, f, t)
        PROVE RowsHold'
    <3>1. f \in Nat /\ t \in Nat
      BY RankingsBounds
    <3>2. \A i \in 1..Len(routines) : routines[i] \in RankRow
      BY DEF RowsHold
    <3>3. \A i \in 1..Len(routines) : [routines[i] EXCEPT !.final = f, !.total = t] \in RankRow
      BY <3>1, <3>2 DEF RankRow
    <3> HIDE DEF RankRow
    <3>4. Len(routines) \in Nat
      BY DEF RowsHold
    <3>5. \A i \in 1..Len(routines) : routines'[i] \in RankRow
      BY <2>3, <3>2, <3>3 DEF SaveFinalScore
    <3>6. routines' = [i \in 1..Len(routines) |-> routines'[i]]
      BY <2>3 DEF SaveFinalScore
    <3> QED BY <3>4, <3>5, <3>6 DEF RowsHold
  <2> QED BY <2>1, <2>2, <2>3 DEF RankingsNext
<1> QED BY <1>1, <1>2, PTL DEF RankingsSpec

-----------------------------------------------------------------------------
(* The list of the results page.                                            *)

\* One row is listed before another.
Before(i, j) ==
    \/ ListedBefore(routines[i], routines[j])
    \/ ~ListedBefore(routines[j], routines[i]) /\ i < j

ListedPairs ==
    {p \in (1..Len(routines)) \X (1..Len(routines)) :
        \/ ListedBefore(routines[p[1]], routines[p[2]])
        \/ ~ListedBefore(routines[p[2]], routines[p[1]]) /\ p[1] < p[2]}

\* The ORDER BY of the results orders the rows, ties by their ids.
LEMMA ListedOrder ==
    ASSUME RowsHold PROVE Len(routines) \in Nat /\ IsOrder(ListedPairs, Len(routines))
<1> DEFINE n == Len(routines)
<1>1. n \in Nat /\ \A i \in 1..n : /\ routines[i].event \in Nat
                                  /\ routines[i].final \in Nat /\ routines[i].total \in Nat
  BY RowsAreRows
<1>2. \A i, j \in 1..n : <<i, j>> \in ListedPairs <=> Before(i, j)
  BY DEF ListedPairs, Before
<1> HIDE DEF n
<1>3. \A i \in 1..n : ~Before(i, i)
  BY <1>1 DEF Before, ListedBefore
<1>4. \A i, j \in 1..n : i # j => Before(i, j) \/ Before(j, i)
  BY <1>1 DEF Before, ListedBefore
<1>5. ASSUME NEW i \in 1..n, NEW j \in 1..n, NEW k \in 1..n, Before(i, j), Before(j, k)
      PROVE  Before(i, k)
  BY <1>1, <1>5 DEF Before, ListedBefore
<1>6. IsOrder(ListedPairs, n)
  BY <1>2, <1>3, <1>4, <1>5 DEF IsOrder
<1> QED BY <1>1, <1>6 DEF n

\* The list has the rows of the table, later ones never before earlier ones.
LEMMA ListIsInOrder ==
    ASSUME RowsHold
    PROVE  \E p \in [1..Len(routines) -> 1..Len(routines)] :
               /\ \A k \in 1..Len(routines) : GetAllRankings[k] = routines[p[k]]
               /\ \A k, l \in 1..Len(routines) :
                      k < l => ~ListedBefore(routines[p[l]], routines[p[k]])
<1> DEFINE n == Len(routines)
           p == Arrangement(n, ListedPairs)
<1>1. n \in Nat /\ Arranges(p, n, ListedPairs)
  BY ListedOrder, ArrangementArranges
<1>2. GetAllRankings = [k \in 1..n |-> routines[p[k]]]
  BY DEF GetAllRankings, Sorted, ListedPairs
<1>3. p \in [1..n -> 1..n] /\ \A k, l \in 1..n : k < l <=> <<p[k], p[l]>> \in ListedPairs
  BY <1>1 DEF Arranges
<1> HIDE DEF p
<1>4. ASSUME NEW k \in 1..n, NEW l \in 1..n, k < l
      PROVE  ~ListedBefore(routines[p[l]], routines[p[k]])
  <2>1. p[k] \in 1..n /\ p[l] \in 1..n /\ <<p[k], p[l]>> \in ListedPairs
    BY <1>3, <1>4
  <2>2. Before(p[k], p[l])
    BY <2>1 DEF ListedPairs, Before
  <2>3. \A i \in {p[k], p[l]} : /\ routines[i].event \in Nat /\ routines[i].final \in Nat
                                /\ routines[i].total \in Nat
    BY <2>1, RowsAreRows
  <2>4. ~(ListedBefore(routines[p[k]], routines[p[l]]) /\ ListedBefore(routines[p[l]], routines[p[k]]))
    BY <2>3 DEF ListedBefore
  <2> QED BY <2>2, <2>4 DEF Before
<1> QED BY <1>2, <1>3, <1>4

\* Places go up as the scores go down.
LEMMA PlacesFollowScores ==
    ASSUME RowsHold, NEW e, NEW f \in FinalsOf(e), NEW g \in FinalsOf(e)
    PROVE  /\ f >= g => GetSimpleRanks(e)[f] <= GetSimpleRanks(e)[g]
           /\ (GetSimpleRanks(e)[f] = GetSimpleRanks(e)[g]) <=> f = g
<1> DEFINE F == FinalsOf(e)
           better(x) == {y \in F : y >= x}
<1>1. F \subseteq Nat /\ IsFiniteSet(F)
  <2> DEFINE D == {j \in 1..Len(routines) : routines[j].event = e}
  <2>1. Len(routines) \in Nat /\ \A j \in 1..Len(routines) : routines[j].final \in Nat
    BY RowsAreRows
  <2>2. IsFiniteSet(D)
    <3>1. IsFiniteSet(1..Len(routines))
      BY <2>1, IntervalSize
    <3> QED BY <3>1, FS_Subset
  <2>3. F = {routines[i].final : i \in D}
    BY DEF FinalsOf
  <2>4. \A i \in D : routines[i].final \in Nat
    BY <2>1
  <2> HIDE DEF D, F
  <2>5. IsFiniteSet({routines[i].final : i \in D})
    <3> DEFINE fin(i) == routines[i].final
               I == {fin(i) : i \in D}
               m == [i \in D |-> fin(i)]
    <3>1. m \in Surjection(D, I)
      BY DEF Surjection
    <3> HIDE DEF m, I
    <3>2. IsFiniteSet(I)
      BY <2>2, <3>1, FS_Surjection
    <3> QED BY <3>2 DEF I
  <2> QED BY <2>3, <2>4, <2>5
<1>2. \A x \in F : GetSimpleRanks(e)[x] = Cardinality(better(x))
  BY DEF GetSimpleRanks
<1>3. f \in F /\ g \in F
  OBVIOUS
<1> HIDE DEF F
<1>4. ASSUME NEW x \in F, NEW y \in F, x > y
      PROVE  Cardinality(better(x)) < Cardinality(better(y))
  <2>1. better(x) \subseteq better(y) /\ y \in better(y) /\ y \notin better(x)
    <3>1. x \in Nat /\ y \in Nat /\ \A z \in F : z \in Nat
      BY <1>1
    <3>2. y >= y /\ ~(y >= x) /\ \A z \in F : z >= x => z >= y
      BY <3>1, <1>4
    <3> QED BY <3>2
  <2>2. IsFiniteSet(better(y))
    BY <1>1, FS_Subset
  <2> HIDE DEF better
  <2>3. /\ Cardinality(better(x)) \in Nat /\ Cardinality(better(y)) \in Nat
        /\ Cardinality(better(x)) <= Cardinality(better(y))
        /\ Cardinality(better(x)) = Cardinality(better(y)) => better(x) = better(y)
    BY <2>1, <2>2, FS_Subset, FS_CardinalityType
  <2> QED BY <2>1, <2>3
<1>5. \A x \in F : Cardinality(better(x)) \in Nat
  <2>1. \A x \in F : IsFiniteSet(better(x))
    BY <1>1, FS_Subset
  <2> HIDE DEF better
  <2> QED BY <2>1, FS_CardinalityType
<1> HIDE DEF better
<1>6. f > g \/ f = g \/ g > f
  BY <1>1, <1>3
<1> QED BY <1>1, <1>2, <1>3, <1>4, <1>5, <1>6

\* The rows of an event come together, in the order of their places.
LEMMA RowsAgree == RowsHold => ListAgreesWithPlaces
<1> SUFFICES ASSUME RowsHold PROVE ListAgreesWithPlaces
  OBVIOUS
<1> DEFINE n == Len(routines)
           at(k) == GetAllRankings[k]
<1>1. PICK p \in [1..n -> 1..n] :
          /\ \A k \in 1..n : at(k) = routines[p[k]]
          /\ \A k, l \in 1..n : k < l => ~ListedBefore(routines[p[l]], routines[p[k]])
  BY ListIsInOrder
<1>2. \A k \in 1..n : at(k).event \in Nat /\ at(k).final \in Nat /\ at(k).final \in FinalsOf(at(k).event)
  <2>1. \A i \in 1..n : /\ routines[i].event \in Nat /\ routines[i].final \in Nat
                        /\ routines[i].final \in FinalsOf(routines[i].event)
    BY RowsAreRows DEF FinalsOf
  <2> HIDE DEF at
  <2> QED BY <1>1, <2>1
<1>3. \A k, l \in 1..n : k < l => ~ListedBefore(at(l), at(k))
  BY <1>1
<1> HIDE DEF at, n
<1>4. \A k, l \in 1..n : k < l =>
          at(k).event <= at(l).event /\ (at(k).event = at(l).event => at(k).final >= at(l).final)
  BY <1>2, <1>3 DEF ListedBefore
<1>5. EventsAreListedOnce
  <2>1. ASSUME NEW i \in 1..n, NEW j \in 1..n, NEW k \in 1..n, i < j, j < k, at(i).event = at(k).event
        PROVE  at(j).event = at(i).event
    <3>1. at(i).event <= at(j).event /\ at(j).event <= at(k).event
      BY <1>4, <2>1
    <3> QED BY <1>2, <2>1, <3>1
  <2> QED BY <2>1 DEF EventsAreListedOnce, at, n
<1>6. ASSUME NEW i \in 1..n, NEW j \in 1..n, i < j, at(i).event = at(j).event
      PROVE  LET places == GetSimpleRanks(at(i).event)
             IN  /\ places[at(i).final] <= places[at(j).final]
                 /\ (places[at(i).final] = places[at(j).final]) <=> (at(i).final = at(j).final)
  <2>1. at(i).final >= at(j).final
    BY <1>4, <1>6
  <2>2. at(i).final \in FinalsOf(at(i).event) /\ at(j).final \in FinalsOf(at(i).event)
    BY <1>2, <1>6
  <2> QED BY <2>1, <2>2, PlacesFollowScores
<1> QED BY <1>5, <1>6 DEF ListAgreesWithPlaces, at, n

\* The results page, which numbers the rows of its list, and the display page,
\* which counts the better scores, give the same places.
THEOREM ResultsAgree == RankingsSpec => []ListAgreesWithPlaces
BY RankingsInvariant, RowsAgree, PTL

-----------------------------------------------------------------------------
(* The all-around list.                                                     *)

Entrants == {routines[i].competitor : i \in 1..Len(routines)}
Routines(c) == Cardinality(RoutinesOf(c))

\* Everyone in the table is an entrant, once per routine.
LEMMA EntrantsCounted ==
    ASSUME RowsHold
    PROVE  /\ IsFiniteSet(Entrants) /\ Entrants \subseteq RankedCompetitors
           /\ \A c : Routines(c) \in Nat /\ (Routines(c) >= 3 => c \in Entrants)
<1>1. Len(routines) \in Nat /\ IsFiniteSet(1..Len(routines))
  BY RowsAreRows, IntervalSize
<1>2. Entrants \subseteq RankedCompetitors
  BY RowsAreRows DEF Entrants
<1>3. IsFiniteSet(Entrants)
  <2> DEFINE I == 1..Len(routines)
             by(i) == routines[i].competitor
             m == [i \in I |-> by(i)]
  <2>1. m \in Surjection(I, Entrants)
    BY DEF Surjection, Entrants
  <2> HIDE DEF m
  <2> QED BY <1>1, <2>1, FS_Surjection
<1>4. ASSUME NEW c PROVE Routines(c) \in Nat /\ (Routines(c) >= 3 => c \in Entrants)
  <2>1. IsFiniteSet(RoutinesOf(c))
    BY <1>1, FS_Subset DEF RoutinesOf
  <2>2. Routines(c) \in Nat
    BY <2>1, FS_CardinalityType DEF Routines
  <2>3. ASSUME Routines(c) >= 3 PROVE c \in Entrants
    <3>1. RoutinesOf(c) # {}
      BY <2>3, FS_EmptySet DEF Routines
    <3> QED BY <3>1 DEF RoutinesOf, Entrants
  <2> QED BY <2>2, <2>3
<1> QED BY <1>2, <1>3, <1>4

AllAroundRows == Sorted(SetToSeq(Entrants), MostFirst)

\* The rows of the query: all entrants, those with the most routines first.
LEMMA MostRoutinesFirst ==
    ASSUME RowsHold
    PROVE  LET n == Cardinality(Entrants)
           IN  /\ n \in Nat /\ AllAroundRows \in [1..n -> Entrants] /\ Len(AllAroundRows) = n
               /\ \A c \in Entrants : \E k \in 1..n : AllAroundRows[k] = c
               /\ \A k, l \in 1..n :
                      k < l => Routines(AllAroundRows[k]) >= Routines(AllAroundRows[l])
<1> DEFINE list == SetToSeq(Entrants)
           n == Cardinality(Entrants)
           fewer == [c \in Entrants |-> -Routines(c)]
<1>1. /\ IsFiniteSet(Entrants) /\ \A c : Routines(c) \in Nat
  BY EntrantsCounted
<1>2. fewer \in [Entrants -> Int]
  BY <1>1
<1>3. ListsByKey(ByKey(Entrants, fewer), Entrants, fewer)
  BY <1>1, <1>2, KeysGoUp
<1>4. AllAroundRows = ByKey(Entrants, fewer)
  <2>1. n \in Nat /\ list \in [1..n -> Entrants] /\ Len(list) = n
    BY <1>1, ListOfSet
  <2>2. \A i, j \in 1..n : MostFirst(list[i], list[j]) <=> fewer[list[i]] < fewer[list[j]]
    <3> TAKE i, j \in 1..n
    <3>1. list[i] \in Entrants /\ list[j] \in Entrants
      BY <2>1
    <3> QED BY <1>1, <3>1 DEF MostFirst, Routines
  <2> HIDE DEF list, fewer, n
  <2>3. KeyOrder(list, fewer)
        = {p \in (1..Len(list)) \X (1..Len(list)) :
              \/ MostFirst(list[p[1]], list[p[2]])
              \/ ~MostFirst(list[p[2]], list[p[1]]) /\ p[1] < p[2]}
    BY <2>1, <2>2 DEF KeyOrder
  <2> QED BY <2>3 DEF AllAroundRows, Sorted, ByKey, list
<1>5. \A c \in Entrants : fewer[c] = -Routines(c)
  OBVIOUS
<1> HIDE DEF fewer
<1> QED BY <1>1, <1>3, <1>4, <1>5 DEF ListsByKey

\* The list stops at the first entrant with less than three routines, behind
\* whom nobody has more.
LEMMA WholeAllAround == RowsHold => AllAroundIsComplete
<1> SUFFICES ASSUME RowsHold PROVE AllAroundIsComplete
  OBVIOUS
<1> DEFINE rows == AllAroundRows
           n == Cardinality(Entrants)
           short == {i \in 1..n : Routines(rows[i]) < 3}
           last == IF short = {} THEN n ELSE Min(short) - 1
<1>1. /\ n \in Nat /\ rows \in [1..n -> Entrants] /\ Len(rows) = n
      /\ \A c \in Entrants : \E k \in 1..n : rows[k] = c
      /\ \A k, l \in 1..n : k < l => Routines(rows[k]) >= Routines(rows[l])
  BY MostRoutinesFirst
<1>2. /\ Entrants \subseteq RankedCompetitors
      /\ \A c : Routines(c) \in Nat /\ (Routines(c) >= 3 => c \in Entrants)
  BY EntrantsCounted
<1>3. FindAllAroundWinner = [i \in 1..last |-> [id |-> rows[i], total |-> GetTopScores(rows[i])]]
  BY <1>1 DEF FindAllAroundWinner, Entrants, AllAroundRows, Routines
<1> HIDE DEF n, rows
<1>4. short # {} => Min(short) \in short /\ \A i \in short : Min(short) <= i
  <2> SUFFICES ASSUME short # {} PROVE Min(short) \in short /\ \A i \in short : Min(short) <= i
    OBVIOUS
  <2>1. short \subseteq Nat
    BY <1>1
  <2>2. PICK x \in short : \A y \in short : x <= y
    <3> HIDE DEF short
    <3>1. PICK x \in short : \A y \in short : ~(<<y, x>> \in OpToRel(<, Nat))
      BY <2>1, WFMin, NatLessThanWellFounded, Zenon
    <3>2. \A y \in short : ~(y < x)
      BY <2>1, <3>1, Zenon DEF OpToRel
    <3> QED BY <2>1, <3>2
  <2> HIDE DEF short
  <2> QED BY <2>2 DEF Min
<1>5. last \in Int /\ \A k \in 1..n : k <= last <=> Routines(rows[k]) >= 3
  <2>1. CASE short = {}
    BY <1>1, <1>2, <2>1
  <2>2. CASE short # {}
    <3>1. /\ Min(short) \in 1..n /\ Routines(rows[Min(short)]) < 3
          /\ \A i \in short : Min(short) <= i
      BY <1>4, <2>2
    <3>2. last = Min(short) - 1
      BY <2>2
    <3>3. ASSUME NEW k \in 1..n PROVE k <= last <=> Routines(rows[k]) >= 3
      <4>1. CASE k < Min(short)
        <5>1. ~(Routines(rows[k]) < 3)
          BY <1>1, <3>1, <4>1
        <5> QED BY <1>1, <1>2, <3>1, <3>2, <4>1, <5>1
      <4>2. CASE ~(k < Min(short))
        <5>1. k = Min(short) \/ Min(short) < k
          BY <1>1, <3>1, <4>2
        <5>2. Routines(rows[Min(short)]) >= Routines(rows[k])
          BY <1>1, <1>2, <3>1, <5>1
        <5>3. ~(Routines(rows[k]) >= 3)
          BY <1>2, <3>1, <5>2
        <5> QED BY <1>1, <3>1, <3>2, <4>2, <5>3
      <4> QED BY <4>1, <4>2
    <3> QED BY <1>1, <3>1, <3>2, <3>3
  <2> QED BY <2>1, <2>2
<1>6. last <= n
  BY <1>1, <1>4
<1> HIDE DEF last, short
<1>7. {FindAllAroundWinner[i].id : i \in DOMAIN FindAllAroundWinner} = {rows[i] : i \in 1..last}
  BY <1>3
<1>8. \A i \in 1..last : i \in 1..n
  BY <1>1, <1>5, <1>6
<1>9. \A i \in 1..last : rows[i] \in RankedCompetitors /\ Routines(rows[i]) >= 3
  BY <1>1, <1>2, <1>5, <1>8
<1>10. ASSUME NEW c \in RankedCompetitors, Routines(c) >= 3 PROVE \E i \in 1..last : rows[i] = c
  <2>1. PICK k \in 1..n : rows[k] = c
    BY <1>1, <1>2, <1>10
  <2>2. k \in 1..last
    BY <1>1, <1>5, <1>10, <2>1
  <2> QED BY <2>1, <2>2
<1>11. {rows[i] : i \in 1..last} = {c \in RankedCompetitors : Routines(c) >= 3}
  BY <1>9, <1>10
<1> QED BY <1>7, <1>11 DEF AllAroundIsComplete, Routines

\* Stopping there leaves out nobody who has three.
THEOREM AllAroundIsWhole == RankingsSpec => []AllAroundIsComplete
BY RankingsInvariant, WholeAllAround, PTL
=============================================================================
