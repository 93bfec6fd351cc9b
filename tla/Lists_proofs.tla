---------------------------- MODULE Lists_proofs ----------------------------
(***************************************************************************)
(* Lemmas about lists: loops over them, modelled by folds; sums; and that  *)
(* a list sorted by any order has all the elements, in order.              *)
(***************************************************************************)
EXTENDS Sorting, SequencesExt, FiniteSetTheorems, SequenceTheorems, WellFoundedInduction, TLAPS

-----------------------------------------------------------------------------
(* Counting up, and the folds that loops over a list are modelled by.       *)

\* What holds of 0 and passes from each number to the next holds up to n.
LEMMA CountingUp ==
    ASSUME NEW n \in Nat, NEW S, 0 \in S, \A k \in 0..(n - 1) : k \in S => k + 1 \in S
    PROVE  \A k \in 0..n : k \in S
<1> DEFINE T == {k \in 0..n : k \notin S}
<1> SUFFICES ASSUME T # {} PROVE FALSE
  OBVIOUS
<1>1. PICK m \in T : \A k \in T : ~(<<k, m>> \in OpToRel(<, Nat))
  <2>1. T \subseteq Nat
    OBVIOUS
  <2> HIDE DEF T
  <2> QED BY <2>1, NatLessThanWellFounded, WFMin
<1>2. \A k \in T : ~(k < m)
  <2>1. T \subseteq Nat
    OBVIOUS
  <2> HIDE DEF T
  <2> QED BY <1>1, <2>1, Zenon DEF OpToRel
<1>3. m # 0 /\ m \in 0..n
  OBVIOUS
<1>4. m - 1 \in 0..(n - 1) /\ m - 1 \in S
  BY <1>2, <1>3
<1>5. (m - 1) + 1 \in S
  BY <1>4
<1> QED BY <1>3, <1>5

\* A fold over a list of n, with the element's index as the second argument.
FoldsTo(g, n, A, b, F) ==
    /\ g \in [SUBSET (1..n) -> A]
    /\ g = [s \in SUBSET (1..n) |-> IF s = {} THEN b ELSE F[<<g[s \ {Max(s)}], Max(s)>>]]

\* The greatest of the numbers to n + 1 that n + 1 is among.
LEMMA LastIsMax ==
    ASSUME NEW n \in Nat, NEW s \in SUBSET (1..(n + 1)), n + 1 \in s
    PROVE  Max(s) = n + 1
<1>1. \A y \in s : n + 1 >= y
  OBVIOUS
<1>2. \A x \in s : (\A y \in s : x >= y) => x = n + 1
  <2> SUFFICES ASSUME NEW x \in s, x >= n + 1 PROVE x = n + 1
    OBVIOUS
  <2> QED OBVIOUS
<1>3. Max(s) = CHOOSE x \in s : \A y \in s : x >= y
  BY DEF Max
<1> QED BY <1>1, <1>2, <1>3

\* The function that a fold picks exists.
LEMMA FoldExists ==
    ASSUME NEW n \in Nat, NEW A, NEW b \in A, NEW F \in [A \X (1..n) -> A]
    PROVE  \E g : FoldsTo(g, n, A, b, F)
<1> DEFINE S == {m \in 0..n : \E g : FoldsTo(g, m, A, b, F)}
<1>1. 0 \in S
  <2> DEFINE g == [s \in SUBSET (1..0) |-> b]
  <2>1. SUBSET (1..0) = {{}}
    OBVIOUS
  <2>2. FoldsTo(g, 0, A, b, F)
    BY <2>1 DEF FoldsTo
  <2> QED BY <2>2
<1>2. ASSUME NEW m \in 0..(n - 1), m \in S PROVE m + 1 \in S
  <2>1. PICK g : FoldsTo(g, m, A, b, F)
    BY <1>2
  <2> DEFINE k == m + 1
             h == [s \in SUBSET (1..k) |-> IF k \in s THEN F[<<g[s \ {k}], k>>] ELSE g[s]]
  <2>2. m \in Nat /\ k \in 1..n /\ 1..k = (1..m) \cup {k} /\ k \notin 1..m
    OBVIOUS
  <2>3. g \in [SUBSET (1..m) -> A]
    BY <2>1 DEF FoldsTo
  <2>4. ASSUME NEW s \in SUBSET (1..k) PROVE h[s] \in A
    <3>1. CASE k \in s
      <4>1. s \ {k} \in SUBSET (1..m)
        BY <2>2
      <4>2. g[s \ {k}] \in A
        BY <2>3, <4>1
      <4> QED BY <2>2, <3>1, <4>2
    <3>2. CASE k \notin s
      <4>1. s \in SUBSET (1..m)
        BY <2>2, <3>2
      <4> QED BY <2>3, <3>2, <4>1
    <3> QED BY <3>1, <3>2
  <2>5. ASSUME NEW s \in SUBSET (1..k)
        PROVE  h[s] = IF s = {} THEN b ELSE F[<<h[s \ {Max(s)}], Max(s)>>]
    <3>1. CASE k \in s
      <4>1. Max(s) = k
        BY <2>2, <3>1, LastIsMax
      <4>2. h[s \ {k}] = g[s \ {k}]
        BY <2>2
      <4> QED BY <3>1, <4>1, <4>2
    <3>2. CASE k \notin s
      <4>1. s \in SUBSET (1..m)
        BY <2>2, <3>2
      <4>2. g[s] = IF s = {} THEN b ELSE F[<<g[s \ {Max(s)}], Max(s)>>]
        BY <2>1, <4>1 DEF FoldsTo
      <4>3. h[s] = g[s] /\ h[s \ {Max(s)}] = g[s \ {Max(s)}]
        BY <3>2, <4>1, <2>2
      <4> QED BY <4>2, <4>3
    <3> QED BY <3>1, <3>2
  <2>6. FoldsTo(h, k, A, b, F)
    <3>1. h = [s \in SUBSET (1..k) |-> h[s]]
      OBVIOUS
    <3>2. h \in [SUBSET (1..k) -> A]
      BY <2>4
    <3> HIDE DEF h
    <3>3. h = [s \in SUBSET (1..k) |-> IF s = {} THEN b ELSE F[<<h[s \ {Max(s)}], Max(s)>>]]
      BY <2>5, <3>1
    <3> QED BY <3>2, <3>3 DEF FoldsTo
  <2> QED BY <2>2, <2>6
<1> HIDE DEF S
<1>3. n \in S
  BY <1>1, <1>2, CountingUp
<1> QED BY <1>3 DEF S

\* A set of numbers to n has a greatest one.
LEMMA MaxIsMember ==
    ASSUME NEW n \in Nat, NEW s \in SUBSET (1..n), s # {} PROVE Max(s) \in s
<1> DEFINE S == {m \in 0..n : \A t \in SUBSET (1..m) : t # {} => \E x \in t : \A y \in t : x >= y}
<1>1. 0 \in S
  <2>1. 1..0 = {} /\ 0 \in 0..n
    OBVIOUS
  <2>2. \A t \in SUBSET (1..0) : t = {}
    BY <2>1
  <2>3. \A t \in SUBSET (1..0) : t # {} => \E x \in t : \A y \in t : x >= y
    BY <2>2
  <2> QED BY <2>1, <2>3
<1>2. ASSUME NEW m \in 0..(n - 1), m \in S PROVE m + 1 \in S
  <2>0. m + 1 \in 0..n /\ m \in Nat
    OBVIOUS
  <2> SUFFICES ASSUME NEW t \in SUBSET (1..(m + 1)), t # {}
               PROVE  \E x \in t : \A y \in t : x >= y
    BY <2>0
  <2>1. CASE m + 1 \in t
    <3>1. \A y \in t : m + 1 >= y
      OBVIOUS
    <3> QED BY <2>1, <3>1
  <2>2. CASE m + 1 \notin t
    <3>1. t \in SUBSET (1..m)
      BY <2>2
    <3> QED BY <1>2, <3>1
  <2> QED BY <2>1, <2>2
<1> HIDE DEF S
<1>3. n \in S
  BY <1>1, <1>2, CountingUp
<1>4. \E x \in s : \A y \in s : x >= y
  BY <1>3 DEF S
<1>5. Max(s) = CHOOSE x \in s : \A y \in s : x >= y
  BY DEF Max
<1> QED BY <1>4, <1>5

\* The steps of a fold: the first k elements are the greatest but k of the first
\* k - 1 and k.
LEMMA FirstOnes ==
    ASSUME NEW n \in Nat, NEW k \in 1..n
    PROVE  /\ 1..k \in SUBSET (1..n) /\ 1..k # {}
           /\ Max(1..k) = k /\ (1..k) \ {k} = 1..(k - 1)
<1>1. k - 1 \in Nat /\ (k - 1) + 1 = k
  OBVIOUS
<1>4. k \in 1..k /\ 1..k \in SUBSET (1..n)
  OBVIOUS
<1>3. Max(1..k) = k
  <2> DEFINE j == k - 1
  <2>1. j \in Nat /\ j + 1 = k
    OBVIOUS
  <2>2. j + 1 \in 1..(j + 1) /\ 1..(j + 1) \in SUBSET (1..(j + 1))
    BY <2>1
  <2> HIDE DEF j
  <2>3. Max(1..(j + 1)) = j + 1
    BY <2>1, <2>2, LastIsMax
  <2> QED BY <2>1, <2>3
<1>5. (1..k) \ {k} = 1..(k - 1)
  OBVIOUS
<1> QED BY <1>3, <1>4, <1>5

\* A fold as long as its values are in A, and the values after each element.
Folded(it, n, A, b, F) ==
    /\ it[{}] = b
    /\ \A t \in SUBSET (1..n) : t # {} /\ it[t \ {Max(t)}] \in A =>
           it[t] = F[<<it[t \ {Max(t)}], Max(t)>>]

GoesThrough(u, n, A, b, F, last) ==
    /\ u \in [0..n -> A] /\ u[0] = b /\ u[n] = last
    /\ \A k \in 1..n : u[k] = F[<<u[k - 1], k>>]

\* The values a fold goes through.
LEMMA TraceOfFold ==
    ASSUME NEW n \in Nat, NEW A, NEW b \in A, NEW F \in [A \X (1..n) -> A],
           NEW it, Folded(it, n, A, b, F)
    PROVE  \E u : GoesThrough(u, n, A, b, F, it[1..n])
<1> DEFINE S == {k \in 0..n : it[1..k] \in A}
           u == [k \in 0..n |-> it[1..k]]
<1>1. 1..0 = {} /\ 0 \in 0..n /\ n \in 0..n
  OBVIOUS
<1>2. ASSUME NEW k \in 1..n, it[1..(k - 1)] \in A PROVE it[1..k] = F[<<it[1..(k - 1)], k>>]
  <2>1. /\ 1..k \in SUBSET (1..n) /\ 1..k # {}
        /\ Max(1..k) = k /\ (1..k) \ {k} = 1..(k - 1)
    BY FirstOnes
  <2> QED BY <1>2, <2>1 DEF Folded
<1>3. 0 \in S
  BY <1>1 DEF Folded
<1>4. ASSUME NEW k \in 0..(n - 1), k \in S PROVE k + 1 \in S
  <2>1. k + 1 \in 1..n /\ k + 1 \in 0..n /\ (k + 1) - 1 = k
    OBVIOUS
  <2>2. it[1..k] \in A
    BY <1>4
  <2>3. it[1..(k + 1)] = F[<<it[1..k], k + 1>>]
    BY <1>2, <2>1, <2>2
  <2>4. F[<<it[1..k], k + 1>>] \in A
    BY <2>1, <2>2
  <2> QED BY <2>1, <2>3, <2>4
<1>5. \A k \in 0..n : it[1..k] \in A
  <2>1. \A k \in 0..n : k \in S
    <3> HIDE DEF S
    <3> QED BY <1>3, <1>4, CountingUp
  <2> QED BY <2>1
<1>6. u \in [0..n -> A] /\ u[0] = b /\ u[n] = it[1..n]
  BY <1>1, <1>5 DEF Folded
<1>7. ASSUME NEW k \in 1..n PROVE u[k] = F[<<u[k - 1], k>>]
  <2>1. k - 1 \in 0..n /\ k \in 0..n
    OBVIOUS
  <2>2. u[k] = it[1..k] /\ u[k - 1] = it[1..(k - 1)]
    BY <2>1
  <2> HIDE DEF u
  <2> QED BY <1>2, <1>5, <2>1, <2>2
<1> HIDE DEF u
<1> QED BY <1>6, <1>7 DEF GoesThrough

\* 1..n is finite and has n members.
LEMMA IntervalSize ==
    ASSUME NEW n \in Nat PROVE IsFiniteSet(1..n) /\ Cardinality(1..n) = n
<1>1. \A a, b \in Int : IsFiniteSet(a..b) /\ Cardinality(a..b) = IF a > b THEN 0 ELSE b - a + 1
  BY FS_Interval
<1> QED BY <1>1

-----------------------------------------------------------------------------
(* Sums.                                                                    *)

\* The sums of the first elements of a list of n.
Runs(w, f, n) ==
    w \in [0..n -> Int] /\ w[0] = 0 /\ \A k \in 1..n : w[k] = w[k - 1] + f[k]

Running(f, n) == CHOOSE w : Runs(w, f, n)

Added(f, n) == Running(f, n)[n]

\* Every list has them.
LEMMA RunningRuns ==
    ASSUME NEW n \in Nat, NEW f \in [1..n -> Int] PROVE Runs(Running(f, n), f, n)
<1> DEFINE F == [p \in Int \X (1..n) |-> p[1] + f[p[2]]]
<1>1. F \in [Int \X (1..n) -> Int]
  <2>1. \A p \in Int \X (1..n) : p[1] \in Int /\ f[p[2]] \in Int
    OBVIOUS
  <2> QED BY <2>1
<1>2. PICK g : FoldsTo(g, n, Int, 0, F)
  <2>1. 0 \in Int
    OBVIOUS
  <2> HIDE DEF F
  <2> QED BY <1>1, <2>1, FoldExists
<1> DEFINE w == [k \in 0..n |-> g[1..k]]
<1>3. \A k \in 0..n : 1..k \in SUBSET (1..n)
  OBVIOUS
<1>4. g \in [SUBSET (1..n) -> Int] /\ g[1..0] = 0
  <2>1. 1..0 = {} /\ {} \in SUBSET (1..n)
    OBVIOUS
  <2> QED BY <1>2, <2>1 DEF FoldsTo
<1>5. ASSUME NEW k \in 1..n PROVE w[k] = w[k - 1] + f[k]
  <2>0. /\ 1..k \in SUBSET (1..n) /\ 1..k # {}
        /\ Max(1..k) = k /\ (1..k) \ {k} = 1..(k - 1)
    BY FirstOnes
  <2>1. g[1..k] = F[<<g[1..(k - 1)], k>>]
    <3> HIDE DEF F
    <3> QED BY <1>2, <2>0 DEF FoldsTo
  <2>2. g[1..(k - 1)] \in Int
    <3>1. k - 1 \in 0..n
      OBVIOUS
    <3> QED BY <3>1, <1>3, <1>4
  <2>3. g[1..k] = g[1..(k - 1)] + f[k]
    BY <2>1, <2>2
  <2> QED BY <2>3
<1>6. w \in [0..n -> Int]
  BY <1>3, <1>4
<1>7. Runs(w, f, n)
  <2>1. w[0] = 0
    BY <1>4
  <2> HIDE DEF w
  <2> QED BY <2>1, <1>5, <1>6 DEF Runs
<1> QED BY <1>7 DEF Running

\* There is one such list of sums.
LEMMA RunningIsUnique ==
    ASSUME NEW n \in Nat, NEW f, NEW v, NEW w, Runs(v, f, n), Runs(w, f, n)
    PROVE  \A k \in 0..n : v[k] = w[k]
<1> DEFINE S == {k \in 0..n : v[k] = w[k]}
<1>1. 0 \in S
  BY DEF Runs
<1>2. ASSUME NEW k \in 0..(n - 1), k \in S PROVE k + 1 \in S
  <2>1. k + 1 \in 1..n /\ (k + 1) - 1 = k
    OBVIOUS
  <2> QED BY <1>2, <2>1 DEF Runs
<1> HIDE DEF S
<1>3. \A k \in 0..n : k \in S
  BY <1>1, <1>2, CountingUp
<1> QED BY <1>3 DEF S

\* Sums add up element by element.
LEMMA SumsAdd ==
    ASSUME NEW n \in Nat, NEW f \in [1..n -> Int], NEW g \in [1..n -> Int]
    PROVE  Added([k \in 1..n |-> f[k] + g[k]], n) = Added(f, n) + Added(g, n)
<1> DEFINE h == [k \in 1..n |-> f[k] + g[k]]
           v == Running(f, n)
           u == Running(g, n)
           w == [k \in 0..n |-> v[k] + u[k]]
<1>1. h \in [1..n -> Int]
  OBVIOUS
<1>2. Runs(v, f, n) /\ Runs(u, g, n)
  BY RunningRuns
<1>3. Runs(Running(h, n), h, n)
  <2> HIDE DEF h
  <2> QED BY <1>1, RunningRuns
<1> HIDE DEF v, u
<1>4. Runs(w, h, n)
  <2>1. w \in [0..n -> Int] /\ w[0] = 0
    BY <1>2 DEF Runs
  <2>2. ASSUME NEW k \in 1..n PROVE w[k] = w[k - 1] + h[k]
    <3>1. k - 1 \in 0..n /\ k \in 0..n
      OBVIOUS
    <3> QED BY <1>2, <3>1 DEF Runs
  <2> QED BY <2>1, <2>2 DEF Runs
<1>5. Running(h, n)[n] = w[n]
  <2>1. n \in 0..n
    OBVIOUS
  <2> HIDE DEF w, h
  <2> QED BY <1>3, <1>4, <2>1, RunningIsUnique
<1> QED BY <1>5 DEF Added, v, u

\* Where only one element is not 0, it is the sum.
LEMMA SumOfOne ==
    ASSUME NEW n \in Nat, NEW i \in 1..n, NEW x \in Int
    PROVE  Added([k \in 1..n |-> IF k = i THEN x ELSE 0], n) = x
<1> DEFINE f == [k \in 1..n |-> IF k = i THEN x ELSE 0]
           w == [k \in 0..n |-> IF k < i THEN 0 ELSE x]
<1>1. f \in [1..n -> Int]
  OBVIOUS
<1>2. Runs(Running(f, n), f, n)
  <2> HIDE DEF f
  <2> QED BY <1>1, RunningRuns
<1>3. Runs(w, f, n)
  <2>1. w \in [0..n -> Int] /\ w[0] = 0
    OBVIOUS
  <2>2. ASSUME NEW k \in 1..n PROVE w[k] = w[k - 1] + f[k]
    <3>1. k - 1 \in 0..n /\ k \in 0..n
      OBVIOUS
    <3>2. w[k] = (IF k < i THEN 0 ELSE x) /\ w[k - 1] = (IF k - 1 < i THEN 0 ELSE x)
      BY <3>1
    <3> QED BY <3>2
  <2> QED BY <2>1, <2>2 DEF Runs
<1>4. Running(f, n)[n] = w[n] /\ w[n] = x
  <2>1. n \in 0..n /\ w[n] = x
    OBVIOUS
  <2> HIDE DEF w, f
  <2> QED BY <1>2, <1>3, <2>1, RunningIsUnique
<1> QED BY <1>4 DEF Added

\* A list with the elements outside A put to 0.
Only(f, n, A) == [i \in 1..n |-> IF i \in A THEN f[i] ELSE 0]

\* The empty selection sums to nothing,
LEMMA OnlyNone ==
    ASSUME NEW n \in Nat, NEW f \in [1..n -> Int] PROVE Added(Only(f, n, {}), n) = 0
<1> DEFINE g == Only(f, n, {})
           zero == [k \in 0..n |-> 0]
<1>1. g \in [1..n -> Int] /\ \A k \in 1..n : g[k] = 0
  BY DEF Only
<1> HIDE DEF g
<1>2. Runs(Running(g, n), g, n)
  BY <1>1, RunningRuns
<1>3. Runs(zero, g, n)
  <2>1. zero \in [0..n -> Int] /\ zero[0] = 0
    OBVIOUS
  <2>2. ASSUME NEW k \in 1..n PROVE zero[k] = zero[k - 1] + g[k]
    <3>1. zero[k] = 0 /\ zero[k - 1] = 0 /\ g[k] = 0
      BY <1>1
    <3> QED BY <3>1
  <2> HIDE DEF zero
  <2> QED BY <2>1, <2>2 DEF Runs
<1>4. n \in 0..n /\ zero[n] = 0
  OBVIOUS
<1> HIDE DEF zero
<1>5. Running(g, n)[n] = zero[n]
  BY <1>2, <1>3, <1>4, RunningIsUnique
<1> QED BY <1>4, <1>5 DEF Added, g

\* and an element more in it adds its value.
LEMMA OnlyOneMore ==
    ASSUME NEW n \in Nat, NEW f \in [1..n -> Int], NEW A, NEW j \in 1..n, j \notin A
    PROVE  Added(Only(f, n, A \cup {j}), n) = Added(Only(f, n, A), n) + f[j]
<1> DEFINE one == [k \in 1..n |-> IF k = j THEN f[j] ELSE 0]
           g == Only(f, n, A)
<1>1. f[j] \in Int
  OBVIOUS
<1>2. one \in [1..n -> Int] /\ g \in [1..n -> Int]
  BY <1>1 DEF Only
<1>3. Added(one, n) = f[j]
  BY <1>1, SumOfOne
<1>4. Only(f, n, A \cup {j}) = [k \in 1..n |-> g[k] + one[k]]
  <2>1. ASSUME NEW k \in 1..n
        PROVE  (IF k \in A \cup {j} THEN f[k] ELSE 0)
               = (IF k \in A THEN f[k] ELSE 0) + (IF k = j THEN f[j] ELSE 0)
    <3>1. f[k] \in Int
      OBVIOUS
    <3> QED BY <3>1
  <2> QED BY <2>1 DEF Only
<1> HIDE DEF one, g
<1>5. Added([k \in 1..n |-> g[k] + one[k]], n) = Added(g, n) + Added(one, n)
  BY <1>2, SumsAdd
<1> QED BY <1>3, <1>4, <1>5 DEF g

\* A list in any order has the same sum.
LEMMA SumOfAnyOrder ==
    ASSUME NEW n \in Nat, NEW f \in [1..n -> Int], NEW p \in [1..n -> 1..n],
           \A k, l \in 1..n : p[k] = p[l] => k = l,
           \A i \in 1..n : \E k \in 1..n : p[k] = i
    PROVE  Added([k \in 1..n |-> f[p[k]]], n) = Added(f, n)
<1> DEFINE q == [k \in 1..n |-> f[p[k]]]
           w == Running(q, n)
           met == [m \in 0..n |-> {p[k] : k \in 1..m}]
           S == {m \in 0..n : w[m] = Added(Only(f, n, met[m]), n)}
<1>1. q \in [1..n -> Int]
  <2>1. \A k \in 1..n : f[p[k]] \in Int
    OBVIOUS
  <2> QED BY <2>1
<1>2. Runs(w, q, n)
  <2> HIDE DEF q
  <2> QED BY <1>1, RunningRuns
<1>3. 0 \in 0..n /\ n \in 0..n /\ met[0] = {} /\ \A i \in 1..n : i \in met[n]
  OBVIOUS
<1>4. ASSUME NEW m \in 0..(n - 1)
      PROVE  /\ m \in 0..n /\ m + 1 \in 1..n /\ m + 1 \in 0..n
             /\ met[m + 1] = met[m] \cup {p[m + 1]} /\ p[m + 1] \notin met[m]
             /\ p[m + 1] \in 1..n /\ w[m + 1] = w[m] + f[p[m + 1]]
  <2>1. m \in 0..n /\ m + 1 \in 1..n /\ m + 1 \in 0..n /\ 1..(m + 1) = 1..m \cup {m + 1} /\ (m + 1) - 1 = m
    OBVIOUS
  <2>2. met[m] = {p[k] : k \in 1..m} /\ met[m + 1] = {p[k] : k \in 1..(m + 1)}
    BY <2>1
  <2>3. w[m + 1] = w[m] + q[m + 1] /\ q[m + 1] = f[p[m + 1]]
    <3>1. q[m + 1] = f[p[m + 1]]
      BY <2>1
    <3> HIDE DEF q, w
    <3> QED BY <3>1, <1>2, <2>1 DEF Runs
  <2> HIDE DEF met, w, q
  <2>4. p[m + 1] \notin met[m]
    BY <2>1, <2>2
  <2>5. met[m + 1] = met[m] \cup {p[m + 1]}
    <3>1. ASSUME NEW x \in met[m + 1] PROVE x \in met[m] \cup {p[m + 1]}
      <4>1. PICK k \in 1..(m + 1) : x = p[k]
        BY <2>2
      <4>2. k \in 1..m \/ k = m + 1
        BY <2>1
      <4> QED BY <2>2, <4>1, <4>2
    <3>2. ASSUME NEW x \in met[m] \cup {p[m + 1]} PROVE x \in met[m + 1]
      BY <2>1, <2>2
    <3> QED BY <3>1, <3>2
  <2> QED BY <2>1, <2>3, <2>4, <2>5
<1>5. 0 \in S
  <2>1. w[0] = 0
    <3> HIDE DEF w
    <3> QED BY <1>2 DEF Runs
  <2> HIDE DEF w, met
  <2> QED BY <1>3, <2>1, OnlyNone
<1>6. ASSUME NEW m \in 0..(n - 1), m \in S PROVE m + 1 \in S
  <2> DEFINE j == p[m + 1]
             A == met[m]
  <2>1. /\ j \in 1..n /\ j \notin A /\ met[m + 1] = A \cup {j}
        /\ w[m + 1] = w[m] + f[j] /\ m + 1 \in 0..n
    <3> HIDE DEF w, met
    <3> QED BY <1>4
  <2>2. w[m] = Added(Only(f, n, A), n)
    BY <1>6
  <2> HIDE DEF w, met, j, A
  <2>3. Added(Only(f, n, A \cup {j}), n) = Added(Only(f, n, A), n) + f[j]
    <3>1. j \in 1..n /\ j \notin A
      BY <2>1
    <3> HIDE DEF S
    <3> QED BY ONLY <3>1, n \in Nat, f \in [1..n -> Int], OnlyOneMore
  <2> QED BY <2>1, <2>2, <2>3
<1>7. n \in S
  <2> HIDE DEF S
  <2> QED BY <1>3, <1>5, <1>6, CountingUp
<1>8. w[n] = Added(Only(f, n, met[n]), n)
  BY <1>7
<1> HIDE DEF w, met, S
<1>9. Only(f, n, met[n]) = f
  BY <1>3 DEF Only
<1> QED BY <1>8, <1>9 DEF Added, w

-----------------------------------------------------------------------------
(* Lists that lose and gain rows.                                           *)

\* RemoveAt moves the rows behind up by one.
LEMMA RowRemoved ==
    ASSUME NEW T, NEW s \in Seq(T), NEW i \in 1..Len(s)
    PROVE  /\ RemoveAt(s, i) \in Seq(T) /\ Len(RemoveAt(s, i)) = Len(s) - 1
           /\ \A k \in 1..(Len(s) - 1) : RemoveAt(s, i)[k] = IF k < i THEN s[k] ELSE s[k + 1]
<1> DEFINE n == Len(s)
           front == SubSeq(s, 1, i - 1)
           back == SubSeq(s, i + 1, n)
           rest == front \o back
<1>1. n \in Nat /\ i \in 1..n /\ i - 1 \in Nat /\ n - i \in Nat
  OBVIOUS
<1>2. front \in Seq(T) /\ Len(front) = i - 1 /\ \A k \in 1..(i - 1) : front[k] = s[k]
  BY <1>1
<1>3. back \in Seq(T) /\ Len(back) = n - i /\ \A k \in 1..(n - i) : back[k] = s[k + i]
  BY <1>1
<1> HIDE DEF front, back, n
<1>4. /\ rest \in Seq(T) /\ Len(rest) = n - 1
      /\ \A k \in 1..(n - 1) : rest[k] = IF k <= i - 1 THEN front[k] ELSE back[k - (i - 1)]
  <2>1. /\ rest \in Seq(T) /\ Len(rest) = Len(front) + Len(back)
        /\ \A k \in 1..(Len(front) + Len(back)) :
              rest[k] = IF k <= Len(front) THEN front[k] ELSE back[k - Len(front)]
    BY <1>2, <1>3, ConcatProperties, Zenon
  <2>2. Len(front) = i - 1 /\ Len(front) + Len(back) = n - 1
    BY <1>1, <1>2, <1>3
  <2> HIDE DEF rest
  <2> QED BY <2>1, <2>2
<1> HIDE DEF rest
<1>5. ASSUME NEW k \in 1..(n - 1) PROVE rest[k] = IF k < i THEN s[k] ELSE s[k + 1]
  <2>1. CASE k < i
    BY <1>1, <1>2, <1>4, <2>1
  <2>2. CASE k >= i
    <3>1. ~(k <= i - 1) /\ k - (i - 1) \in 1..(n - i) /\ (k - (i - 1)) + i = k + 1 /\ ~(k < i)
      BY <1>1, <2>2
    <3> QED BY <1>3, <1>4, <3>1
  <2> QED BY <1>1, <2>1, <2>2
<1>6. RemoveAt(s, i) = rest
  BY DEF RemoveAt, rest, front, back, n
<1> QED BY <1>4, <1>5, <1>6 DEF n

\* The places of a row in a list.
Held(list, x) == {i \in DOMAIN list : list[i] = x}

\* They can be counted.
LEMMA HeldIsFinite ==
    ASSUME NEW T, NEW s \in Seq(T), NEW x
    PROVE  IsFiniteSet(Held(s, x)) /\ Cardinality(Held(s, x)) \in Nat
<1>1. Len(s) \in Nat /\ Held(s, x) \in SUBSET (1..Len(s))
  BY DEF Held
<1>2. IsFiniteSet(1..Len(s))
  BY <1>1, IntervalSize
<1> QED BY <1>1, <1>2, FS_Subset, FS_CardinalityType

\* A row more.
LEMMA HeldOnceMore ==
    ASSUME NEW T, NEW s \in Seq(T), NEW x \in T, NEW y \in T
    PROVE  Cardinality(Held(Append(s, y), x))
           = IF x = y THEN Cardinality(Held(s, x)) + 1 ELSE Cardinality(Held(s, x))
<1> DEFINE n == Len(s)
<1>1. n \in Nat /\ n + 1 \notin Held(s, x)
  BY DEF Held
<1>2. /\ Append(s, y) \in Seq(T) /\ Len(Append(s, y)) = n + 1
      /\ \A i \in 1..n : Append(s, y)[i] = s[i]
      /\ Append(s, y)[n + 1] = y
  BY AppendProperties
<1>3. DOMAIN Append(s, y) = 1..(n + 1) /\ DOMAIN s = 1..n /\ 1..(n + 1) = 1..n \cup {n + 1}
  BY <1>1, <1>2
<1> HIDE DEF n
<1>4. Held(Append(s, y), x) = IF x = y THEN Held(s, x) \cup {n + 1} ELSE Held(s, x)
  BY <1>2, <1>3 DEF Held
<1> QED BY <1>1, <1>4, HeldIsFinite, FS_AddElement

\* A row of another kind less.
LEMMA HeldAsOften ==
    ASSUME NEW T, NEW s \in Seq(T), NEW i \in 1..Len(s), NEW x, s[i] # x
    PROVE  Cardinality(Held(RemoveAt(s, i), x)) = Cardinality(Held(s, x))
<1> DEFINE n == Len(s)
           r == RemoveAt(s, i)
           U == Held(r, x)
           V == Held(s, x)
           f == [k \in U |-> IF k < i THEN k ELSE k + 1]
<1>1. /\ n \in Nat /\ i \in 1..n /\ r \in Seq(T) /\ Len(r) = n - 1
      /\ \A k \in 1..(n - 1) : r[k] = IF k < i THEN s[k] ELSE s[k + 1]
  BY RowRemoved
<1>2. DOMAIN r = 1..(n - 1) /\ DOMAIN s = 1..n
  BY <1>1
<1> HIDE DEF r, n
<1>3. \A k : k \in U <=> k \in 1..(n - 1) /\ r[k] = x
  BY <1>2 DEF Held
<1>4. \A k : k \in V <=> k \in 1..n /\ s[k] = x
  BY <1>2 DEF Held
<1> HIDE DEF U, V
<1>5. f \in [U -> V]
  <2>1. ASSUME NEW k \in U PROVE (IF k < i THEN k ELSE k + 1) \in V
    <3>1. k \in 1..(n - 1) /\ r[k] = x
      BY <1>3
    <3>2. k \in 1..n /\ k + 1 \in 1..n
      BY <1>1, <3>1
    <3>3. r[k] = IF k < i THEN s[k] ELSE s[k + 1]
      BY <1>1, <3>1
    <3> QED BY <1>4, <3>1, <3>2, <3>3
  <2> QED BY <2>1
<1>6. \A k, l \in U : f[k] = f[l] => k = l
  BY <1>1, <1>3
<1>7. ASSUME NEW j \in V PROVE \E k \in U : f[k] = j
  <2>1. j \in 1..n /\ s[j] = x /\ j # i
    BY <1>4
  <2>2. CASE j < i
    <3>1. j \in U
      BY <1>1, <1>3, <2>1, <2>2
    <3> QED BY <2>2, <3>1
  <2>3. CASE j > i
    <3>1. j - 1 \in 1..(n - 1) /\ ~(j - 1 < i) /\ (j - 1) + 1 = j
      BY <1>1, <2>1, <2>3
    <3>2. j - 1 \in U
      BY <1>1, <1>3, <2>1, <3>1
    <3>3. f[j - 1] = j
      BY <3>1, <3>2
    <3> QED BY <3>2, <3>3
  <2> QED BY <1>1, <2>1, <2>2, <2>3
<1>8. ExistsBijection(U, V)
  <2> HIDE DEF f
  <2>1. f \in Injection(U, V) /\ f \in Surjection(U, V)
    BY <1>5, <1>6, <1>7 DEF Injection, Surjection, IsInjective
  <2> QED BY <2>1 DEF ExistsBijection, Bijection
<1>9. IsFiniteSet(U)
  BY <1>1, HeldIsFinite DEF U
<1>10. Cardinality(U) = Cardinality(V)
  BY <1>8, <1>9, FS_Bijection
<1> QED BY <1>10 DEF U, V, r

-----------------------------------------------------------------------------
(* Lists of lists, one after the other.                                     *)

Flattens(g, n, seqs) ==
    g = [i \in 1..n |-> IF i = 1 THEN seqs[i] ELSE g[i - 1] \o seqs[i]]

\* The function that FlattenSeq picks exists.
LEMMA FlattenExists ==
    ASSUME NEW n \in Nat, NEW seqs PROVE \E g : Flattens(g, n, seqs)
<1> DEFINE S == {m \in 0..n : \E g : Flattens(g, m, seqs)}
<1>1. 0 \in S
  <2> DEFINE g == [i \in 1..0 |-> i]
  <2>1. 1..0 = {} /\ 0 \in 0..n
    OBVIOUS
  <2>2. Flattens(g, 0, seqs)
    BY <2>1 DEF Flattens
  <2> QED BY <2>1, <2>2
<1>2. ASSUME NEW m \in 0..(n - 1), m \in S PROVE m + 1 \in S
  <2>1. PICK g : Flattens(g, m, seqs)
    BY <1>2
  <2> DEFINE k == m + 1
             h == [i \in 1..k |-> IF i = k THEN (IF k = 1 THEN seqs[k] ELSE g[m] \o seqs[k]) ELSE g[i]]
  <2>2. m \in Nat /\ k \in 0..n /\ k \in 1..k /\ 1..k = (1..m) \cup {k} /\ k \notin 1..m /\ k - 1 = m
    OBVIOUS
  <2>3. ASSUME NEW i \in 1..k PROVE h[i] = IF i = 1 THEN seqs[i] ELSE h[i - 1] \o seqs[i]
    <3>1. CASE i = k
      <4>1. k # 1 => m \in 1..m /\ m \in 1..k /\ m # k
        BY <2>2
      <4>2. k # 1 => h[m] = g[m]
        BY <4>1
      <4>3. h[k] = IF k = 1 THEN seqs[k] ELSE g[m] \o seqs[k]
        BY <2>2
      <4> HIDE DEF h
      <4> QED BY <2>2, <3>1, <4>2, <4>3
    <3>2. CASE i # k
      <4>1. i \in 1..m /\ (i # 1 => i - 1 \in 1..m /\ i - 1 \in 1..k /\ i - 1 # k)
        BY <2>2, <3>2
      <4>2. g[i] = IF i = 1 THEN seqs[i] ELSE g[i - 1] \o seqs[i]
        BY <2>1, <4>1 DEF Flattens
      <4>3. h[i] = g[i] /\ (i # 1 => h[i - 1] = g[i - 1])
        BY <3>2, <4>1
      <4> HIDE DEF h
      <4> QED BY <4>2, <4>3
    <3> QED BY <3>1, <3>2
  <2>4. Flattens(h, k, seqs)
    <3>1. h = [i \in 1..k |-> h[i]]
      OBVIOUS
    <3> HIDE DEF h
    <3> QED BY <2>3, <3>1 DEF Flattens
  <2> QED BY <2>2, <2>4
<1>3. n \in S
  <2>1. n \in 0..n
    OBVIOUS
  <2> HIDE DEF S
  <2> QED BY <1>1, <1>2, <2>1, CountingUp
<1> QED BY <1>3

\* What the first lists give.
Flattening(u, n, A, seqs) ==
    /\ u \in [0..n -> Seq(A)] /\ u[0] = <<>> /\ u[n] = FlattenSeq(seqs)
    /\ \A k \in 1..n : u[k] = u[k - 1] \o seqs[k]

\* FlattenSeq puts one list after the other.
LEMMA FlattenTrace ==
    ASSUME NEW n \in Nat, NEW A, NEW seqs \in [1..n -> Seq(A)]
    PROVE  \E u : Flattening(u, n, A, seqs)
<1> DEFINE it == CHOOSE g : Flattens(g, n, seqs)
           u == [k \in 0..n |-> IF k = 0 THEN <<>> ELSE it[k]]
<1>1. seqs \in Seq(Seq(A)) /\ Len(seqs) = n /\ DOMAIN seqs = 1..n
  OBVIOUS
<1>2. Flattens(it, n, seqs)
  BY FlattenExists
<1>3. FlattenSeq(seqs) = IF n = 0 THEN <<>> ELSE it[n]
  <2>1. CASE n = 0
    <3>1. seqs = <<>>
      BY <1>1, <2>1
    <3>2. FlattenSeq(seqs) = seqs
      BY <1>1, <2>1 DEF FlattenSeq
    <3> QED BY <2>1, <3>1, <3>2
  <2>2. CASE n # 0
    BY <1>1, <2>2 DEF FlattenSeq, Flattens
  <2> QED BY <2>1, <2>2
<1> HIDE DEF it
<1>4. \A k \in 1..n : it[k] = IF k = 1 THEN seqs[k] ELSE it[k - 1] \o seqs[k]
  BY <1>2 DEF Flattens
<1>5. u[0] = <<>> /\ u[n] = FlattenSeq(seqs)
  BY <1>3
<1>6. ASSUME NEW k \in 1..n PROVE u[k] = u[k - 1] \o seqs[k]
  <2>1. seqs[k] \in Seq(A)
    OBVIOUS
  <2>2. u[k] = it[k] /\ u[k - 1] = IF k = 1 THEN <<>> ELSE it[k - 1]
    OBVIOUS
  <2>3. <<>> \o seqs[k] = seqs[k]
    BY <2>1, ConcatEmptySeq
  <2> HIDE DEF u
  <2> QED BY <1>4, <2>2, <2>3
<1> DEFINE S == {k \in 0..n : u[k] \in Seq(A)}
<1>7. 0 \in S
  <2>1. 0 \in 0..n /\ <<>> \in Seq(A)
    OBVIOUS
  <2> HIDE DEF u
  <2> QED BY <1>5, <2>1
<1>8. ASSUME NEW k \in 0..(n - 1), k \in S PROVE k + 1 \in S
  <2>1. k + 1 \in 1..n /\ k + 1 \in 0..n /\ (k + 1) - 1 = k
    OBVIOUS
  <2> HIDE DEF u
  <2>2. u[k + 1] = u[k] \o seqs[k + 1] /\ u[k] \in Seq(A) /\ seqs[k + 1] \in Seq(A)
    BY <1>6, <1>8, <2>1
  <2>3. u[k] \o seqs[k + 1] \in Seq(A)
    BY <2>2, ConcatProperties
  <2> QED BY <2>1, <2>2, <2>3
<1>9. \A k \in 0..n : u[k] \in Seq(A)
  <2>1. \A k \in 0..n : k \in S
    <3> HIDE DEF S
    <3> QED BY <1>7, <1>8, CountingUp
  <2> QED BY <2>1
<1>10. u \in [0..n -> Seq(A)]
  BY <1>9
<1> HIDE DEF u
<1> QED BY <1>5, <1>6, <1>10 DEF Flattening

\* Two lists whose elements correspond, pair by pair.
LinedUp(s, t, P) == Len(s) = Len(t) /\ \A j \in 1..Len(s) : <<s[j], t[j]>> \in P

\* Lists that line up still do when others that line up are put behind them.
LEMMA ConcatLinesUp ==
    ASSUME NEW A, NEW B, NEW P, NEW s \in Seq(A), NEW t \in Seq(B), NEW x \in Seq(A), NEW y \in Seq(B),
           LinedUp(s, t, P), LinedUp(x, y, P)
    PROVE  LinedUp(s \o x, t \o y, P)
<1> DEFINE n == Len(s)
           m == Len(x)
<1>1. n \in Nat /\ m \in Nat /\ Len(t) = n /\ Len(y) = m
  BY DEF LinedUp
<1>2. /\ Len(s \o x) = n + m
      /\ \A j \in 1..(n + m) : (s \o x)[j] = IF j <= n THEN s[j] ELSE x[j - n]
  BY ConcatProperties
<1>3. /\ Len(t \o y) = Len(t) + Len(y)
      /\ \A j \in 1..(Len(t) + Len(y)) : (t \o y)[j] = IF j <= Len(t) THEN t[j] ELSE y[j - Len(t)]
  BY ConcatProperties
<1> HIDE DEF n, m
<1>4. ASSUME NEW j \in 1..(n + m) PROVE <<(s \o x)[j], (t \o y)[j]>> \in P
  <2>1. CASE j <= n
    <3>1. j \in 1..n
      BY <1>1, <2>1
    <3>2. <<s[j], t[j]>> \in P
      BY <3>1 DEF LinedUp, n
    <3> QED BY <1>1, <1>2, <1>3, <2>1, <3>2
  <2>2. CASE ~(j <= n)
    <3>1. j - n \in 1..m
      BY <1>1, <2>2
    <3>2. <<x[j - n], y[j - n]>> \in P
      BY <3>1 DEF LinedUp, m
    <3> QED BY <1>1, <1>2, <1>3, <2>2, <3>2
  <2> QED BY <2>1, <2>2
<1> QED BY <1>1, <1>2, <1>3, <1>4 DEF LinedUp

\* So lists of lists that line up one by one line up when flattened.
LEMMA FlattenLinesUp ==
    ASSUME NEW n \in Nat, NEW A, NEW B, NEW P, NEW ss \in [1..n -> Seq(A)], NEW tt \in [1..n -> Seq(B)],
           \A k \in 1..n : LinedUp(ss[k], tt[k], P)
    PROVE  /\ FlattenSeq(ss) \in Seq(A) /\ FlattenSeq(tt) \in Seq(B)
           /\ LinedUp(FlattenSeq(ss), FlattenSeq(tt), P)
<1>1. PICK u : Flattening(u, n, A, ss)
  BY FlattenTrace
<1>2. PICK v : Flattening(v, n, B, tt)
  BY FlattenTrace
<1> DEFINE S == {k \in 0..n : LinedUp(u[k], v[k], P)}
<1>3. 0 \in S
  BY <1>1, <1>2 DEF LinedUp, Flattening
<1>4. ASSUME NEW k \in 0..(n - 1), k \in S PROVE k + 1 \in S
  <2>1. k + 1 \in 1..n /\ k + 1 \in 0..n /\ (k + 1) - 1 = k /\ k \in 0..n
    OBVIOUS
  <2>2. /\ u[k] \in Seq(A) /\ v[k] \in Seq(B) /\ ss[k + 1] \in Seq(A) /\ tt[k + 1] \in Seq(B)
        /\ LinedUp(u[k], v[k], P) /\ LinedUp(ss[k + 1], tt[k + 1], P)
    BY <1>1, <1>2, <1>4, <2>1 DEF Flattening
  <2>3. LinedUp(u[k] \o ss[k + 1], v[k] \o tt[k + 1], P)
    BY <2>2, ConcatLinesUp
  <2> QED BY <1>1, <1>2, <2>1, <2>3 DEF Flattening
<1>5. n \in 0..n
  OBVIOUS
<1>6. n \in S
  <2> HIDE DEF S
  <2> QED BY <1>3, <1>4, <1>5, CountingUp
<1>7. u[n] \in Seq(A) /\ v[n] \in Seq(B)
  BY <1>1, <1>2, <1>5 DEF Flattening
<1> QED BY <1>1, <1>2, <1>6, <1>7 DEF Flattening

-----------------------------------------------------------------------------
(* Sorting.                                                                 *)

Ahead(n, R, i) == {j \in 1..n : <<j, i>> \in R}

\* A total order of 1..n, and no number is before itself.
IsOrder(R, n) ==
    /\ \A i \in 1..n : <<i, i>> \notin R
    /\ \A i, j \in 1..n : i # j => <<i, j>> \in R \/ <<j, i>> \in R
    /\ \A i, j, k \in 1..n : <<i, j>> \in R /\ <<j, k>> \in R => <<i, k>> \in R

\* A list of n is all numbers to n, each once and in the order R.
Arranges(p, n, R) ==
    /\ p \in [1..n -> 1..n]
    /\ \A k, l \in 1..n : p[k] = p[l] => k = l
    /\ \A i \in 1..n : \E k \in 1..n : p[k] = i
    /\ \A k, l \in 1..n : k < l <=> <<p[k], p[l]>> \in R

\* Whatever is later has more before it.
LEMMA AheadGrows ==
    ASSUME NEW n \in Nat, NEW R, IsOrder(R, n), NEW i \in 1..n, NEW j \in 1..n, <<i, j>> \in R
    PROVE  Cardinality(Ahead(n, R, i)) < Cardinality(Ahead(n, R, j))
<1>1. Ahead(n, R, i) \subseteq Ahead(n, R, j) /\ i \in Ahead(n, R, j) /\ i \notin Ahead(n, R, i)
  BY DEF Ahead, IsOrder
<1>2. IsFiniteSet(Ahead(n, R, j)) /\ IsFiniteSet(Ahead(n, R, i))
  BY IntervalSize, FS_Subset DEF Ahead
<1>3. /\ Cardinality(Ahead(n, R, i)) \in Nat /\ Cardinality(Ahead(n, R, j)) \in Nat
      /\ Cardinality(Ahead(n, R, i)) <= Cardinality(Ahead(n, R, j))
      /\ Cardinality(Ahead(n, R, i)) = Cardinality(Ahead(n, R, j)) => Ahead(n, R, i) = Ahead(n, R, j)
  BY <1>1, <1>2, FS_Subset, FS_CardinalityType
<1> QED BY <1>1, <1>3

\* An element's place tells it from the others, and every place is taken.
LEMMA PlacesAreTaken ==
    ASSUME NEW n \in Nat, NEW R, IsOrder(R, n)
    PROVE  /\ \A i \in 1..n : Cardinality(Ahead(n, R, i)) \in 0..(n - 1)
           /\ \A k \in 1..n : \E i \in 1..n : Cardinality(Ahead(n, R, i)) = k - 1
<1> DEFINE N == 1..n
           place == [i \in N |-> Cardinality(Ahead(n, R, i)) + 1]
<1>1. ASSUME NEW i \in N PROVE Cardinality(Ahead(n, R, i)) \in 0..(n - 1)
  <2>1. Ahead(n, R, i) \subseteq N /\ i \notin Ahead(n, R, i)
    BY DEF Ahead, IsOrder
  <2>2. IsFiniteSet(N) /\ Cardinality(N) = n
    BY IntervalSize
  <2> HIDE DEF N
  <2>3. /\ IsFiniteSet(Ahead(n, R, i)) /\ Cardinality(Ahead(n, R, i)) <= n
        /\ Cardinality(Ahead(n, R, i)) = n => Ahead(n, R, i) = N
    BY <2>1, <2>2, FS_Subset
  <2>4. Cardinality(Ahead(n, R, i)) \in Nat
    BY <2>3, FS_CardinalityType
  <2> QED BY <2>1, <2>3, <2>4
<1>2. place \in [N -> N]
  <2>1. \A i \in N : Cardinality(Ahead(n, R, i)) + 1 \in N
    BY <1>1
  <2> QED BY <2>1
<1>3. ASSUME NEW i \in N, NEW j \in N, place[i] = place[j] PROVE i = j
  <2>1. Cardinality(Ahead(n, R, i)) = Cardinality(Ahead(n, R, j))
    BY <1>1, <1>3
  <2>2. i # j => <<i, j>> \in R \/ <<j, i>> \in R
    BY DEF IsOrder
  <2>3. /\ Cardinality(Ahead(n, R, i)) \in Nat /\ Cardinality(Ahead(n, R, j)) \in Nat
        /\ <<i, j>> \in R => Cardinality(Ahead(n, R, i)) < Cardinality(Ahead(n, R, j))
        /\ <<j, i>> \in R => Cardinality(Ahead(n, R, j)) < Cardinality(Ahead(n, R, i))
    BY <1>1, AheadGrows
  <2> QED BY <2>1, <2>2, <2>3
<1>4. ASSUME NEW k \in N PROVE \E i \in N : place[i] = k
  <2>1. IsFiniteSet(N)
    BY IntervalSize
  <2> HIDE DEF N, place
  <2>2. place \in Injection(N, N)
    BY <1>2, <1>3 DEF Injection, IsInjective
  <2>3. place \in Surjection(N, N)
    BY <2>1, <2>2, FS_Injection
  <2> QED BY <2>3 DEF Surjection
<1>5. ASSUME NEW k \in N PROVE \E i \in N : Cardinality(Ahead(n, R, i)) = k - 1
  <2>1. PICK i \in N : place[i] = k
    BY <1>4
  <2>2. Cardinality(Ahead(n, R, i)) + 1 = k /\ Cardinality(Ahead(n, R, i)) \in Nat
    BY <1>1, <2>1
  <2> QED BY <2>2
<1> QED BY <1>1, <1>5

\* The numbers that Arrangement lists are all, each once, in order.
LEMMA ArrangementArranges ==
    ASSUME NEW n \in Nat, NEW R, IsOrder(R, n) PROVE Arranges(Arrangement(n, R), n, R)
<1> DEFINE p == Arrangement(n, R)
           before(i) == Cardinality(Ahead(n, R, i))
<1>1. \A i \in 1..n : before(i) \in Nat /\ before(i) + 1 \in 1..n
  BY PlacesAreTaken
<1>2. ASSUME NEW k \in 1..n PROVE p[k] \in 1..n /\ before(p[k]) = k - 1
  <2>1. p[k] = CHOOSE i \in 1..n : before(i) = k - 1
    BY DEF Arrangement, Ahead
  <2>2. \E i \in 1..n : before(i) = k - 1
    BY PlacesAreTaken, Zenon
  <2> HIDE DEF before, p
  <2> QED BY <2>1, <2>2
<1>3. p \in [1..n -> 1..n]
  <2> DEFINE at(k) == CHOOSE i \in 1..n : Cardinality({j \in 1..n : <<j, i>> \in R}) = k - 1
  <2>1. p = [k \in 1..n |-> at(k)]
    BY DEF Arrangement
  <2> HIDE DEF p, at
  <2>2. p = [k \in 1..n |-> p[k]]
    BY <2>1
  <2> QED BY <1>2, <2>2
<1>4. \A i, j \in 1..n : i # j => <<i, j>> \in R \/ <<j, i>> \in R
  BY DEF IsOrder
<1>5. \A i, j \in 1..n : <<i, j>> \in R => before(i) < before(j)
  BY AheadGrows
<1> HIDE DEF p, before
<1>6. \A k, l \in 1..n : p[k] = p[l] => k = l
  <2> SUFFICES ASSUME NEW k \in 1..n, NEW l \in 1..n, p[k] = p[l] PROVE k = l
    OBVIOUS
  <2>1. k - 1 = l - 1
    BY <1>2
  <2> QED BY <2>1
<1>7. ASSUME NEW i \in 1..n, NEW j \in 1..n, before(i) = before(j) PROVE i = j
  <2>1. before(i) \in Nat /\ ~(before(i) < before(j)) /\ ~(before(j) < before(i))
    BY <1>1, <1>7
  <2>2. <<i, j>> \notin R /\ <<j, i>> \notin R
    BY <1>5, <2>1
  <2> QED BY <1>4, <2>2
<1>8. ASSUME NEW i \in 1..n PROVE \E k \in 1..n : p[k] = i
  <2>1. PICK k \in 1..n : k = before(i) + 1
    BY <1>1
  <2>2. before(p[k]) = before(i) /\ p[k] \in 1..n
    BY <1>1, <1>2, <2>1
  <2> QED BY <1>7, <2>2
<1>9. ASSUME NEW k \in 1..n, NEW l \in 1..n PROVE k < l <=> <<p[k], p[l]>> \in R
  <2>1. p[k] \in 1..n /\ p[l] \in 1..n /\ before(p[k]) = k - 1 /\ before(p[l]) = l - 1
    BY <1>2
  <2>2. ASSUME <<p[k], p[l]>> \in R PROVE k < l
    <3>1. before(p[k]) < before(p[l])
      BY <1>5, <2>1, <2>2
    <3> QED BY <2>1, <3>1
  <2>3. ASSUME k < l PROVE <<p[k], p[l]>> \in R
    <3>1. p[k] # p[l]
      BY <1>6, <2>3
    <3>2. ~(before(p[l]) < before(p[k]))
      BY <2>1, <2>3
    <3> QED BY <1>4, <1>5, <2>1, <3>1, <3>2
  <2> QED BY <2>2, <2>3
<1>10. Arranges(p, n, R)
  BY <1>3, <1>6, <1>8, <1>9 DEF Arranges
<1> QED BY <1>10 DEF p

-----------------------------------------------------------------------------
(* The members of a set, sorted by a key.                                   *)

\* SetToSeq lists each member of a finite set once.
LEMMA ListOfSet ==
    ASSUME NEW S, IsFiniteSet(S)
    PROVE  /\ Cardinality(S) \in Nat /\ SetToSeq(S) \in [1..Cardinality(S) -> S]
           /\ Len(SetToSeq(S)) = Cardinality(S)
           /\ \A i, j \in 1..Cardinality(S) : SetToSeq(S)[i] = SetToSeq(S)[j] => i = j
           /\ \A x \in S : \E i \in 1..Cardinality(S) : SetToSeq(S)[i] = x
<1> DEFINE n == Cardinality(S)
           list == SetToSeq(S)
<1>1. n \in Nat /\ ExistsBijection(1..n, S)
  BY FS_CardinalityType
<1>2. list \in [1..n -> S] /\ (\A i, k \in 1..n : list[i] = list[k] => i = k)
  <2>1. PICK f : f \in Bijection(1..n, S)
    BY <1>1 DEF ExistsBijection
  <2>2. f \in [1..n -> S] /\ IsInjective(f)
    BY <2>1 DEF Bijection, Injection
  <2>3. list = CHOOSE g \in [1..n -> S] : IsInjective(g)
    BY DEF SetToSeq
  <2> HIDE DEF n, list
  <2>4. list \in [1..n -> S] /\ IsInjective(list)
    BY <2>2, <2>3
  <2> QED BY <2>4 DEF IsInjective
<1>3. IsFiniteSet(1..n) /\ Cardinality(1..n) = n
  BY <1>1, IntervalSize
<1> HIDE DEF list
<1>4. \A x \in S : \E i \in 1..n : list[i] = x
  <2>1. list \in Injection(1..n, S)
    BY <1>2 DEF Injection, IsInjective
  <2>2. list \in Surjection(1..n, S)
    BY <1>3, <2>1, FS_Injection
  <2> QED BY <2>2 DEF Surjection
<1>5. Len(list) = n
  BY <1>1, <1>2
<1> QED BY <1>1, <1>2, <1>4, <1>5 DEF list

KeyOrder(list, key) ==
    {p \in (1..Len(list)) \X (1..Len(list)) :
        \/ key[list[p[1]]] < key[list[p[2]]]
        \/ ~(key[list[p[2]]] < key[list[p[1]]]) /\ p[1] < p[2]}

ByKey(S, key) ==
    LET list == SetToSeq(S)
    IN [k \in 1..Len(list) |-> list[Arrangement(Len(list), KeyOrder(list, key))[k]]]

\* A list is all of a set, each member once, the keys going up.
ListsByKey(list, S, key) ==
    LET n == Cardinality(S)
    IN  /\ n \in Nat /\ list \in [1..n -> S] /\ Len(list) = n
        /\ \A k, l \in 1..n : list[k] = list[l] => k = l
        /\ \A x \in S : \E k \in 1..n : list[k] = x
        /\ \A k, l \in 1..n : k < l => key[list[k]] <= key[list[l]]

\* A finite set sorted by a key is listed so.
LEMMA KeysGoUp ==
    ASSUME NEW S, IsFiniteSet(S), NEW key \in [S -> Int]
    PROVE  ListsByKey(ByKey(S, key), S, key)
<1> DEFINE n == Cardinality(S)
           list == SetToSeq(S)
           R == KeyOrder(list, key)
           p == Arrangement(n, R)
           first(i, j) == \/ key[list[i]] < key[list[j]]
                          \/ ~(key[list[j]] < key[list[i]]) /\ i < j
           sorted == ByKey(S, key)
<1>1. /\ n \in Nat /\ list \in [1..n -> S] /\ Len(list) = n
      /\ \A i, j \in 1..n : list[i] = list[j] => i = j
      /\ \A x \in S : \E i \in 1..n : list[i] = x
  BY ListOfSet
<1> HIDE DEF n, list
<1>2. \A i, j \in 1..n : <<i, j>> \in R <=> first(i, j)
  BY <1>1 DEF KeyOrder
<1>3. sorted = [k \in 1..n |-> list[p[k]]]
  BY <1>1 DEF ByKey, list
<1> HIDE DEF R, sorted
<1>4. \A i \in 1..n : key[list[i]] \in Int
  BY <1>1
<1>5. IsOrder(R, n)
  <2>1. \A i \in 1..n : ~first(i, i)
    BY <1>1, <1>4
  <2>2. \A i, j \in 1..n : i # j => first(i, j) \/ first(j, i)
    BY <1>1, <1>4
  <2>3. ASSUME NEW i \in 1..n, NEW j \in 1..n, NEW k \in 1..n, first(i, j), first(j, k)
        PROVE  first(i, k)
    BY <1>1, <1>4, <2>3
  <2> HIDE DEF first
  <2> QED BY <1>2, <2>1, <2>2, <2>3 DEF IsOrder
<1>6. Arranges(p, n, R)
  BY <1>1, <1>5, ArrangementArranges
<1> HIDE DEF p
<1>7. /\ p \in [1..n -> 1..n] /\ \A i \in 1..n : \E k \in 1..n : p[k] = i
      /\ \A k, l \in 1..n : p[k] = p[l] => k = l
      /\ \A k, l \in 1..n : k < l => <<p[k], p[l]>> \in R
  BY <1>6 DEF Arranges
<1>8. sorted \in [1..n -> S] /\ Len(sorted) = n
  BY <1>1, <1>3, <1>7
<1>9. \A x \in S : \E k \in 1..n : sorted[k] = x
  BY <1>1, <1>3, <1>7
<1>10. ASSUME NEW k \in 1..n, NEW l \in 1..n, sorted[k] = sorted[l] PROVE k = l
  <2>1. p[k] \in 1..n /\ p[l] \in 1..n /\ list[p[k]] = list[p[l]]
    BY <1>3, <1>7, <1>10
  <2> QED BY <1>1, <1>7, <2>1
<1>11. ASSUME NEW k \in 1..n, NEW l \in 1..n, k < l PROVE key[sorted[k]] <= key[sorted[l]]
  <2>1. first(p[k], p[l]) /\ p[k] \in 1..n /\ p[l] \in 1..n
    BY <1>2, <1>7, <1>11
  <2> QED BY <1>3, <1>4, <2>1
<1> QED BY <1>1, <1>8, <1>9, <1>10, <1>11 DEF ListsByKey, n, sorted
=============================================================================
