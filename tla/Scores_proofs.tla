---------------------------- MODULE Scores_proofs ----------------------------
(***************************************************************************)
(* The panels' computations.  Deductions, for any number of judges, marks, *)
(* codes and calls: every deduction that counts has two judges behind it,  *)
(* no agreement is missed, and the same marks count in whatever order the  *)
(* map yields the judges.  Nandu, for any sheet and any results: with one  *)
(* to three judges, an element succeeds when half of them say so; page and *)
(* server list the same elements; and the difficulty keeps to its limits.  *)
(* The adjusted average, for any number of scores: it is a trimmed mean,   *)
(* whatever their order.                                                   *)
(***************************************************************************)
EXTENDS AdjustedAverage, Deductions, Nandu, Lists_proofs

\* A mark that has left the lists without counting had no partner: whatever
\* is near it counts through another mark.
DroppedWereNotNeeded ==
    \A c \in Calls : \A x, y \in marks :
        x \notin left[c] \cup Applied(c) /\ Near(x, y) => y \in Applied(c)

\* What counts has left the lists.
AppliedIsGone ==
    \A c \in Calls : left[c] \subseteq marks /\ Applied(c) \cap left[c] = {}

IInv == DeductionTypes /\ AppliedIsGone /\ DroppedWereNotNeeded /\ TwoJudgesAgree

\* Nothing has been taken from the lists when they are made, and nothing counts.
LEMMA InitInvariant == DeductionsInit => IInv
<1> SUFFICES ASSUME NEW M \in SUBSET Mark, Start(M) PROVE IInv
  BY DEF DeductionsInit
<1>1. DeductionTypes
  BY OrdersAssumption, SMT DEF Start, DeductionTypes
<1>2. \A c \in Calls : left[c] = marks /\ result[c] = {}
  BY DEF Start
<1>3. \A c \in Calls : Applied(c) = {}
  BY <1>2 DEF Applied
<1>4. AppliedIsGone /\ DroppedWereNotNeeded /\ TwoJudgesAgree
  BY <1>2, <1>3 DEF AppliedIsGone, DroppedWereNotNeeded, TwoJudgesAgree
<1> QED BY <1>1, <1>4 DEF IInv

\* One round: the earliest mark m of call c, with what it matches.
LEMMA StepInvariant ==
  ASSUME IInv, NEW c \in Calls, MatchEarliestDeduction(c) PROVE IInv'
<1> USE DEF IInv
<1>1. PICK m \in left[c] :
        /\ IsEarliest(c, m)
        /\ left' = [left EXCEPT ![c] = @ \ ({m} \cup Matched(c, m))]
        /\ result' = IF Matches(c, m) = {} THEN result
                     ELSE [result EXCEPT ![c] =
                             @ \cup {[mark |-> m, with |-> Matched(c, m)]}]
  BY DEF MatchEarliestDeduction
<1>2. marks' = marks /\ order' = order
  BY DEF MatchEarliestDeduction
<1>a. m \in marks /\ left[c] \subseteq marks /\ marks \subseteq Mark /\ m \in Mark
  BY DEF AppliedIsGone, DeductionTypes
<1>b. Matched(c, m) \subseteq Matches(c, m) /\ Matches(c, m) \subseteq left[c]
  BY DEF Matched, Matches
<1>c. \A d \in Matches(c, m) : d.judge # m.judge /\ d.code = m.code
                               /\ d.ts < m.ts + deductionWindow
  BY DEF Matches
<1>d. \A d \in left[c] : d.ts \in Nat /\ m.ts \in Nat /\ m.ts <= d.ts
  <2> SUFFICES ASSUME NEW d \in left[c]
               PROVE  d.ts \in Nat /\ m.ts \in Nat /\ m.ts <= d.ts
    OBVIOUS
  <2>1. d.ts \in Nat /\ m.ts \in Nat
    BY <1>a, TimesAssumption DEF Mark
  <2>2. m.ts < d.ts \/ m.ts = d.ts
    BY <1>1 DEF IsEarliest
  <2> QED BY <2>1, <2>2
<1>3. DeductionTypes'
  <2>1. left' \in [Calls -> SUBSET Mark]
    BY <1>1, <1>a DEF DeductionTypes
  <2>2. [mark |-> m, with |-> Matched(c, m)] \in [mark : Mark, with : SUBSET Mark]
    BY <1>a, <1>b
  <2>3. result' \in [Calls -> SUBSET [mark : Mark, with : SUBSET Mark]]
    BY <1>1, <2>2 DEF DeductionTypes
  <2> QED BY <1>2, <2>1, <2>3 DEF DeductionTypes
<1>4. \A b \in Calls : b # c => left'[b] = left[b] /\ result'[b] = result[b]
  BY <1>1 DEF DeductionTypes
<1>5. \A b \in Calls : b # c => Applied(b)' = Applied(b)
  BY <1>4 DEF Applied
<1>6. left'[c] = left[c] \ ({m} \cup Matched(c, m))
  BY <1>1 DEF DeductionTypes
<1>7. CASE Matches(c, m) = {}
  <2>1. Matched(c, m) = {} /\ result' = result
    BY <1>1, <1>7 DEF Matched
  <2>2. left'[c] = left[c] \ {m}
    BY <1>6, <2>1
  <2>3. \A b \in Calls : Applied(b)' = Applied(b)
    BY <2>1 DEF Applied
  <2>4. AppliedIsGone'
    BY <1>2, <1>4, <2>2, <2>3 DEF AppliedIsGone
  <2>5. TwoJudgesAgree'
    BY <2>1 DEF TwoJudgesAgree, Near
  <2>6. ASSUME NEW y \in marks, Near(m, y) PROVE y \in Applied(c)
    <3>1. y \notin left[c]
      <4> SUFFICES ASSUME y \in left[c] PROVE FALSE
        OBVIOUS
      <4>1. y \in Matches(c, m)
        BY <2>6, <1>d, TimesAssumption DEF Matches, Near
      <4> QED BY <4>1, <1>7
    <3>2. Near(y, m)
      BY <2>6 DEF Near
    <3>3. m \notin Applied(c)
      BY DEF AppliedIsGone
    <3> QED BY <3>1, <3>2, <3>3, <1>a DEF DroppedWereNotNeeded
  <2>7. DroppedWereNotNeeded'
    <3> SUFFICES ASSUME NEW b \in Calls, NEW x \in marks, NEW y \in marks,
                        x \notin left'[b] \cup Applied(b), Near(x, y)
                 PROVE  y \in Applied(b)
      BY <1>2, <2>3 DEF DroppedWereNotNeeded, Near
    <3>1. CASE b = c /\ x = m
      BY <3>1, <2>6
    <3>2. CASE ~(b = c /\ x = m)
      BY <3>2, <1>4, <2>2 DEF DroppedWereNotNeeded
    <3> QED BY <3>1, <3>2
  <2> QED BY <1>3, <2>4, <2>5, <2>7
<1>8. CASE Matches(c, m) # {}
  <2> DEFINE r == [mark |-> m, with |-> Matched(c, m)]
  <2>1. result'[c] = result[c] \cup {r}
    BY <1>1, <1>8 DEF DeductionTypes
  <2>2. Applied(c)' = Applied(c) \cup {m} \cup Matched(c, m)
    <3>a. r.mark = m /\ r.with = Matched(c, m)
      OBVIOUS
    <3> HIDE DEF r
    <3>1. \A z : z \in Applied(c)' <=> \E u \in result'[c] : z \in {u.mark} \cup u.with
      BY DEF Applied
    <3>2. \A z : z \in Applied(c) <=> \E u \in result[c] : z \in {u.mark} \cup u.with
      BY DEF Applied
    <3>3. \A z : z \in Applied(c)' <=> z \in Applied(c) \/ z \in {m} \cup Matched(c, m)
      BY <2>1, <3>a, <3>1, <3>2
    <3> QED BY <3>3
  <2>3. AppliedIsGone'
    BY <1>2, <1>4, <1>5, <1>6, <2>2, <1>a, <1>b DEF AppliedIsGone
  <2>4. DroppedWereNotNeeded'
    <3> SUFFICES ASSUME NEW b \in Calls, NEW x \in marks, NEW y \in marks,
                        x \notin left'[b] \cup Applied(b)', Near(x, y)
                 PROVE  y \in Applied(b)'
      BY <1>2 DEF DroppedWereNotNeeded, Near
    <3>1. CASE b = c
      BY <3>1, <1>6, <2>2 DEF DroppedWereNotNeeded
    <3>2. CASE b # c
      BY <3>2, <1>4, <1>5 DEF DroppedWereNotNeeded
    <3> QED BY <3>1, <3>2
  <2>5. Matched(c, m) # {}
    PROOF
    <3>1. PICK d \in Matches(c, m) : TRUE
      BY <1>8
    <3> DEFINE S == {e \in Matches(c, m) : e.judge = d.judge}
    <3> DEFINE T == {e.ts : e \in S}
    <3>2. T # {} /\ T \subseteq Nat
      BY <3>1, <1>b, <1>d
    <3>3. PICK t \in T : \A u \in T : t <= u
      <4>1. PICK t \in T : \A u \in T : ~(<<u, t>> \in OpToRel(<, Nat))
        BY <3>2, WFMin, NatLessThanWellFounded, Zenon
      <4>2. \A u \in T : ~(u < t)
        BY <4>1, <3>2, Zenon DEF OpToRel
      <4> HIDE DEF T
      <4> QED BY <4>2, <3>2
    <3>4. PICK e \in S : e.ts = t
      OBVIOUS
    <3>5. e \in Matched(c, m)
      BY <3>3, <3>4 DEF Matched
    <3> QED BY <3>5
  <2>6. \A d \in Matched(c, m) : Near(m, d)
    BY <1>b, <1>c, <1>d, TimesAssumption DEF Near
  <2>7. TwoJudgesAgree'
    PROOF
    <3>1. \A s \in result[c] : ({s.mark} \cup s.with) \cap left[c] = {}
      BY DEF AppliedIsGone, Applied
    <3>2. \A s \in result[c] : ({s.mark} \cup s.with) \cap ({r.mark} \cup r.with) = {}
      BY <3>1, <1>b
    <3> SUFFICES ASSUME NEW b \in Calls, NEW s \in result'[b]
                 PROVE  /\ s.with # {}
                        /\ \A d \in s.with : Near(s.mark, d)
                        /\ \A u \in result'[b] \ {s} :
                             ({s.mark} \cup s.with) \cap ({u.mark} \cup u.with) = {}
      BY DEF TwoJudgesAgree, Near
    <3>3. CASE b # c
      BY <3>3, <1>4 DEF TwoJudgesAgree
    <3>4. CASE b = c /\ s = r
      BY <3>4, <2>1, <2>5, <2>6, <3>2
    <3>5. CASE b = c /\ s # r
      BY <3>5, <2>1, <3>2 DEF TwoJudgesAgree
    <3> QED BY <3>3, <3>4, <3>5
  <2> QED BY <1>3, <2>3, <2>4, <2>7
<1> QED BY <1>7, <1>8

\* The invariant holds whatever marks there are and whichever call goes on.
LEMMA DeductionsInvariant == DeductionsSpec => []IInv
<1>1. DeductionsInit => IInv
  BY InitInvariant
<1>2. IInv /\ [DeductionsNext]_deductionVars => IInv'
  <2> SUFFICES ASSUME IInv, [DeductionsNext]_deductionVars PROVE IInv'
    OBVIOUS
  <2>1. CASE DeductionsNext
    BY <2>1, StepInvariant DEF DeductionsNext
  <2>2. CASE UNCHANGED deductionVars
    BY <2>2 DEF deductionVars, IInv, DeductionTypes, AppliedIsGone, DroppedWereNotNeeded,
                TwoJudgesAgree, Applied, Near
  <2> QED BY <2>1, <2>2
<1> QED BY <1>1, <1>2, PTL DEF DeductionsSpec

\* Every deduction that counts has two judges behind it, and no mark backs two
\* of them.
THEOREM TwoJudgesBehindEach == DeductionsSpec => []TwoJudgesAgree
<1>1. IInv => TwoJudgesAgree
  BY DEF IInv
<1> QED BY <1>1, DeductionsInvariant, PTL

\* Of two marks of one code within the window at least one counts.
THEOREM DeductionsAgree == DeductionsSpec => []NoAgreementMissed
<1>1. IInv => NoAgreementMissed
  <2> SUFFICES ASSUME IInv, NEW c \in Calls, Done(c), NEW x \in marks,
                      NEW y \in marks, Near(x, y)
               PROVE  {x, y} \cap Applied(c) # {}
    BY DEF IInv, NoAgreementMissed
  <2> QED BY DEF IInv, DroppedWereNotNeeded, Done
<1> QED BY <1>1, DeductionsInvariant, PTL

-----------------------------------------------------------------------------
(* The order of the map.  What a call finds at a time and a code depends on *)
(* the marks that earlier matches have taken, and not on which of several   *)
(* marks of that time the call meets first: each of them takes the others.  *)

Members(r) == {r.mark} \cup r.with

\* what the matches before time t have taken
TakenBefore(c, t) == {d \in marks : \E r \in result[c] : r.mark.ts < t /\ d \in Members(r)}

\* the marks of m's code that m finds, its own judge's and itself included
Found(c, m) ==
    {d \in marks : /\ d.code = m.code
                   /\ m.ts <= d.ts /\ d.ts < m.ts + deductionWindow
                   /\ d \notin TakenBefore(c, m.ts)}

\* each judge's first
FirstOf(S) == {d \in S : \A e \in S : e.judge = d.judge => d.ts <= e.ts}

Dropped(c) == marks \ (left[c] \cup Applied(c))

\* A call works through the marks by time.
InOrder ==
    \A c \in Calls : \A y \in left[c] :
        /\ \A r \in result[c] : r.mark.ts <= y.ts
        /\ \A x \in Dropped(c) : x.ts <= y.ts

MatchesAreFirsts ==
    \A c \in Calls : \A r \in result[c] : r.mark \in marks /\ Members(r) = FirstOf(Found(c, r.mark))

DroppedFindNobody ==
    \A c \in Calls : \A x \in Dropped(c) : \A d \in Found(c, x) : d.judge = x.judge

OrderInv == IsFiniteSet(marks) /\ DistinctTimes(marks) /\ InOrder /\ MatchesAreFirsts /\ DroppedFindNobody

\* Marks have times, and a call's marks, left and taken, are marks of the judges.
LEMMA MarkFacts ==
    ASSUME IInv, NEW c \in Calls
    PROVE  /\ marks \subseteq Mark /\ \A d \in marks : d.ts \in Nat
           /\ left[c] \subseteq marks /\ Applied(c) \cap left[c] = {}
           /\ \A r \in result[c] : r.mark \in Applied(c) /\ Members(r) \subseteq Applied(c)
           /\ \A d \in Applied(c) : \E r \in result[c] : d \in Members(r)
           /\ \A t : TakenBefore(c, t) \subseteq Applied(c)
           /\ \A r \in result[c] : r.with # {} /\ \A d \in r.with : Near(r.mark, d)
           /\ deductionWindow \in Nat
<1>1. /\ marks \subseteq Mark /\ deductionWindow \in Nat /\ left[c] \subseteq marks
      /\ Applied(c) \cap left[c] = {}
  BY TimesAssumption DEF IInv, DeductionTypes, AppliedIsGone
<1>2. \A d \in marks : d.ts \in Nat
  BY <1>1, TimesAssumption DEF Mark
<1>3. \A r \in result[c] : r.with # {} /\ \A d \in r.with : Near(r.mark, d)
  BY DEF IInv, TwoJudgesAgree
<1>4. \A d : d \in Applied(c) <=> \E r \in result[c] : d \in Members(r)
  BY DEF Applied, Members
<1>5. \A r \in result[c] : r.mark \in Members(r)
  BY DEF Members
<1>6. \A t : TakenBefore(c, t) \subseteq Applied(c)
  BY <1>4 DEF TakenBefore
<1> QED BY <1>1, <1>2, <1>3, <1>4, <1>5, <1>6

\* Nothing is matched at the start.
LEMMA OrderInitially == DeductionsInit => OrderInv
<1> SUFFICES ASSUME NEW M \in SUBSET Mark, Start(M) PROVE OrderInv
  BY DEF DeductionsInit
<1>1. \A c \in Calls : left[c] = marks /\ result[c] = {}
  BY DEF Start
<1>2. \A c \in Calls : Dropped(c) = {}
  BY <1>1 DEF Dropped
<1>3. IsFiniteSet(marks) /\ DistinctTimes(marks)
  BY DEF Start
<1> QED BY <1>1, <1>2, <1>3 DEF OrderInv, InOrder, MatchesAreFirsts, DroppedFindNobody

\* A match takes the marks of its time: none of its code is left.
LEMMA TakesItsTime ==
    ASSUME IInv, OrderInv, NEW c \in Calls, NEW m \in left[c], NEW r \in result[c],
           r.mark.code = m.code
    PROVE  r.mark.ts # m.ts
<1> SUFFICES ASSUME r.mark.ts = m.ts PROVE FALSE
  OBVIOUS
<1>1. /\ m \in marks /\ m \notin Applied(c) /\ m.ts \in Nat /\ deductionWindow \in Nat
      /\ m \notin TakenBefore(c, m.ts)
  BY MarkFacts
<1>2. r.mark \in marks /\ Members(r) = FirstOf(Found(c, r.mark))
  BY DEF OrderInv, MatchesAreFirsts
<1>3. m.ts < m.ts + deductionWindow
  <2>1. PICK d \in r.with : Near(r.mark, d)
    BY MarkFacts
  <2>2. d \in Found(c, r.mark)
    BY <1>2, <2>1 DEF Members, FirstOf
  <2>3. d.ts \in Nat /\ r.mark.ts <= d.ts /\ d.ts < r.mark.ts + deductionWindow
    BY <2>2, MarkFacts DEF Found
  <2> QED BY <1>1, <2>3
<1>4. m \in Found(c, r.mark)
  BY <1>1, <1>3 DEF Found
<1>5. m \in FirstOf(Found(c, r.mark))
  BY <1>4 DEF FirstOf, Found
<1> QED BY <1>1, <1>2, <1>5, MarkFacts

\* What the earliest mark finds is still on the lists.
LEMMA FoundIsLeft ==
    ASSUME IInv, OrderInv, NEW c \in Calls, NEW m \in left[c], NEW d \in Found(c, m)
    PROVE  d \in left[c]
<1>1. /\ d \in marks /\ d.code = m.code /\ m.ts <= d.ts /\ d.ts < m.ts + deductionWindow
      /\ d \notin TakenBefore(c, m.ts)
  BY DEF Found
<1>2. m \in marks /\ m.ts \in Nat /\ d.ts \in Nat /\ deductionWindow \in Nat /\ m \notin Applied(c)
  BY <1>1, MarkFacts
<1>3. d \notin Applied(c)
  <2> SUFFICES ASSUME d \in Applied(c) PROVE FALSE
    OBVIOUS
  <2>1. PICK r \in result[c] : d \in Members(r)
    BY MarkFacts
  <2>2. r.mark.ts <= m.ts /\ r.mark.ts \in Nat
    BY MarkFacts DEF OrderInv, InOrder, MatchesAreFirsts
  <2>3. ~(r.mark.ts < m.ts)
    BY <1>1, <2>1 DEF TakenBefore
  <2>4. d.code = r.mark.code
    BY <2>1 DEF OrderInv, MatchesAreFirsts, FirstOf, Found
  <2>5. d.ts \in Nat /\ r.mark.ts = m.ts
    BY <1>2, <2>2, <2>3
  <2>6. r.mark.code = m.code
    BY <1>1, <2>4
  <2> QED BY <2>5, <2>6, TakesItsTime
<1>4. d \notin Dropped(c)
  <2> SUFFICES ASSUME d \in Dropped(c) PROVE FALSE
    OBVIOUS
  <2>1. d.ts <= m.ts
    BY DEF OrderInv, InOrder
  <2>2. d.ts = m.ts /\ d # m
    BY <1>1, <1>2, <2>1 DEF Dropped
  <2>3. d.judge # m.judge
    BY <1>1, <1>2, <2>2 DEF OrderInv, DistinctTimes
  <2>4. Near(d, m)
    BY <1>1, <1>2, <2>2, <2>3 DEF Near
  <2> QED BY <1>1, <1>2, <2>4 DEF IInv, DroppedWereNotNeeded, Dropped
<1> QED BY <1>1, <1>3, <1>4 DEF Dropped

\* The earliest mark and what it matches are the firsts of what it finds.
LEMMA MatchedAreFirsts ==
    ASSUME IInv, OrderInv, NEW c \in Calls, NEW m \in left[c], IsEarliest(c, m),
           Matches(c, m) # {}
    PROVE  {m} \cup Matched(c, m) = FirstOf(Found(c, m))
<1>1. /\ \A d \in left[c] : d \in marks /\ d.ts \in Nat
      /\ m.ts \in Nat /\ deductionWindow \in Nat /\ \A t : TakenBefore(c, t) \cap left[c] = {}
  BY MarkFacts
<1>2. \A d \in left[c] : m.ts <= d.ts
  BY <1>1 DEF IsEarliest
<1>3. \A d : d \in Found(c, m) <=> d \in left[c] /\ d.code = m.code /\ d.ts < m.ts + deductionWindow
  BY <1>1, <1>2, FoundIsLeft DEF Found
<1>4. m \in Found(c, m)
  <2>1. PICK d \in Matches(c, m) : TRUE
    OBVIOUS
  <2>2. d \in left[c] /\ d.ts < m.ts + deductionWindow
    BY DEF Matches
  <2> QED BY <1>1, <1>2, <1>3, <2>2
<1>5. \A d : d \in Matches(c, m) <=> d \in Found(c, m) /\ d.judge # m.judge
  BY <1>3 DEF Matches
<1>6. \A d \in left[c] : d.judge = m.judge /\ d.ts <= m.ts => d = m
  BY <1>1, <1>2 DEF OrderInv, DistinctTimes
<1>7. m \in FirstOf(Found(c, m))
  BY <1>2, <1>3, <1>4 DEF FirstOf
<1>8. \A d \in FirstOf(Found(c, m)) : d.judge = m.judge => d = m
  BY <1>3, <1>4, <1>6 DEF FirstOf
<1>9. \A d : d.judge # m.judge => (d \in Matched(c, m) <=> d \in FirstOf(Found(c, m)))
  BY <1>5 DEF Matched, FirstOf
<1>10. \A d \in Matched(c, m) : d.judge # m.judge
  BY DEF Matched, Matches
<1> QED BY <1>7, <1>8, <1>9, <1>10

\* What a call finds at a time that it has worked through stays what it found.
LEMMA FoundStays ==
    ASSUME IInv, OrderInv, NEW c \in Calls, NEW m \in left[c], marks' = marks,
           \/ result'[c] = result[c]
           \/ \E w : result'[c] = result[c] \cup {[mark |-> m, with |-> w]},
           NEW x \in marks, x.ts <= m.ts
    PROVE  Found(c, x)' = Found(c, x)
<1>1. m.ts \in Nat /\ x.ts \in Nat
  BY MarkFacts
<1>2. \A r \in result'[c] : r.mark.ts < x.ts => r \in result[c]
  <2> SUFFICES ASSUME NEW r \in result'[c], r.mark.ts < x.ts, r \notin result[c] PROVE FALSE
    OBVIOUS
  <2>1. r.mark = m
    OBVIOUS
  <2> QED BY <1>1, <2>1
<1>3. result[c] \subseteq result'[c]
  OBVIOUS
<1>4. \A d \in marks : (\E r \in result'[c] : r.mark.ts < x.ts /\ d \in {r.mark} \cup r.with)
                       <=> (\E r \in result[c] : r.mark.ts < x.ts /\ d \in {r.mark} \cup r.with)
  BY <1>2, <1>3
<1> QED BY <1>4 DEF Found, TakenBefore, Members

\* One round keeps the order of the call that takes it.
LEMMA OrderStep ==
  ASSUME IInv, OrderInv, NEW c \in Calls, MatchEarliestDeduction(c) PROVE OrderInv'
<1>1. PICK m \in left[c] :
        /\ IsEarliest(c, m)
        /\ left' = [left EXCEPT ![c] = @ \ ({m} \cup Matched(c, m))]
        /\ result' = IF Matches(c, m) = {} THEN result
                     ELSE [result EXCEPT ![c] =
                             @ \cup {[mark |-> m, with |-> Matched(c, m)]}]
  BY DEF MatchEarliestDeduction
<1>2. marks' = marks
  BY DEF MatchEarliestDeduction
<1>3. left \in [Calls -> SUBSET Mark]
      /\ result \in [Calls -> SUBSET [mark : Mark, with : SUBSET Mark]]
  BY DEF IInv, DeductionTypes
<1>4. \A b \in Calls : b # c => left'[b] = left[b] /\ result'[b] = result[b]
  BY <1>1, <1>3
<1>5. left'[c] = left[c] \ ({m} \cup Matched(c, m))
  BY <1>1, <1>3
<1>6. /\ m \in marks /\ m.ts \in Nat /\ m \notin Applied(c)
      /\ \A d \in left[c] : d.ts \in Nat /\ m.ts <= d.ts
  <2>1. m \in marks /\ m.ts \in Nat /\ m \notin Applied(c) /\ \A d \in left[c] : d.ts \in Nat
    BY MarkFacts
  <2>2. \A d \in left[c] : m.ts < d.ts \/ m.ts = d.ts
    BY <1>1 DEF IsEarliest
  <2> QED BY <2>1, <2>2
<1>7. \A b \in Calls : b # c =>
        /\ Applied(b)' = Applied(b) /\ Dropped(b)' = Dropped(b)
        /\ \A x : Found(b, x)' = Found(b, x)
  BY <1>2, <1>4 DEF Applied, Dropped, Found, TakenBefore
<1>8. /\ \A r \in result'[c] : r \in result[c] \/ r = [mark |-> m, with |-> Matched(c, m)]
      /\ \/ result'[c] = result[c]
         \/ result'[c] = result[c] \cup {[mark |-> m, with |-> Matched(c, m)]}
      /\ Matches(c, m) = {} => result'[c] = result[c]
      /\ Matches(c, m) # {} => [mark |-> m, with |-> Matched(c, m)] \in result'[c]
  BY <1>1, <1>3
<1>9. \A x \in marks : x.ts <= m.ts => Found(c, x)' = Found(c, x)
  BY <1>2, <1>8, FoundStays
<1>10. /\ \A d : d \in Applied(c) <=> \E r \in result[c] : d \in {r.mark} \cup r.with
       /\ \A d : d \in Applied(c)' <=> \E r \in result'[c] : d \in {r.mark} \cup r.with
  BY DEF Applied
<1>11. \A x \in Dropped(c)' : x \in Dropped(c) \/ (x = m /\ Matches(c, m) = {})
  <2> SUFFICES ASSUME NEW x \in marks, x \notin left'[c], x \notin Applied(c)',
                      x \notin Dropped(c)
               PROVE  x = m /\ Matches(c, m) = {}
    BY <1>2 DEF Dropped
  <2>1. x \notin Applied(c)
    BY <1>8, <1>10
  <2>2. x \in {m} \cup Matched(c, m)
    BY <1>5, <2>1 DEF Dropped
  <2>3. Matches(c, m) = {}
    <3> SUFFICES ASSUME Matches(c, m) # {} PROVE FALSE
      OBVIOUS
    <3>1. \E r \in result'[c] : r.mark = m /\ r.with = Matched(c, m)
      BY <1>8
    <3> QED BY <1>10, <2>2, <3>1
  <2>4. Matched(c, m) = {}
    BY <2>3 DEF Matched
  <2> QED BY <2>2, <2>3, <2>4
<1>12. InOrder'
  <2> SUFFICES ASSUME NEW b \in Calls, NEW y \in left'[b]
               PROVE  /\ \A r \in result'[b] : r.mark.ts <= y.ts
                      /\ \A x \in Dropped(b)' : x.ts <= y.ts
    BY DEF InOrder
  <2>1. CASE b # c
    BY <2>1, <1>4, <1>7 DEF OrderInv, InOrder
  <2>2. CASE b = c
    <3>1. y \in left[c] /\ m.ts <= y.ts
      BY <2>2, <1>5, <1>6
    <3>2. \A r \in result'[c] : r.mark.ts <= y.ts
      BY <1>8, <3>1 DEF OrderInv, InOrder
    <3>3. \A x \in Dropped(c)' : x.ts <= y.ts
      BY <1>11, <3>1 DEF OrderInv, InOrder
    <3> QED BY <2>2, <3>2, <3>3
  <2> QED BY <2>1, <2>2
<1>13. MatchesAreFirsts'
  <2> SUFFICES ASSUME NEW b \in Calls, NEW r \in result'[b]
               PROVE  /\ r.mark \in marks
                      /\ {r.mark} \cup r.with = FirstOf(Found(b, r.mark)')
    BY <1>2 DEF MatchesAreFirsts, Members, FirstOf
  <2>1. CASE b # c
    BY <2>1, <1>4, <1>7 DEF OrderInv, MatchesAreFirsts, Members
  <2>2. CASE b = c /\ r \in result[c]
    <3>1. r.mark.ts <= m.ts /\ r.mark \in marks /\ Members(r) = FirstOf(Found(c, r.mark))
      BY <2>2 DEF OrderInv, InOrder, MatchesAreFirsts
    <3> QED BY <2>2, <3>1, <1>9 DEF Members
  <2>3. CASE b = c /\ r \notin result[c]
    <3>1. r.mark = m /\ r.with = Matched(c, m) /\ Matches(c, m) # {}
      BY <2>3, <1>8
    <3>2. {m} \cup Matched(c, m) = FirstOf(Found(c, m))
      BY <1>1, <3>1, MatchedAreFirsts
    <3>3. Found(c, m)' = Found(c, m)
      BY <1>6, <1>9
    <3> QED BY <2>3, <3>1, <3>2, <3>3, <1>6
  <2> QED BY <2>1, <2>2, <2>3
<1>14. DroppedFindNobody'
  <2> SUFFICES ASSUME NEW b \in Calls, NEW x \in Dropped(b)', NEW d \in Found(b, x)'
               PROVE  d.judge = x.judge
    BY DEF DroppedFindNobody
  <2>1. CASE b # c
    BY <2>1, <1>7 DEF OrderInv, DroppedFindNobody
  <2>2. CASE b = c /\ x \in Dropped(c)
    <3>1. x \in marks /\ x.ts <= m.ts
      BY <2>2 DEF OrderInv, InOrder, Dropped
    <3>2. d \in Found(c, x)
      BY <2>2, <3>1, <1>9
    <3> QED BY <2>2, <3>2 DEF OrderInv, DroppedFindNobody
  <2>3. CASE b = c /\ x = m /\ Matches(c, m) = {}
    <3>1. d \in Found(c, m)
      BY <2>3, <1>6, <1>9
    <3>2. d \in left[c]
      BY <3>1, FoundIsLeft
    <3>3. d.code = m.code /\ d.ts < m.ts + deductionWindow
      BY <3>1 DEF Found
    <3> QED BY <2>3, <3>2, <3>3 DEF Matches
  <2> QED BY <2>1, <2>2, <2>3, <1>11
<1>15. (IsFiniteSet(marks) /\ DistinctTimes(marks))'
  BY <1>2 DEF OrderInv, DistinctTimes
<1> QED BY <1>12, <1>13, <1>14, <1>15 DEF OrderInv

\* Two calls that have taken the same marks before a time match alike at it:
\* what one has matched, the other has, perhaps by another mark of the match.
LEMMA AlikeAtATime ==
    ASSUME IInv, OrderInv, NEW b \in Calls, NEW c \in Calls, Done(c),
           NEW r \in result[b], TakenBefore(b, r.mark.ts) = TakenBefore(c, r.mark.ts)
    PROVE  \E s \in result[c] : /\ Members(s) = Members(r)
                                /\ s.mark.ts = r.mark.ts /\ s.mark.code = r.mark.code
<1> DEFINE m == r.mark
<1>1. m \in marks /\ Members(r) = FirstOf(Found(b, m)) /\ m \in Members(r) /\ m.ts \in Nat
  BY MarkFacts DEF OrderInv, MatchesAreFirsts, Members
<1>2. Found(b, m) = Found(c, m)
  BY DEF Found
<1>3. m \in Found(c, m) /\ m \notin TakenBefore(c, m.ts)
  BY <1>1, <1>2 DEF FirstOf, Found
<1>4. PICK d \in Found(c, m) : d.judge # m.judge
  <2>1. PICK d \in r.with : Near(m, d)
    BY MarkFacts
  <2>2. d \in Found(c, m)
    BY <1>1, <1>2, <2>1 DEF Members, FirstOf
  <2> QED BY <2>1, <2>2 DEF Near
<1>5. m \in Applied(c)
  BY <1>1, <1>4 DEF OrderInv, DroppedFindNobody, Dropped, Done
<1>6. PICK s \in result[c] : m \in Members(s)
  BY <1>5, MarkFacts
<1>7. s.mark \in marks /\ Members(s) = FirstOf(Found(c, s.mark)) /\ s.mark.ts \in Nat
  BY MarkFacts DEF OrderInv, MatchesAreFirsts
<1>8. m \in Found(c, s.mark)
  BY <1>6, <1>7 DEF FirstOf
<1>9. s.mark.code = m.code /\ s.mark.ts <= m.ts
  BY <1>8 DEF Found
<1>10. ~(s.mark.ts < m.ts)
  BY <1>1, <1>3, <1>6 DEF TakenBefore
<1>11. s.mark.ts = m.ts
  BY <1>1, <1>7, <1>9, <1>10
<1>12. Found(c, s.mark) = Found(c, m)
  BY <1>9, <1>11 DEF Found
<1> QED BY <1>1, <1>2, <1>7, <1>9, <1>11, <1>12

\* Two calls that have ended have taken the same marks at every time: at the
\* first time at which they differed they would have matched alike before it.
LEMMA TakenAlike ==
    ASSUME IInv, OrderInv, NEW b \in Calls, NEW c \in Calls, Done(b), Done(c), NEW t \in Nat
    PROVE  TakenBefore(b, t) = TakenBefore(c, t)
<1> DEFINE T == {u \in Nat : TakenBefore(b, u) # TakenBefore(c, u)}
<1> SUFFICES ASSUME T # {} PROVE FALSE
  OBVIOUS
<1>1. PICK u \in T : \A v \in T : ~(<<v, u>> \in OpToRel(<, Nat))
  <2>1. T \subseteq Nat
    OBVIOUS
  <2> HIDE DEF T
  <2> QED BY <2>1, WFMin, NatLessThanWellFounded, Zenon
<1>2. \A v \in Nat : v < u => TakenBefore(b, v) = TakenBefore(c, v)
  <2> SUFFICES ASSUME NEW v \in T, v < u PROVE FALSE
    OBVIOUS
  <2>1. u \in Nat /\ v \in Nat
    OBVIOUS
  <2>2. <<v, u>> \in OpToRel(<, Nat)
    BY <2>1, Zenon DEF OpToRel
  <2> HIDE DEF T
  <2> QED BY <1>1, <2>2
<1>3. /\ \A r \in result[b] : r.mark.ts \in Nat
      /\ \A r \in result[c] : r.mark.ts \in Nat
  BY MarkFacts DEF OrderInv, MatchesAreFirsts
<1>4. ASSUME NEW d \in TakenBefore(b, u) PROVE d \in TakenBefore(c, u)
  <2>1. PICK r \in result[b] : r.mark.ts < u /\ d \in Members(r) /\ d \in marks
    BY DEF TakenBefore
  <2>2. TakenBefore(b, r.mark.ts) = TakenBefore(c, r.mark.ts)
    BY <1>2, <1>3, <2>1
  <2>3. PICK s \in result[c] : Members(s) = Members(r) /\ s.mark.ts = r.mark.ts
    BY <2>2, AlikeAtATime
  <2> QED BY <2>1, <2>3 DEF TakenBefore
<1>5. ASSUME NEW d \in TakenBefore(c, u) PROVE d \in TakenBefore(b, u)
  <2>1. PICK r \in result[c] : r.mark.ts < u /\ d \in Members(r) /\ d \in marks
    BY DEF TakenBefore
  <2>2. TakenBefore(c, r.mark.ts) = TakenBefore(b, r.mark.ts)
    BY <1>2, <1>3, <2>1
  <2>3. PICK s \in result[b] : Members(s) = Members(r) /\ s.mark.ts = r.mark.ts
    BY <2>2, AlikeAtATime
  <2> QED BY <2>1, <2>3 DEF TakenBefore
<1> QED BY <1>4, <1>5

\* So every match of one is a match of the other.
LEMMA MatchedAlike ==
    ASSUME IInv, OrderInv, NEW b \in Calls, NEW c \in Calls, Done(b), Done(c),
           NEW r \in result[b]
    PROVE  \E s \in result[c] : Members(s) = Members(r) /\ s.mark.code = r.mark.code
<1>1. r.mark.ts \in Nat
  BY MarkFacts DEF OrderInv, MatchesAreFirsts
<1> QED BY <1>1, TakenAlike, AlikeAtATime

\* No two matches of a call take the same marks.
LEMMA MatchesAreApart ==
    ASSUME IInv, NEW c \in Calls, NEW r \in result[c], NEW s \in result[c],
           r.mark \in Members(s)
    PROVE  r = s
BY DEF IInv, TwoJudgesAgree, Members

\* A code is deducted at most as often by one call as by the other.
LEMMA NoMoreOften ==
    ASSUME IInv, OrderInv, NEW b \in Calls, NEW c \in Calls, Done(b), Done(c),
           NEW k \in Codes
    PROVE  /\ Cardinality({r \in result[b] : r.mark.code = k}) \in Nat
           /\ Cardinality({r \in result[b] : r.mark.code = k})
                <= Cardinality({r \in result[c] : r.mark.code = k})
<1> DEFINE R == {r \in result[b] : r.mark.code = k}
           S == {r \in result[c] : r.mark.code = k}
           match == [r \in R |-> CHOOSE s \in S : Members(s) = Members(r)]
<1>1. ASSUME NEW a \in Calls PROVE IsFiniteSet({r \in result[a] : r.mark.code = k})
  <2> DEFINE A == {r \in result[a] : r.mark.code = k}
             mark == [r \in A |-> r.mark]
  <2>1. \A r \in A : r.mark \in marks /\ r \in result[a] /\ r.mark \in Members(r)
    BY DEF OrderInv, MatchesAreFirsts, Members
  <2>2. mark \in [A -> marks]
    BY <2>1
  <2>3. \A r, s \in A : mark[r] = mark[s] => r = s
    BY <2>1, MatchesAreApart
  <2>4. mark \in Injection(A, marks)
    BY <2>2, <2>3 DEF Injection, IsInjective
  <2> HIDE DEF A, mark
  <2>5. IsFiniteSet(A)
    BY <2>4, FS_Injection DEF OrderInv
  <2> QED BY <2>5 DEF A
<1>2. \A r \in R : \E s \in S : Members(s) = Members(r)
  <2> SUFFICES ASSUME NEW r \in result[b], r.mark.code = k
               PROVE  \E s \in result[c] : s.mark.code = k /\ Members(s) = Members(r)
    OBVIOUS
  <2> QED BY MatchedAlike
<1>3. \A r \in R : match[r] \in S /\ Members(match[r]) = Members(r)
  <2> SUFFICES ASSUME NEW r \in R PROVE match[r] \in S /\ Members(match[r]) = Members(r)
    OBVIOUS
  <2>1. match[r] = CHOOSE s \in S : Members(s) = Members(r)
    OBVIOUS
  <2> HIDE DEF S, match
  <2> QED BY <1>2, <2>1
<1>4. \A r, s \in R : Members(r) = Members(s) => r = s
  <2> SUFFICES ASSUME NEW r \in R, NEW s \in R, Members(r) = Members(s) PROVE r = s
    OBVIOUS
  <2>1. r.mark \in Members(s)
    BY DEF Members
  <2> QED BY <2>1, MatchesAreApart
<1>5. match \in [R -> S] /\ \A r, s \in R : match[r] = match[s] => r = s
  <2>1. match = [r \in R |-> match[r]]
    OBVIOUS
  <2> HIDE DEF R, S, match
  <2> QED BY <1>3, <1>4, <2>1
<1>6. match \in Injection(R, S)
  <2> HIDE DEF R, S, match
  <2> QED BY <1>5 DEF Injection, IsInjective
<1>7. IsFiniteSet(R) /\ IsFiniteSet(S)
  BY <1>1
<1> HIDE DEF R, S, match
<1>8. Cardinality(R) <= Cardinality(S) /\ Cardinality(R) \in Nat
  BY <1>6, <1>7, FS_Injection, FS_CardinalityType
<1> QED BY <1>8 DEF R, S

\* Whatever order the map has for a call, the same marks count, every code is
\* deducted as often and the technical score is the same.
THEOREM MapOrderIsIrrelevant == DeductionsSpec => []MapOrderDoesNotMatter
<1>1. DeductionsInit => IInv /\ OrderInv
  BY InitInvariant, OrderInitially
<1>2. IInv /\ OrderInv /\ [DeductionsNext]_deductionVars => IInv' /\ OrderInv'
  <2> SUFFICES ASSUME IInv, OrderInv, [DeductionsNext]_deductionVars
               PROVE  IInv' /\ OrderInv'
    OBVIOUS
  <2>1. CASE DeductionsNext
    BY <2>1, StepInvariant, OrderStep DEF DeductionsNext
  <2>2. CASE UNCHANGED deductionVars
    <3>1. IInv'
      BY <2>2 DEF deductionVars, IInv, DeductionTypes, AppliedIsGone, DroppedWereNotNeeded,
                  TwoJudgesAgree, Applied, Near
    <3>2. OrderInv'
      BY <2>2 DEF deductionVars, OrderInv, DistinctTimes, InOrder, MatchesAreFirsts,
                  DroppedFindNobody, Dropped, Found, TakenBefore, Applied, Members, FirstOf
    <3> QED BY <3>1, <3>2
  <2> QED BY <2>1, <2>2
<1>3. IInv /\ OrderInv => MapOrderDoesNotMatter
  <2> SUFFICES ASSUME IInv, OrderInv, NEW b \in Calls, NEW c \in Calls, Done(b), Done(c)
               PROVE  Applied(b) = Applied(c) /\ Deducted(b) = Deducted(c)
    BY DEF MapOrderDoesNotMatter
  <2>1. \A d : d \in Applied(b) => d \in Applied(c)
    BY MarkFacts, MatchedAlike
  <2>2. \A d : d \in Applied(c) => d \in Applied(b)
    BY MarkFacts, MatchedAlike
  <2>3. \A k \in Codes : Cardinality({r \in result[b] : r.mark.code = k})
                         = Cardinality({r \in result[c] : r.mark.code = k})
    <3> SUFFICES ASSUME NEW k \in Codes
                 PROVE  Cardinality({r \in result[b] : r.mark.code = k})
                        = Cardinality({r \in result[c] : r.mark.code = k})
      OBVIOUS
    <3>1. /\ Cardinality({r \in result[b] : r.mark.code = k}) \in Nat
          /\ Cardinality({r \in result[b] : r.mark.code = k})
               <= Cardinality({r \in result[c] : r.mark.code = k})
      BY NoMoreOften
    <3>2. /\ Cardinality({r \in result[c] : r.mark.code = k}) \in Nat
          /\ Cardinality({r \in result[c] : r.mark.code = k})
               <= Cardinality({r \in result[b] : r.mark.code = k})
      BY NoMoreOften
    <3> QED BY <3>1, <3>2
  <2> QED BY <2>1, <2>2, <2>3 DEF Deducted
<1> QED BY <1>1, <1>2, <1>3, PTL DEF DeductionsSpec

-----------------------------------------------------------------------------
(* Nandu: the judges of the C panel.                                        *)

\* The sheet is settled before the first judge submits, so the results of all
\* judges are about the same elements.
ResultsOfTheSheet == nanduScores \in Seq([1..Len(Sequence) -> BOOLEAN])

\* What a judge sends says yes or no to every element.
LEMMA ResultsAreBoolean ==
    ASSUME NEW r \in Results(Len(Sequence))
    PROVE  r \in [1..Len(Sequence) -> BOOLEAN]
<1> DEFINE n == Len(Sequence)
<1>1. \/ r = [i \in 1..n |-> TRUE]
      \/ \E k \in 1..n : r = [i \in 1..n |-> i = k] \/ r = [i \in 1..n |-> i # k]
  BY DEF Results
<1> QED BY <1>1

\* The cardinalities of sets of three, two or one.
LEMMA SmallCardinalities ==
    /\ Cardinality({}) = 0
    /\ \A a : Cardinality({a}) = 1
    /\ \A a, b : a # b => Cardinality({a, b}) = 2
    /\ Cardinality({1, 2, 3}) = 3
<1>1. Cardinality({}) = 0 /\ \A a : IsFiniteSet({a}) /\ Cardinality({a}) = 1
  BY FS_EmptySet, FS_Singleton
<1>2. ASSUME NEW a, NEW b, a # b PROVE Cardinality({a, b}) = 2
  <2>1. {a} \cup {b} = {a, b} /\ b \notin {a}
    BY <1>2
  <2>2. Cardinality({a} \cup {b}) = Cardinality({a}) + 1
    BY <1>1, <2>1, FS_AddElement
  <2> QED BY <1>1, <2>1, <2>2
<1>3. Cardinality({1, 2, 3}) = 3
  <2>1. {1, 2} = {1} \cup {2} /\ {1, 2, 3} = {1, 2} \cup {3} /\ 1 # 2 /\ 3 \notin {1, 2}
    OBVIOUS
  <2>2. IsFiniteSet({1, 2})
    <3>1. IsFiniteSet({1}) /\ IsFiniteSet({1} \cup {2})
      BY <1>1, FS_AddElement
    <3> QED BY <2>1, <3>1
  <2>3. Cardinality({1, 2}) = 2
    BY <1>2, <2>1, Zenon
  <2>4. Cardinality({1, 2} \cup {3}) = Cardinality({1, 2}) + 1
    BY <2>1, <2>2, FS_AddElement
  <2> QED BY <2>1, <2>3, <2>4
<1> QED BY <1>1, <1>2, <1>3

\* Of one to three results, the rule of the code is the majority.
LEMMA HalfIsEnough ==
    ASSUME ResultsOfTheSheet, Len(nanduScores) \in 1..3, NEW i \in 1..Len(Sequence)
    PROVE  DetermineNandu(nanduScores)[i] <=> 2 * Cardinality(Yes(i)) >= Len(nanduScores)
<1> DEFINE yes(k) == nanduScores[k][i]
<1>1. /\ DOMAIN nanduScores = 1..Len(nanduScores) /\ nanduScores[1] \in [1..Len(Sequence) -> BOOLEAN]
  BY DEF ResultsOfTheSheet
<1>2. DetermineNandu(nanduScores)[i] <=>
        IF Len(nanduScores) >= 3 THEN \E j, k \in 1..3 : j # k /\ yes(j) /\ yes(k)
        ELSE \E k \in 1..Len(nanduScores) : yes(k)
  BY <1>1 DEF DetermineNandu
<1>3. Yes(i) = {k \in 1..Len(nanduScores) : yes(k)}
  BY DEF Yes
<1> HIDE DEF yes
<1>4. CASE Len(nanduScores) = 1
  <2>1. Yes(i) = IF yes(1) THEN {1} ELSE {}
    BY <1>3, <1>4
  <2>2. DetermineNandu(nanduScores)[i] <=> yes(1)
    BY <1>2, <1>4
  <2>3. Cardinality(Yes(i)) = IF yes(1) THEN 1 ELSE 0
    BY <2>1, SmallCardinalities
  <2> QED BY <1>4, <2>2, <2>3
<1>5. CASE Len(nanduScores) = 2
  <2>1. \A k \in 1..2 : k = 1 \/ k = 2
    OBVIOUS
  <2>2. Yes(i) = IF yes(1) THEN (IF yes(2) THEN {1, 2} ELSE {1})
                 ELSE IF yes(2) THEN {2} ELSE {}
    BY <1>3, <1>5, <2>1
  <2>3. DetermineNandu(nanduScores)[i] <=> yes(1) \/ yes(2)
    BY <1>2, <1>5, <2>1
  <2>4. Cardinality(Yes(i)) = IF yes(1) /\ yes(2) THEN 2 ELSE IF yes(1) \/ yes(2) THEN 1 ELSE 0
    <3>0. 1 # 2
      OBVIOUS
    <3>1. Cardinality({1, 2}) = 2 /\ Cardinality({1}) = 1 /\ Cardinality({2}) = 1
      BY <3>0, SmallCardinalities, Zenon
    <3> QED BY <2>2, <3>1, SmallCardinalities
  <2> QED BY <1>5, <2>3, <2>4
<1>6. CASE Len(nanduScores) = 3
  <2>1. \A k : k \in 1..3 <=> k = 1 \/ k = 2 \/ k = 3
    OBVIOUS
  <2>2. DetermineNandu(nanduScores)[i] <=>
          (yes(1) /\ yes(2)) \/ (yes(1) /\ yes(3)) \/ (yes(2) /\ yes(3))
    BY <1>2, <1>6, <2>1
  <2>3. CASE yes(1) /\ yes(2) /\ yes(3)
    <3>1. Yes(i) = {1, 2, 3}
      BY <1>3, <1>6, <2>1, <2>3
    <3> QED BY <1>6, <2>2, <2>3, <3>1, SmallCardinalities
  <2>4. CASE \E a, b, c \in 1..3 : /\ a # b /\ b # c /\ a # c
                                   /\ yes(a) /\ yes(b) /\ ~yes(c)
    <3>1. PICK a \in 1..3, b \in 1..3, c \in 1..3 :
                /\ a # b /\ b # c /\ a # c /\ yes(a) /\ yes(b) /\ ~yes(c)
      BY <2>4
    <3>2. Yes(i) = {a, b}
      BY <1>3, <1>6, <2>1, <3>1
    <3>3. DetermineNandu(nanduScores)[i]
      BY <1>2, <1>6, <3>1
    <3>4. Cardinality(Yes(i)) = 2
      <4>1. a # b
        BY <3>1
      <4>2. Cardinality({a, b}) = 2
        BY <4>1, SmallCardinalities, Zenon
      <4> QED BY <3>2, <4>2
    <3> QED BY <1>6, <3>3, <3>4
  <2>5. CASE \E a \in 1..3 : yes(a) /\ \A b \in 1..3 : b # a => ~yes(b)
    <3>1. PICK a \in 1..3 : yes(a) /\ \A b \in 1..3 : b # a => ~yes(b)
      BY <2>5
    <3>2. Yes(i) = {a}
      BY <1>3, <1>6, <3>1
    <3>3. ~DetermineNandu(nanduScores)[i]
      BY <1>2, <1>6, <3>1
    <3>4. Cardinality(Yes(i)) = 1
      BY <3>2, SmallCardinalities
    <3> QED BY <1>6, <3>3, <3>4
  <2>6. CASE ~yes(1) /\ ~yes(2) /\ ~yes(3)
    <3>1. Yes(i) = {}
      BY <1>3, <1>6, <2>1, <2>6
    <3> QED BY <1>6, <2>2, <2>6, <3>1, SmallCardinalities
  <2> QED BY <2>1, <2>3, <2>4, <2>5, <2>6
<1> QED BY <1>4, <1>5, <1>6

\* Every result in the map is a result of the sheet that is written.
LEMMA ResultsAlways == NanduSpec => []ResultsOfTheSheet
<1>1. NanduInit => ResultsOfTheSheet
  BY DEF NanduInit, ResultsOfTheSheet
<1>2. ResultsOfTheSheet /\ [NanduNext]_nanduVars => ResultsOfTheSheet'
  <2> SUFFICES ASSUME ResultsOfTheSheet, [NanduNext]_nanduVars PROVE ResultsOfTheSheet'
    OBVIOUS
  <2>1. CASE \E c \in Combos : WriteCombo(c)
    BY <2>1 DEF WriteCombo, ResultsOfTheSheet
  <2>2. CASE \E r \in Results(Len(Sequence)) : SubmitNandu(r)
    <3>1. PICK r \in Results(Len(Sequence)) : SubmitNandu(r)
      BY <2>2
    <3>2. r \in [1..Len(Sequence) -> BOOLEAN]
      BY ResultsAreBoolean
    <3>3. nanduScores' = Append(nanduScores, r) /\ Sequence' = Sequence
      BY <3>1 DEF SubmitNandu, Sequence
    <3> QED BY <3>2, <3>3 DEF ResultsOfTheSheet
  <2>3. CASE UNCHANGED nanduVars
    BY <2>3 DEF nanduVars, ResultsOfTheSheet, Sequence
  <2> QED BY <2>1, <2>2, <2>3 DEF NanduNext
<1> QED BY <1>1, <1>2, PTL DEF NanduSpec

\* With one to three judges an element succeeds when at least half of them say
\* so, in whatever order the map yields their results.
THEOREM HalfIsWhatCounts == NanduSpec => []HalfOfTheJudges
<1>1. ResultsOfTheSheet => HalfOfTheJudges
  BY HalfIsEnough DEF HalfOfTheJudges
<1> QED BY <1>1, ResultsAlways, PTL

-----------------------------------------------------------------------------
(* Nandu: the elements of a sheet.                                          *)

Element == [code : Seq(STRING), value : Nat]

\* A code of the tables is worth something, and another nothing.
LEMMA CodesHaveValues ==
    ASSUME NEW code \in Seq(STRING), NEW category
    PROVE  /\ ToNanduCode(code, category) \in Element
           /\ ToNanduCode(code, category).code \in {code, <<>>}
<1>1. \A c \in DOMAIN TaijiNanduCodes : TaijiNanduCodes[c] \in Nat
  BY DEF TaijiNanduCodes
<1>2. \A c \in DOMAIN NanduCodes : NanduCodes[c] \in Nat
  BY DEF NanduCodes
<1>3. \A c \in DOMAIN NanduConnectionCodes : NanduConnectionCodes[c] \in Nat
  BY DEF NanduConnectionCodes
<1>4. <<>> \in Seq(STRING) /\ 0 \in Nat
  OBVIOUS
<1> QED BY <1>1, <1>2, <1>3, <1>4 DEF ToNanduCode, InvalidNanduCode, Element

\* An element as the page lists it and as the server parses it.
Same == {p \in Seq(STRING) \X Element : p[2].code \in {p[1], <<>>}}

\* Page and server find the same in a combo.
LEMMA CombosLineUp ==
    ASSUME NEW combo \in Seq(STRING), NEW category
    PROVE  /\ PageCombo(combo) \in Seq(Seq(STRING)) /\ parseNanduCombo(combo, category) \in Seq(Element)
           /\ LinedUp(PageCombo(combo), parseNanduCombo(combo, category), Same)
<1> DEFINE n == Len(combo) - 1
           move(i) == <<combo[i]>>
           conn(i) == <<combo[i], combo[i + 1]>>
           parsed(code) == ToNanduCode(code, category)
<1>1. ASSUME NEW code \in Seq(STRING) PROVE parsed(code) \in Element /\ <<code, parsed(code)>> \in Same
  BY CodesHaveValues DEF Same
<1>2. CASE combo = <<>>
  BY <1>2 DEF PageCombo, parseNanduCombo, LinedUp
<1>3. CASE Len(combo) = 1
  <2>1. combo = <<combo[1]>> /\ combo # <<>>
    <3>1. combo \in [1..1 -> STRING]
      BY <1>3
    <3>2. <<combo[1]>> = [i \in 1..1 |-> combo[i]]
      OBVIOUS
    <3> QED BY <1>3, <3>1, <3>2
  <2>2. PageCombo(combo) = <<combo>> /\ parseNanduCombo(combo, category) = <<parsed(combo)>>
    BY <1>3, <2>1 DEF PageCombo, parseNanduCombo
  <2>3. parsed(combo) \in Element /\ <<combo, parsed(combo)>> \in Same
    BY <1>1
  <2> HIDE DEF parsed
  <2> QED BY <2>2, <2>3 DEF LinedUp
<1>4. CASE combo # <<>> /\ Len(combo) # 1
  <2> DEFINE page == [i \in 1..n |-> <<move(i), conn(i)>>]
             server == [i \in 1..n |-> <<parsed(move(i)), parsed(conn(i))>>]
  <2>1. n \in Nat /\ \A i \in 1..n : i \in 1..Len(combo) /\ i + 1 \in 1..Len(combo)
    BY <1>4
  <2>2. \A i \in 1..n : move(i) \in Seq(STRING) /\ conn(i) \in Seq(STRING)
    BY <2>1
  <2> HIDE DEF n, move, conn, parsed
  <2>3. page \in [1..n -> Seq(Seq(STRING))]
    BY <2>2
  <2>4. server \in [1..n -> Seq(Element)]
    <3>1. ASSUME NEW i \in 1..n PROVE <<parsed(move(i)), parsed(conn(i))>> \in Seq(Element)
      <4>1. parsed(move(i)) \in Element /\ parsed(conn(i)) \in Element
        BY <1>1, <2>2
      <4> QED BY <4>1
    <3> QED BY <3>1
  <2>5. ASSUME NEW i \in 1..n PROVE LinedUp(page[i], server[i], Same)
    <3>1. /\ <<move(i), parsed(move(i))>> \in Same
          /\ <<conn(i), parsed(conn(i))>> \in Same
      BY <1>1, <2>2
    <3>2. page[i] = <<move(i), conn(i)>> /\ server[i] = <<parsed(move(i)), parsed(conn(i))>>
      OBVIOUS
    <3> QED BY <3>1, <3>2 DEF LinedUp
  <2>6. /\ PageCombo(combo) = FlattenSeq(page)
        /\ parseNanduCombo(combo, category) = FlattenSeq(server)
    BY <1>4 DEF PageCombo, parseNanduCombo, n, move, conn, parsed
  <2> HIDE DEF page, server
  <2>7. n \in Nat /\ \A i \in 1..n : LinedUp(page[i], server[i], Same)
    BY <2>1, <2>5
  <2>8. /\ FlattenSeq(page) \in Seq(Seq(STRING)) /\ FlattenSeq(server) \in Seq(Element)
        /\ LinedUp(FlattenSeq(page), FlattenSeq(server), Same)
    BY ONLY <2>3, <2>4, <2>7, FlattenLinesUp
  <2> QED BY <2>6, <2>8
<1> QED BY <1>2, <1>3, <1>4

\* And on the whole sheet.
LEMMA SheetsLineUp ==
    ASSUME nandusheet \in Seq(Combos), NEW category
    PROVE  LET page == FlattenSeq([i \in 1..Len(nandusheet) |-> PageCombo(nandusheet[i])])
               seq == GetNanduSequence(nandusheet, category)
           IN  /\ page \in Seq(Seq(STRING)) /\ seq \in Seq(Element)
               /\ LinedUp(page, seq, Same)
<1> DEFINE n == Len(nandusheet)
           page == [i \in 1..n |-> PageCombo(nandusheet[i])]
           server == [i \in 1..n |-> parseNanduCombo(nandusheet[i], category)]
<1>1. n \in Nat /\ \A i \in 1..n : nandusheet[i] \in Seq(STRING)
  BY CombosAssumption
<1>2. ASSUME NEW i \in 1..n
      PROVE  /\ page[i] \in Seq(Seq(STRING)) /\ server[i] \in Seq(Element)
             /\ LinedUp(page[i], server[i], Same)
  BY <1>1, CombosLineUp
<1>3. page \in [1..n -> Seq(Seq(STRING))] /\ server \in [1..n -> Seq(Element)]
  BY <1>2
<1>4. GetNanduSequence(nandusheet, category) = FlattenSeq(server)
  BY DEF GetNanduSequence
<1> HIDE DEF page, server
<1>5. /\ FlattenSeq(page) \in Seq(Seq(STRING)) /\ FlattenSeq(server) \in Seq(Element)
      /\ LinedUp(FlattenSeq(page), FlattenSeq(server), Same)
  BY <1>1, <1>2, <1>3, FlattenLinesUp
<1> QED BY <1>4, <1>5 DEF page

SheetOfCombos == nandusheet \in Seq(Combos)

\* A sheet lists combos and nothing else.
LEMMA SheetOfCombosAlways == NanduSpec => []SheetOfCombos
<1>1. NanduInit => SheetOfCombos
  BY DEF NanduInit, SheetOfCombos
<1>2. SheetOfCombos /\ [NanduNext]_nanduVars => SheetOfCombos'
  BY DEF SheetOfCombos, NanduNext, WriteCombo, SubmitNandu, nanduVars
<1> QED BY <1>1, <1>2, PTL DEF NanduSpec

\* Whatever combos a sheet has, page and server find the same elements in it.
LEMMA SheetLinesUp == SheetOfCombos => ResultsLineUp
<1> SUFFICES ASSUME SheetOfCombos, NEW category
             PROVE  LET page == FlattenSeq([i \in 1..Len(nandusheet) |-> PageCombo(nandusheet[i])])
                        seq == GetNanduSequence(nandusheet, category)
                    IN  /\ Len(page) = Len(seq)
                        /\ \A i \in 1..Len(seq) : seq[i].code \in {page[i], <<>>}
  BY DEF ResultsLineUp
<1> DEFINE page == FlattenSeq([i \in 1..Len(nandusheet) |-> PageCombo(nandusheet[i])])
           seq == GetNanduSequence(nandusheet, category)
<1>1. LinedUp(page, seq, Same)
  BY SheetsLineUp DEF SheetOfCombos
<1> HIDE DEF page, seq
<1>2. Len(page) = Len(seq) /\ \A i \in 1..Len(seq) : <<page[i], seq[i]>> \in Same
  BY <1>1 DEF LinedUp
<1>3. \A i \in 1..Len(seq) : seq[i].code \in {page[i], <<>>}
  BY <1>2 DEF Same
<1> QED BY <1>2, <1>3 DEF page, seq

\* The page and the server find the same elements in the same order in every
\* sheet, so a result is about the element that the judge marked.
THEOREM ResultsAreOfTheElements == NanduSpec => []ResultsLineUp
BY SheetOfCombosAlways, SheetLinesUp, PTL

-----------------------------------------------------------------------------
(* Nandu: what the elements earn.                                           *)

Kinds == {"move", "conn"}
Marked == [kind : Kinds, value : Nat, success : BOOLEAN]
Used == [move : Nat, conn : Nat, result : Int]
Unused == [move |-> 0, conn |-> 0, result |-> 0]

Capped(kind, x) == IF x > limits[kind] THEN limits[kind] ELSE x

\* An element can earn what it brings its kind nearer to the limit.
LEMMA PotentialIsTheRest ==
    ASSUME NEW kind \in Kinds, NEW x \in Nat, NEW value \in Nat
    PROVE  /\ Potential(x + value, kind, value) = Capped(kind, x + value) - Capped(kind, x)
           /\ Potential(x + value, kind, value) >= 0
<1>1. limits[kind] \in Nat
  BY DEF limits, Kinds
<1> QED BY <1>1 DEF Potential, Capped

\* What one element uses up and earns.
Earned(u, e) == Potential(u[e.kind] + e.value, e.kind, e.value)

UsesUp(u, e, v) ==
    /\ v.move = u.move + (IF e.kind = "move" THEN e.value ELSE 0)
    /\ v.conn = u.conn + (IF e.kind = "conn" THEN e.value ELSE 0)
    /\ v.result = u.result + (IF e.success THEN Earned(u, e) ELSE 0)

\* One round of the loop, for a kind of element at a time.
LEMMA UseUpOne ==
    ASSUME NEW u \in Used, NEW e \in Marked
    PROVE  UseUp(u, e) \in Used /\ UsesUp(u, e, UseUp(u, e)) /\ Earned(u, e) \in Int
<1> DEFINE x == u[e.kind]
           total == x + e.value
           earned == IF e.success THEN Potential(total, e.kind, e.value) ELSE 0
<1>1. e.kind \in Kinds /\ e.value \in Nat /\ e.success \in BOOLEAN /\ u.move \in Nat /\ u.conn \in Nat /\ u.result \in Int
  BY DEF Marked, Used
<1>2. x \in Nat
  BY <1>1 DEF Kinds
<1>3. Potential(total, e.kind, e.value) \in Int
  <2>1. limits[e.kind] \in Nat
    BY <1>1 DEF limits, Kinds
  <2> HIDE DEF x
  <2> QED BY <1>1, <1>2, <2>1 DEF Potential
<1> HIDE DEF x
<1>4. total \in Nat /\ earned \in Int
  BY <1>1, <1>2, <1>3
<1>5. UseUp(u, e) = [u EXCEPT ![e.kind] = total, !.result = @ + earned]
  BY DEF UseUp, x
<1> HIDE DEF total, earned
<1>6. CASE e.kind = "move"
  <2>1. UseUp(u, e) = [u EXCEPT !.move = total, !.result = @ + earned]
    BY <1>5, <1>6
  <2>2. total = u.move + e.value
    BY <1>6 DEF total, x
  <2>3. UseUp(u, e) = [move |-> total, conn |-> u.conn, result |-> u.result + earned]
    BY <2>1 DEF Used
  <2>4. u.result + earned \in Int
    BY <1>1, <1>4
  <2>5. UseUp(u, e) \in Used
    BY <1>1, <1>4, <2>3, <2>4 DEF Used
  <2> QED BY <1>1, <1>3, <1>6, <2>2, <2>3, <2>5 DEF total, earned, x, UsesUp, Earned
<1>7. CASE e.kind = "conn"
  <2>1. UseUp(u, e) = [u EXCEPT !.conn = total, !.result = @ + earned]
    BY <1>5, <1>7
  <2>2. total = u.conn + e.value
    BY <1>7 DEF total, x
  <2>3. UseUp(u, e) = [move |-> u.move, conn |-> total, result |-> u.result + earned]
    BY <2>1 DEF Used
  <2>4. u.result + earned \in Int
    BY <1>1, <1>4
  <2>5. UseUp(u, e) \in Used
    BY <1>1, <1>4, <2>3, <2>4 DEF Used
  <2> QED BY <1>1, <1>3, <1>7, <2>2, <2>3, <2>5 DEF total, earned, x, UsesUp, Earned
<1> QED BY <1>1, <1>6, <1>7 DEF Kinds

\* What is used after each element of a list.
UsedTrace(u, n, es) ==
    /\ u \in [0..n -> Used] /\ u[0] = Unused /\ u[n] = FoldLeft(UseUp, Unused, es)
    /\ \A k \in 1..n : u[k] = UseUp(u[k - 1], es[k])

\* The loop goes through such steps.
LEMMA UsedStepByStep ==
    ASSUME NEW n \in Nat, NEW es \in [1..n -> Marked] PROVE \E u : UsedTrace(u, n, es)
<1> DEFINE body(g) == [t \in SUBSET (1..n) |-> IF t = {} THEN Unused ELSE UseUp(g[t \ {Max(t)}], es[Max(t)])]
           it == CHOOSE g : g = body(g)
           F == [p \in Used \X (1..n) |-> UseUp(p[1], es[p[2]])]
<1>1. FoldLeft(UseUp, Unused, es) = it[1..n]
  <2>1. DOMAIN es = 1..n
    OBVIOUS
  <2> QED BY <2>1 DEF FoldLeft, MapThenFoldSet
<1>2. Unused \in Used
  BY DEF Unused, Used
<1>3. F \in [Used \X (1..n) -> Used]
  <2>1. ASSUME NEW u \in Used, NEW i \in 1..n PROVE UseUp(u, es[i]) \in Used
    BY UseUpOne
  <2> QED BY <2>1
<1>4. ASSUME NEW g, NEW t \in SUBSET (1..n), t # {}, g[t \ {Max(t)}] \in Used
      PROVE  F[<<g[t \ {Max(t)}], Max(t)>>] = UseUp(g[t \ {Max(t)}], es[Max(t)])
  <2>1. Max(t) \in 1..n
    BY <1>4, MaxIsMember
  <2> QED BY <1>4, <2>1
<1> HIDE DEF F
<1>5. PICK g : FoldsTo(g, n, Used, Unused, F)
  BY <1>2, <1>3, FoldExists
<1>6. g = body(g)
  BY <1>4, <1>5 DEF FoldsTo
<1>7. it = body(it)
  <2> HIDE DEF body
  <2> QED BY <1>6
<1> HIDE DEF it
<1>8. it[{}] = Unused
  BY <1>7
<1>9. ASSUME NEW t \in SUBSET (1..n), t # {}, it[t \ {Max(t)}] \in Used
      PROVE  it[t] = F[<<it[t \ {Max(t)}], Max(t)>>]
  BY <1>4, <1>7, <1>9
<1>10. Folded(it, n, Used, Unused, F)
  BY <1>8, <1>9 DEF Folded
<1>11. PICK u : GoesThrough(u, n, Used, Unused, F, it[1..n])
  BY <1>2, <1>3, <1>10, TraceOfFold
<1>12. ASSUME NEW k \in 1..n PROVE u[k] = UseUp(u[k - 1], es[k])
  <2>1. u[k - 1] \in Used
    BY <1>11 DEF GoesThrough
  <2> QED BY <1>11, <2>1 DEF GoesThrough, F
<1>13. UsedTrace(u, n, es)
  BY <1>1, <1>11, <1>12 DEF UsedTrace, GoesThrough
<1> QED BY <1>13

\* The same for the values of one kind.
KindSum(kind, es) == FoldLeft(LAMBDA t, e : IF e.kind = kind THEN t + e.value ELSE t, 0, es)

KindTrace(w, n, kind, es) ==
    /\ w \in [0..n -> Nat] /\ w[0] = 0
    /\ \A k \in 1..n : w[k] = w[k - 1] + IF es[k].kind = kind THEN es[k].value ELSE 0

\* That sum, too, is made step by step.
LEMMA KindStepByStep ==
    ASSUME NEW n \in Nat, NEW es \in [1..n -> Marked], NEW kind
    PROVE  \E w : KindTrace(w, n, kind, es) /\ w[n] = KindSum(kind, es)
<1> DEFINE plus(t, e) == IF e.kind = kind THEN t + e.value ELSE t
           body(g) == [t \in SUBSET (1..n) |-> IF t = {} THEN 0 ELSE plus(g[t \ {Max(t)}], es[Max(t)])]
           it == CHOOSE g : g = body(g)
           F == [p \in Nat \X (1..n) |-> plus(p[1], es[p[2]])]
<1>1. KindSum(kind, es) = it[1..n]
  <2>1. DOMAIN es = 1..n
    OBVIOUS
  <2> QED BY <2>1 DEF KindSum, FoldLeft, MapThenFoldSet
<1>2. ASSUME NEW t \in Nat, NEW k \in 1..n
      PROVE  /\ plus(t, es[k]) \in Nat
             /\ plus(t, es[k]) = t + IF es[k].kind = kind THEN es[k].value ELSE 0
  BY DEF Marked
<1> HIDE DEF plus
<1>3. F \in [Nat \X (1..n) -> Nat] /\ 0 \in Nat
  BY <1>2
<1>4. ASSUME NEW g, NEW t \in SUBSET (1..n), t # {}, g[t \ {Max(t)}] \in Nat
      PROVE  F[<<g[t \ {Max(t)}], Max(t)>>] = plus(g[t \ {Max(t)}], es[Max(t)])
  <2>1. Max(t) \in 1..n
    BY <1>4, MaxIsMember
  <2> QED BY <1>4, <2>1
<1> HIDE DEF F
<1>5. PICK g : FoldsTo(g, n, Nat, 0, F)
  BY <1>3, FoldExists
<1>6. g = body(g)
  BY <1>4, <1>5 DEF FoldsTo
<1>7. it = body(it)
  <2> HIDE DEF body
  <2> QED BY <1>6
<1> HIDE DEF it
<1>8. it[{}] = 0
  BY <1>7
<1>9. ASSUME NEW t \in SUBSET (1..n), t # {}, it[t \ {Max(t)}] \in Nat
      PROVE  it[t] = F[<<it[t \ {Max(t)}], Max(t)>>]
  BY <1>4, <1>7, <1>9
<1>10. Folded(it, n, Nat, 0, F)
  BY <1>8, <1>9 DEF Folded
<1>11. PICK w : GoesThrough(w, n, Nat, 0, F, it[1..n])
  BY <1>3, <1>10, TraceOfFold
<1>12. ASSUME NEW k \in 1..n PROVE w[k] = w[k - 1] + IF es[k].kind = kind THEN es[k].value ELSE 0
  <2>1. w[k - 1] \in Nat
    BY <1>11 DEF GoesThrough
  <2> QED BY <1>2, <1>11, <2>1 DEF GoesThrough, F
<1>13. KindTrace(w, n, kind, es)
  BY <1>11, <1>12 DEF KindTrace, GoesThrough
<1> QED BY <1>1, <1>11, <1>13 DEF GoesThrough

\* Two results of the same elements, the second of which finds all successful
\* that the first does: both use the same up, and the second earns as much.
LEMMA MoreSuccessEarnsMore ==
    ASSUME NEW n \in Nat, NEW es \in [1..n -> Marked], NEW fs \in [1..n -> Marked],
           \A i \in 1..n : /\ es[i].kind = fs[i].kind /\ es[i].value = fs[i].value
                           /\ es[i].success => fs[i].success,
           NEW u, UsedTrace(u, n, es), NEW v, UsedTrace(v, n, fs)
    PROVE  u[n].result \in Int /\ v[n].result \in Int /\ 0 <= u[n].result /\ u[n].result <= v[n].result
<1> DEFINE S == {k \in 0..n : /\ u[k].move = v[k].move /\ u[k].conn = v[k].conn
                              /\ 0 <= u[k].result /\ u[k].result <= v[k].result}
<1>1. 0 \in S
  <2>1. u[0] = Unused /\ v[0] = Unused /\ 0 \in 0..n
    BY DEF UsedTrace
  <2> QED BY <2>1 DEF Unused
<1>2. ASSUME NEW k \in 0..(n - 1), k \in S PROVE k + 1 \in S
  <2> DEFINE m == k + 1
             e == es[m]
             f == fs[m]
             earned == Earned(u[k], e)
  <2>1. m \in 1..n /\ m \in 0..n /\ m - 1 = k /\ k \in 0..n
    OBVIOUS
  <2>2. u[k] \in Used /\ v[k] \in Used /\ u[m] = UseUp(u[k], e) /\ v[m] = UseUp(v[k], f)
    BY <2>1 DEF UsedTrace
  <2>3. /\ e \in Marked /\ f \in Marked /\ e.kind = f.kind /\ e.value = f.value
        /\ e.success => f.success
    BY <2>1
  <2> HIDE DEF m, e, f
  <2>4. /\ u[k].move = v[k].move /\ u[k].conn = v[k].conn
        /\ 0 <= u[k].result /\ u[k].result <= v[k].result
    BY <1>2
  <2>5. /\ e.kind \in Kinds /\ e.value \in Nat /\ e.success \in BOOLEAN /\ f.success \in BOOLEAN
        /\ u[k].result \in Int /\ v[k].result \in Int
    BY <2>2, <2>3 DEF Marked, Used
  <2>6. u[k][e.kind] = v[k][e.kind] /\ u[k][e.kind] \in Nat
    BY <2>2, <2>4, <2>5 DEF Kinds, Used
  <2>7. earned \in Int /\ earned >= 0
    <3>1. earned \in Int
      BY <2>2, <2>3, UseUpOne
    <3> DEFINE x == u[k][e.kind]
    <3>2. x \in Nat
      BY <2>6
    <3> HIDE DEF x
    <3>3. Potential(x + e.value, e.kind, e.value) >= 0
      BY <2>5, <3>2, PotentialIsTheRest
    <3> QED BY <3>1, <3>3 DEF x, Earned
  <2>8. Earned(v[k], f) = earned
    BY <2>3, <2>6 DEF Earned
  <2>9. UsesUp(u[k], e, u[m])
    <3>1. UsesUp(u[k], e, UseUp(u[k], e))
      BY ONLY <2>2, <2>3, UseUpOne
    <3> QED BY ONLY <2>2, <3>1
  <2>10. UsesUp(v[k], f, v[m])
    <3>1. UsesUp(v[k], f, UseUp(v[k], f))
      BY ONLY <2>2, <2>3, UseUpOne
    <3> QED BY ONLY <2>2, <3>1
  <2>11. /\ u[m].move = u[k].move + (IF e.kind = "move" THEN e.value ELSE 0)
        /\ u[m].conn = u[k].conn + (IF e.kind = "conn" THEN e.value ELSE 0)
        /\ u[m].result = u[k].result + IF e.success THEN earned ELSE 0
    BY <2>9 DEF UsesUp
  <2>12. /\ v[m].move = v[k].move + (IF f.kind = "move" THEN f.value ELSE 0)
         /\ v[m].conn = v[k].conn + (IF f.kind = "conn" THEN f.value ELSE 0)
         /\ v[m].result = v[k].result + IF f.success THEN earned ELSE 0
    BY <2>10, <2>8 DEF UsesUp
  <2> HIDE DEF earned
  <2>13. u[m].move = v[m].move /\ u[m].conn = v[m].conn
    BY <2>3, <2>4, <2>11, <2>12
  <2>14. 0 <= u[m].result /\ u[m].result <= v[m].result
    BY <2>3, <2>4, <2>5, <2>7, <2>11, <2>12
  <2> QED BY <2>1, <2>13, <2>14 DEF m
<1>3. n \in 0..n
  OBVIOUS
<1>4. n \in S
  <2> HIDE DEF S
  <2> QED BY <1>1, <1>2, <1>3, CountingUp
<1>5. u[n] \in Used /\ v[n] \in Used
  BY <1>3 DEF UsedTrace
<1> QED BY <1>4, <1>5 DEF Used

\* When all elements succeed, each kind earns the sum of its values, capped.
LEMMA AllSuccessEarnsAll ==
    ASSUME NEW n \in Nat, NEW es \in [1..n -> Marked], \A i \in 1..n : es[i].success,
           NEW u, UsedTrace(u, n, es)
    PROVE  u[n].result = Capped("move", KindSum("move", es)) + Capped("conn", KindSum("conn", es))
<1>1. PICK w : KindTrace(w, n, "move", es) /\ w[n] = KindSum("move", es)
  BY KindStepByStep
<1>2. PICK z : KindTrace(z, n, "conn", es) /\ z[n] = KindSum("conn", es)
  BY KindStepByStep
<1> DEFINE S == {k \in 0..n : /\ u[k].move = w[k] /\ u[k].conn = z[k]
                              /\ u[k].result = Capped("move", w[k]) + Capped("conn", z[k])}
<1>0. \A x \in Nat, kind \in Kinds : Capped(kind, x) \in Nat /\ Capped(kind, 0) = 0
  BY DEF Capped, limits, Kinds
<1>3. 0 \in S
  <2>1. u[0] = Unused /\ w[0] = 0 /\ z[0] = 0 /\ 0 \in 0..n
    BY <1>1, <1>2 DEF UsedTrace, KindTrace
  <2>2. Capped("move", 0) = 0 /\ Capped("conn", 0) = 0
    BY DEF Capped, limits
  <2> QED BY <2>1, <2>2 DEF Unused
<1>4. ASSUME NEW k \in 0..(n - 1), k \in S PROVE k + 1 \in S
  <2> DEFINE m == k + 1
             e == es[m]
  <2>1. m \in 1..n /\ m \in 0..n /\ m - 1 = k /\ k \in 0..n
    OBVIOUS
  <2>2. /\ u[k] \in Used /\ u[m] = UseUp(u[k], e) /\ e \in Marked /\ e.success
        /\ w[k] \in Nat /\ w[m] = w[k] + IF e.kind = "move" THEN e.value ELSE 0
        /\ z[k] \in Nat /\ z[m] = z[k] + IF e.kind = "conn" THEN e.value ELSE 0
    BY <1>1, <1>2, <2>1 DEF UsedTrace, KindTrace
  <2> HIDE DEF m, e
  <2>3. /\ u[k].move = w[k] /\ u[k].conn = z[k]
        /\ u[k].result = Capped("move", w[k]) + Capped("conn", z[k])
    BY <1>4
  <2>4. /\ u[m].move = u[k].move + (IF e.kind = "move" THEN e.value ELSE 0)
        /\ u[m].conn = u[k].conn + (IF e.kind = "conn" THEN e.value ELSE 0)
        /\ u[m].result = u[k].result + Potential(u[k][e.kind] + e.value, e.kind, e.value)
    <3>1. UsesUp(u[k], e, UseUp(u[k], e))
      BY ONLY <2>2, UseUpOne
    <3>2. UsesUp(u[k], e, u[m])
      BY ONLY <2>2, <3>1
    <3> QED BY <2>2, <3>2 DEF UsesUp, Earned
  <2>5. e.kind \in Kinds /\ e.value \in Nat
    BY <2>2 DEF Marked
  <2>6. CASE e.kind = "move"
    <3>1. u[m].result = u[k].result + Potential(w[k] + e.value, "move", e.value)
      BY <2>3, <2>4, <2>6
    <3>2. Potential(w[k] + e.value, "move", e.value) = Capped("move", w[k] + e.value) - Capped("move", w[k])
      BY <2>2, <2>5, <2>6, PotentialIsTheRest
    <3>3. w[m] = w[k] + e.value /\ z[m] = z[k] /\ w[m] \in Nat
      BY <2>2, <2>5, <2>6
    <3>4. /\ Capped("move", w[k]) \in Nat /\ Capped("move", w[m]) \in Nat
          /\ Capped("conn", z[k]) \in Nat
      BY <1>0, <2>2, <3>3 DEF Kinds
    <3>5. u[m].result = Capped("move", w[m]) + Capped("conn", z[m])
      BY <2>3, <3>1, <3>2, <3>3, <3>4
    <3> QED BY <2>1, <2>2, <2>3, <2>4, <3>5 DEF m
  <2>7. CASE e.kind = "conn"
    <3>1. u[m].result = u[k].result + Potential(z[k] + e.value, "conn", e.value)
      BY <2>3, <2>4, <2>7
    <3>2. Potential(z[k] + e.value, "conn", e.value) = Capped("conn", z[k] + e.value) - Capped("conn", z[k])
      BY <2>2, <2>5, <2>7, PotentialIsTheRest
    <3>3. z[m] = z[k] + e.value /\ w[m] = w[k] /\ z[m] \in Nat
      BY <2>2, <2>5, <2>7
    <3>4. /\ Capped("conn", z[k]) \in Nat /\ Capped("conn", z[m]) \in Nat
          /\ Capped("move", w[k]) \in Nat
      BY <1>0, <2>2, <3>3 DEF Kinds
    <3>5. u[m].result = Capped("move", w[m]) + Capped("conn", z[m])
      BY <2>3, <3>1, <3>2, <3>3, <3>4
    <3> QED BY <2>1, <2>2, <2>3, <2>4, <3>5 DEF m
  <2> QED BY <2>5, <2>6, <2>7 DEF Kinds
<1>5. n \in 0..n
  OBVIOUS
<1>6. n \in S
  <2> HIDE DEF S
  <2> QED BY <1>3, <1>4, <1>5, CountingUp
<1> QED BY <1>1, <1>2, <1>6

\* The marked elements of a sheet.
LEMMA ElementsAreMarked ==
    ASSUME NEW n \in Nat, NEW seq \in [1..n -> Element], NEW r \in [1..n -> BOOLEAN]
    PROVE  /\ Elements(seq, r) \in [1..n -> Marked]
           /\ \A i \in 1..n : /\ Elements(seq, r)[i].kind = IF IsConnection(seq[i].code) THEN "conn" ELSE "move"
                              /\ Elements(seq, r)[i].value = seq[i].value
                              /\ Elements(seq, r)[i].success = r[i]
<1>1. Len(seq) = n /\ \A i \in 1..n : seq[i].value \in Nat /\ r[i] \in BOOLEAN
  BY DEF Element
<1> DEFINE kind(i) == IF IsConnection(seq[i].code) THEN "conn" ELSE "move"
<1>2. Elements(seq, r) = [i \in 1..n |-> [kind |-> kind(i), value |-> seq[i].value, success |-> r[i]]]
  BY <1>1 DEF Elements
<1>3. \A i \in 1..n : kind(i) \in Kinds
  BY DEF Kinds
<1>4. ASSUME NEW i \in 1..n
      PROVE  [kind |-> kind(i), value |-> seq[i].value, success |-> r[i]] \in Marked
  BY <1>1, <1>3 DEF Marked
<1> QED BY <1>2, <1>4

\* The limits hold for every sheet and all results of it.
LEMMA SheetLimitsDifficulty == SheetOfCombos /\ ResultsOfTheSheet => DifficultyLimited
<1> SUFFICES ASSUME SheetOfCombos, ResultsOfTheSheet PROVE DifficultyLimited
  OBVIOUS
<1> DEFINE seq == Sequence
           n == Len(seq)
           difficulty(r) == CalculateDifficulty(seq, r)
           es(r) == Elements(seq, r)
           perfect == [i \in 1..n |-> TRUE]
           worth == Total("move") + Total("conn")
<1>1. n \in Nat /\ seq \in [1..n -> Element]
  <2>1. seq \in Seq(Element)
    BY SheetsLineUp DEF SheetOfCombos, Sequence
  <2> QED BY <2>1
<1>2. perfect \in [1..n -> BOOLEAN]
  OBVIOUS
<1>3. worth = Capped("move", KindSum("move", es(perfect))) + Capped("conn", KindSum("conn", es(perfect)))
  BY DEF Total, KindSum, Capped, FoldLeft, MapThenFoldSet
<1> HIDE DEF seq, n, perfect, worth
<1>4. ASSUME NEW r \in [1..n -> BOOLEAN]
      PROVE  \E u : UsedTrace(u, n, Elements(seq, r)) /\ CalculateDifficulty(seq, r) = u[n].result
  <2>1. Elements(seq, r) \in [1..n -> Marked]
    BY <1>1, ElementsAreMarked
  <2>2. PICK u : UsedTrace(u, n, Elements(seq, r))
    BY <1>1, <2>1, UsedStepByStep
  <2> QED BY <2>2 DEF UsedTrace, CalculateDifficulty, Unused
<1>5. ASSUME NEW r \in [1..n -> BOOLEAN], NEW q \in [1..n -> BOOLEAN], \A i \in 1..n : r[i] => q[i]
      PROVE  /\ CalculateDifficulty(seq, r) \in Int /\ CalculateDifficulty(seq, q) \in Int
             /\ 0 <= CalculateDifficulty(seq, r) /\ CalculateDifficulty(seq, r) <= CalculateDifficulty(seq, q)
  <2> DEFINE rs == Elements(seq, r)
             qs == Elements(seq, q)
  <2>1. PICK u : UsedTrace(u, n, rs) /\ CalculateDifficulty(seq, r) = u[n].result
    BY <1>4
  <2>2. PICK v : UsedTrace(v, n, qs) /\ CalculateDifficulty(seq, q) = v[n].result
    BY <1>4
  <2>3. rs \in [1..n -> Marked] /\ qs \in [1..n -> Marked]
    BY <1>1, ElementsAreMarked
  <2>4. \A i \in 1..n : /\ rs[i].kind = qs[i].kind /\ rs[i].value = qs[i].value
                        /\ rs[i].success => qs[i].success
    BY <1>1, <1>5, ElementsAreMarked
  <2> HIDE DEF rs, qs
  <2> QED BY <1>1, <2>1, <2>2, <2>3, <2>4, MoreSuccessEarnsMore
<1>6. CalculateDifficulty(seq, perfect) = worth
  <2> DEFINE ps == Elements(seq, perfect)
  <2>1. PICK u : UsedTrace(u, n, ps) /\ CalculateDifficulty(seq, perfect) = u[n].result
    BY <1>2, <1>4
  <2>2. ps \in [1..n -> Marked] /\ \A i \in 1..n : ps[i].success
    BY <1>1, <1>2, ElementsAreMarked DEF perfect
  <2> HIDE DEF ps
  <2>3. u[n].result = Capped("move", KindSum("move", ps)) + Capped("conn", KindSum("conn", ps))
    BY <1>1, <2>1, <2>2, AllSuccessEarnsAll
  <2> QED BY <1>3, <2>1, <2>3 DEF ps
<1>7. ASSUME NEW k \in 1..Len(nanduScores)
      PROVE  /\ CalculateDifficulty(seq, nanduScores[k]) \in 0..worth
             /\ \A i \in 1..n : CalculateDifficulty(seq, [nanduScores[k] EXCEPT ![i] = TRUE])
                                    >= CalculateDifficulty(seq, nanduScores[k])
  <2> DEFINE r == nanduScores[k]
  <2>1. r \in [1..n -> BOOLEAN]
    BY DEF ResultsOfTheSheet, n, seq
  <2> HIDE DEF r
  <2>2. \A i \in 1..n : r[i] => perfect[i]
    BY DEF perfect
  <2>3. /\ CalculateDifficulty(seq, r) \in Int /\ worth \in Int
        /\ 0 <= CalculateDifficulty(seq, r) /\ CalculateDifficulty(seq, r) <= worth
    BY <1>2, <1>5, <1>6, <2>1, <2>2
  <2>4. ASSUME NEW i \in 1..n
        PROVE  CalculateDifficulty(seq, [r EXCEPT ![i] = TRUE]) >= CalculateDifficulty(seq, r)
    <3> DEFINE q == [r EXCEPT ![i] = TRUE]
    <3>1. q \in [1..n -> BOOLEAN] /\ \A j \in 1..n : r[j] => q[j]
      BY <2>1
    <3> HIDE DEF q
    <3>2. /\ CalculateDifficulty(seq, r) \in Int /\ CalculateDifficulty(seq, q) \in Int
          /\ CalculateDifficulty(seq, r) <= CalculateDifficulty(seq, q)
      BY <1>5, <2>1, <3>1
    <3> QED BY <3>2 DEF q
  <2>5. CalculateDifficulty(seq, r) \in 0..worth
    BY <2>3
  <2> QED BY <2>4, <2>5 DEF r
<1> QED BY <1>6, <1>7 DEF DifficultyLimited, perfect, n, seq, worth

\* Moves bring 1.4 at most and connections 0.6; a routine without a mistake
\* earns all that its sheet is worth within these limits, and one more success
\* never lowers the difficulty, in every sheet and for every result.
THEOREM DifficultyIsLimited == NanduSpec => []DifficultyLimited
BY SheetOfCombosAlways, ResultsAlways, SheetLimitsDifficulty, PTL

-----------------------------------------------------------------------------
(* AdjustedAverage: what the loop over the scores has in the end.           *)

\* Sum adds the scores up.
LEMMA SumIsAdded ==
    ASSUME NEW n \in Nat, NEW s \in [1..n -> Nat] PROVE Sum(s) = Added(s, n)
<1> DEFINE body(g) == [t \in SUBSET (1..n) |-> IF t = {} THEN 0 ELSE g[t \ {Max(t)}] + s[Max(t)]]
           it == CHOOSE g : g = body(g)
           F == [p \in Int \X (1..n) |-> p[1] + s[p[2]]]
           w == [k \in 0..n |-> it[1..k]]
<1>1. DOMAIN s = 1..n
  OBVIOUS
<1>2. Sum(s) = it[1..n]
  BY <1>1 DEF Sum, FoldLeft, MapThenFoldSet
<1>3. F \in [Int \X (1..n) -> Int] /\ 0 \in Int
  OBVIOUS
<1>4. PICK g : FoldsTo(g, n, Int, 0, F)
  <2> HIDE DEF F
  <2> QED BY <1>3, FoldExists
<1>5. g = body(g)
  <2>1. ASSUME NEW t \in SUBSET (1..n), t # {}
        PROVE  F[<<g[t \ {Max(t)}], Max(t)>>] = g[t \ {Max(t)}] + s[Max(t)]
    <3>1. Max(t) \in 1..n
      BY <2>1, MaxIsMember
    <3>2. g[t \ {Max(t)}] \in Int
      BY <1>4, <2>1 DEF FoldsTo
    <3> QED BY <3>1, <3>2
  <2> HIDE DEF F
  <2> QED BY <1>4, <2>1 DEF FoldsTo
<1>6. it = body(it)
  <2> HIDE DEF body
  <2> QED BY <1>5
<1> HIDE DEF it, F
<1>7. it[1..0] = 0
  <2>1. 1..0 = {}
    OBVIOUS
  <2> QED BY <1>6, <2>1
<1>8. ASSUME NEW k \in 1..n PROVE it[1..k] = it[1..(k - 1)] + s[k]
  <2>1. /\ 1..k \in SUBSET (1..n) /\ 1..k # {}
        /\ Max(1..k) = k /\ (1..k) \ {k} = 1..(k - 1)
    BY FirstOnes
  <2>2. it[1..k] = body(it)[1..k]
    BY <1>6
  <2> QED BY <2>1, <2>2
<1>9. Runs(w, s, n)
  <2> DEFINE S == {k \in 0..n : it[1..k] \in Int}
  <2>1. 0 \in S
    BY <1>7
  <2>2. ASSUME NEW k \in 0..(n - 1), k \in S PROVE k + 1 \in S
    <3>1. k + 1 \in 1..n /\ (k + 1) - 1 = k
      OBVIOUS
    <3> QED BY <1>8, <2>2, <3>1
  <2>3. \A k \in 0..n : k \in S
    <3> HIDE DEF S
    <3> QED BY <2>1, <2>2, CountingUp
  <2>4. w \in [0..n -> Int] /\ w[0] = 0
    BY <1>7, <2>3
  <2>5. ASSUME NEW k \in 1..n PROVE w[k] = w[k - 1] + s[k]
    <3>1. k - 1 \in 0..n /\ k \in 0..n
      OBVIOUS
    <3>2. w[k] = it[1..k] /\ w[k - 1] = it[1..(k - 1)]
      BY <3>1
    <3> QED BY <1>8, <3>2
  <2> HIDE DEF w
  <2> QED BY <2>4, <2>5 DEF Runs
<1>10. w[n] = it[1..n]
  OBVIOUS
<1>11. Runs(Running(s, n), s, n)
  BY RunningRuns
<1>12. Running(s, n)[n] = w[n]
  <2> HIDE DEF w
  <2>1. n \in 0..n
    OBVIOUS
  <2> QED BY <1>9, <1>11, <2>1, RunningIsUnique
<1> QED BY <1>2, <1>10, <1>12 DEF Added

\* What the loop has seen of the first k scores: their sum and, with the first
\* to start from, the least and the greatest.
Swept(seen, s, k, n) ==
    /\ seen.sum = Running(s, n)[k]
    /\ \A i \in 1..k : seen.min <= s[i] /\ s[i] <= seen.max
    /\ \E i \in 1..n : seen.min = s[i]
    /\ \E i \in 1..n : seen.max = s[i]
    /\ seen.min <= s[1] /\ s[1] <= seen.max

\* One more score.
LEMMA SweepOne ==
    ASSUME NEW n \in Nat, NEW s \in [1..n -> Nat], NEW k \in 1..n,
           NEW seen \in [sum : Int, min : Int, max : Int], Swept(seen, s, k - 1, n)
    PROVE  Sweep(seen, s[k]) \in [sum : Int, min : Int, max : Int] /\ Swept(Sweep(seen, s[k]), s, k, n)
<1> DEFINE new == Sweep(seen, s[k])
<1>1. s[k] \in Int /\ s[1] \in Int /\ 1 \in 1..n /\ \A i \in 1..k : i \in 1..(k - 1) \/ i = k
  OBVIOUS
<1>2. /\ new.sum = seen.sum + s[k]
      /\ new.min = IF s[k] < seen.min THEN s[k] ELSE seen.min
      /\ new.max = IF s[k] >= seen.min /\ s[k] > seen.max THEN s[k] ELSE seen.max
      /\ new = [sum |-> new.sum, min |-> new.min, max |-> new.max]
  BY DEF Sweep
<1> HIDE DEF new
<1>3. seen.sum \in Int /\ seen.min \in Int /\ seen.max \in Int /\ seen.min <= seen.max
  BY <1>1 DEF Swept
<1>4. new \in [sum : Int, min : Int, max : Int]
  BY <1>1, <1>2, <1>3
<1>5. new.sum = Running(s, n)[k]
  <2>1. Runs(Running(s, n), s, n)
    BY RunningRuns
  <2> QED BY <1>2, <2>1 DEF Runs, Swept
<1>6. new.min <= seen.min /\ new.min <= s[k] /\ seen.max <= new.max /\ s[k] <= new.max
  BY <1>1, <1>2, <1>3
<1>7. \A i \in 1..k : new.min <= s[i] /\ s[i] <= new.max
  <2>1. ASSUME NEW i \in 1..(k - 1) PROVE new.min <= s[i] /\ s[i] <= new.max
    <3>1. s[i] \in Int /\ seen.min <= s[i] /\ s[i] <= seen.max
      BY DEF Swept
    <3> QED BY <1>3, <1>4, <1>6, <3>1
  <2> QED BY <1>1, <1>6, <2>1
<1>8. new.min <= s[1] /\ s[1] <= new.max
  BY <1>1, <1>3, <1>4, <1>6 DEF Swept
<1>9. (\E i \in 1..n : new.min = s[i]) /\ (\E i \in 1..n : new.max = s[i])
  BY <1>2 DEF Swept
<1> QED BY <1>4, <1>5, <1>7, <1>8, <1>9 DEF Swept, new

\* After the loop they are those of all scores.
LEMMA SweptAll ==
    ASSUME NEW n \in Nat \ {0}, NEW s \in [1..n -> Nat]
    PROVE  LET all == FoldLeft(Sweep, First(s), s)
           IN  all \in [sum : Int, min : Int, max : Int] /\ Swept(all, s, n, n)
<1> DEFINE A == [sum : Int, min : Int, max : Int]
           b == First(s)
           body(g) == [t \in SUBSET (1..n) |-> IF t = {} THEN b ELSE Sweep(g[t \ {Max(t)}], s[Max(t)])]
           it == CHOOSE g : g = body(g)
           F == [p \in A \X (1..n) |-> Sweep(p[1], s[p[2]])]
<1>1. DOMAIN s = 1..n /\ 1 \in 1..n /\ s[1] \in Nat
  OBVIOUS
<1>2. FoldLeft(Sweep, b, s) = it[1..n]
  BY <1>1 DEF FoldLeft, MapThenFoldSet
<1>3. b \in A /\ b.sum = 0 /\ b.min = s[1] /\ b.max = s[1]
  BY <1>1 DEF First
<1> HIDE DEF b
<1>4. F \in [A \X (1..n) -> A]
  <2>1. ASSUME NEW seen \in A, NEW i \in 1..n PROVE Sweep(seen, s[i]) \in A
    BY DEF Sweep
  <2> HIDE DEF A
  <2> QED BY <2>1
<1>5. PICK g : FoldsTo(g, n, A, b, F)
  <2> HIDE DEF F, A
  <2> QED BY <1>3, <1>4, FoldExists
<1>6. g = body(g)
  <2> HIDE DEF A
  <2>1. ASSUME NEW t \in SUBSET (1..n), t # {}
        PROVE  F[<<g[t \ {Max(t)}], Max(t)>>] = Sweep(g[t \ {Max(t)}], s[Max(t)])
    <3>1. Max(t) \in 1..n
      BY <2>1, MaxIsMember
    <3>2. g[t \ {Max(t)}] \in A
      BY <1>5, <2>1 DEF FoldsTo
    <3> QED BY <3>1, <3>2
  <2> HIDE DEF F
  <2> QED BY <1>5, <2>1 DEF FoldsTo
<1>7. it = body(it)
  <2> HIDE DEF body
  <2> QED BY <1>6
<1> HIDE DEF it, F
<1>8. it[1..0] = b
  <2>1. 1..0 = {}
    OBVIOUS
  <2> QED BY <1>7, <2>1
<1>9. ASSUME NEW k \in 1..n PROVE it[1..k] = Sweep(it[1..(k - 1)], s[k])
  <2>1. /\ 1..k \in SUBSET (1..n) /\ 1..k # {}
        /\ Max(1..k) = k /\ (1..k) \ {k} = 1..(k - 1)
    BY FirstOnes
  <2>2. it[1..k] = body(it)[1..k]
    BY <1>7
  <2> QED BY <2>1, <2>2
<1> DEFINE S == {k \in 0..n : it[1..k] \in A /\ Swept(it[1..k], s, k, n)}
<1>10. 0 \in S
  <2>1. Running(s, n)[0] = 0
    BY RunningRuns DEF Runs
  <2>2. Swept(b, s, 0, n)
    BY <1>1, <1>3, <2>1 DEF Swept
  <2> HIDE DEF A
  <2> QED BY <1>3, <1>8, <2>2
<1>11. ASSUME NEW k \in 0..(n - 1), k \in S PROVE k + 1 \in S
  <2> DEFINE m == k + 1
  <2>1. m \in 1..n /\ m \in 0..n /\ m - 1 = k
    OBVIOUS
  <2>2. it[1..k] \in A /\ Swept(it[1..k], s, k, n)
    BY <1>11
  <2> HIDE DEF m
  <2>3. it[1..m] = Sweep(it[1..k], s[m])
    BY <1>9, <2>1
  <2>4. it[1..m] \in A /\ Swept(it[1..m], s, m, n)
    <3> DEFINE seen == it[1..k]
    <3>1. seen \in A /\ Swept(seen, s, m - 1, n)
      BY <2>1, <2>2
    <3> HIDE DEF seen
    <3>2. Sweep(seen, s[m]) \in A /\ Swept(Sweep(seen, s[m]), s, m, n)
      BY <2>1, <3>1, SweepOne
    <3> QED BY <2>3, <3>2 DEF seen
  <2> QED BY <2>1, <2>4 DEF m
<1>12. n \in S
  <2>1. n \in Nat /\ n \in 0..n
    OBVIOUS
  <2> HIDE DEF S
  <2>2. \A k \in 0..n : k \in S
    BY <1>10, <1>11, <2>1, CountingUp
  <2> QED BY <2>1, <2>2
<1> QED BY <1>2, <1>12 DEF b

\* A list of n has an order of its own: p lists each number to n once.
Reorders(p, n) ==
    /\ p \in [1..n -> 1..n]
    /\ \A k, l \in 1..n : p[k] = p[l] => k = l
    /\ \A i \in 1..n : \E k \in 1..n : p[k] = i

\* What the loop has in the end does not depend on the order of the scores.
LEMMA SweepInAnyOrder ==
    ASSUME NEW n \in Nat \ {0}, NEW s \in [1..n -> Nat], NEW p, Reorders(p, n)
    PROVE  LET q == [k \in 1..n |-> s[p[k]]]
           IN  FoldLeft(Sweep, First(q), q) = FoldLeft(Sweep, First(s), s)
<1> DEFINE q == [k \in 1..n |-> s[p[k]]]
           mine == FoldLeft(Sweep, First(s), s)
           theirs == FoldLeft(Sweep, First(q), q)
           A == [sum : Int, min : Int, max : Int]
<1>1. p \in [1..n -> 1..n] /\ n \in Nat
  BY DEF Reorders
<1>2. q \in [1..n -> Nat]
  BY <1>1
<1>3. mine \in A /\ Swept(mine, s, n, n)
  BY SweptAll
<1>4. theirs \in A /\ Swept(theirs, q, n, n)
  <2> HIDE DEF q
  <2> QED BY <1>2, SweptAll
<1> HIDE DEF mine, theirs
<1>5. mine.sum = theirs.sum
  <2>1. s \in [1..n -> Int]
    OBVIOUS
  <2>2. Added(q, n) = Added(s, n)
    <3>1. \A k, l \in 1..n : p[k] = p[l] => k = l
      BY DEF Reorders
    <3>2. \A i \in 1..n : \E k \in 1..n : p[k] = i
      BY DEF Reorders
    <3> QED BY ONLY <1>1, <2>1, <3>1, <3>2, SumOfAnyOrder
  <2> HIDE DEF q
  <2> QED BY <1>3, <1>4, <2>2 DEF Added, Swept
<1>6. mine.min \in Int /\ theirs.min \in Int /\ mine.max \in Int /\ theirs.max \in Int
  BY <1>3, <1>4
<1>7. \A i \in 1..n : \E k \in 1..n : q[k] = s[i]
  BY DEF Reorders
<1>8. \A k \in 1..n : \E i \in 1..n : q[k] = s[i]
  BY <1>1
<1> HIDE DEF q
<1>9. \A i \in 1..n : /\ mine.min <= s[i] /\ s[i] <= mine.max
                      /\ theirs.min <= q[i] /\ q[i] <= theirs.max
  BY <1>3, <1>4 DEF Swept
<1>10. mine.min = theirs.min
  <2>1. mine.min <= theirs.min
    <3>1. PICK k \in 1..n : theirs.min = q[k]
      BY <1>4 DEF Swept
    <3> QED BY <1>8, <1>9, <3>1
  <2>2. theirs.min <= mine.min
    <3>1. PICK i \in 1..n : mine.min = s[i]
      BY <1>3 DEF Swept
    <3> QED BY <1>7, <1>9, <3>1
  <2> QED BY <1>6, <2>1, <2>2
<1>11. mine.max = theirs.max
  <2>1. theirs.max <= mine.max
    <3>1. PICK k \in 1..n : theirs.max = q[k]
      BY <1>4 DEF Swept
    <3> QED BY <1>8, <1>9, <3>1
  <2>2. mine.max <= theirs.max
    <3>1. PICK i \in 1..n : mine.max = s[i]
      BY <1>3 DEF Swept
    <3> QED BY <1>7, <1>9, <3>1
  <2> QED BY <1>6, <2>1, <2>2
<1>12. mine = theirs
  BY <1>3, <1>4, <1>5, <1>10, <1>11
<1> QED BY <1>12 DEF mine, theirs, q

\* Nor does the average.
LEMMA AverageInAnyOrder ==
    ASSUME NEW n \in Nat \ {0}, NEW s \in [1..n -> Nat], NEW p, Reorders(p, n)
    PROVE  Average([k \in 1..n |-> s[p[k]]]) = Average(s)
<1> DEFINE q == [k \in 1..n |-> s[p[k]]]
<1>1. Len(q) = n /\ q # <<>> /\ Len(s) = n /\ s # <<>>
  <2>1. DOMAIN q = 1..n /\ DOMAIN s = 1..n /\ 1 \in 1..n
    OBVIOUS
  <2>2. q \in [1..n -> Nat]
    BY DEF Reorders
  <2> HIDE DEF q
  <2> QED BY <2>1, <2>2
<1>2. FoldLeft(Sweep, First(q), q) = FoldLeft(Sweep, First(s), s)
  BY SweepInAnyOrder
<1> HIDE DEF q
<1>3. Average(q) = Average(s)
  BY <1>1, <1>2 DEF Average
<1> QED BY <1>3 DEF q

\* One score taken to the front is another order.
LEMMA ToTheFront ==
    ASSUME NEW n \in Nat, NEW s \in [1..n -> Nat], NEW i \in 1..n
    PROVE  \E p : Reorders(p, n) /\ <<s[i]>> \o RemoveAt(s, i) = [k \in 1..n |-> s[p[k]]]
<1> DEFINE p == [k \in 1..n |-> IF k = 1 THEN i ELSE IF k <= i THEN k - 1 ELSE k]
           one == <<s[i]>>
           rest == RemoveAt(s, i)
           list == one \o rest
<1>1. Reorders(p, n)
  <2>1. p \in [1..n -> 1..n]
    OBVIOUS
  <2>2. \A k, l \in 1..n : p[k] = p[l] => k = l
    OBVIOUS
  <2>3. ASSUME NEW j \in 1..n PROVE \E k \in 1..n : p[k] = j
    <3>1. CASE j = i
      <4>1. 1 \in 1..n /\ p[1] = j
        BY <3>1
      <4> QED BY <4>1
    <3>2. CASE j < i
      <4>1. j + 1 \in 1..n /\ p[j + 1] = j
        BY <3>2
      <4> QED BY <4>1
    <3>3. CASE j > i
      <4>1. p[j] = j
        BY <3>3
      <4> QED BY <4>1
    <3> QED BY <3>1, <3>2, <3>3
  <2> HIDE DEF p
  <2> QED BY <2>1, <2>2, <2>3 DEF Reorders
<1>2. s \in Seq(Nat) /\ Len(s) = n /\ i \in 1..Len(s)
  OBVIOUS
<1>5. /\ rest \in Seq(Nat) /\ Len(rest) = n - 1
      /\ \A k \in 1..(n - 1) : rest[k] = IF k < i THEN s[k] ELSE s[k + 1]
  BY <1>2, RowRemoved
<1> HIDE DEF rest
<1>6. one \in Seq(Nat) /\ Len(one) = 1 /\ one[1] = s[i]
  OBVIOUS
<1> HIDE DEF one
<1>7. /\ list \in Seq(Nat) /\ Len(list) = n
      /\ \A k \in 1..n : list[k] = IF k <= 1 THEN one[k] ELSE rest[k - 1]
  <2>1. /\ list \in Seq(Nat) /\ Len(list) = Len(one) + Len(rest)
        /\ \A k \in 1..(Len(one) + Len(rest)) :
              list[k] = IF k <= Len(one) THEN one[k] ELSE rest[k - Len(one)]
    BY <1>5, <1>6, ConcatProperties, Zenon
  <2>2. Len(one) = 1 /\ Len(one) + Len(rest) = n
    BY <1>5, <1>6
  <2> HIDE DEF list
  <2> QED BY <2>1, <2>2
<1> HIDE DEF list
<1>8. ASSUME NEW k \in 1..n PROVE list[k] = s[p[k]]
  <2>1. CASE k = 1
    BY <1>6, <1>7, <2>1
  <2>2. CASE k # 1
    <3>1. k - 1 \in 1..(n - 1) /\ list[k] = rest[k - 1]
      BY <1>7, <2>2
    <3>2. list[k] = IF k - 1 < i THEN s[k - 1] ELSE s[(k - 1) + 1]
      BY <1>5, <3>1
    <3>3. p[k] = IF k <= i THEN k - 1 ELSE k
      BY <2>2
    <3> QED BY <3>2, <3>3
  <2> QED BY <2>1, <2>2
<1>9. list = [k \in 1..n |-> s[p[k]]]
  <2>1. list = [k \in 1..n |-> list[k]]
    BY <1>7
  <2> HIDE DEF list, p
  <2> QED BY <1>8, <2>1
<1>10. <<s[i]>> \o RemoveAt(s, i) = list
  BY DEF list, rest, one
<1> HIDE DEF list, p
<1> QED BY <1>1, <1>9, <1>10

\* The sorted scores are the scores in another order, going up.
LEMMA SortedScores ==
    ASSUME NEW n \in Nat, NEW s \in [1..n -> Nat]
    PROVE  \E p : /\ Reorders(p, n)
                  /\ Sorted(s, <) = [k \in 1..n |-> s[p[k]]]
                  /\ \A k, l \in 1..n : k <= l => s[p[k]] <= s[p[l]]
<1> DEFINE R == {p \in (1..n) \X (1..n) :
                    \/ s[p[1]] < s[p[2]]
                    \/ ~(s[p[2]] < s[p[1]]) /\ p[1] < p[2]}
           p == Arrangement(n, R)
           first(i, j) == s[i] < s[j] \/ (~(s[j] < s[i]) /\ i < j)
<1>1. Len(s) = n /\ \A i \in 1..n : s[i] \in Nat
  OBVIOUS
<1>2. Sorted(s, <) = [k \in 1..n |-> s[p[k]]]
  BY <1>1 DEF Sorted
<1>3. ASSUME NEW i \in 1..n, NEW j \in 1..n PROVE <<i, j>> \in R <=> first(i, j)
  <2>1. <<i, j>>[1] = i /\ <<i, j>>[2] = j /\ <<i, j>> \in (1..n) \X (1..n)
    OBVIOUS
  <2> DEFINE q == <<i, j>>
  <2>2. q \in R <=> \/ s[q[1]] < s[q[2]]
                    \/ ~(s[q[2]] < s[q[1]]) /\ q[1] < q[2]
    BY <2>1
  <2> HIDE DEF R
  <2> QED BY <2>1, <2>2
<1> HIDE DEF R
<1>4. IsOrder(R, n)
  <2>1. \A i \in 1..n : ~first(i, i)
    BY <1>1
  <2>2. ASSUME NEW i \in 1..n, NEW j \in 1..n, i # j PROVE first(i, j) \/ first(j, i)
    <3>1. s[i] \in Int /\ s[j] \in Int
      BY <1>1
    <3> QED BY <2>2, <3>1
  <2>3. ASSUME NEW i \in 1..n, NEW j \in 1..n, NEW k \in 1..n, first(i, j), first(j, k)
        PROVE  first(i, k)
    BY <1>1, <2>3
  <2> HIDE DEF first
  <2> QED BY <1>3, <2>1, <2>2, <2>3 DEF IsOrder
<1>5. Arranges(p, n, R)
  BY <1>4, ArrangementArranges
<1> HIDE DEF p
<1>6. ASSUME NEW k \in 1..n, NEW l \in 1..n, k <= l PROVE s[p[k]] <= s[p[l]]
  <2>1. p[k] \in 1..n /\ p[l] \in 1..n
    BY <1>5 DEF Arranges
  <2>2. k = l \/ <<p[k], p[l]>> \in R
    BY <1>5, <1>6 DEF Arranges
  <2>3. k = l \/ first(p[k], p[l])
    <3> HIDE DEF first
    <3> QED BY <1>3, <2>1, <2>2
  <2> QED BY <1>1, <2>1, <2>3
<1>7. Reorders(p, n)
  BY <1>5 DEF Arranges, Reorders
<1> QED BY <1>2, <1>6, <1>7

\* A sum without the first and the last element.
LEMMA SumOfTheInner ==
    ASSUME NEW n \in Nat, n >= 2, NEW q \in [1..n -> Int]
    PROVE  Added([k \in 1..(n - 2) |-> q[k + 1]], n - 2) = Added(q, n) - q[1] - q[n]
<1> DEFINE m == n - 2
           g == [k \in 1..m |-> q[k + 1]]
           v == Running(q, n)
           w == [k \in 0..m |-> v[k + 1] - q[1]]
<1>1. m \in Nat /\ m \in 0..m /\ m + 1 \in 1..n /\ (m + 1) + 1 = n /\ 1 \in 1..n /\ n \in 1..n
  OBVIOUS
<1>2. g \in [1..m -> Int]
  <2>1. \A k \in 1..m : k + 1 \in 1..n
    OBVIOUS
  <2> HIDE DEF m
  <2> QED BY <2>1
<1>3. Runs(v, q, n)
  BY RunningRuns
<1>4. Runs(Running(g, m), g, m)
  <2> HIDE DEF g, m
  <2> QED BY <1>1, <1>2, RunningRuns
<1> HIDE DEF v
<1>5. v \in [0..n -> Int] /\ v[0] = 0 /\ \A k \in 1..n : v[k] = v[k - 1] + q[k]
  BY <1>3 DEF Runs
<1>6. v[1] = q[1] /\ v[n] = v[m + 1] + q[n] /\ v[m + 1] \in Int /\ q[1] \in Int /\ q[n] \in Int
  <2>1. v[1] = v[0] + q[1] /\ v[n] = v[n - 1] + q[n] /\ n - 1 = m + 1
    BY <1>1, <1>5
  <2> QED BY <1>1, <1>5, <2>1
<1>7. Runs(w, g, m)
  <2>1. \A k \in 0..m : k + 1 \in 0..n /\ k + 1 \in 1..n
    OBVIOUS
  <2>2. w \in [0..m -> Int]
    <3>1. ASSUME NEW k \in 0..m PROVE v[k + 1] - q[1] \in Int
      <4>1. v[k + 1] \in Int
        BY <1>5, <2>1
      <4> QED BY <1>6, <4>1
    <3> QED BY <3>1
  <2>3. w[0] = 0
    BY <1>6
  <2>4. ASSUME NEW k \in 1..m PROVE w[k] = w[k - 1] + g[k]
    <3>1. /\ k - 1 \in 0..m /\ k \in 0..m /\ k + 1 \in 1..n /\ (k - 1) + 1 = k
          /\ (k + 1) - 1 = k /\ k \in 0..n
      OBVIOUS
    <3>2. w[k] = v[k + 1] - q[1] /\ w[k - 1] = v[k] - q[1] /\ g[k] = q[k + 1]
      BY <3>1
    <3>3. v[k + 1] = v[k] + q[k + 1] /\ v[k] \in Int /\ q[k + 1] \in Int
      BY <1>5, <3>1
    <3> HIDE DEF w, g
    <3> QED BY <1>6, <3>2, <3>3
  <2> HIDE DEF w, g, m
  <2> QED BY <2>2, <2>3, <2>4 DEF Runs
<1>8. w[m] = v[m + 1] - q[1]
  BY <1>1
<1>9. Running(g, m)[m] = w[m]
  <2> HIDE DEF w, g, m
  <2> QED BY <1>1, <1>4, <1>7, RunningIsUnique
<1>10. Added(g, m) = v[m + 1] - q[1] /\ Added(q, n) = v[n]
  BY <1>8, <1>9 DEF Added, v
<1> HIDE DEF g, m
<1>11. Added(g, m) = Added(q, n) - q[1] - q[n]
  BY <1>6, <1>10
<1> QED BY <1>11 DEF g, m

\* The middle of the scores is what the loop's result leaves.
LEMMA SumOfTheMiddle ==
    ASSUME NEW n \in Nat, n >= 5, NEW s \in [1..n -> Nat]
    PROVE  LET all == FoldLeft(Sweep, First(s), s)
           IN  Sum(Middle(s)) = all.sum - all.min - all.max
<1> DEFINE all == FoldLeft(Sweep, First(s), s)
<1>1. PICK p : /\ Reorders(p, n)
               /\ Sorted(s, <) = [k \in 1..n |-> s[p[k]]]
               /\ \A k, l \in 1..n : k <= l => s[p[k]] <= s[p[l]]
  BY SortedScores
<1> DEFINE q == [k \in 1..n |-> s[p[k]]]
<1>2. n \in Nat \ {0} /\ 1 \in 1..n /\ n \in 1..n /\ Len(s) = n
  OBVIOUS
<1>3. q \in [1..n -> Nat]
  BY <1>1 DEF Reorders
<1>4. \A k, l \in 1..n : k <= l => q[k] <= q[l]
  BY <1>1
<1>5. FoldLeft(Sweep, First(q), q) = all
  BY <1>1, <1>2, SweepInAnyOrder
<1>6. Middle(s) = SubSeq(q, 2, n - 1)
  BY <1>1, <1>2 DEF Middle
<1> HIDE DEF all, q
<1>7. all \in [sum : Int, min : Int, max : Int] /\ Swept(all, q, n, n)
  BY <1>2, <1>3, <1>5, SweptAll
<1>8. q[1] \in Int /\ q[n] \in Int /\ all.sum \in Int /\ all.min \in Int /\ all.max \in Int
  BY <1>2, <1>3, <1>7
<1>9. all.min = q[1]
  <2>1. PICK i \in 1..n : all.min = q[i]
    BY <1>7 DEF Swept
  <2>2. q[1] <= q[i]
    BY <1>2, <1>4
  <2>3. all.min <= q[1]
    BY <1>7 DEF Swept
  <2> QED BY <1>8, <2>1, <2>2, <2>3
<1>10. all.max = q[n]
  <2>1. PICK i \in 1..n : all.max = q[i]
    BY <1>7 DEF Swept
  <2>2. q[i] <= q[n]
    BY <1>2, <1>4
  <2>3. q[n] <= all.max
    BY <1>2, <1>7 DEF Swept
  <2> QED BY <1>8, <2>1, <2>2, <2>3
<1> DEFINE middle == [k \in 1..(n - 2) |-> q[k + 1]]
<1>11. SubSeq(q, 2, n - 1) = middle
  <2>1. q \in Seq(Nat) /\ Len(q) = n
    BY <1>3
  <2>2. /\ SubSeq(q, 2, n - 1) \in Seq(Nat) /\ Len(SubSeq(q, 2, n - 1)) = n - 2
        /\ \A k \in 1..(n - 2) : SubSeq(q, 2, n - 1)[k] = q[k + 1]
    BY <2>1
  <2>3. SubSeq(q, 2, n - 1) = [k \in 1..(n - 2) |-> SubSeq(q, 2, n - 1)[k]]
    BY <2>2
  <2> QED BY <2>2, <2>3
<1>12. Sum(middle) = Added(middle, n - 2)
  <2>1. n - 2 \in Nat /\ middle \in [1..(n - 2) -> Nat]
    <3>1. n - 2 \in Nat /\ \A k \in 1..(n - 2) : k + 1 \in 1..n
      OBVIOUS
    <3> QED BY <1>3, <3>1
  <2> HIDE DEF middle
  <2> QED BY <2>1, SumIsAdded
<1>13. Added(middle, n - 2) = Added(q, n) - q[1] - q[n]
  <2>1. q \in [1..n -> Int] /\ n >= 2
    BY <1>3
  <2> QED BY <2>1, SumOfTheInner
<1>14. all.sum = Added(q, n)
  BY <1>7 DEF Swept, Added
<1> HIDE DEF middle
<1>15. Sum(Middle(s)) = all.sum - all.min - all.max
  BY <1>6, <1>9, <1>10, <1>11, <1>12, <1>13, <1>14
<1> QED BY <1>15 DEF all

-----------------------------------------------------------------------------
(* The sheet.                                                               *)

Scored == sheet \in Seq(Nat)

\* The scores are natural numbers of hundredths.
LEMMA ScoredAlways == AverageSpec => []Scored
<1>1. AverageInit => Scored
  BY DEF AverageInit, Scored
<1>2. Scored /\ [AverageNext]_sheet => Scored'
  BY HundredthsAssumption DEF Scored, AverageNext, Submit
<1> QED BY <1>1, <1>2, PTL DEF AverageSpec

\* Of any such scores the average is the trimmed mean,
LEMMA ScoredIsTrimmed == Scored => TrimmedFromFive
<1> SUFFICES ASSUME Scored, sheet # <<>>
             PROVE  Average(sheet) = IF Len(sheet) >= 5
                                     THEN Thousandths(Sum(Middle(sheet)), Len(sheet) - 2)
                                     ELSE Thousandths(Sum(sheet), Len(sheet))
  BY DEF TrimmedFromFive
<1> DEFINE n == Len(sheet)
           all == FoldLeft(Sweep, First(sheet), sheet)
<1>1. n \in Nat \ {0} /\ sheet \in [1..n -> Nat]
  BY DEF Scored
<1> HIDE DEF n, all
<1>2. Average(sheet) = IF n <= 4 THEN Thousandths(all.sum, n)
                       ELSE Thousandths(all.sum - all.min - all.max, n - 2)
  BY DEF Average, n, all
<1>3. all.sum = Sum(sheet)
  <2>1. Swept(all, sheet, n, n)
    BY <1>1, SweptAll DEF all
  <2>2. Sum(sheet) = Added(sheet, n)
    BY <1>1, SumIsAdded
  <2> QED BY <2>1, <2>2 DEF Swept, Added
<1>4. n >= 5 => Sum(Middle(sheet)) = all.sum - all.min - all.max
  BY <1>1, SumOfTheMiddle DEF all
<1>5. n <= 4 <=> ~(n >= 5)
  BY <1>1
<1> QED BY <1>2, <1>3, <1>4, <1>5 DEF n

\* and putting any score in front changes nothing.
LEMMA ScoredInAnyOrder == Scored => OrderDoesNotMatter
<1> SUFFICES ASSUME Scored, NEW i \in 1..Len(sheet)
             PROVE  Average(<<sheet[i]>> \o RemoveAt(sheet, i)) = Average(sheet)
  BY DEF OrderDoesNotMatter
<1> DEFINE n == Len(sheet)
<1>1. n \in Nat \ {0} /\ n \in Nat /\ sheet \in [1..n -> Nat] /\ i \in 1..n
  BY DEF Scored
<1> HIDE DEF n
<1>2. PICK p : Reorders(p, n) /\ <<sheet[i]>> \o RemoveAt(sheet, i) = [k \in 1..n |-> sheet[p[k]]]
  BY <1>1, ToTheFront
<1>3. Average([k \in 1..n |-> sheet[p[k]]]) = Average(sheet)
  BY <1>1, <1>2, AverageInAnyOrder
<1> QED BY <1>2, <1>3

\* The average is that of the scores without one lowest and one highest from
\* five judges on, and that of all scores up to three, whatever they are.
THEOREM AverageIsTrimmed == AverageSpec => []TrimmedFromFive
BY ScoredAlways, ScoredIsTrimmed, PTL

\* The average is the same in whatever order the map yields the scores.
THEOREM AverageHasNoOrder == AverageSpec => []OrderDoesNotMatter
BY ScoredAlways, ScoredInAnyOrder, PTL
=============================================================================
