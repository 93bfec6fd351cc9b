----------------------------- MODULE Deductions -----------------------------
(***************************************************************************)
(* The deductions of the A panel: DetermineDeductions and ToTechnicalScore *)
(* (data/scoring.go).  A judge who sees a mistake marks the time and later *)
(* adds a code; a deduction counts when another judge marked the same code *)
(* less than a window of three seconds later.                              *)
(*                                                                         *)
(* The lists of the judges come from a Go map, in any order, and the score *)
(* is computed anew for every page and once more when it is finalized: the *)
(* calls are 1, 2, ..., each with an order of its own.  A judge's list is  *)
(* sorted by time, so it is the set of its marks; the id of a mark is made *)
(* of the judge and the time, so no two marks of a judge have one time.    *)
(***************************************************************************)
EXTENDS Integers, FiniteSets, FiniteSetsExt

CONSTANTS Judges,
          Codes,           \* deduction codes, up to case; one may be the blank
          Value,           \* code -> deduction, in hundredths
          Times,
          deductionWindow,
          Calls,           \* how often DetermineDeductions is called
          Orders           \* call -> the orders the map may have

Mark == [judge : Judges, ts : Times, code : Codes]

ASSUME TimesAssumption == Times \subseteq Nat /\ deductionWindow \in Nat
ASSUME ValueAssumption == Value \in [Codes -> Nat]
ASSUME OrdersAssumption ==
    Calls \subseteq Nat /\ Orders \in [Calls -> SUBSET [Judges -> Nat]]

VARIABLES
    marks,      \* ring.Deductions
    order,      \* call -> judge -> position in allDeductions
    left,       \* call -> what is left of the cloned lists
    result      \* call -> the matches found: the mark reported, and with whom

deductionVars == <<marks, order, left, result>>

-----------------------------------------------------------------------------
DistinctTimes(M) ==
    \A x, y \in M : x.judge = y.judge /\ x.ts = y.ts => x = y

Start(M) ==
    /\ marks = M
    /\ IsFiniteSet(M) /\ DistinctTimes(M)
    /\ order \in [Calls -> UNION {Orders[c] : c \in Calls}]
    /\ \A c \in Calls : order[c] \in Orders[c]
    /\ left = [c \in Calls |-> M]
    /\ result = [c \in Calls |-> {}]

DeductionsInit == \E M \in SUBSET Mark : Start(M)

Done(c) == left[c] = {}

\* the list, among those whose first mark is earliest, that comes first
IsEarliest(c, m) ==
    \A d \in left[c] : \/ m.ts < d.ts
                       \/ m.ts = d.ts /\ order[c][m.judge] <= order[c][d.judge]

\* mutants: the judge's own marks are compared; the window ends early;
\* the comparison looks at the next list only
MatchesOwn(c, m) ==
    {d \in left[c] \ {m} : d.code = m.code /\ d.ts < m.ts + deductionWindow}

MatchesEarly(c, m) ==
    {d \in left[c] : d.judge # m.judge /\ d.code = m.code
                     /\ d.ts < m.ts + deductionWindow - 1}

MatchesInNextList(c, m) ==
    {d \in left[c] : /\ order[c][d.judge] = order[c][m.judge] + 1
                     /\ d.code = m.code /\ d.ts < m.ts + deductionWindow}

\* marks of the other judges that match it
Matches(c, m) ==
    {d \in left[c] : d.judge # m.judge /\ d.code = m.code
                     /\ d.ts < m.ts + deductionWindow}

\* the first match of each other judge is taken off that judge's list
Matched(c, m) ==
    {d \in Matches(c, m) :
        \A e \in Matches(c, m) : e.judge = d.judge => d.ts <= e.ts}

\* matchEarliestDeduction, one round of the loop of DetermineDeductions
MatchEarliestDeduction(c) ==
    /\ \A b \in Calls : b < c => Done(b)
    /\ \E m \in left[c] :
        /\ IsEarliest(c, m)
        /\ left' = [left EXCEPT ![c] = @ \ ({m} \cup Matched(c, m))]
        /\ result' = IF Matches(c, m) = {} THEN result
                     ELSE [result EXCEPT ![c] =
                             @ \cup {[mark |-> m, with |-> Matched(c, m)]}]
    /\ UNCHANGED <<marks, order>>

DeductionsNext == \E c \in Calls : MatchEarliestDeduction(c)

DeductionsSpec == DeductionsInit /\ [][DeductionsNext]_deductionVars

\* the marks flagged "Applied" in the judges' own lists
Applied(c) == UNION {{r.mark} \cup r.with : r \in result[c]}

\* how often each code is deducted
Deducted(c) == [k \in Codes |-> Cardinality({r \in result[c] : r.mark.code = k})]

\* ToTechnicalScore: every deduction takes the value of its code off
Base(ruleset) == IF ruleset = "IWUFAB" THEN 700 ELSE 500

ToTechnicalScore(deducted, ruleset) ==
    Base(ruleset) - MapThenSumSet(LAMBDA k : Value[k] * deducted[k], Codes)

-----------------------------------------------------------------------------
(* Properties.                                                              *)

Near(x, y) ==
    /\ x.judge # y.judge /\ x.code = y.code
    /\ x.ts < y.ts + deductionWindow /\ y.ts < x.ts + deductionWindow

\* Types of the variables.
DeductionTypes ==
    /\ marks \subseteq Mark
    /\ order \in [Calls -> [Judges -> Nat]]
    /\ left \in [Calls -> SUBSET Mark]
    /\ result \in [Calls -> SUBSET [mark : Mark, with : SUBSET Mark]]

\* Every deduction that counts has two judges behind it who marked the same
\* code within the window, and no mark backs two deductions.
TwoJudgesAgree ==
    \A c \in Calls : \A r \in result[c] :
        /\ r.with # {}
        /\ \A d \in r.with : Near(r.mark, d)
        /\ \A s \in result[c] \ {r} :
               ({r.mark} \cup r.with) \cap ({s.mark} \cup s.with) = {}

\* No agreement is missed, whatever the order of the lists: of two marks of
\* one code that are closer than the window, at least one counts.  A mark that
\* is dropped because nothing matches it must not have been needed later.
NoAgreementMissed ==
    \A c \in Calls : Done(c) =>
        \A x, y \in marks : Near(x, y) => {x, y} \cap Applied(c) # {}

\* The score shown to the pages and the one that is published are computed by
\* calls that met the map in different orders: the judges' marks that count,
\* how often each code is deducted and the technical score are the same.
MapOrderDoesNotMatter ==
    \A b, c \in Calls : Done(b) /\ Done(c) =>
        /\ Applied(b) = Applied(c)
        /\ Deducted(b) = Deducted(c)
        /\ \A ruleset \in {"IWUF", "IWUFAB"} :
               ToTechnicalScore(Deducted(b), ruleset) = ToTechnicalScore(Deducted(c), ruleset)
=============================================================================
