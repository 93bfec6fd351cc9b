--------------------------- MODULE AdjustedAverage ---------------------------
(***************************************************************************)
(* The average of the judges' scores (AdjustedAverage, data/scoring.go).   *)
(* Scores are integers in hundredths, as the judges type them; the average *)
(* is in thousandths, to which the code rounds.  PerformanceScores hands   *)
(* the scores over in the order of a Go map, which is any order: the sheet *)
(* is the list as it is met.                                               *)
(***************************************************************************)
EXTENDS Sorting, SequencesExt

CONSTANTS Hundredths,    \* the scores a judge can give
          MaxJudges      \* bound: judges of a ring

ASSUME HundredthsAssumption == Hundredths \subseteq Nat
ASSUME MaxJudgesAssumption == MaxJudges \in Nat

VARIABLE sheet

\* types.RoundFloat(a / n, 0.001) of a hundredths: the nearest integer, halves up
Thousandths(a, n) == (20 * a + n) \div (2 * n)

\* mutant: min is compared with max
SweepAgainstMax(seen, s) ==
    [sum |-> seen.sum + s,
     min |-> IF s < seen.max THEN s ELSE seen.min,
     max |-> IF s > seen.max THEN s ELSE seen.max]

\* the loop over the scores
Sweep(seen, s) ==
    [sum |-> seen.sum + s,
     min |-> IF s < seen.min THEN s ELSE seen.min,
     max |-> IF s >= seen.min /\ s > seen.max THEN s ELSE seen.max]

\* mutant: the extremes start at zero
FirstAtZero(scores) == [sum |-> 0, min |-> 0, max |-> 0]

First(scores) == [sum |-> 0, min |-> scores[1], max |-> scores[1]]

Average(scores) ==
    IF scores = <<>> THEN 0
    ELSE LET all == FoldLeft(Sweep, First(scores), scores)
             count == Len(scores)
         IN IF count <= 4 THEN Thousandths(all.sum, count)
            ELSE Thousandths(all.sum - all.min - all.max, count - 2)

AverageInit == sheet = <<>>

\* one more judge submits
Submit(s) == Len(sheet) < MaxJudges /\ sheet' = Append(sheet, s)

AverageNext == \E s \in Hundredths : Submit(s)

AverageSpec == AverageInit /\ [][AverageNext]_sheet

-----------------------------------------------------------------------------
(* Properties.                                                              *)

Sum(scores) == FoldLeft(+, 0, scores)

\* the lowest and the highest fall out of the scores in order
Middle(scores) ==
    LET sorted == Sorted(scores, <) IN SubSeq(sorted, 2, Len(scores) - 1)

\* From five judges on, the average is that of the scores without one lowest
\* and one highest, ties included; up to three judges it is that of all.  Of
\* four judges it says nothing: the code averages all four ("Use all scores if
\* < 5 judges"), TestAdjustedAverage4Scores expects them trimmed.
TrimmedFromFive ==
    sheet # <<>> /\ Len(sheet) # 4 =>
        Average(sheet) = IF Len(sheet) >= 5
                         THEN Thousandths(Sum(Middle(sheet)), Len(sheet) - 2)
                         ELSE Thousandths(Sum(sheet), Len(sheet))

\* The order in which the map yields the scores does not matter, although the
\* loop starts with the first and updates one of min and max only.
OrderDoesNotMatter ==
    \A i \in 1..Len(sheet) :
        Average(<<sheet[i]>> \o RemoveAt(sheet, i)) = Average(sheet)
=============================================================================
