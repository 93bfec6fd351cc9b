-------------------------------- MODULE Nandu --------------------------------
(***************************************************************************)
(* The difficulty of a routine, the C panel's part of the score            *)
(* (scoring.go, enums.go and state.go of data/).  A nandu sheet lists      *)
(* combos; a combo is components joined by "+", and is modelled as their   *)
(* sequence, <<>> for the empty string between two separators.  A code is  *)
(* <<component>> for a move and <<component, component>> for a connection. *)
(* Values are in hundredths, and the names of the codes are left out.      *)
(***************************************************************************)
EXTENDS Integers, FiniteSets, Sequences, SequencesExt

CONSTANTS Combos,          \* the combos a sheet may list
          MaxCombos,       \* bound: combos of a sheet
          MaxCJudges,      \* bound: judges of the C panel
          MaxElements      \* bound: elements of a sheet that several judges mark

ASSUME CombosAssumption == Combos \subseteq Seq(STRING)
ASSUME NanduBounds == MaxCombos \in Nat /\ MaxCJudges \in Nat /\ MaxElements \in Nat

VARIABLES
    nandusheet,  \* the combos of the four segments, one after the other
    nanduScores  \* the results of the judges, in the order the map yields

nanduVars == <<nandusheet, nanduScores>>

-----------------------------------------------------------------------------
(* Codes.                                                                   *)

GradeA == {"111A", "112A", "113A", "143A", "142A", "132A", "244A", "212A", "323A",
           "333A", "324A", "335A", "312A", "346A", "415A", "423A"}
GradeB == {"133B", "143B", "244B", "323B", "353B", "324B", "355B", "312B", "322B",
           "346B"}
GradeC == {"112C", "113C", "355C", "323C", "353C", "324C", "366C", "447C"}

NanduCodes == [c \in {<<m>> : m \in GradeA \cup GradeB \cup GradeC} |->
                  IF c[1] \in GradeA THEN 20 ELSE IF c[1] \in GradeB THEN 30 ELSE 40]

TaijiNanduCodes == [c \in {<<"143B">>, <<"312A">>, <<"312B">>, <<"323A">>, <<"324B">>} |->
                       IF c[1] \in {"312A", "323A"} THEN 20 ELSE 30]

NanduConnectionCodes ==
    [c \in {<<"323B", "1">>, <<"324B", "6">>, <<"312B", "8">>, <<"312A", "324B">>,
            <<"324B", "5">>, <<"312A", "3">>, <<"323A", "3">>} |->
        IF c \in {<<"312A", "3">>, <<"323A", "3">>} THEN 10 ELSE 15]

InvalidNanduCode == [code |-> <<>>, value |-> 0]

ToNanduCode(code, category) ==
    IF category = "Taiji" /\ code \in DOMAIN TaijiNanduCodes
    THEN [code |-> code, value |-> TaijiNanduCodes[code]]
    ELSE IF code \in DOMAIN NanduCodes
    THEN [code |-> code, value |-> NanduCodes[code]]
    ELSE IF code \in DOMAIN NanduConnectionCodes
    THEN [code |-> code, value |-> NanduConnectionCodes[code]]
    ELSE InvalidNanduCode

IsConnection(code) == code \in DOMAIN NanduConnectionCodes

\* mutant: the last component is a base too
ParseEveryComponent(combo, category) ==
    FlattenSeq([i \in 1..Len(combo) |->
        <<ToNanduCode(<<combo[i]>>, category)>> \o
        (IF i = Len(combo) THEN <<>>
         ELSE <<ToNanduCode(<<combo[i], combo[i + 1]>>, category)>>)])

\* each component but the last, followed by its connection to the next
parseNanduCombo(combo, category) ==
    IF combo = <<>> THEN <<>>
    ELSE IF Len(combo) = 1 THEN <<ToNanduCode(<<combo[1]>>, category)>>
    ELSE FlattenSeq([i \in 1..(Len(combo) - 1) |->
            <<ToNanduCode(<<combo[i]>>, category),
              ToNanduCode(<<combo[i], combo[i + 1]>>, category)>>])

GetNanduSequence(combos, category) ==
    FlattenSeq([i \in 1..Len(combos) |-> parseNanduCombo(combos[i], category)])

-----------------------------------------------------------------------------
(* The judges' results.                                                     *)

\* mutant: with three judges or more, one is enough
OneOfThree(results) ==
    [i \in DOMAIN results[1] |-> \E k \in DOMAIN results : results[k][i]]

\* three judges or more: the majority of the first three that the map yields
DetermineNandu(results) ==
    [i \in DOMAIN results[1] |->
        IF Len(results) >= 3
        THEN \E j, k \in 1..3 : j # k /\ results[j][i] /\ results[k][i]
        ELSE \E k \in DOMAIN results : results[k][i]]

limits == [move |-> 140, conn |-> 60]

\* mutant: nothing limits the connections
UnlimitedConnections(total, kind, value) ==
    LET over == total - limits[kind]
    IN IF over <= 0 \/ kind = "conn" THEN value ELSE IF over > value THEN 0 ELSE value - over

\* what an element that brings its kind to the total can still earn
Potential(total, kind, value) ==
    LET over == total - limits[kind]
    IN IF over <= 0 THEN value ELSE IF over > value THEN 0 ELSE value - over

\* the loop: a failed element uses the limit up too
UseUp(used, n) ==
    LET total == used[n.kind] + n.value
    IN [used EXCEPT ![n.kind] = total,
                    !.result = @ + IF n.success THEN Potential(total, n.kind, n.value)
                                   ELSE 0]

Elements(seq, result) ==
    [i \in 1..Len(seq) |->
        [kind |-> IF IsConnection(seq[i].code) THEN "conn" ELSE "move",
         value |-> seq[i].value, success |-> result[i]]]

CalculateDifficulty(seq, result) ==
    FoldLeft(UseUp, [move |-> 0, conn |-> 0, result |-> 0], Elements(seq, result)).result

-----------------------------------------------------------------------------
(* A sheet is written, then the judges submit, each a result per element.   *)

Sequence == GetNanduSequence(nandusheet, "Northern")

NanduInit == nandusheet = <<>> /\ nanduScores = <<>>

WriteCombo(c) ==
    /\ nanduScores = <<>> /\ Len(nandusheet) < MaxCombos
    /\ nandusheet' = Append(nandusheet, c)
    /\ UNCHANGED nanduScores

\* everything succeeds, one element only, or all but one
Results(n) ==
    {[i \in 1..n |-> TRUE]} \cup
    UNION {{[i \in 1..n |-> i = k], [i \in 1..n |-> i # k]} : k \in 1..n}

SubmitNandu(result) ==
    /\ Sequence # <<>> /\ Len(nanduScores) < MaxCJudges
    /\ nanduScores # <<>> => Len(Sequence) <= MaxElements
    /\ nanduScores' = Append(nanduScores, result)
    /\ UNCHANGED nandusheet

NanduNext ==
    \/ \E c \in Combos : WriteCombo(c)
    \/ \E r \in Results(Len(Sequence)) : SubmitNandu(r)

NanduSpec == NanduInit /\ [][NanduNext]_nanduVars

-----------------------------------------------------------------------------
(* Properties.                                                              *)

\* what the judge's page lists for a combo (parseNanduCombo of judge.js): the
\* components the judge marks, in the order in which the results are sent
PageCombo(combo) ==
    IF combo = <<>> THEN <<>>
    ELSE IF Len(combo) = 1 THEN <<combo>>
    ELSE FlattenSeq([i \in 1..(Len(combo) - 1) |->
                        <<<<combo[i]>>, <<combo[i], combo[i + 1]>>>>])

\* The results a page sends are a bare list: the server pairs them with the
\* elements it parses from the sheet itself.  Both must find the same elements
\* in the same order, in every combo, or a judge's mark lands on another skill
\* (ParseNanduScores, which panics when the list is longer).
ResultsLineUp ==
    \A category \in {"Northern", "Taiji"} :
        LET page == FlattenSeq([i \in 1..Len(nandusheet) |-> PageCombo(nandusheet[i])])
            seq == GetNanduSequence(nandusheet, category)
        IN /\ Len(page) = Len(seq)
           /\ \A i \in 1..Len(seq) : seq[i].code \in {page[i], <<>>}

Yes(i) == {k \in 1..Len(nanduScores) : nanduScores[k][i]}

\* With one to three judges an element succeeds when at least half of them say
\* so; so the order in which the map yields the judges does not matter.  (With
\* more judges it does: only the first three count.)
HalfOfTheJudges ==
    Len(nanduScores) \in 1..3 =>
        \A i \in 1..Len(Sequence) :
            DetermineNandu(nanduScores)[i] <=> 2 * Cardinality(Yes(i)) >= Len(nanduScores)

Total(kind) ==
    LET sum == FoldLeft(LAMBDA t, n : IF n.kind = kind THEN t + n.value ELSE t, 0,
                        Elements(Sequence, [i \in 1..Len(Sequence) |-> TRUE]))
    IN IF sum > limits[kind] THEN limits[kind] ELSE sum

\* Moves bring 1.4 at most and connections 0.6, whatever the sheet lists and
\* in whatever order; a routine without a mistake earns exactly what the sheet
\* is worth within these limits, and an element that a judge finds successful
\* after all never lowers the difficulty, although it may be beyond a limit.
DifficultyLimited ==
    LET worth == Total("move") + Total("conn")
    IN /\ CalculateDifficulty(Sequence, [i \in 1..Len(Sequence) |-> TRUE]) = worth
       /\ \A k \in 1..Len(nanduScores) :
              LET difficulty == CalculateDifficulty(Sequence, nanduScores[k]) IN
              /\ difficulty \in 0..worth
              /\ \A i \in 1..Len(Sequence) :
                     CalculateDifficulty(Sequence, [nanduScores[k] EXCEPT ![i] = TRUE])
                         >= difficulty
=============================================================================
