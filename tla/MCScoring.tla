----------------------------- MODULE MCScoring -----------------------------
(***************************************************************************)
(* The computations on scores and the store the tests compute them from,   *)
(* side by side: a behaviour exercises one of them while the others keep   *)
(* an initial state.                                                       *)
(***************************************************************************)
EXTENDS AdjustedAverage, Nandu, Rankings, Deductions, MemoryStore, TLC

CONSTANTS a1, a2, a3, MaxMarks

MCCombos == {<<>>, <<"447C">>, <<"312B", "8">>, <<"312A", "324B", "5">>}

\* The judges are interchangeable, so the first call meets them in one order
\* and the second in any.
MCOrders ==
    LET first == (a1 :> 1) @@ (a2 :> 2) @@ (a3 :> 3)
    IN [c \in Calls |-> IF c = 1 THEN {first}
            ELSE {f \in [Judges -> 1..3] : \A i, j \in Judges : f[i] = f[j] => i = j}]

MCValue == [k \in Codes |-> IF k = "71" THEN 20 ELSE 10]

\* every set of at most MaxMarks marks
MCDeductionsInit == \E n \in 0..MaxMarks : \E M \in kSubset(n, Mark) : Start(M)

\* the tables share nothing: a behaviour fills one
OneTable ==
    Cardinality({k \in 1..5 : <<scores # <<>>, adjustments # <<>>, storedMarks # <<>>,
                                DOMAIN nanduresults # {},
                                \E rt \in StoreRoutines : finalScores[rt] # Unset>>[k]}) <= 1

MCInit == AverageInit /\ NanduInit /\ RankingsInit /\ MCDeductionsInit /\ StoreInit

NoMarks == marks = {} /\ \A c \in Calls : \A j, k \in Judges :
               order[c][j] < order[c][k] <=> order[1][j] < order[1][k]

MCNext ==
    \/ /\ AverageInit /\ RankingsInit /\ NanduInit /\ StoreInit /\ DeductionsNext
       /\ UNCHANGED <<sheet, nanduVars, routines, storeVars>>
    \/ /\ NoMarks
       /\ UNCHANGED deductionVars
       /\ \/ /\ NanduInit /\ RankingsInit /\ StoreInit /\ AverageNext
             /\ UNCHANGED <<nanduVars, routines, storeVars>>
          \/ /\ AverageInit /\ RankingsInit /\ StoreInit /\ NanduNext
             /\ UNCHANGED <<sheet, routines, storeVars>>
          \/ /\ AverageInit /\ NanduInit /\ StoreInit /\ RankingsNext
             /\ UNCHANGED <<sheet, nanduVars, storeVars>>
          \/ /\ AverageInit /\ NanduInit /\ RankingsInit /\ StoreNext /\ OneTable'
             /\ UNCHANGED <<sheet, nanduVars, routines>>

MCSpec == MCInit /\ [][MCNext]_<<sheet, nanduVars, routines, deductionVars, storeVars>>
=============================================================================
