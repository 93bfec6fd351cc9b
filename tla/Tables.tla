------------------------------- MODULE Tables -------------------------------
(***************************************************************************)
(* What the handlers expect of the database (data/db_pg.go): the tables of *)
(* scores, adjustments, deductions, nandu results and final scores, each   *)
(* statement one step.  scores and adjustments are bags of rows, their     *)
(* serial ids being of no use to anybody; of the nandu results, which are  *)
(* only ever inserted, GetNanduResults keeps the last of a judge.          *)
(***************************************************************************)
EXTENDS Naturals

CONSTANTS StoreRoutines, StoreJudges,
          StoreValues,       \* scores, amounts, codes or results
          MarkIds,
          Unset

VARIABLES scoreTable, adjustmentTable,     \* row -> how often it is there
          deductionTable,    \* rows with the primary key id
          nanduTable,        \* routine -> judge -> the last result
          finalTable         \* routine -> final score

tableVars == <<scoreTable, adjustmentTable, deductionTable, nanduTable, finalTable>>

StoreRow == [routine : StoreRoutines, judge : StoreJudges, value : StoreValues]

TablesInit ==
    /\ scoreTable = [r \in StoreRow |-> 0]
    /\ adjustmentTable = [r \in StoreRow |-> 0]
    /\ deductionTable = {}
    /\ nanduTable = [rt \in StoreRoutines |-> [j \in StoreJudges |-> Unset]]
    /\ finalTable = [rt \in StoreRoutines |-> Unset]

InsertScore(row) ==
    /\ scoreTable' = [scoreTable EXCEPT ![row] = @ + 1]
    /\ UNCHANGED <<adjustmentTable, deductionTable, nanduTable, finalTable>>

DeleteScores(rt) ==
    /\ scoreTable' = [r \in StoreRow |-> IF r.routine = rt THEN 0 ELSE scoreTable[r]]
    /\ UNCHANGED <<adjustmentTable, deductionTable, nanduTable, finalTable>>

InsertAdjustment(row) ==
    /\ adjustmentTable' = [adjustmentTable EXCEPT ![row] = @ + 1]
    /\ UNCHANGED <<scoreTable, deductionTable, nanduTable, finalTable>>

InsertDeduction(id, row) ==
    /\ \A d \in deductionTable : d.id # id
    /\ deductionTable' = deductionTable \cup {[id |-> id, row |-> row]}
    /\ UNCHANGED <<scoreTable, adjustmentTable, nanduTable, finalTable>>

UpdateDeduction(id, code) ==
    /\ deductionTable' = {IF d.id = id THEN [d EXCEPT !.row.value = code] ELSE d :
                             d \in deductionTable}
    /\ UNCHANGED <<scoreTable, adjustmentTable, nanduTable, finalTable>>

DeleteDeduction(id) ==
    /\ deductionTable' = {d \in deductionTable : d.id # id}
    /\ UNCHANGED <<scoreTable, adjustmentTable, nanduTable, finalTable>>

InsertNandu(row) ==
    /\ nanduTable' = [nanduTable EXCEPT ![row.routine][row.judge] = row.value]
    /\ UNCHANGED <<scoreTable, adjustmentTable, deductionTable, finalTable>>

UpdateFinal(rt, v) ==
    /\ finalTable' = [finalTable EXCEPT ![rt] = v]
    /\ UNCHANGED <<scoreTable, adjustmentTable, deductionTable, nanduTable>>

TablesNext ==
    \/ \E row \in StoreRow : InsertScore(row) \/ InsertAdjustment(row) \/ InsertNandu(row)
    \/ \E rt \in StoreRoutines : DeleteScores(rt) \/ \E v \in StoreValues : UpdateFinal(rt, v)
    \/ \E id \in MarkIds : \/ DeleteDeduction(id)
                           \/ \E row \in StoreRow : InsertDeduction(id, row)
                           \/ \E code \in StoreValues : UpdateDeduction(id, code)

TablesSpec == TablesInit /\ [][TablesNext]_tableVars
=============================================================================
