---------------------------- MODULE MemoryStore ----------------------------
(***************************************************************************)
(* The store of the builds without a database (data/db_nodb.go), on which  *)
(* the program's tests run: Go slices in the place of the tables.  What    *)
(* the tests show of the handlers holds with the database as far as these  *)
(* slices behave like its tables (Tables).                                 *)
(***************************************************************************)
EXTENDS Naturals, Sequences, SequencesExt, FiniteSets

CONSTANTS StoreRoutines, StoreJudges, StoreValues, MarkIds, Unset,
          MaxRows            \* bound: rows of a table

ASSUME StoreAssumption == Unset \notin StoreValues /\ MaxRows \in Nat

VARIABLES
    scores, adjustments,     \* slices of rows
    storedMarks,             \* slice of deductions: [id, row]
    nanduresults,            \* map of maps: routine -> judge -> result
    finalScores              \* the final scores in the slice routines

storeVars == <<scores, adjustments, storedMarks, nanduresults, finalScores>>

StoredRow == [routine : StoreRoutines, judge : StoreJudges, value : StoreValues]

StoreInit ==
    /\ scores = <<>> /\ adjustments = <<>> /\ storedMarks = <<>>
    /\ nanduresults = [rt \in {} |-> Unset]
    /\ finalScores = [rt \in StoreRoutines |-> Unset]

-----------------------------------------------------------------------------
saveScore(row) ==
    /\ Len(scores) < MaxRows
    /\ scores' = Append(scores, row)
    /\ UNCHANGED <<adjustments, storedMarks, nanduresults, finalScores>>

\* mutant: the flagged indices in the order they are found
FlaggedInOrder(rt) ==
    FoldLeftDomain(LAMBDA list, i : IF scores[i].routine = rt THEN Append(list, i) ELSE list,
                   <<>>, scores)

\* "prepend indices to create a reverse order"
ToDelete(rt) ==
    FoldLeftDomain(LAMBDA list, i : IF scores[i].routine = rt THEN <<i>> \o list ELSE list,
                   <<>>, scores)

clearScores(rt) ==
    /\ scores' = FoldLeft(RemoveAt, scores, ToDelete(rt))
    /\ UNCHANGED <<adjustments, storedMarks, nanduresults, finalScores>>

SaveAdjustment(row) ==
    /\ Len(adjustments) < MaxRows
    /\ adjustments' = Append(adjustments, row)
    /\ UNCHANGED <<scores, storedMarks, nanduresults, finalScores>>

\* the ids of the marks are taken to be unique
SaveMark(id, row) ==
    /\ Len(storedMarks) < MaxRows /\ \A i \in DOMAIN storedMarks : storedMarks[i].id # id
    /\ storedMarks' = Append(storedMarks, [id |-> id, row |-> row])
    /\ UNCHANGED <<scores, adjustments, nanduresults, finalScores>>

\* every mark with the id
UpdateMark(id, code) ==
    /\ storedMarks' = [i \in DOMAIN storedMarks |->
                         IF storedMarks[i].id = id THEN [storedMarks[i] EXCEPT !.row.value = code]
                         ELSE storedMarks[i]]
    /\ UNCHANGED <<scores, adjustments, nanduresults, finalScores>>

\* the first mark with the id
RemoveMarkById(id) ==
    /\ storedMarks' =
          IF \E i \in DOMAIN storedMarks : storedMarks[i].id = id
          THEN RemoveAt(storedMarks, SelectInSeq(storedMarks, LAMBDA d : d.id = id))
          ELSE storedMarks
    /\ UNCHANGED <<scores, adjustments, nanduresults, finalScores>>

SaveNandu(row) ==
    /\ LET nr == IF row.routine \in DOMAIN nanduresults THEN nanduresults[row.routine]
                 ELSE [j \in {} |-> Unset]
           judged == [j \in DOMAIN nr \cup {row.judge} |->
                         IF j = row.judge THEN row.value ELSE nr[j]]
       IN nanduresults' = [rt \in DOMAIN nanduresults \cup {row.routine} |->
                              IF rt = row.routine THEN judged ELSE nanduresults[rt]]
    /\ UNCHANGED <<scores, adjustments, storedMarks, finalScores>>

SaveFinal(rt, v) ==
    /\ finalScores' = [finalScores EXCEPT ![rt] = v]
    /\ UNCHANGED <<scores, adjustments, storedMarks, nanduresults>>

StoreNext ==
    \/ \E row \in StoredRow : saveScore(row) \/ SaveAdjustment(row) \/ SaveNandu(row)
    \/ \E rt \in StoreRoutines : clearScores(rt) \/ \E v \in StoreValues : SaveFinal(rt, v)
    \/ \E id \in MarkIds : \/ RemoveMarkById(id)
                           \/ \E row \in StoredRow : SaveMark(id, row)
                           \/ \E code \in StoreValues : UpdateMark(id, code)

StoreSpec == StoreInit /\ [][StoreNext]_storeVars

-----------------------------------------------------------------------------
(* Properties.                                                              *)

Counted(list) == [r \in StoredRow |-> Cardinality({i \in DOMAIN list : list[i] = r})]

NanduOf(rt, j) ==
    IF rt \in DOMAIN nanduresults /\ j \in DOMAIN nanduresults[rt]
    THEN nanduresults[rt][j] ELSE Unset

Db == INSTANCE Tables WITH
          scoreTable <- Counted(scores),
          adjustmentTable <- Counted(adjustments),
          deductionTable <- ToSet(storedMarks),
          nanduTable <- [rt \in StoreRoutines |-> [j \in StoreJudges |-> NanduOf(rt, j)]],
          finalTable <- finalScores

\* The slices are the tables: deleting by index removes the rows a DELETE
\* removes and no others, however the rows of several routines are mixed.  This
\* is Db!TablesSpec, with the steps that leave the store alone recognized first.
ImplementsTables == Db!TablesInit /\ [][UNCHANGED storeVars \/ Db!TablesNext]_storeVars
=============================================================================
