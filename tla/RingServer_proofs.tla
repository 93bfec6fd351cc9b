-------------------------- MODULE RingServer_proofs --------------------------
(***************************************************************************)
(* What RingServer guarantees for any set of judges, pages and routines,   *)
(* whatever database calls fail: first under any interleaving, and in the  *)
(* second half when the people at the ring take turns.                     *)
(***************************************************************************)
EXTENDS RingServer, TLAPS

\* The places where a page's request has named a routine.
NamesRoutine == {"set.reset", "set.seat", "set.read", "set.scores",
                 "set.readAdjs", "set.adjs", "rescore.delete", "rescore.clear",
                 "adj.save", "adj.cache",
                 "final.calc", "final.adjs", "final.total", "final.save"}

JudgeLocals(j) ==
    /\ pc[j] \in JudgePC
    /\ pc[j] # "idle" =>
          /\ routine # None
          /\ mem[j].routine \in Routines
          /\ mem[j].value \in Scores

PageLocals(h) ==
    /\ pc[h] \in PagePC
    /\ pc[h] \in NamesRoutine => mem[h].routine \in Routines
    /\ pc[h] \in {"event.load", "event.first"} => mem[h].event \in Events

\* The type invariant with what the local variables hold at each place.
Typed ==
    /\ TypeOK
    /\ \A j \in Judges : JudgeLocals(j)
    /\ \A h \in Pages : PageLocals(h)

\* The local variables of a new request are well typed.
LEMMA BlankType == Blank \in Locals
BY DEF Blank, Locals, NoScores, ScoreMap

\* A judge's step keeps the types.
LEMMA JudgeTypes ==
    ASSUME Typed, NEW j \in Judges, JudgeStep(j) PROVE Typed'
<1> USE BoundsAssumption, BlankType, ClientsAssumption
<1> USE DEF Typed, JudgeLocals, PageLocals, TypeOK, Goto, Clients, JudgePC
<1>1. ASSUME NEW s \in Scores, SubmitScore(j, s) PROVE Typed'
  <2>1. UNCHANGED <<ringVars, dbVars, page, history>> /\ routine \in Routines \ {None}
    BY <1>1 DEF SubmitScore
  <2>2. /\ mem' \in [Clients -> Locals]
        /\ mem'[j].routine = routine /\ mem'[j].value = s
        /\ \A p \in Clients \ {j} : mem'[p] = mem[p]
    BY <1>1, <2>1 DEF SubmitScore, Locals
  <2>3. /\ pc' \in [Clients -> JudgePC \cup PagePC]
        /\ pc'[j] = "score.insert"
        /\ \A p \in Clients \ {j} : pc'[p] = pc[p]
    BY <1>1 DEF SubmitScore
  <2> QED BY <2>1, <2>2, <2>3 DEF ringVars, dbVars, history
<1>2. CASE InsertScore(j)
  BY <1>2 DEF InsertScore, ringVars, Row
<1>3. CASE InsertScoreFails(j)
  BY <1>3 DEF InsertScoreFails, Return, DbError, ringVars, dbVars
<1>4. CASE CacheScore(j)
  BY <1>4 DEF CacheScore, Return, dbVars, history, ScoreMap, Scorecard
<1> QED BY <1>1, <1>2, <1>3, <1>4 DEF JudgeStep

\* A step of a page that only moves its request and sets local variables.
LEMMA MoveTypes ==
    ASSUME Typed, NEW h \in Pages, NEW there \in PagePC, NEW m \in Locals,
           pc' = [pc EXCEPT ![h] = there], mem' = [mem EXCEPT ![h] = m],
           there \in NamesRoutine => m.routine \in Routines,
           there \in {"event.load", "event.first"} => m.event \in Events,
           UNCHANGED <<ringVars, dbVars, page, history>>
    PROVE  Typed'
BY ClientsAssumption
   DEF Typed, JudgeLocals, PageLocals, TypeOK, Clients, ringVars, dbVars, history

\* A page's step keeps the types: commands that select a competitor.
LEMMA SelectTypes ==
    ASSUME Typed, NEW h \in Pages, SelectStep(h) PROVE Typed'
<1> USE BoundsAssumption, BlankType, ClientsAssumption, NoneAssumption,
        RoutinesAssumption, FirstUpAssumption
<1> USE DEF Typed, JudgeLocals, PageLocals, TypeOK, Goto, Clients
<1>1. ASSUME NEW e \in Events, ChangeEvent(h, e) PROVE Typed'
  <2> DEFINE m == [mem[h] EXCEPT !.event = e, !.follow = TRUE]
  <2>1. m \in Locals /\ m.event = e
    BY DEF Locals
  <2>2. mem' = [mem EXCEPT ![h] = m]
    BY <1>1 DEF ChangeEvent
  <2>3. /\ pc' = [pc EXCEPT ![h] = "event.load"]
        /\ UNCHANGED <<ringVars, dbVars, page, history>>
    BY <1>1 DEF ChangeEvent
  <2>4. "event.load" \in PagePC \ NamesRoutine
    BY DEF PagePC, NamesRoutine
  <2> HIDE DEF m, Typed
  <2> QED BY <2>1, <2>2, <2>3, <2>4, MoveTypes
<1>2. ASSUME NEW e \in Events, NEW c \in Competitors, ChangeCompetitor(h, e, c)
      PROVE Typed'
  <2> DEFINE m == [Blank EXCEPT !.event = e, !.comp = c]
  <2>1. m \in Locals
    BY DEF Locals
  <2>2. mem' = [mem EXCEPT ![h] = m]
    BY <1>2 DEF ChangeCompetitor, Change
  <2>3. PICK there \in {"comp.load", "comp.event"} :
            pc' = [pc EXCEPT ![h] = there]
    BY <1>2 DEF ChangeCompetitor, Change
  <2>4. there \in PagePC \ NamesRoutine /\ there \notin {"event.load", "event.first"}
    BY DEF PagePC, NamesRoutine
  <2>5. UNCHANGED <<ringVars, dbVars, page, history>>
    BY <1>2 DEF ChangeCompetitor, Change
  <2> HIDE DEF m, Typed
  <2> QED BY <2>1, <2>2, <2>3, <2>4, <2>5, MoveTypes
<1>3. CASE LoadEvent(h)
  BY <1>3 DEF LoadEvent, Return, DbError, ringVars, dbVars, history, NamesRoutine, PagePC, Locals
<1>4. CASE LoadEventFails(h)
  BY <1>4 DEF LoadEventFails, Return, DbError, ringVars, dbVars, history, NamesRoutine, PagePC
<1>5. CASE FirstCompetitor(h)
  BY <1>5 DEF FirstCompetitor, Return, DbError, ringVars, dbVars, history, NamesRoutine, PagePC, Locals
<1>6. CASE FirstCompetitorFails(h)
  BY <1>6 DEF FirstCompetitorFails, Return, DbError, ringVars, dbVars, history, NamesRoutine, PagePC
<1>7. CASE LoadCompetitor(h)
  BY <1>7 DEF LoadCompetitor, Return, DbError, ringVars, dbVars, history, NamesRoutine, PagePC
<1>8. CASE LoadCompetitorFails(h)
  BY <1>8 DEF LoadCompetitorFails, Return, DbError, ringVars, dbVars, history, NamesRoutine, PagePC
<1>9. CASE SetCompetitor(h)
  BY <1>9 DEF SetCompetitor, Return, DbError, ringVars, dbVars, history, NamesRoutine, PagePC, Locals
<1>10. CASE FindRoutine(h)
  BY <1>10 DEF FindRoutine, Return, DbError, ringVars, dbVars, history, NamesRoutine, PagePC, Locals
<1>11. CASE FindRoutineFails(h)
  BY <1>11 DEF FindRoutineFails, Return, DbError, ringVars, dbVars, history, NamesRoutine, PagePC
<1>12. CASE ResetState(h)
  BY <1>12 DEF ResetState, Return, DbError, ringVars, dbVars, history, NamesRoutine, PagePC, NoScores, ScoreMap
<1>13. CASE SeatRoutine(h)
  BY <1>13 DEF SeatRoutine, Return, DbError, ringVars, dbVars, history, NamesRoutine, PagePC
<1>14. CASE ReadScores(h)
  <2> DEFINE m == [mem[h] EXCEPT !.scores =
                       Labelled(mem[h].routine, dbScores[mem[h].routine])]
  <2>1. mem[h].routine \in Routines
    BY <1>14 DEF ReadScores, NamesRoutine
  <2>2. Labelled(mem[h].routine, dbScores[mem[h].routine]) \in ScoreMap
    BY <2>1 DEF Labelled, ScoreMap, Scorecard, Row
  <2>3. m \in Locals /\ m.routine = mem[h].routine
    BY <2>2 DEF Locals
  <2>4. mem' = [mem EXCEPT ![h] = m]
    BY <1>14 DEF ReadScores
  <2> QED BY <1>14, <2>1, <2>3, <2>4, MoveTypes DEF ReadScores, PagePC, NamesRoutine
<1>15. CASE ReadScoresFails(h)
  BY <1>15 DEF ReadScoresFails, Return, DbError, ringVars, dbVars, history, NamesRoutine, PagePC
<1>16. CASE RestoreScores(h)
  BY <1>16 DEF RestoreScores, Return, DbError, ringVars, dbVars, history, NamesRoutine, PagePC, Locals
<1>17. CASE ReadAdjustments(h)
  BY <1>17 DEF ReadAdjustments, Return, DbError, ringVars, dbVars, history, NamesRoutine, PagePC, Locals
<1>18. CASE ReadAdjustmentsFails(h)
  BY <1>18 DEF ReadAdjustmentsFails, Return, DbError, ringVars, dbVars, history, NamesRoutine, PagePC
<1>19. CASE RestoreAdjustments(h)
  BY <1>19 DEF RestoreAdjustments, Return, DbError, ringVars, dbVars, history, NamesRoutine, PagePC, Locals
<1>20. CASE Reply(h)
  BY <1>20 DEF Reply, Return, DbError, ringVars, dbVars, history, NamesRoutine, PagePC
<1>21. CASE FollowUp(h)
  <2> DEFINE m == [Blank EXCEPT !.event = mem[h].event, !.comp = mem[h].comp]
  <2>1. m \in Locals
    BY DEF Locals
  <2>2. mem' = [mem EXCEPT ![h] = m]
    BY <1>21 DEF FollowUp, Change
  <2>3. PICK there \in {"comp.load", "comp.event"} :
            pc' = [pc EXCEPT ![h] = there]
    BY <1>21 DEF FollowUp, Change
  <2>4. there \in PagePC \ NamesRoutine /\ there \notin {"event.load", "event.first"}
    BY DEF PagePC, NamesRoutine
  <2>5. UNCHANGED <<ringVars, dbVars, page, history>>
    BY <1>21 DEF FollowUp, Change
  <2> HIDE DEF m, Typed
  <2> QED BY <2>1, <2>2, <2>3, <2>4, <2>5, MoveTypes
<1>22. CASE LoadStatus(h)
  BY <1>22 DEF LoadStatus, Return, DbError, ringVars, dbVars, history, NamesRoutine, PagePC
<1> QED BY <1>1, <1>2, <1>3, <1>4, <1>5, <1>6, <1>7, <1>8, <1>9, <1>10, <1>11, <1>12, <1>13, <1>14, <1>15, <1>16, <1>17, <1>18, <1>19, <1>20, <1>21, <1>22 DEF SelectStep

\* A page's step keeps the types: commands on scores.
LEMMA ScoringTypes ==
    ASSUME Typed, NEW h \in Pages, ScoringStep(h) PROVE Typed'
<1> USE BoundsAssumption, BlankType, ClientsAssumption, NoneAssumption,
        RoutinesAssumption
<1> USE DEF Typed, JudgeLocals, PageLocals, TypeOK, Goto, Clients
<1>1. CASE Rescore(h)
  BY <1>1 DEF Rescore, Return, DbError, ringVars, dbVars, history, NamesRoutine, PagePC, Locals
<1>2. CASE DeleteScores(h)
  BY <1>2 DEF DeleteScores, Return, DbError, ringVars, dbVars, history, NamesRoutine, PagePC, NoScores, Row
<1>3. CASE DeleteScoresFails(h)
  BY <1>3 DEF DeleteScoresFails, Return, DbError, ringVars, dbVars, history, NamesRoutine, PagePC
<1>4. CASE ClearCache(h)
  BY <1>4 DEF ClearCache, Return, DbError, ringVars, dbVars, history, NamesRoutine, PagePC, NoScores, ScoreMap
<1>5. CASE SubmitAdjustment(h)
  BY <1>5 DEF SubmitAdjustment, Return, DbError, ringVars, dbVars, history, NamesRoutine, PagePC, Locals
<1>6. CASE SaveAdjustment(h)
  BY <1>6 DEF SaveAdjustment, Return, DbError, ringVars, dbVars, history, NamesRoutine, PagePC
<1>7. CASE SaveAdjustmentFails(h)
  BY <1>7 DEF SaveAdjustmentFails, Return, DbError, ringVars, dbVars, history, NamesRoutine, PagePC
<1>8. CASE CacheAdjustment(h)
  BY <1>8 DEF CacheAdjustment, Return, DbError, ringVars, dbVars, history, NamesRoutine, PagePC
<1>9. CASE FinalizeScore(h)
  <2> DEFINE m == [mem[h] EXCEPT !.event = event, !.comp = competitor, !.routine = routine]
  <2>1. routine \in Routines
    BY <1>9 DEF FinalizeScore
  <2>2. m \in Locals /\ m.routine \in Routines
    BY <2>1 DEF Locals
  <2>3. mem' = [mem EXCEPT ![h] = m]
    BY <1>9 DEF FinalizeScore
  <2> QED BY <1>9, <2>2, <2>3, MoveTypes DEF FinalizeScore, PagePC, NamesRoutine
<1>10. CASE CalculateScore(h)
  <2> DEFINE m == [mem[h] EXCEPT !.scores = scores, !.adjs = adjustments]
  <2>1. mem[h].routine \in Routines
    BY <1>10 DEF CalculateScore, NamesRoutine
  <2>2. m \in Locals /\ m.routine \in Routines
    BY <2>1 DEF Locals
  <2>3. mem' = [mem EXCEPT ![h] = m]
    BY <1>10 DEF CalculateScore
  <2> QED BY <1>10, <2>2, <2>3, MoveTypes DEF CalculateScore, PagePC, NamesRoutine
<1>11. CASE ReadTotalAdjustments(h)
  <2> DEFINE m == [mem[h] EXCEPT !.totalAdjs = dbAdjs[mem[h].routine]]
  <2>1. mem[h].routine \in Routines
    BY <1>11 DEF ReadTotalAdjustments, NamesRoutine
  <2>2. m \in Locals /\ m.routine \in Routines
    BY <2>1 DEF Locals
  <2>3. mem' = [mem EXCEPT ![h] = m]
    BY <1>11 DEF ReadTotalAdjustments
  <2> QED BY <1>11, <2>2, <2>3, MoveTypes DEF ReadTotalAdjustments, PagePC, NamesRoutine
<1>12. CASE ReadTotalAdjustmentsFails(h)
  BY <1>12 DEF ReadTotalAdjustmentsFails, Return, DbError, ringVars, dbVars, history, NamesRoutine, PagePC
<1>13. CASE TotalScores(h)
  <2> DEFINE m == [mem[h] EXCEPT !.total = scores]
  <2>1. mem[h].routine \in Routines
    BY <1>13 DEF TotalScores, NamesRoutine
  <2>2. m \in Locals /\ m.routine \in Routines
    BY <2>1 DEF Locals
  <2>3. mem' = [mem EXCEPT ![h] = m]
    BY <1>13 DEF TotalScores
  <2> QED BY <1>13, <2>2, <2>3, MoveTypes DEF TotalScores, PagePC, NamesRoutine
<1>14. CASE SaveFinalScore(h)
  BY <1>14 DEF SaveFinalScore, Return, DbError, ringVars, dbVars, history, NamesRoutine, PagePC, Locals, FinalUpdate
<1>15. CASE SaveFinalScoreFails(h)
  BY <1>15 DEF SaveFinalScoreFails, Return, DbError, ringVars, dbVars, history, NamesRoutine, PagePC
<1> QED BY <1>1, <1>2, <1>3, <1>4, <1>5, <1>6, <1>7, <1>8, <1>9, <1>10, <1>11, <1>12, <1>13, <1>14, <1>15 DEF ScoringStep

\* Every reachable state is well typed, and a request that has passed the
\* place where it reads or receives a routine holds one: no handler works on
\* a nil Routine once it has started.
LEMMA TypedInvariant == Spec => []Typed
<1>1. Init => Typed
  <2> SUFFICES ASSUME Init PROVE Typed
    OBVIOUS
  <2>1. TypeOK
    BY BlankType, BoundsAssumption
       DEF Init, TypeOK, NoScores, ScoreMap, Row, JudgePC, Clients
  <2> QED BY <2>1 DEF Init, Typed, JudgeLocals, PageLocals, JudgePC, PagePC,
                      NamesRoutine, Clients
<1>2. Typed /\ [Next]_vars => Typed'
  <2> SUFFICES ASSUME Typed, [Next]_vars PROVE Typed'
    OBVIOUS
  <2>1. CASE UNCHANGED vars
    BY <2>1 DEF vars, ringVars, dbVars, history, Typed, TypeOK, JudgeLocals, PageLocals
  <2>2. CASE Next
    BY <2>2, JudgeTypes, SelectTypes, ScoringTypes DEF Next
  <2> QED BY <2>1, <2>2
<1> QED BY <1>1, <1>2, PTL DEF Spec

\* The variables of ring, database and requests keep their types in every
\* reachable state.
THEOREM TypeCorrect == Spec => []TypeOK
BY TypedInvariant, PTL DEF Typed

-----------------------------------------------------------------------------
(* ShownWasSaved is not inductive: what the map may receive comes from a    *)
(* judge about to cache, from the snapshot a page read, and through that    *)
(* from the database.                                                       *)

SavedInv ==
    /\ ShownWasSaved
    /\ \A r \in Routines, j \in Judges :
          dbScores[r][j] # None => <<j, dbScores[r][j]>> \in saved
    /\ \A j \in Judges : pc[j] = "score.cache" => <<j, mem[j].value>> \in saved
    /\ \A h \in Pages, j \in Judges :
          mem[h].scores[j] # None => <<j, mem[h].scores[j].score>> \in saved

\* A judge's step keeps what is shown, held and recorded within what was saved.
LEMMA JudgeSaved ==
    ASSUME Typed, SavedInv, NEW j \in Judges, JudgeStep(j) PROVE SavedInv'
<1> USE ClientsAssumption
<1> USE DEF SavedInv, ShownWasSaved, Typed, TypeOK, Clients, JudgeLocals, Goto,
            ringVars, dbVars, history
<1>1. ASSUME NEW s \in Scores, SubmitScore(j, s) PROVE SavedInv'
  BY <1>1 DEF SubmitScore
<1>2. CASE InsertScore(j)
  BY <1>2 DEF InsertScore, Row
<1>3. CASE InsertScoreFails(j)
  BY <1>3 DEF InsertScoreFails, Return
<1>4. CASE CacheScore(j)
  BY <1>4 DEF CacheScore, Return, ScoreMap
<1> QED BY <1>1, <1>2, <1>3, <1>4 DEF JudgeStep

\* So does a page's step that selects a competitor,
LEMMA SelectSaved ==
    ASSUME Typed, SavedInv, NEW h \in Pages, SelectStep(h) PROVE SavedInv'
<1> USE ClientsAssumption
<1> USE DEF SavedInv, ShownWasSaved, Typed, TypeOK, Clients, Goto, Return, PageLocals,
            Blank, NoScores, ringVars, dbVars, history
<1>1. ASSUME NEW e \in Events, ChangeEvent(h, e) PROVE SavedInv'
  BY <1>1 DEF ChangeEvent
<1>2. ASSUME NEW e \in Events, NEW c \in Competitors, ChangeCompetitor(h, e, c)
      PROVE SavedInv'
  BY <1>2 DEF ChangeCompetitor, Change
<1>3. CASE LoadEvent(h)
  BY <1>3 DEF LoadEvent
<1>4. CASE LoadEventFails(h)
  BY <1>4 DEF LoadEventFails
<1>5. CASE FirstCompetitor(h)
  BY <1>5 DEF FirstCompetitor
<1>6. CASE FirstCompetitorFails(h)
  BY <1>6 DEF FirstCompetitorFails
<1>7. CASE LoadCompetitor(h)
  BY <1>7 DEF LoadCompetitor
<1>8. CASE LoadCompetitorFails(h)
  BY <1>8 DEF LoadCompetitorFails
<1>9. CASE SetCompetitor(h)
  BY <1>9 DEF SetCompetitor
<1>10. CASE FindRoutine(h)
  BY <1>10 DEF FindRoutine
<1>11. CASE FindRoutineFails(h)
  BY <1>11 DEF FindRoutineFails
<1>12. CASE ResetState(h)
  BY <1>12 DEF ResetState
<1>13. CASE SeatRoutine(h)
  BY <1>13 DEF SeatRoutine
<1>14. CASE ReadScores(h)
  BY <1>14 DEF ReadScores, Labelled, Row, NamesRoutine
<1>15. CASE ReadScoresFails(h)
  BY <1>15 DEF ReadScoresFails
<1>16. CASE RestoreScores(h)
  BY <1>16 DEF RestoreScores
<1>17. CASE ReadAdjustments(h)
  BY <1>17 DEF ReadAdjustments
<1>18. CASE ReadAdjustmentsFails(h)
  BY <1>18 DEF ReadAdjustmentsFails
<1>19. CASE RestoreAdjustments(h)
  BY <1>19 DEF RestoreAdjustments
<1>20. CASE Reply(h)
  BY <1>20 DEF Reply
<1>21. CASE FollowUp(h)
  BY <1>21 DEF FollowUp, Change
<1>22. CASE LoadStatus(h)
  BY <1>22 DEF LoadStatus
<1> QED BY <1>1, <1>2, <1>3, <1>4, <1>5, <1>6, <1>7, <1>8, <1>9, <1>10, <1>11, <1>12, <1>13, <1>14, <1>15, <1>16, <1>17, <1>18, <1>19, <1>20, <1>21, <1>22 DEF SelectStep

\* ... and a page's step on scores.
LEMMA ScoringSaved ==
    ASSUME Typed, SavedInv, NEW h \in Pages, ScoringStep(h) PROVE SavedInv'
<1> USE ClientsAssumption
<1> USE DEF SavedInv, ShownWasSaved, Typed, TypeOK, Clients, Goto, Return, PageLocals,
            Blank, NoScores, ringVars, dbVars, history
<1>1. CASE Rescore(h)
  BY <1>1 DEF Rescore
<1>2. CASE DeleteScores(h)
  BY <1>2 DEF DeleteScores
<1>3. CASE DeleteScoresFails(h)
  BY <1>3 DEF DeleteScoresFails
<1>4. CASE ClearCache(h)
  BY <1>4 DEF ClearCache
<1>5. CASE SubmitAdjustment(h)
  BY <1>5 DEF SubmitAdjustment
<1>6. CASE SaveAdjustment(h)
  BY <1>6 DEF SaveAdjustment
<1>7. CASE SaveAdjustmentFails(h)
  BY <1>7 DEF SaveAdjustmentFails
<1>8. CASE CacheAdjustment(h)
  BY <1>8 DEF CacheAdjustment
<1>9. CASE FinalizeScore(h)
  BY <1>9 DEF FinalizeScore
<1>10. CASE CalculateScore(h)
  BY <1>10 DEF CalculateScore
<1>11. CASE ReadTotalAdjustments(h)
  BY <1>11 DEF ReadTotalAdjustments
<1>12. CASE ReadTotalAdjustmentsFails(h)
  BY <1>12 DEF ReadTotalAdjustmentsFails
<1>13. CASE TotalScores(h)
  BY <1>13 DEF TotalScores
<1>14. CASE SaveFinalScore(h)
  BY <1>14 DEF SaveFinalScore
<1>15. CASE SaveFinalScoreFails(h)
  BY <1>15 DEF SaveFinalScoreFails
<1> QED BY <1>1, <1>2, <1>3, <1>4, <1>5, <1>6, <1>7, <1>8, <1>9, <1>10, <1>11, <1>12, <1>13, <1>14, <1>15 DEF ScoringStep

\* Whatever requests interleave and whichever database calls fail, the board
\* never shows a score that was not inserted into the database before.
THEOREM ShownScoresWereSaved == Spec => []ShownWasSaved
<1>1. Init => SavedInv
  BY DEF Init, SavedInv, ShownWasSaved, NoScores, Blank, Clients
<1>2. Typed /\ SavedInv /\ [Next]_vars => SavedInv'
  <2> SUFFICES ASSUME Typed, SavedInv, [Next]_vars PROVE SavedInv'
    OBVIOUS
  <2>1. CASE UNCHANGED vars
    BY <2>1 DEF vars, ringVars, dbVars, history, SavedInv, ShownWasSaved
  <2>2. CASE Next
    BY <2>2, JudgeSaved, SelectSaved, ScoringSaved DEF Next
  <2> QED BY <2>1, <2>2
<1>3. SavedInv => ShownWasSaved
  BY DEF SavedInv
<1> QED BY <1>1, <1>2, <1>3, TypedInvariant, PTL DEF Spec

-----------------------------------------------------------------------------
(* One head judge page commands the ring, for any number of judges and any  *)
(* interleaving of their submissions with the page's commands, as long as   *)
(* no database call has failed.                                             *)

OnePage == \A g, h \in Pages : g = h

\* An event that has competitors has one with number 1, as the generator
\* numbers them: otherwise changeEvent leaves the ring with the new event and
\* the old competitor, who may have a routine in both.
NumberedFromOne ==
    \A e \in Events : FirstUp[e] = None => \A c \in Competitors : <<e, c>> \notin Routines

-----------------------------------------------------------------------------
(* The invariant: what the page's request may rely on at each place.        *)

Selecting == {"event.first", "comp.event", "comp.load", "set.comp", "set.find",
              "set.reset", "set.seat"}
Finalizing == {"final.calc", "final.adjs", "final.total", "final.save"}

LabelledWith(m, r) == \A j \in Judges : m[j] # None => m[j].routine = r

\* Outside a selection the ring is busy with one performance.
Floor ==
    NumberedFromOne /\ <<event, competitor>> \in Routines => routine = <<event, competitor>>

\* Until the routine is seated the page knows whom it seats, from then on the
\* floor is consistent.
SeatHolds(h) ==
    /\ pc[h] = "event.first" => event = mem[h].event
    /\ pc[h] \in {"set.reset", "set.seat"} => mem[h].routine = <<event, competitor>>
    /\ pc[h] \notin Selecting => Floor

\* The labels of the map are those of the floor, but between the seating and
\* the write of the saved scores, which the page has read for the floor.
LabelsHold(h) ==
    /\ pc[h] \in {"set.read", "set.scores"} => mem[h].routine = routine
    /\ pc[h] = "set.scores" => LabelledWith(mem[h].scores, routine)
    /\ pc[h] \notin {"set.read", "set.scores"} => LabelledWith(scores, routine)

\* A finalization works on the floor, and so do the copies it makes.
FinalHolds(h) ==
    /\ pc[h] \in Finalizing => /\ mem[h].event = event /\ mem[h].comp = competitor
                               /\ mem[h].routine = routine
    /\ pc[h] \in Finalizing \ {"final.calc"} => LabelledWith(mem[h].scores, routine)
    /\ pc[h] = "final.save" => LabelledWith(mem[h].total, routine)

\* ... and what it wrote is labelled with its row.
FinalLabelled ==
    NumberedFromOne /\ final # None =>
        LabelledWith(final.scores, final.row) /\ LabelledWith(final.total, final.row)

PageInv ==
    faults = 0 =>
        /\ \A h \in Pages : SeatHolds(h) /\ LabelsHold(h) /\ FinalHolds(h)
        /\ FinalLabelled

-----------------------------------------------------------------------------
\* A judge's step keeps it: it labels with the routine on the floor.
LEMMA JudgePage ==
    ASSUME Typed, PageInv, NEW j \in Judges, JudgeStep(j) PROVE PageInv'
<1> USE ClientsAssumption
<1> USE DEF PageInv, SeatHolds, LabelsHold, FinalHolds, FinalLabelled, LabelledWith, Floor,
            Typed, TypeOK, Clients, JudgeLocals, Goto, Return, ringVars, dbVars, history
<1>1. ASSUME NEW s \in Scores, SubmitScore(j, s) PROVE PageInv'
  BY <1>1 DEF SubmitScore
<1>2. CASE InsertScore(j)
  BY <1>2 DEF InsertScore
<1>3. CASE InsertScoreFails(j)
  BY <1>3 DEF InsertScoreFails, DbError
<1>4. CASE CacheScore(j)
  BY <1>4 DEF CacheScore, ScoreMap
<1> QED BY <1>1, <1>2, <1>3, <1>4 DEF JudgeStep

\* So does a step that selects a competitor,
LEMMA SelectPage ==
    ASSUME OnePage, Typed, PageInv, NEW h \in Pages, SelectStep(h) PROVE PageInv'
<1> USE ClientsAssumption, NoneAssumption, RoutinesAssumption
<1> USE DEF OnePage, PageInv, SeatHolds, LabelsHold, FinalHolds, FinalLabelled, LabelledWith,
            Floor, Selecting, Finalizing, Typed, TypeOK, Clients, PageLocals, Goto, Return,
            ringVars, dbVars, history
<1>1. ASSUME NEW e \in Events, ChangeEvent(h, e) PROVE PageInv'
  BY <1>1 DEF ChangeEvent
<1>2. ASSUME NEW e \in Events, NEW c \in Competitors, ChangeCompetitor(h, e, c)
      PROVE PageInv'
  BY <1>2 DEF ChangeCompetitor, Change
<1>3. CASE LoadEvent(h)
  BY <1>3 DEF LoadEvent
<1>4. CASE LoadEventFails(h)
  BY <1>4 DEF LoadEventFails, DbError
<1>5. CASE FirstCompetitor(h)
  BY <1>5 DEF FirstCompetitor
<1>6. CASE FirstCompetitorFails(h)
  BY <1>6 DEF FirstCompetitorFails, DbError, NumberedFromOne
<1>7. CASE LoadCompetitor(h)
  BY <1>7 DEF LoadCompetitor
<1>8. CASE LoadCompetitorFails(h)
  BY <1>8 DEF LoadCompetitorFails, DbError
<1>9. CASE SetCompetitor(h)
  BY <1>9 DEF SetCompetitor
<1>10. CASE FindRoutine(h)
  BY <1>10 DEF FindRoutine
<1>11. CASE FindRoutineFails(h)
  BY <1>11 DEF FindRoutineFails, DbError
<1>12. CASE ResetState(h)
  BY <1>12 DEF ResetState, NoScores
<1>13. CASE SeatRoutine(h)
  BY <1>13 DEF SeatRoutine
<1>14. CASE ReadScores(h)
  <2>1. /\ mem'[h].routine = mem[h].routine
        /\ mem'[h].scores = Labelled(mem[h].routine, dbScores[mem[h].routine])
    BY <1>14 DEF ReadScores, Locals
  <2>2. LabelledWith(mem'[h].scores, mem[h].routine)
    BY <2>1 DEF Labelled
  <2>3. pc[h] = "set.read" /\ pc'[h] = "set.scores"
    BY <1>14 DEF ReadScores
  <2>4. UNCHANGED <<event, competitor, routine, scores, final, faults>>
    BY <1>14 DEF ReadScores
  <2> QED BY <2>1, <2>2, <2>3, <2>4
<1>15. CASE ReadScoresFails(h)
  BY <1>15 DEF ReadScoresFails, DbError
<1>16. CASE RestoreScores(h)
  BY <1>16 DEF RestoreScores
<1>17. CASE ReadAdjustments(h)
  BY <1>17 DEF ReadAdjustments
<1>18. CASE ReadAdjustmentsFails(h)
  BY <1>18 DEF ReadAdjustmentsFails, DbError
<1>19. CASE RestoreAdjustments(h)
  BY <1>19 DEF RestoreAdjustments
<1>20. CASE Reply(h)
  BY <1>20 DEF Reply
<1>21. CASE FollowUp(h)
  BY <1>21 DEF FollowUp, Change
<1>22. CASE LoadStatus(h)
  BY <1>22 DEF LoadStatus
<1> QED BY <1>1, <1>2, <1>3, <1>4, <1>5, <1>6, <1>7, <1>8, <1>9, <1>10, <1>11, <1>12, <1>13, <1>14, <1>15, <1>16, <1>17, <1>18, <1>19, <1>20, <1>21, <1>22 DEF SelectStep

\* ... and a step on scores.
LEMMA ScoringPage ==
    ASSUME OnePage, Typed, PageInv, NEW h \in Pages, ScoringStep(h) PROVE PageInv'
<1> USE ClientsAssumption, NoneAssumption, RoutinesAssumption
<1> USE DEF OnePage, PageInv, SeatHolds, LabelsHold, FinalHolds, FinalLabelled, LabelledWith,
            Floor, Selecting, Finalizing, Typed, TypeOK, Clients, PageLocals, Goto, Return,
            ringVars, dbVars, history
<1>1. CASE Rescore(h)
  BY <1>1 DEF Rescore
<1>2. CASE DeleteScores(h)
  BY <1>2 DEF DeleteScores
<1>3. CASE DeleteScoresFails(h)
  BY <1>3 DEF DeleteScoresFails, DbError
<1>4. CASE ClearCache(h)
  BY <1>4 DEF ClearCache, NoScores
<1>5. CASE SubmitAdjustment(h)
  BY <1>5 DEF SubmitAdjustment
<1>6. CASE SaveAdjustment(h)
  BY <1>6 DEF SaveAdjustment
<1>7. CASE SaveAdjustmentFails(h)
  BY <1>7 DEF SaveAdjustmentFails, DbError
<1>8. CASE CacheAdjustment(h)
  BY <1>8 DEF CacheAdjustment
<1>9. CASE FinalizeScore(h)
  <2>1. /\ mem'[h].event = event /\ mem'[h].comp = competitor
        /\ mem'[h].routine = routine
    BY <1>9 DEF FinalizeScore, Locals
  <2>2. pc[h] = "idle" /\ pc'[h] = "final.calc"
    BY <1>9 DEF FinalizeScore
  <2>3. UNCHANGED <<event, competitor, routine, scores, final, faults>>
    BY <1>9 DEF FinalizeScore
  <2> QED BY <2>1, <2>2, <2>3
<1>10. CASE CalculateScore(h)
  BY <1>10 DEF CalculateScore
<1>11. CASE ReadTotalAdjustments(h)
  BY <1>11 DEF ReadTotalAdjustments
<1>12. CASE ReadTotalAdjustmentsFails(h)
  BY <1>12 DEF ReadTotalAdjustmentsFails, DbError
<1>13. CASE TotalScores(h)
  BY <1>13 DEF TotalScores
<1>14. CASE SaveFinalScore(h)
  BY <1>14 DEF SaveFinalScore
<1>15. CASE SaveFinalScoreFails(h)
  BY <1>15 DEF SaveFinalScoreFails, DbError
<1> QED BY <1>1, <1>2, <1>3, <1>4, <1>5, <1>6, <1>7, <1>8, <1>9, <1>10, <1>11, <1>12, <1>13, <1>14, <1>15 DEF ScoringStep

\* With one page the invariant holds in every reachable state.
LEMMA PageInvariant == OnePage => (Spec => []PageInv)
<1> SUFFICES ASSUME OnePage PROVE Spec => []PageInv
  OBVIOUS
<1>1. Init => PageInv
  BY ClientsAssumption, NoneAssumption, RoutinesAssumption
     DEF Init, PageInv, SeatHolds, LabelsHold, FinalHolds, FinalLabelled, LabelledWith,
         Floor, Finalizing, NoScores, Clients
<1>2. Typed /\ PageInv /\ [Next]_vars => PageInv'
  <2> SUFFICES ASSUME Typed, PageInv, [Next]_vars PROVE PageInv'
    OBVIOUS
  <2>1. CASE UNCHANGED vars
    BY <2>1 DEF vars, ringVars, dbVars, history, PageInv, SeatHolds, LabelsHold,
                FinalHolds, FinalLabelled, LabelledWith, Floor
  <2>2. CASE Next
    BY <2>2, JudgePage, SelectPage, ScoringPage DEF Next
  <2> QED BY <2>1, <2>2
<1> QED BY <1>1, <1>2, TypedInvariant, PTL DEF Spec

-----------------------------------------------------------------------------
\* However judges' submissions fall between the steps of SetCompetitor: when the
\* page has no command running, every score shown is labelled with the routine
\* on the floor.  Without a page nobody is ever seated.
THEOREM ShownAreOfTheFloor == OnePage /\ Pages # {} => (Spec => []LabelsMatch)
<1> SUFFICES ASSUME OnePage, Pages # {} PROVE Spec => []LabelsMatch
  OBVIOUS
<1>1. PageInv => LabelsMatch
  BY DEF PageInv, LabelsHold, LabelledWith, LabelsMatch, NoPageBusy
<1> QED BY <1>1, PageInvariant, PTL

\* When the page has no command running, event, competitor and routine name one
\* performance, whatever was selected and in which order its steps came.
THEOREM FloorIsOnePerformance ==
    OnePage /\ Pages # {} /\ NumberedFromOne => (Spec => []FloorConsistent)
<1> SUFFICES ASSUME OnePage, Pages # {}, NumberedFromOne PROVE Spec => []FloorConsistent
  OBVIOUS
<1>1. PageInv => FloorConsistent
  BY DEF PageInv, SeatHolds, Floor, Selecting, FloorConsistent, NoPageBusy
<1> QED BY <1>1, PageInvariant, PTL

\* The row that a finalization updates is that of the routine whose scores it
\* computed with, both times it read them, whatever the judges submit meanwhile.
THEOREM FinalIsOfItsRow ==
    OnePage /\ NumberedFromOne => (Spec => []FinalOfOwnRoutine)
<1> SUFFICES ASSUME OnePage, NumberedFromOne PROVE Spec => []FinalOfOwnRoutine
  OBVIOUS
<1>1. PageInv => FinalOfOwnRoutine
  BY DEF PageInv, FinalLabelled, LabelledWith, FinalOfOwnRoutine
<1> QED BY <1>1, PageInvariant, PTL

-----------------------------------------------------------------------------
(* The invariant.  Turn taking is used once, for Exclusive; what follows    *)
(* says what each running request may rely on, and Match is the relation    *)
(* between map and database that ShownIsRecorded reads off between requests.*)

\* A command of a page runs alone.
Exclusive ==
    \A h \in Pages : pc[h] # "idle" => \A p \in Clients \ {h} : pc[p] = "idle"

\* A submission is for the routine on the floor; once inserted, its value is
\* what the database holds.
SubmissionHolds ==
    \A j \in Judges :
        /\ pc[j] # "idle" => mem[j].routine = routine
        /\ pc[j] = "score.cache" => dbScores[routine][j] = mem[j].value

\* What SetCompetitor relies on between its steps.
SelectionHolds ==
    \A h \in Pages :
        /\ pc[h] = "set.seat" => scores = NoScores
        /\ pc[h] \in {"set.read", "set.scores"} => mem[h].routine = routine
        /\ pc[h] = "set.scores" => mem[h].scores = Labelled(routine, dbScores[routine])

Match ==
    (\A h \in Pages : pc[h] # "rescore.clear") =>
        \A j \in Judges :
            scores[j] # None /\ pc[j] # "score.cache" =>
                /\ routine # None
                /\ scores[j] = [routine |-> routine, score |-> dbScores[routine][j]]

TurnsInv == Exclusive /\ SubmissionHolds /\ SelectionHolds /\ Match

\* A judge's step keeps the invariant of taking turns.
LEMMA JudgeTurns ==
    ASSUME TurnTaking, Typed, TurnsInv, NEW j \in Judges, JudgeStep(j) PROVE TurnsInv'
<1> USE ClientsAssumption
<1> USE DEF TurnsInv, Exclusive, SubmissionHolds, SelectionHolds, Match,
            Typed, TypeOK, Clients, JudgeLocals, Goto, ringVars, dbVars, history
<1>1. ASSUME NEW s \in Scores, SubmitScore(j, s) PROVE TurnsInv'
  BY <1>1 DEF SubmitScore, JudgeMayAct, NoPageBusy
<1>2. CASE InsertScore(j)
  BY <1>2 DEF InsertScore, Row
<1>3. CASE InsertScoreFails(j)
  BY <1>3 DEF InsertScoreFails, Return
<1>4. CASE CacheScore(j)
  BY <1>4 DEF CacheScore, Return, ScoreMap, Scorecard
<1> QED BY <1>1, <1>2, <1>3, <1>4 DEF JudgeStep

\* So does a page's step that selects a competitor,
LEMMA SelectTurns ==
    ASSUME TurnTaking, Typed, TurnsInv, NEW h \in Pages, SelectStep(h) PROVE TurnsInv'
<1> USE ClientsAssumption
<1> USE DEF TurnsInv, Exclusive, SubmissionHolds, SelectionHolds, Match,
            Typed, TypeOK, Clients, PageLocals, Goto, Return, ringVars, dbVars, history
<1>1. ASSUME NEW e \in Events, ChangeEvent(h, e) PROVE TurnsInv'
  BY <1>1 DEF ChangeEvent, PageMayAct, AllIdle
<1>2. ASSUME NEW e \in Events, NEW c \in Competitors, ChangeCompetitor(h, e, c)
      PROVE TurnsInv'
  BY <1>2 DEF ChangeCompetitor, Change, PageMayAct, AllIdle
<1>3. CASE LoadEvent(h)
  BY <1>3 DEF LoadEvent
<1>4. CASE LoadEventFails(h)
  BY <1>4 DEF LoadEventFails
<1>5. CASE FirstCompetitor(h)
  BY <1>5 DEF FirstCompetitor
<1>6. CASE FirstCompetitorFails(h)
  BY <1>6 DEF FirstCompetitorFails
<1>7. CASE LoadCompetitor(h)
  BY <1>7 DEF LoadCompetitor
<1>8. CASE LoadCompetitorFails(h)
  BY <1>8 DEF LoadCompetitorFails
<1>9. CASE SetCompetitor(h)
  BY <1>9 DEF SetCompetitor
<1>10. CASE FindRoutine(h)
  BY <1>10 DEF FindRoutine
<1>11. CASE FindRoutineFails(h)
  BY <1>11 DEF FindRoutineFails
<1>12. CASE ResetState(h)
  BY <1>12 DEF ResetState, NoScores
<1>13. CASE SeatRoutine(h)
  BY <1>13 DEF SeatRoutine, NoScores, NamesRoutine
<1>14. CASE ReadScores(h)
  BY <1>14 DEF ReadScores, Labelled, Row, NamesRoutine
<1>15. CASE ReadScoresFails(h)
  BY <1>15 DEF ReadScoresFails
<1>16. CASE RestoreScores(h)
  <2>1. /\ routine \in Routines
        /\ scores' = Labelled(routine, dbScores[routine])
        /\ UNCHANGED <<routine, dbScores, mem>>
    BY <1>16 DEF RestoreScores, NamesRoutine
  <2>2. routine # None
    BY <2>1, NoneAssumption, RoutinesAssumption
  <2>3. Match'
    BY <2>1, <2>2 DEF Labelled
  <2>4. Exclusive' /\ SubmissionHolds' /\ SelectionHolds'
    BY <1>16, <2>1 DEF RestoreScores
  <2> QED BY <2>3, <2>4
<1>17. CASE ReadAdjustments(h)
  BY <1>17 DEF ReadAdjustments
<1>18. CASE ReadAdjustmentsFails(h)
  BY <1>18 DEF ReadAdjustmentsFails
<1>19. CASE RestoreAdjustments(h)
  BY <1>19 DEF RestoreAdjustments
<1>20. CASE Reply(h)
  BY <1>20 DEF Reply
<1>21. CASE FollowUp(h)
  BY <1>21 DEF FollowUp, Change
<1>22. CASE LoadStatus(h)
  BY <1>22 DEF LoadStatus
<1> QED BY <1>1, <1>2, <1>3, <1>4, <1>5, <1>6, <1>7, <1>8, <1>9, <1>10, <1>11, <1>12, <1>13, <1>14, <1>15, <1>16, <1>17, <1>18, <1>19, <1>20, <1>21, <1>22 DEF SelectStep

\* ... and a page's step on scores.
LEMMA ScoringTurns ==
    ASSUME TurnTaking, Typed, TurnsInv, NEW h \in Pages, ScoringStep(h) PROVE TurnsInv'
<1> USE ClientsAssumption
<1> USE DEF TurnsInv, Exclusive, SubmissionHolds, SelectionHolds, Match,
            Typed, TypeOK, Clients, PageLocals, Goto, Return, ringVars, dbVars, history
<1>1. CASE Rescore(h)
  BY <1>1 DEF Rescore, PageMayAct, AllIdle
<1>2. CASE DeleteScores(h)
  BY <1>2 DEF DeleteScores
<1>3. CASE DeleteScoresFails(h)
  BY <1>3 DEF DeleteScoresFails
<1>4. CASE ClearCache(h)
  BY <1>4 DEF ClearCache, NoScores
<1>5. CASE SubmitAdjustment(h)
  BY <1>5 DEF SubmitAdjustment, PageMayAct, AllIdle
<1>6. CASE SaveAdjustment(h)
  BY <1>6 DEF SaveAdjustment
<1>7. CASE SaveAdjustmentFails(h)
  BY <1>7 DEF SaveAdjustmentFails
<1>8. CASE CacheAdjustment(h)
  BY <1>8 DEF CacheAdjustment
<1>9. CASE FinalizeScore(h)
  BY <1>9 DEF FinalizeScore, PageMayAct, AllIdle
<1>10. CASE CalculateScore(h)
  BY <1>10 DEF CalculateScore
<1>11. CASE ReadTotalAdjustments(h)
  BY <1>11 DEF ReadTotalAdjustments
<1>12. CASE ReadTotalAdjustmentsFails(h)
  BY <1>12 DEF ReadTotalAdjustmentsFails
<1>13. CASE TotalScores(h)
  BY <1>13 DEF TotalScores
<1>14. CASE SaveFinalScore(h)
  BY <1>14 DEF SaveFinalScore
<1>15. CASE SaveFinalScoreFails(h)
  BY <1>15 DEF SaveFinalScoreFails
<1> QED BY <1>1, <1>2, <1>3, <1>4, <1>5, <1>6, <1>7, <1>8, <1>9, <1>10, <1>11, <1>12, <1>13, <1>14, <1>15 DEF ScoringStep

\* The invariant of taking turns holds in every reachable state.
LEMMA TurnsInvariant == TurnTaking => (Spec => []TurnsInv)
<1> SUFFICES ASSUME TurnTaking PROVE Spec => []TurnsInv
  OBVIOUS
<1>1. Init => TurnsInv
  BY ClientsAssumption DEF Init, TurnsInv, Exclusive, SubmissionHolds, SelectionHolds,
                           Match, NoScores, Clients
<1>2. Typed /\ TurnsInv /\ [Next]_vars => TurnsInv'
  <2> SUFFICES ASSUME Typed, TurnsInv, [Next]_vars PROVE TurnsInv'
    OBVIOUS
  <2>1. CASE UNCHANGED vars
    BY <2>1 DEF vars, ringVars, dbVars, history, TurnsInv, Exclusive,
                SubmissionHolds, SelectionHolds, Match
  <2>2. CASE Next
    BY <2>2, JudgeTurns, SelectTurns, ScoringTurns DEF Next
  <2> QED BY <2>1, <2>2
<1> QED BY <1>1, <1>2, TypedInvariant, PTL DEF Spec

\* When requests take turns, a score on the board between requests is the one
\* the database holds for that judge and the routine on the floor, for any
\* number of pages and judges and after any failures of the database.
THEOREM TurnsShowRecords == TurnTaking => (Spec => []ShownIsRecorded)
<1> SUFFICES ASSUME TurnTaking PROVE Spec => []ShownIsRecorded
  OBVIOUS
<1>1. TurnsInv => ShownIsRecorded
  BY ClientsAssumption DEF TurnsInv, Match, ShownIsRecorded, AllIdle, Clients
<1> QED BY <1>1, TurnsInvariant, PTL

-----------------------------------------------------------------------------
(* With one page, and as long as no database call has failed, the map also  *)
(* lacks nothing the database has.                                          *)

\* Where the page's cached routineId is that of the floor, if it has one.
KnowsFloor == {"idle", "event.load", "event.first", "rescore.delete", "rescore.clear",
               "adj.save", "adj.cache"} \cup Finalizing

Restoring == {"set.seat", "set.read", "set.scores"}

Complete ==
    routine # None /\ (\A h \in Pages : pc[h] \notin Restoring) =>
        \A j \in Judges :
            dbScores[routine][j] # None /\ pc[j] # "score.cache" => scores[j] # None

AdjustmentsHold ==
    routine # None
    /\ (\A h \in Pages : pc[h] \notin Restoring \cup {"set.readAdjs", "set.adjs", "adj.cache"})
    => adjustments = dbAdjs[routine]

\* What commands on the routine of the floor rely on between their steps.
CommandHolds(h) ==
    /\ pc[h] \in KnowsFloor => page[h] \in {None, routine}
    /\ pc[h] \in {"set.readAdjs", "set.adjs", "rescore.delete", "rescore.clear",
                  "adj.save", "adj.cache"} => mem[h].routine = routine
    /\ pc[h] = "set.adjs" => mem[h].adjs = dbAdjs[routine]
    /\ pc[h] = "rescore.clear" => dbScores[routine] = NoScores
    /\ pc[h] = "adj.cache" => adjustments + 1 = dbAdjs[routine]

\* A finalization's copies are still what the map and the database hold.
CopiesHold(h) ==
    /\ pc[h] \in Finalizing \ {"final.calc"} =>
          mem[h].scores = scores /\ mem[h].adjs = adjustments
    /\ pc[h] \in {"final.total", "final.save"} => mem[h].totalAdjs = dbAdjs[routine]
    /\ pc[h] = "final.save" => mem[h].total = scores

RecordInv ==
    faults = 0 =>
        /\ Complete /\ AdjustmentsHold
        /\ \A h \in Pages : CommandHolds(h) /\ CopiesHold(h)

\* What GetScores makes of a row has a score for every judge of the row, labelled
\* with its routine, and for no other judge.
LEMMA LabelledIsComplete ==
    ASSUME NEW r \in Routines, NEW row \in Row, NEW j \in Judges
    PROVE  /\ row[j] = None => Labelled(r, row)[j] = None
           /\ row[j] # None => /\ Labelled(r, row)[j] # None
                              /\ Labelled(r, row)[j] = [routine |-> r, score |-> row[j]]
                              /\ Labelled(r, row)[j].score = row[j]
<1>1. CASE row[j] = None
  BY <1>1 DEF Labelled
<1>2. CASE row[j] # None
  <2>1. [routine |-> r, score |-> row[j]] \in [routine : Routines, score : Scores]
    BY <1>2 DEF Row
  <2> QED BY <1>2, <2>1, NoneIsNoScorecard DEF Labelled
<1> QED BY <1>1, <1>2

\* A judge's step keeps it,
LEMMA JudgeRecords ==
    ASSUME TurnTaking, Typed, TurnsInv, RecordInv, NEW j \in Judges, JudgeStep(j)
    PROVE  RecordInv'
<1> USE ClientsAssumption, NoneAssumption, RoutinesAssumption
<1> USE DEF RecordInv, Complete, AdjustmentsHold, CommandHolds, CopiesHold, KnowsFloor,
            Restoring, Finalizing, TurnsInv, Exclusive, SubmissionHolds, SelectionHolds,
            Typed, TypeOK, Clients, JudgeLocals, Goto, Return, ringVars, dbVars, history
<1>1. ASSUME NEW s \in Scores, SubmitScore(j, s) PROVE RecordInv'
  BY <1>1 DEF SubmitScore, JudgeMayAct, NoPageBusy
<1>2. CASE InsertScore(j)
  BY <1>2 DEF InsertScore, Row
<1>3. CASE InsertScoreFails(j)
  BY <1>3 DEF InsertScoreFails, DbError
<1>4. CASE CacheScore(j)
  <2>1. [routine |-> routine, score |-> mem[j].value] # None
    BY <1>4, NoneIsNoScorecard DEF CacheScore
  <2>2. scores' = [scores EXCEPT ![j] = [routine |-> routine, score |-> mem[j].value]]
    BY <1>4 DEF CacheScore
  <2>3. scores'[j] # None /\ \A k \in Judges \ {j} : scores'[k] = scores[k]
    BY <2>1, <2>2 DEF ScoreMap
  <2> HIDE DEF Clients
  <2> QED BY <1>4, <2>3 DEF CacheScore, Clients
<1> QED BY <1>1, <1>2, <1>3, <1>4 DEF JudgeStep

\* ... a page's step that selects a competitor,
LEMMA SelectRecords ==
    ASSUME TurnTaking, OnePage, Typed, TurnsInv, RecordInv,
           NEW h \in Pages, SelectStep(h)
    PROVE  RecordInv'
<1> USE ClientsAssumption, NoneAssumption, RoutinesAssumption
<1> USE DEF RecordInv, Complete, AdjustmentsHold, CommandHolds, CopiesHold, KnowsFloor,
            Restoring, Finalizing, TurnsInv, Exclusive, SubmissionHolds, SelectionHolds,
            Typed, TypeOK, Clients, PageLocals, OnePage, Goto, Return, ringVars, dbVars, history
<1>1. ASSUME NEW e \in Events, ChangeEvent(h, e) PROVE RecordInv'
  BY <1>1 DEF ChangeEvent, PageMayAct, AllIdle
<1>2. ASSUME NEW e \in Events, NEW c \in Competitors, ChangeCompetitor(h, e, c)
      PROVE RecordInv'
  BY <1>2 DEF ChangeCompetitor, Change, PageMayAct, AllIdle
<1>3. CASE LoadEvent(h)
  BY <1>3 DEF LoadEvent
<1>4. CASE LoadEventFails(h)
  BY <1>4 DEF LoadEventFails, DbError
<1>5. CASE FirstCompetitor(h)
  BY <1>5 DEF FirstCompetitor
<1>6. CASE FirstCompetitorFails(h)
  BY <1>6 DEF FirstCompetitorFails, DbError
<1>7. CASE LoadCompetitor(h)
  BY <1>7 DEF LoadCompetitor
<1>8. CASE LoadCompetitorFails(h)
  BY <1>8 DEF LoadCompetitorFails, DbError
<1>9. CASE SetCompetitor(h)
  BY <1>9 DEF SetCompetitor
<1>10. CASE FindRoutine(h)
  BY <1>10 DEF FindRoutine
<1>11. CASE FindRoutineFails(h)
  BY <1>11 DEF FindRoutineFails, DbError
<1>12. CASE ResetState(h)
  BY <1>12 DEF ResetState
<1>13. CASE SeatRoutine(h)
  BY <1>13 DEF SeatRoutine
<1>14. CASE ReadScores(h)
  BY <1>14 DEF ReadScores
<1>15. CASE ReadScoresFails(h)
  BY <1>15 DEF ReadScoresFails, DbError
<1>16. CASE RestoreScores(h)
  <2>1. /\ routine \in Routines
        /\ scores' = Labelled(routine, dbScores[routine])
        /\ UNCHANGED <<routine, dbScores, dbAdjs, adjustments, mem, page, faults>>
    BY <1>16 DEF RestoreScores, NamesRoutine
  <2>2. \A j \in Judges : dbScores[routine][j] # None => scores'[j] # None
    <3>1. dbScores[routine] \in Row
      BY <2>1
    <3>2. \A j \in Judges : dbScores[routine][j] # None =>
                             Labelled(routine, dbScores[routine])[j] # None
      <4> HIDE DEF Typed, TurnsInv, RecordInv
      <4> QED BY <2>1, <3>1, LabelledIsComplete
    <3> QED BY <2>1, <3>2
  <2>3. Complete'
    BY <2>1, <2>2
  <2>4. pc' = [pc EXCEPT ![h] = "set.readAdjs"] /\ pc[h] = "set.scores"
    BY <1>16 DEF RestoreScores
  <2> QED BY <2>1, <2>3, <2>4
<1>17. CASE ReadAdjustments(h)
  BY <1>17 DEF ReadAdjustments
<1>18. CASE ReadAdjustmentsFails(h)
  BY <1>18 DEF ReadAdjustmentsFails, DbError
<1>19. CASE RestoreAdjustments(h)
  BY <1>19 DEF RestoreAdjustments
<1>20. CASE Reply(h)
  BY <1>20 DEF Reply
<1>21. CASE FollowUp(h)
  BY <1>21 DEF FollowUp, Change
<1>22. CASE LoadStatus(h)
  BY <1>22 DEF LoadStatus
<1> QED BY <1>1, <1>2, <1>3, <1>4, <1>5, <1>6, <1>7, <1>8, <1>9, <1>10, <1>11, <1>12, <1>13, <1>14, <1>15, <1>16, <1>17, <1>18, <1>19, <1>20, <1>21, <1>22 DEF SelectStep

\* ... and one on scores.
LEMMA ScoringRecords ==
    ASSUME TurnTaking, OnePage, Typed, TurnsInv, PageInv, RecordInv,
           NEW h \in Pages, ScoringStep(h)
    PROVE  RecordInv'
<1> USE ClientsAssumption, NoneAssumption, RoutinesAssumption
<1> USE DEF RecordInv, Complete, AdjustmentsHold, CommandHolds, CopiesHold, KnowsFloor,
            Restoring, Finalizing, TurnsInv, Exclusive, SubmissionHolds, SelectionHolds,
            Typed, TypeOK, Clients, PageLocals, OnePage, Goto, Return, ringVars, dbVars, history
<1>1. CASE Rescore(h)
  BY <1>1 DEF Rescore, PageMayAct, AllIdle
<1>2. CASE DeleteScores(h)
  BY <1>2 DEF DeleteScores, NamesRoutine, NoScores
<1>3. CASE DeleteScoresFails(h)
  BY <1>3 DEF DeleteScoresFails, DbError
<1>4. CASE ClearCache(h)
  BY <1>4 DEF ClearCache
<1>5. CASE SubmitAdjustment(h)
  BY <1>5 DEF SubmitAdjustment, PageMayAct, AllIdle
<1>6. CASE SaveAdjustment(h)
  BY <1>6 DEF SaveAdjustment, NamesRoutine
<1>7. CASE SaveAdjustmentFails(h)
  BY <1>7 DEF SaveAdjustmentFails, DbError
<1>8. CASE CacheAdjustment(h)
  BY <1>8 DEF CacheAdjustment
<1>9. CASE FinalizeScore(h)
  BY <1>9 DEF FinalizeScore, PageMayAct, AllIdle
<1>10. CASE CalculateScore(h)
  BY <1>10 DEF CalculateScore
<1>11. CASE ReadTotalAdjustments(h)
  BY <1>11 DEF ReadTotalAdjustments, PageInv, FinalHolds, Locals
<1>12. CASE ReadTotalAdjustmentsFails(h)
  BY <1>12 DEF ReadTotalAdjustmentsFails, DbError
<1>13. CASE TotalScores(h)
  BY <1>13 DEF TotalScores
<1>14. CASE SaveFinalScore(h)
  BY <1>14 DEF SaveFinalScore
<1>15. CASE SaveFinalScoreFails(h)
  BY <1>15 DEF SaveFinalScoreFails, DbError
<1> QED BY <1>1, <1>2, <1>3, <1>4, <1>5, <1>6, <1>7, <1>8, <1>9, <1>10, <1>11, <1>12, <1>13, <1>14, <1>15 DEF ScoringStep

\* One page that takes turns: in every reachable state.
LEMMA RecordInvariant ==
    TurnTaking /\ OnePage => (Spec => [](Typed /\ TurnsInv /\ PageInv /\ RecordInv))
<1> SUFFICES ASSUME TurnTaking, OnePage
             PROVE  Spec => [](Typed /\ TurnsInv /\ PageInv /\ RecordInv)
  OBVIOUS
<1>1. Init => RecordInv
  BY ClientsAssumption DEF Init, RecordInv, Complete, AdjustmentsHold, CommandHolds,
                           CopiesHold, KnowsFloor, Finalizing, NoScores, Clients
<1>2. Typed /\ TurnsInv /\ PageInv /\ RecordInv /\ [Next]_vars => RecordInv'
  <2> SUFFICES ASSUME Typed, TurnsInv, PageInv, RecordInv, [Next]_vars PROVE RecordInv'
    OBVIOUS
  <2>1. CASE UNCHANGED vars
    BY <2>1 DEF vars, ringVars, dbVars, history, RecordInv, Complete, AdjustmentsHold,
                CommandHolds, CopiesHold
  <2>2. CASE Next
    BY <2>2, JudgeRecords, SelectRecords, ScoringRecords DEF Next
  <2> QED BY <2>1, <2>2
<1> QED BY <1>1, <1>2, TypedInvariant, TurnsInvariant, PageInvariant, PTL DEF Spec

\* Taking turns with one page, nothing that the database has of the routine on
\* the floor is missing between requests: SetCompetitor's two reads lose no
\* judge's score and no adjustment.
THEOREM NothingRecordedIsMissing ==
    TurnTaking /\ OnePage /\ Pages # {} => (Spec => []RecordedIsShown)
<1> SUFFICES ASSUME TurnTaking, OnePage, Pages # {} PROVE Spec => []RecordedIsShown
  OBVIOUS
<1>1. RecordInv => RecordedIsShown
  BY ClientsAssumption DEF RecordInv, Complete, AdjustmentsHold, Restoring,
                           RecordedIsShown, AllIdle, Clients
<1> QED BY <1>1, RecordInvariant, PTL

\* Between a command's steps nobody submits, so a finalization finds the map
\* and the database in agreement.
LEMMA FinalizingAgrees ==
    ASSUME Typed, TurnsInv, PageInv, RecordInv, faults = 0,
           NEW h \in Pages, pc[h] \in Finalizing
    PROVE  /\ routine \in Routines
           /\ \A j \in Judges : pc[j] = "idle"
           /\ \A g \in Pages : pc[g] \notin Restoring \cup {"rescore.clear"}
           /\ scores = Labelled(routine, dbScores[routine])
           /\ adjustments = dbAdjs[routine]
<1>1. routine \in Routines
  BY DEF PageInv, FinalHolds, Typed, PageLocals, NamesRoutine, Finalizing
<1>2. \A p \in Clients \ {h} : pc[p] = "idle"
  BY DEF TurnsInv, Exclusive, Finalizing
<1>3. \A g \in Pages : pc[g] \notin Restoring \cup
                          {"rescore.clear", "set.readAdjs", "set.adjs", "adj.cache"}
  BY <1>2 DEF Finalizing, Restoring, Clients
<1>4. routine # None /\ dbScores[routine] \in Row /\ scores \in ScoreMap
  BY <1>1, NoneAssumption, RoutinesAssumption DEF Typed, TypeOK
<1>5. \A j \in Judges : pc[j] = "idle"
  BY <1>2, ClientsAssumption DEF Clients
<1>6. ASSUME NEW j \in Judges PROVE scores[j] = Labelled(routine, dbScores[routine])[j]
  <2>1. CASE dbScores[routine][j] = None
    <3>1. ~ (scores[j] \in Scorecard /\ scores[j] = [routine |-> routine, score |-> None])
      BY NoneAssumption DEF Scorecard
    <3>2. scores[j] # None => scores[j] = [routine |-> routine, score |-> None]
      BY <1>3, <1>5, <2>1 DEF TurnsInv, Match
    <3>3. scores[j] = None
      BY <1>4, <3>1, <3>2 DEF ScoreMap
    <3> QED BY <3>3, <2>1, <1>1, <1>4, LabelledIsComplete
  <2>2. CASE dbScores[routine][j] # None
    <3>1. scores[j] # None
      BY <1>3, <1>4, <1>5, <2>2 DEF RecordInv, Complete
    <3>2. scores[j] = [routine |-> routine, score |-> dbScores[routine][j]]
      BY <3>1, <1>3, <1>5 DEF TurnsInv, Match
    <3> QED BY <3>2, <2>2, <1>1, <1>4, LabelledIsComplete
  <2> QED BY <2>1, <2>2
<1>7. scores = Labelled(routine, dbScores[routine])
  BY <1>4, <1>6 DEF ScoreMap, Labelled
<1>8. adjustments = dbAdjs[routine]
  BY <1>3, <1>4 DEF RecordInv, AdjustmentsHold
<1> QED BY <1>1, <1>3, <1>5, <1>7, <1>8

\* Only a finalization publishes, and what it publishes is of the floor.
LEMMA PublishesTheFloor ==
    ASSUME NumberedFromOne, Typed, TurnsInv, PageInv, RecordInv, faults = 0,
           NEW h \in Pages, SaveFinalScore(h), <<mem[h].event, mem[h].comp>> \in Routines
    PROVE  /\ final' = [row |-> routine, scores |-> scores, adjs |-> adjustments,
                        total |-> scores, totalAdjs |-> dbAdjs[routine]]
           /\ pc[h] = "final.save"
<1>1. pc[h] = "final.save"
  BY DEF SaveFinalScore, Return, Goto
<1>2. <<mem[h].event, mem[h].comp>> = <<event, competitor>> /\ Floor
  BY <1>1 DEF PageInv, FinalHolds, SeatHolds, Finalizing, Selecting
<1>3. <<mem[h].event, mem[h].comp>> = routine
  BY <1>2 DEF Floor
<1>4. /\ mem[h].scores = scores /\ mem[h].adjs = adjustments
      /\ mem[h].total = scores /\ mem[h].totalAdjs = dbAdjs[routine]
  BY <1>1 DEF RecordInv, CopiesHold, Finalizing
<1> QED BY <1>1, <1>3, <1>4 DEF SaveFinalScore

\* The steps that change the floor, the table of scores or the publication.
LEMMA BoardSteps ==
    ASSUME Next
    PROVE  \/ UNCHANGED <<routine, dbScores, final>>
           \/ \E j \in Judges : InsertScore(j)
           \/ \E h \in Pages : SeatRoutine(h) \/ DeleteScores(h) \/ SaveFinalScore(h)
<1> USE DEF ringVars, dbVars, history
<1>1. ASSUME NEW j \in Judges, JudgeStep(j)
      PROVE  InsertScore(j) \/ UNCHANGED <<routine, dbScores, final>>
  BY <1>1 DEF JudgeStep, SubmitScore, InsertScoreFails, CacheScore
<1>2. ASSUME NEW h \in Pages, SelectStep(h)
      PROVE  SeatRoutine(h) \/ UNCHANGED <<routine, dbScores, final>>
  BY <1>2 DEF SelectStep, ChangeEvent, ChangeCompetitor, Change, LoadEvent, LoadEventFails,
              FirstCompetitor, FirstCompetitorFails, LoadCompetitor, LoadCompetitorFails,
              SetCompetitor, FindRoutine, FindRoutineFails, ResetState, ReadScores,
              ReadScoresFails, RestoreScores, ReadAdjustments, ReadAdjustmentsFails,
              RestoreAdjustments, Reply, FollowUp, LoadStatus
<1>3. ASSUME NEW h \in Pages, ScoringStep(h)
      PROVE  DeleteScores(h) \/ SaveFinalScore(h) \/ UNCHANGED <<routine, dbScores, final>>
  BY <1>3 DEF ScoringStep, Rescore, DeleteScoresFails, ClearCache, SubmitAdjustment,
              SaveAdjustment, SaveAdjustmentFails, CacheAdjustment, FinalizeScore,
              CalculateScore, ReadTotalAdjustments, ReadTotalAdjustmentsFails, TotalScores,
              SaveFinalScoreFails
<1> QED BY <1>1, <1>2, <1>3 DEF Next

\* Taking turns with one page, what SaveFinalScore writes to a row, from the cache
\* and from the database, is what the database holds for that row, whatever the
\* order in which event, competitor and scores came to the ring.
THEOREM FinalScoresAreTheRecords ==
    TurnTaking /\ OnePage /\ NumberedFromOne => (Spec => FinalFromRecords)
<1> SUFFICES ASSUME TurnTaking, OnePage, NumberedFromOne PROVE Spec => FinalFromRecords
  OBVIOUS
<1> DEFINE Inv == Typed /\ TurnsInv /\ PageInv /\ RecordInv
           Write == final' # final /\ faults = 0 =>
                       /\ final'.scores = Labelled(final'.row, dbScores[final'.row])
                       /\ final'.total = final'.scores
                       /\ final'.adjs = dbAdjs[final'.row]
                       /\ final'.totalAdjs = final'.adjs
<1>1. Inv /\ [Next]_vars => [Write]_vars
  <2> SUFFICES ASSUME Inv, Next, final' # final, faults = 0 PROVE Write
    OBVIOUS
  <2>1. PICK h \in Pages : SaveFinalScore(h)
    BY BoardSteps DEF InsertScore, SeatRoutine, DeleteScores, dbVars
  <2>2. <<mem[h].event, mem[h].comp>> \in Routines
    BY <2>1 DEF SaveFinalScore
  <2>3. /\ final' = [row |-> routine, scores |-> scores, adjs |-> adjustments,
                     total |-> scores, totalAdjs |-> dbAdjs[routine]]
        /\ pc[h] = "final.save"
    BY <2>1, <2>2, PublishesTheFloor
  <2>4. scores = Labelled(routine, dbScores[routine]) /\ adjustments = dbAdjs[routine]
    BY <2>3, FinalizingAgrees DEF Finalizing
  <2> QED BY <2>3, <2>4
<1> QED BY <1>1, RecordInvariant, PTL DEF Spec, FinalFromRecords

-----------------------------------------------------------------------------
(* The refinement.  What a page rebuilds or clears in several steps, and     *)
(* what a judge has inserted and not yet cached, adds up to this: the board  *)
(* always shows the table's row of the floor.                                *)

FloorRow == [j \in Judges |-> IF routine = None THEN None ELSE dbScores[routine][j]]

\* Match and Complete, and the places where a request still has to write.
LEMMA BoardShowsTheRow ==
    ASSUME Typed, TurnsInv, RecordInv, faults = 0 PROVE Shown = FloorRow
<1> SUFFICES ASSUME NEW j \in Judges PROVE Shown[j] = FloorRow[j]
  BY DEF Shown, FloorRow
<1>1. CASE pc[j] = "score.cache"
  BY <1>1 DEF Shown, FloorRow, TurnsInv, SubmissionHolds, Typed, JudgeLocals
<1>2. CASE pc[j] # "score.cache" /\ Rebuilding
  BY <1>2 DEF Shown, FloorRow
<1>3. CASE pc[j] # "score.cache" /\ ~Rebuilding /\ scores[j] = None
  <2>1. routine # None => dbScores[routine][j] = None
    BY <1>3 DEF Rebuilding, RecordInv, Complete, Restoring
  <2> QED BY <1>3, <2>1 DEF Shown, FloorRow, Unlabelled
<1>4. CASE pc[j] # "score.cache" /\ ~Rebuilding /\ scores[j] # None
  <2>1. routine # None /\ scores[j] = [routine |-> routine, score |-> dbScores[routine][j]]
    BY <1>4 DEF Rebuilding, TurnsInv, Match
  <2> QED BY <1>4, <2>1 DEF Shown, FloorRow, Unlabelled
<1> QED BY <1>1, <1>2, <1>3, <1>4

\* Taking turns, with one page, events numbered from one and a database that
\* answers, the cached server, interruptible at every database call and every
\* write of a ring field, implements the scoreboard whose operations are one step.
THEOREM ServerIsAScoreboard ==
    TurnTaking /\ OnePage /\ NumberedFromOne /\ MaxFaults = 0 => (Spec => ImplementsBoard)
<1> SUFFICES ASSUME TurnTaking, OnePage, NumberedFromOne, MaxFaults = 0
             PROVE  Spec => ImplementsBoard
  OBVIOUS
<1> DEFINE Inv == /\ Typed /\ TurnsInv /\ PageInv /\ RecordInv
                  /\ faults = 0 /\ Shown = FloorRow
<1>1. Init => Board!BoardInit
  BY ClientsAssumption
     DEF Init, Board!BoardInit, Board!Empty, Shown, Published, Rebuilding, Unlabelled,
         NoScores, Clients
<1>2. Inv /\ Inv' /\ [Next]_vars => [Board!BoardNext]_(Board!boardVars)
  <2> SUFFICES ASSUME Inv, Inv', [Next]_vars
               PROVE  Board!BoardNext \/ UNCHANGED <<routine, dbScores, Shown, Published>>
    BY DEF Board!boardVars
  <2> USE DEF Board!BoardNext
  <2>1. ASSUME UNCHANGED <<routine, dbScores, final>>
        PROVE  UNCHANGED <<routine, dbScores, Shown, Published>>
    BY <2>1 DEF FloorRow, Published, Unlabelled
  <2>2. ASSUME NEW j \in Judges, InsertScore(j) PROVE Board!BoardNext
    <3>1. /\ pc[j] = "score.insert"
          /\ dbScores' = [dbScores EXCEPT ![mem[j].routine][j] = mem[j].value]
          /\ UNCHANGED <<routine, final>>
      BY <2>2 DEF InsertScore, Goto, ringVars
    <3>2. routine # None /\ mem[j].routine = routine /\ mem[j].value \in Scores
      BY <3>1 DEF TurnsInv, SubmissionHolds, Typed, JudgeLocals
    <3>3. routine \in Routines /\ dbScores \in [Routines -> Row]
      BY <3>2 DEF Typed, TypeOK
    <3>4. Shown' = [Shown EXCEPT ![j] = mem[j].value]
      BY <3>1, <3>2, <3>3 DEF FloorRow, Row
    <3>5. UNCHANGED Published
      BY <3>1 DEF Published, Unlabelled
    <3>6. Board!Record(j, mem[j].value)
      BY <3>1, <3>2, <3>4, <3>5 DEF Board!Record
    <3> QED BY <3>2, <3>6
  <2>3. ASSUME NEW h \in Pages, SeatRoutine(h) PROVE Board!BoardNext
    <3>1. /\ pc[h] = "set.seat" /\ routine' = mem[h].routine
          /\ UNCHANGED <<dbScores, final>>
      BY <2>3 DEF SeatRoutine, Goto, dbVars
    <3>2. routine' \in Routines /\ routine' # None
      BY <3>1, NoneAssumption, RoutinesAssumption DEF Typed, PageLocals, NamesRoutine
    <3>3. dbScores[routine'] \in Row
      BY <3>2 DEF Typed, TypeOK
    <3>4. Shown' = dbScores[routine']
      BY <3>1, <3>2, <3>3 DEF FloorRow, Row
    <3>5. UNCHANGED Published
      BY <3>1 DEF Published, Unlabelled
    <3>6. Board!Seat(routine')
      BY <3>1, <3>4, <3>5 DEF Board!Seat
    <3> QED BY <3>2, <3>6
  <2>4. ASSUME NEW h \in Pages, DeleteScores(h) PROVE Board!BoardNext
    <3>1. /\ pc[h] = "rescore.delete"
          /\ dbScores' = [dbScores EXCEPT ![mem[h].routine] = NoScores]
          /\ UNCHANGED <<routine, final>>
      BY <2>4 DEF DeleteScores, Goto, ringVars
    <3>2. mem[h].routine = routine /\ routine \in Routines /\ routine # None
      BY <3>1, NoneAssumption, RoutinesAssumption
         DEF RecordInv, CommandHolds, Typed, PageLocals, NamesRoutine
    <3>3. dbScores'[routine] = NoScores
      BY <3>1, <3>2 DEF Typed, TypeOK
    <3>4. Shown' = Board!Empty
      BY <3>1, <3>3 DEF FloorRow, NoScores, Board!Empty
    <3>5. UNCHANGED Published
      BY <3>1 DEF Published, Unlabelled
    <3>6. Board!Wipe
      BY <3>1, <3>2, <3>4, <3>5 DEF Board!Wipe, Board!Empty, NoScores
    <3> QED BY <3>6
  <2>5. ASSUME NEW h \in Pages, SaveFinalScore(h),
               <<mem[h].event, mem[h].comp>> \in Routines
        PROVE  Board!BoardNext
    <3>1. /\ final' = [row |-> routine, scores |-> scores, adjs |-> adjustments,
                       total |-> scores, totalAdjs |-> dbAdjs[routine]]
          /\ pc[h] = "final.save"
      BY <2>5, PublishesTheFloor
    <3>2. routine \in Routines /\ routine # None
      BY <3>1, FinalizingAgrees, NoneAssumption, RoutinesAssumption DEF Finalizing
    <3>3. Shown = Unlabelled(scores)
      <4>1. ~Rebuilding /\ \A j \in Judges : pc[j] = "idle"
        BY <3>1, FinalizingAgrees DEF Finalizing, Rebuilding, Restoring
      <4> QED BY <4>1 DEF Shown, Unlabelled
    <3>4. final' # None
      BY <3>1, <3>2, NoneIsNoFinalUpdate DEF Typed, TypeOK, FinalUpdate
    <3>5. Published' = [routine |-> routine, sheet |-> Shown]
      BY <3>1, <3>3, <3>4 DEF Published, Unlabelled
    <3>6. UNCHANGED <<routine, dbScores>>
      BY <2>5 DEF SaveFinalScore, ringVars
    <3>7. UNCHANGED Shown
      BY <3>6 DEF FloorRow
    <3>8. Board!Publish
      BY <3>2, <3>5, <3>6, <3>7 DEF Board!Publish
    <3> QED BY <3>8
  <2>6. ASSUME NEW h \in Pages, SaveFinalScore(h),
               <<mem[h].event, mem[h].comp>> \notin Routines
        PROVE  UNCHANGED <<routine, dbScores, final>>
    BY <2>6 DEF SaveFinalScore, ringVars
  <2>7. CASE UNCHANGED vars
    BY <2>1, <2>7 DEF vars, ringVars, dbVars
  <2> QED BY <2>1, <2>2, <2>3, <2>4, <2>5, <2>6, <2>7, BoardSteps
<1>3. Typed => faults = 0
  BY DEF Typed, TypeOK
<1>4. Typed /\ TurnsInv /\ PageInv /\ RecordInv => Inv
  BY <1>3, BoardShowsTheRow
<1> QED BY <1>1, <1>2, <1>4, RecordInvariant, PTL DEF Spec, Board!BoardSpec, ImplementsBoard
=============================================================================
