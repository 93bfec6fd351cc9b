----------------------------- MODULE RingServer -----------------------------
(***************************************************************************)
(* One competition ring of the server: the cached RingState (data/state.go *)
(* and data/scoring.go), the database tables behind it, and the HTTP       *)
(* handlers of server/routes/api that judges and the head judge's page     *)
(* call.  net/http runs every request in a goroutine of its own, so a      *)
(* handler is a process that stops at every database call and at every     *)
(* write of a ring field; steps of different requests interleave.          *)
(*                                                                         *)
(* A routine is one competitor's performance in one event.  Its row in     *)
(* "routines" is identified by that pair, so a routine is modelled as      *)
(* <<event, competitor>>.  A handler that panics (a nil Routine) is        *)
(* recovered by net/http and changes nothing: it is modelled by a guard.   *)
(***************************************************************************)
EXTENDS Naturals

CONSTANTS Judges,        \* judge tags
          Pages,         \* open head judge pages
          Events,
          Competitors,
          Routines,      \* the rows of the routines table
          FirstUp,       \* event -> the competitor with event_order 1, or None
          Scores,        \* the scores a judge can give
          MaxAdjustments,\* bound: adjustments saved per routine
          MaxFaults,     \* bound: database calls that fail
          TurnTaking,    \* TRUE: no request starts beside one of the other side
          None

ASSUME RoutinesAssumption == Routines \subseteq Events \X Competitors
ASSUME FirstUpAssumption == FirstUp \in [Events -> Competitors \cup {None}]
ASSUME ClientsAssumption == Judges \cap Pages = {}
ASSUME BoundsAssumption == MaxAdjustments \in Nat /\ MaxFaults \in Nat
ASSUME TurnTakingAssumption == TurnTaking \in BOOLEAN
ASSUME NoneAssumption ==
    None \notin Events \cup Competitors \cup (Events \X Competitors) \cup Scores
ASSUME NoneIsNoScorecard == None \notin [routine : Routines, score : Scores]

VARIABLES
    \* RingState
    event, competitor, routine, scores, adjustments,
    \* database tables: scores, adjustments, the last update of routines
    dbScores, dbAdjs, final,
    \* the routineId each head judge page has cached
    page,
    \* requests: where each client's request stands, and its local variables
    pc, mem,
    \* history: database failures so far, what was ever inserted
    faults, saved

ringVars == <<event, competitor, routine, scores, adjustments>>
dbVars == <<dbScores, dbAdjs, final>>
history == <<faults, saved>>
vars == <<ringVars, dbVars, page, pc, mem, history>>

-----------------------------------------------------------------------------
(* Data.                                                                    *)

Clients == Judges \cup Pages

\* data.Score: the routine it is labelled with, and the number
Scorecard == [routine : Routines, score : Scores]

\* RingState.Scores, a map from judge tag to score
ScoreMap == [Judges -> Scorecard \cup {None}]
NoScores == [j \in Judges |-> None]

\* the rows of one routine in the table "scores".  A judge who submits twice
\* has two rows; GetScores keeps the last one it meets.
Row == [Judges -> Scores \cup {None}]

Labelled(r, row) ==
    [j \in Judges |-> IF row[j] = None THEN None
                      ELSE [routine |-> r, score |-> row[j]]]

\* local variables of a request
Locals == [event : Events \cup {None}, comp : Competitors \cup {None},
           routine : Routines \cup {None}, value : Scores \cup {None},
           scores : ScoreMap, total : ScoreMap, adjs : Nat, totalAdjs : Nat,
           follow : BOOLEAN]
Blank == [event |-> None, comp |-> None, routine |-> None, value |-> None,
          scores |-> NoScores, total |-> NoScores, adjs |-> 0, totalAdjs |-> 0,
          follow |-> FALSE]

JudgePC == {"idle", "score.insert", "score.cache"}
PagePC == {"idle", "event.load", "event.first", "comp.event", "comp.load",
           "set.comp", "set.find", "set.reset", "set.seat", "set.read",
           "set.scores", "set.readAdjs", "set.adjs", "set.done",
           "page.follow", "page.refresh", "rescore.delete", "rescore.clear",
           "adj.save", "adj.cache",
           "final.calc", "final.adjs", "final.total", "final.save"}

\* what SaveFinalScore writes: the inputs of final_score and of total_score
FinalUpdate == [row : Routines, scores : ScoreMap, adjs : Nat,
                total : ScoreMap, totalAdjs : Nat]
ASSUME NoneIsNoFinalUpdate == None \notin FinalUpdate

Init ==
    /\ event = None /\ competitor = None /\ routine = None
    /\ scores = NoScores /\ adjustments = 0
    /\ dbScores = [r \in Routines |-> NoScores]
    /\ dbAdjs = [r \in Routines |-> 0]
    /\ final = None
    /\ page = [h \in Pages |-> None]
    /\ pc = [p \in Clients |-> "idle"]
    /\ mem = [p \in Clients |-> Blank]
    /\ faults = 0
    /\ saved = {}

-----------------------------------------------------------------------------
(* Requests.                                                                *)

Goto(p, here, there) == pc[p] = here /\ pc' = [pc EXCEPT ![p] = there]

\* the handler has returned; its locals are gone
Return(p, here) == Goto(p, here, "idle") /\ mem' = [mem EXCEPT ![p] = Blank]

\* the database call of a request returns an error and has had no effect
DbError == faults < MaxFaults /\ faults' = faults + 1

NoPageBusy == \A h \in Pages : pc[h] = "idle"
AllIdle == \A p \in Clients : pc[p] = "idle"

\* With TurnTaking the people at the ring take turns: no judge presses
\* "submit" while a command of a head judge page is running, and no command
\* is given while a submission or another command is running.
JudgeMayAct == TurnTaking => NoPageBusy
PageMayAct == TurnTaking => AllIdle

-----------------------------------------------------------------------------
(* submit-score: submitScore, data.SaveScore.                               *)

\* ring.Routine is read to make the arguments of the INSERT
SubmitScore(j, s) ==
    /\ JudgeMayAct
    /\ routine # None
    /\ Goto(j, "idle", "score.insert")
    /\ mem' = [mem EXCEPT ![j].routine = routine, ![j].value = s]
    /\ UNCHANGED <<ringVars, dbVars, page, history>>

InsertScore(j) ==
    /\ Goto(j, "score.insert", "score.cache")
    /\ dbScores' = [dbScores EXCEPT ![mem[j].routine][j] = mem[j].value]
    /\ saved' = saved \cup {<<j, mem[j].value>>}
    /\ UNCHANGED <<ringVars, dbAdjs, final, page, mem, faults>>

\* mutant: the error of the INSERT is dropped
InsertScoreFailsUnnoticed(j) ==
    /\ Goto(j, "score.insert", "score.cache")
    /\ DbError
    /\ UNCHANGED <<ringVars, dbVars, page, mem, saved>>

InsertScoreFails(j) ==
    /\ Return(j, "score.insert")
    /\ DbError
    /\ UNCHANGED <<ringVars, dbVars, page, saved>>

\* mutant: the label is the routine read for the INSERT
CacheScoreUnderRowRoutine(j) ==
    /\ Return(j, "score.cache")
    /\ scores' = [scores EXCEPT ![j] =
                     [routine |-> mem[j].routine, score |-> mem[j].value]]
    /\ UNCHANGED <<event, competitor, routine, adjustments, dbVars, page, history>>

\* SetPerformanceScore reads ring.Routine again, for the label
CacheScore(j) ==
    /\ Return(j, "score.cache")
    /\ scores' = [scores EXCEPT ![j] = [routine |-> routine, score |-> mem[j].value]]
    /\ UNCHANGED <<event, competitor, routine, adjustments, dbVars, page, history>>

-----------------------------------------------------------------------------
(* change-event: changeEvent, up to its call of SetCompetitor.              *)

ChangeEvent(h, e) ==
    /\ PageMayAct
    /\ Goto(h, "idle", "event.load")
    /\ mem' = [mem EXCEPT ![h].event = e, ![h].follow = TRUE]
    /\ UNCHANGED <<ringVars, dbVars, page, history>>

\* GetEventByID, ring.SetEvent
LoadEvent(h) ==
    /\ \/ Goto(h, "event.load", "event.first")
       \/ Goto(h, "comp.event", "comp.load")
    /\ event' = mem[h].event
    /\ UNCHANGED <<competitor, routine, scores, adjustments, dbVars, page, mem, history>>

LoadEventFails(h) ==
    /\ Return(h, "event.load") \/ Return(h, "comp.event")
    /\ DbError
    /\ UNCHANGED <<ringVars, dbVars, page, saved>>

\* GetNthCompetitorInEvent(1, event)
FirstCompetitor(h) ==
    /\ Goto(h, "event.first", "set.comp")
    /\ FirstUp[mem[h].event] # None
    /\ mem' = [mem EXCEPT ![h].comp = FirstUp[mem[h].event]]
    /\ UNCHANGED <<ringVars, dbVars, page, history>>

\* nobody has order 1, or the query fails: the ring keeps the new event
\* with the old competitor, routine and scores
FirstCompetitorFails(h) ==
    /\ Return(h, "event.first")
    /\ \/ FirstUp[mem[h].event] = None /\ UNCHANGED faults
       \/ DbError
    /\ UNCHANGED <<ringVars, dbVars, page, saved>>

-----------------------------------------------------------------------------
(* change-competitor: changeCompetitor, up to its call of SetCompetitor.    *)

\* The event is loaded only when it is not the one on the ring.
Change(h, here, e, c) ==
    /\ Goto(h, here, IF event = e THEN "comp.load" ELSE "comp.event")
    /\ mem' = [mem EXCEPT ![h] = [Blank EXCEPT !.event = e, !.comp = c]]
    /\ UNCHANGED <<ringVars, dbVars, page, history>>

ChangeCompetitor(h, e, c) == PageMayAct /\ Change(h, "idle", e, c)

\* GetCompetitorByID
LoadCompetitor(h) ==
    /\ Goto(h, "comp.load", "set.comp")
    /\ UNCHANGED <<ringVars, dbVars, page, mem, history>>

LoadCompetitorFails(h) ==
    /\ Return(h, "comp.load")
    /\ DbError
    /\ UNCHANGED <<ringVars, dbVars, page, saved>>

-----------------------------------------------------------------------------
(* RingState.SetCompetitor, the part on scores and adjustments.             *)

SetCompetitor(h) ==
    /\ Goto(h, "set.comp", "set.find")
    /\ competitor' = mem[h].comp
    /\ UNCHANGED <<event, routine, scores, adjustments, dbVars, page, mem, history>>

\* mutant: GetRoutine does not look whether there is a row
FindRoutineUnchecked(h) ==
    /\ event # None
    /\ Goto(h, "set.find", "set.reset")
    /\ mem' = [mem EXCEPT ![h].routine = <<event, competitor>>]
    /\ UNCHANGED <<ringVars, dbVars, page, history>>

\* GetRoutine(r.Event.ID, r.Competitor.ID), of the ring as it is now
FindRoutine(h) ==
    /\ <<event, competitor>> \in Routines
    /\ Goto(h, "set.find", "set.reset")
    /\ mem' = [mem EXCEPT ![h].routine = <<event, competitor>>]
    /\ UNCHANGED <<ringVars, dbVars, page, history>>

\* no such routine, or an error: the function returns, the handler replies
\* as if it had succeeded
FindRoutineFails(h) ==
    /\ Goto(h, "set.find", "set.done")
    /\ \/ <<event, competitor>> \notin Routines /\ UNCHANGED faults
       \/ DbError
    /\ UNCHANGED <<ringVars, dbVars, page, mem, saved>>

\* "Reset the state"
ResetState(h) ==
    /\ Goto(h, "set.reset", "set.seat")
    /\ scores' = NoScores /\ adjustments' = 0
    /\ UNCHANGED <<event, competitor, routine, dbVars, page, mem, history>>

\* mutant: r.Routine is not assigned
SeatNobody(h) ==
    /\ Goto(h, "set.seat", "set.read")
    /\ UNCHANGED <<ringVars, dbVars, page, mem, history>>

SeatRoutine(h) ==
    /\ Goto(h, "set.seat", "set.read")
    /\ routine' = mem[h].routine
    /\ UNCHANGED <<event, competitor, scores, adjustments, dbVars, page, mem, history>>

\* "get any saved state": GetScores, then the assignment under scoreMu
ReadScores(h) ==
    /\ Goto(h, "set.read", "set.scores")
    /\ mem' = [mem EXCEPT ![h].scores =
                   Labelled(mem[h].routine, dbScores[mem[h].routine])]
    /\ UNCHANGED <<ringVars, dbVars, page, history>>

ReadScoresFails(h) ==
    /\ Goto(h, "set.read", "set.readAdjs")
    /\ DbError
    /\ UNCHANGED <<ringVars, dbVars, page, mem, saved>>

\* mutants: the saved scores are dropped; are merged into the map
RestoreNoScores(h) ==
    /\ Goto(h, "set.scores", "set.readAdjs")
    /\ UNCHANGED <<ringVars, dbVars, page, mem, history>>

MergeScores(h) ==
    /\ Goto(h, "set.scores", "set.readAdjs")
    /\ scores' = [j \in Judges |-> IF mem[h].scores[j] # None
                                   THEN mem[h].scores[j] ELSE scores[j]]
    /\ UNCHANGED <<event, competitor, routine, adjustments, dbVars, page, mem, history>>

RestoreScores(h) ==
    /\ Goto(h, "set.scores", "set.readAdjs")
    /\ scores' = mem[h].scores
    /\ UNCHANGED <<event, competitor, routine, adjustments, dbVars, page, mem, history>>

ReadAdjustments(h) ==
    /\ Goto(h, "set.readAdjs", "set.adjs")
    /\ mem' = [mem EXCEPT ![h].adjs = dbAdjs[mem[h].routine]]
    /\ UNCHANGED <<ringVars, dbVars, page, history>>

ReadAdjustmentsFails(h) ==
    /\ Goto(h, "set.readAdjs", "set.done")
    /\ DbError
    /\ UNCHANGED <<ringVars, dbVars, page, mem, saved>>

\* mutant: the saved adjustments are dropped
RestoreNoAdjustments(h) ==
    /\ Goto(h, "set.adjs", "set.done")
    /\ UNCHANGED <<ringVars, dbVars, page, mem, history>>

RestoreAdjustments(h) ==
    /\ Goto(h, "set.adjs", "set.done")
    /\ adjustments' = mem[h].adjs
    /\ UNCHANGED <<event, competitor, routine, scores, dbVars, page, mem, history>>

-----------------------------------------------------------------------------
(* The head judge's page, judge.js.                                         *)

\* After change-event the page loads the event's lineup and selects its first
\* competitor; after change-competitor it asks for the ring's status.
Reply(h) ==
    /\ Goto(h, "set.done", IF mem[h].follow THEN "page.follow" ELSE "page.refresh")
    /\ UNCHANGED <<ringVars, dbVars, page, mem, history>>

FollowUp(h) == Change(h, "page.follow", mem[h].event, mem[h].comp)

\* updateEventInfo: the page caches routine_id; also when it is (re)loaded
LoadStatus(h) ==
    /\ Return(h, "page.refresh") \/ Return(h, "idle")
    /\ page' = [page EXCEPT ![h] = routine]
    /\ UNCHANGED <<ringVars, dbVars, history>>

-----------------------------------------------------------------------------
(* rescore: rescore, data.ClearScores, for the routine the page names.      *)

Rescore(h) ==
    /\ PageMayAct
    /\ page[h] # None
    /\ Goto(h, "idle", "rescore.delete")
    /\ mem' = [mem EXCEPT ![h].routine = page[h]]
    /\ UNCHANGED <<ringVars, dbVars, page, history>>

DeleteScores(h) ==
    /\ Goto(h, "rescore.delete", "rescore.clear")
    /\ dbScores' = [dbScores EXCEPT ![mem[h].routine] = NoScores]
    /\ UNCHANGED <<ringVars, dbAdjs, final, page, mem, history>>

DeleteScoresFails(h) ==
    /\ Return(h, "rescore.delete")
    /\ DbError
    /\ UNCHANGED <<ringVars, dbVars, page, saved>>

\* mutant: only the database is cleared
ClearNoCache(h) ==
    /\ Return(h, "rescore.clear")
    /\ UNCHANGED <<ringVars, dbVars, page, history>>

\* ring.ClearScores: whatever routine is on the ring
ClearCache(h) ==
    /\ Return(h, "rescore.clear")
    /\ scores' = NoScores
    /\ UNCHANGED <<event, competitor, routine, adjustments, dbVars, page, history>>

-----------------------------------------------------------------------------
(* submit-adjustment: submitAdjustment, for the routine the page names.     *)

SubmitAdjustment(h) ==
    /\ PageMayAct
    /\ page[h] # None
    /\ dbAdjs[page[h]] < MaxAdjustments
    /\ Goto(h, "idle", "adj.save")
    /\ mem' = [mem EXCEPT ![h].routine = page[h]]
    /\ UNCHANGED <<ringVars, dbVars, page, history>>

SaveAdjustment(h) ==
    /\ Goto(h, "adj.save", "adj.cache")
    /\ dbAdjs' = [dbAdjs EXCEPT ![mem[h].routine] = @ + 1]
    /\ UNCHANGED <<ringVars, dbScores, final, page, mem, history>>

SaveAdjustmentFails(h) ==
    /\ Return(h, "adj.save")
    /\ DbError
    /\ UNCHANGED <<ringVars, dbVars, page, saved>>

\* mutant: the adjustment is only saved
CacheNoAdjustment(h) ==
    /\ Return(h, "adj.cache")
    /\ UNCHANGED <<ringVars, dbVars, page, history>>

\* RingState.SetAdjustment
CacheAdjustment(h) ==
    /\ Return(h, "adj.cache")
    /\ adjustments' = adjustments + 1
    /\ UNCHANGED <<event, competitor, routine, scores, dbVars, page, history>>

-----------------------------------------------------------------------------
(* finalize-score: finalizeScore, RingState.FinalizeScore.                  *)

\* a nil Competitor, Event or Routine panics
FinalizeScore(h) ==
    /\ PageMayAct
    /\ event # None /\ competitor # None /\ routine # None
    /\ Goto(h, "idle", "final.calc")
    /\ mem' = [mem EXCEPT ![h].event = event, ![h].comp = competitor,
                          ![h].routine = routine]
    /\ UNCHANGED <<ringVars, dbVars, page, history>>

\* CalculateScore, from the cache
CalculateScore(h) ==
    /\ Goto(h, "final.calc", "final.adjs")
    /\ mem' = [mem EXCEPT ![h].scores = scores, ![h].adjs = adjustments]
    /\ UNCHANGED <<ringVars, dbVars, page, history>>

\* GetAdjustments, from the database
ReadTotalAdjustments(h) ==
    /\ Goto(h, "final.adjs", "final.total")
    /\ mem' = [mem EXCEPT ![h].totalAdjs = dbAdjs[mem[h].routine]]
    /\ UNCHANGED <<ringVars, dbVars, page, history>>

ReadTotalAdjustmentsFails(h) ==
    /\ Return(h, "final.adjs")
    /\ DbError
    /\ UNCHANGED <<ringVars, dbVars, page, saved>>

\* PerformanceScores once more, for the total
TotalScores(h) ==
    /\ Goto(h, "final.total", "final.save")
    /\ mem' = [mem EXCEPT ![h].total = scores]
    /\ UNCHANGED <<ringVars, dbVars, page, history>>

\* UPDATE routines ... WHERE event_id = eID AND competitor_id = cID, which
\* may match no row
SaveFinalScore(h) ==
    /\ Return(h, "final.save")
    /\ final' = IF <<mem[h].event, mem[h].comp>> \in Routines
                THEN [row |-> <<mem[h].event, mem[h].comp>>,
                      scores |-> mem[h].scores, adjs |-> mem[h].adjs,
                      total |-> mem[h].total, totalAdjs |-> mem[h].totalAdjs]
                ELSE final
    /\ UNCHANGED <<ringVars, dbScores, dbAdjs, page, history>>

SaveFinalScoreFails(h) ==
    /\ Return(h, "final.save")
    /\ DbError
    /\ UNCHANGED <<ringVars, dbVars, page, saved>>

-----------------------------------------------------------------------------
JudgeStep(j) ==
    \/ \E s \in Scores : SubmitScore(j, s)
    \/ InsertScore(j) \/ InsertScoreFails(j) \/ CacheScore(j)

SelectStep(h) ==
    \/ \E e \in Events : ChangeEvent(h, e)
    \/ \E e \in Events, c \in Competitors : ChangeCompetitor(h, e, c)
    \/ LoadEvent(h) \/ LoadEventFails(h)
    \/ FirstCompetitor(h) \/ FirstCompetitorFails(h)
    \/ LoadCompetitor(h) \/ LoadCompetitorFails(h)
    \/ SetCompetitor(h) \/ FindRoutine(h) \/ FindRoutineFails(h)
    \/ ResetState(h) \/ SeatRoutine(h)
    \/ ReadScores(h) \/ ReadScoresFails(h) \/ RestoreScores(h)
    \/ ReadAdjustments(h) \/ ReadAdjustmentsFails(h) \/ RestoreAdjustments(h)
    \/ Reply(h) \/ FollowUp(h) \/ LoadStatus(h)

ScoringStep(h) ==
    \/ Rescore(h) \/ DeleteScores(h) \/ DeleteScoresFails(h) \/ ClearCache(h)
    \/ SubmitAdjustment(h) \/ SaveAdjustment(h) \/ SaveAdjustmentFails(h)
    \/ CacheAdjustment(h)
    \/ FinalizeScore(h) \/ CalculateScore(h)
    \/ ReadTotalAdjustments(h) \/ ReadTotalAdjustmentsFails(h)
    \/ TotalScores(h) \/ SaveFinalScore(h) \/ SaveFinalScoreFails(h)

Next ==
    \/ \E j \in Judges : JudgeStep(j)
    \/ \E h \in Pages : SelectStep(h) \/ ScoringStep(h)

Spec == Init /\ [][Next]_vars

-----------------------------------------------------------------------------
(* Properties.                                                              *)

\* Types of all the variables.
TypeOK ==
    /\ event \in Events \cup {None}
    /\ competitor \in Competitors \cup {None}
    /\ routine \in Routines \cup {None}
    /\ scores \in ScoreMap
    /\ adjustments \in Nat
    /\ dbScores \in [Routines -> Row]
    /\ dbAdjs \in [Routines -> Nat]
    /\ final \in FinalUpdate \cup {None}
    /\ page \in [Pages -> Routines \cup {None}]
    /\ pc \in [Clients -> JudgePC \cup PagePC]
    /\ mem \in [Clients -> Locals]
    /\ faults \in 0..MaxFaults
    /\ saved \subseteq Judges \X Scores

\* Any interleaving and any failure of the database: a score the ring shows
\* was inserted into the database before.  SaveScore's order, which no other
\* writer of the map (SetCompetitor, ClearScores) may undermine.
ShownWasSaved ==
    \A j \in Judges : scores[j] # None => <<j, scores[j].score>> \in saved

\* Any interleaving of judges with one head judge page: when no command is
\* running, every score shown carries the routine on the floor.  It rests on
\* SetCompetitor assigning Routine before it reads the saved scores.
LabelsMatch ==
    NoPageBusy /\ faults = 0 =>
        \A j \in Judges : scores[j] # None => scores[j].routine = routine

\* The same for what is persisted: the routines row that FinalizeScore
\* updates, found by event and competitor, is the row of the routine whose
\* scores went into the final score.
FinalOfOwnRoutine ==
    final # None /\ faults = 0 =>
        \A j \in Judges :
            /\ final.scores[j] # None => final.scores[j].routine = final.row
            /\ final.total[j] # None => final.total[j].routine = final.row

\* Between commands, event, competitor and routine name one performance,
\* whichever of changeEvent and changeCompetitor brought it and although they
\* are assigned one by one.  A competitor who is not in the event is not
\* seated: then the ring keeps the old routine.
FloorConsistent ==
    NoPageBusy /\ faults = 0 /\ <<event, competitor>> \in Routines =>
        routine = <<event, competitor>>

\* When the people at the ring take turns, a score shown between requests is
\* the one the database holds for that judge and the routine on the floor,
\* even after database calls have failed.
ShownIsRecorded ==
    AllIdle =>
        \A j \in Judges : scores[j] # None =>
            scores[j] = [routine |-> routine, score |-> dbScores[routine][j]]

\* ... and, as long as none has failed, nothing recorded is missing: a
\* publication loses no judge's score and no adjustment.
RecordedIsShown ==
    AllIdle /\ faults = 0 /\ routine # None =>
        /\ \A j \in Judges : dbScores[routine][j] # None => scores[j] # None
        /\ adjustments = dbAdjs[routine]

\* Taking turns, the final score and the total that SaveFinalScore writes to a
\* routine come from exactly the scores and adjustments the database holds
\* for this routine, although the first is computed from the cache and the
\* second half from the cache and half from the database.
FinalFromRecords ==
    [][final' # final /\ faults = 0 =>
        /\ final'.scores = Labelled(final'.row, dbScores[final'.row])
        /\ final'.total = final'.scores
        /\ final'.adjs = dbAdjs[final'.row]
        /\ final'.totalAdjs = final'.adjs]_vars

\* A score is cached under the routine it was saved for.  Only true when
\* requests take turns: SaveScore reads ring.Routine for the INSERT, and
\* SetPerformanceScore reads it again for the label.
CachedWhereSaved ==
    [][\A j \in Judges : pc[j] = "score.cache" /\ pc'[j] = "idle" =>
           scores'[j].routine = mem[j].routine]_vars

-----------------------------------------------------------------------------
(* The abstraction: the board a ring implements when requests take turns.   *)
(* While a page rebuilds or clears the map, and while a judge's row is in   *)
(* the database and not yet in the map, the board already shows the row.    *)

Unlabelled(m) == [j \in Judges |-> IF m[j] = None THEN None ELSE m[j].score]

Rebuilding == \E h \in Pages : pc[h] \in {"set.seat", "set.read", "set.scores",
                                         "rescore.clear"}

Shown ==
    [j \in Judges |->
        IF pc[j] = "score.cache" THEN mem[j].value
        ELSE IF Rebuilding
        THEN (IF routine = None THEN None ELSE dbScores[routine][j])
        ELSE Unlabelled(scores)[j]]

Published ==
    IF final = None THEN None
    ELSE [routine |-> final.row, sheet |-> Unlabelled(final.scores)]

Board == INSTANCE Scoreboard WITH floor <- routine, table <- dbScores,
                                  shown <- Shown, published <- Published

\* Taking turns, with one head judge page and a database that answers, the
\* cached, interruptible server is the one-step scoreboard.
ImplementsBoard == Board!BoardSpec
=============================================================================
