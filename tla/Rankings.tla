------------------------------ MODULE Rankings ------------------------------
(***************************************************************************)
(* The results read from the routines table (data/db_pg.go): the list of   *)
(* the results page, the places of the display page and the all-around     *)
(* list.  A row of the table is a competitor's routine in an event; final  *)
(* and total scores are numbers, 0 before the routine is finalized.  Rows  *)
(* that an ORDER BY leaves tied come in any order: here in that of the ids.*)
(***************************************************************************)
EXTENDS Integers, FiniteSets, Sequences, SequencesExt, FiniteSetsExt, Sorting

CONSTANTS RankedEvents, RankedCompetitors,   \* ids
          Finals, Totals,                    \* the scores a routine can end with
          MaxRoutines                        \* bound: rows of the table

ASSUME RankingsBounds ==
    /\ RankedEvents \subseteq Nat /\ RankedCompetitors \subseteq Nat
    /\ Finals \subseteq Nat /\ Totals \subseteq Nat /\ MaxRoutines \in Nat

VARIABLE routines      \* the rows, by id

RoutineRow(e, c) == [event |-> e, competitor |-> c, final |-> 0, total |-> 0]

RankingsInit == routines = <<>>

EnterRoutine(e, c) ==
    /\ Len(routines) < MaxRoutines
    /\ \A i \in 1..Len(routines) : <<routines[i].event, routines[i].competitor>> # <<e, c>>
    /\ routines' = Append(routines, RoutineRow(e, c))

SaveFinalScore(e, c, score, total) ==
    /\ \E i \in 1..Len(routines) : routines[i].event = e /\ routines[i].competitor = c
    /\ routines' = [i \in 1..Len(routines) |->
                       IF routines[i].event = e /\ routines[i].competitor = c
                       THEN [routines[i] EXCEPT !.final = score, !.total = total]
                       ELSE routines[i]]

RankingsNext ==
    \E e \in RankedEvents, c \in RankedCompetitors :
        \/ EnterRoutine(e, c)
        \/ \E f \in Finals, t \in Totals : SaveFinalScore(e, c, f, t)

RankingsSpec == RankingsInit /\ [][RankingsNext]_routines

-----------------------------------------------------------------------------
(* The queries.                                                             *)

\* mutant: the list is sorted by the total first
TotalFirst(a, b) ==
    \/ a.event < b.event
    \/ a.event = b.event /\ a.total > b.total
    \/ a.event = b.event /\ a.total = b.total /\ a.final > b.final

\* ORDER BY e.id ASC, final_score DESC, total_score DESC
ListedBefore(a, b) ==
    \/ a.event < b.event
    \/ a.event = b.event /\ a.final > b.final
    \/ a.event = b.event /\ a.final = b.final /\ a.total > b.total

GetAllRankings == Sorted(routines, ListedBefore)

FinalsOf(e) == {routines[i].final : i \in {j \in 1..Len(routines) : routines[j].event = e}}

\* the number of each distinct final score in descending order
GetSimpleRanks(e) ==
    [f \in FinalsOf(e) |-> Cardinality({g \in FinalsOf(e) : g >= f})]

RoutinesOf(c) == {i \in 1..Len(routines) : routines[i].competitor = c}

\* mutant: those with the fewest events first
FewestFirst(c, d) == Cardinality(RoutinesOf(c)) < Cardinality(RoutinesOf(d))

MostFirst(c, d) == Cardinality(RoutinesOf(c)) > Cardinality(RoutinesOf(d))

\* the three lowest: the query orders them upwards
GetTopScores(c) ==
    LET up == Sorted(SetToSeq(RoutinesOf(c)), LAMBDA i, j : routines[i].final < routines[j].final)
    IN FoldLeft(LAMBDA sum, i : sum + routines[i].final, 0, SubSeq(up, 1, 3))

\* the loop ends at the first competitor with less than three events
FindAllAroundWinner ==
    LET ids   == {routines[i].competitor : i \in 1..Len(routines)}
        rows  == Sorted(SetToSeq(ids), MostFirst)
        short == {i \in 1..Len(rows) : Cardinality(RoutinesOf(rows[i])) < 3}
        last  == IF short = {} THEN Len(rows) ELSE Min(short) - 1
    IN [i \in 1..last |-> [id |-> rows[i], total |-> GetTopScores(rows[i])]]

-----------------------------------------------------------------------------
(* Properties.                                                              *)

\* The results page starts a new list of places whenever the event changes
\* from one row to the next: the rows of an event are never apart.
EventsAreListedOnce ==
    \A i, j, k \in 1..Len(routines) :
        i < j /\ j < k /\ GetAllRankings[i].event = GetAllRankings[k].event =>
            GetAllRankings[j].event = GetAllRankings[i].event

\* The results page and the display page read the same table with different
\* queries: every event is one list, whoever is listed earlier in it has the
\* better place, and a place is shared exactly by equal final scores, whatever
\* the totals.
ListAgreesWithPlaces ==
    /\ EventsAreListedOnce
    /\ \A i, j \in 1..Len(routines) :
           LET a == GetAllRankings[i]
               b == GetAllRankings[j]
               places == GetSimpleRanks(a.event)
           IN i < j /\ a.event = b.event =>
                  /\ places[a.final] <= places[b.final]
                  /\ (places[a.final] = places[b.final]) <=> (a.final = b.final)

\* The all-around list breaks off at the first competitor with less than three
\* events, and yet holds everyone who has three.
AllAroundIsComplete ==
    {FindAllAroundWinner[i].id : i \in DOMAIN FindAllAroundWinner}
    = {c \in RankedCompetitors : Cardinality(RoutinesOf(c)) >= 3}
=============================================================================
