----------------------------- MODULE Scoreboard -----------------------------
(***************************************************************************)
(* What the scoring of a ring promises to the people who use it: there is  *)
(* one table of scores, a board that shows the table's row of the routine  *)
(* on the floor, and a publication that takes the board as it stands.      *)
(* Every operation is one step; the cache, the database and the handlers   *)
(* behind it (RingServer) do not appear.                                   *)
(***************************************************************************)
CONSTANTS Judges, Routines, Scores, None

VARIABLES floor,     \* the routine on the floor
          table,     \* routine -> judge -> score
          shown,     \* judge -> score, the board
          published  \* the last publication

boardVars == <<floor, table, shown, published>>

Empty == [j \in Judges |-> None]

BoardInit ==
    /\ floor = None
    /\ table = [r \in Routines |-> Empty]
    /\ shown = Empty
    /\ published = None

Seat(r) ==
    /\ floor' = r
    /\ shown' = table[r]
    /\ UNCHANGED <<table, published>>

Record(j, s) ==
    /\ floor # None
    /\ table' = [table EXCEPT ![floor][j] = s]
    /\ shown' = [shown EXCEPT ![j] = s]
    /\ UNCHANGED <<floor, published>>

Wipe ==
    /\ floor # None
    /\ table' = [table EXCEPT ![floor] = Empty]
    /\ shown' = Empty
    /\ UNCHANGED <<floor, published>>

Publish ==
    /\ floor # None
    /\ published' = [routine |-> floor, sheet |-> shown]
    /\ UNCHANGED <<floor, table, shown>>

BoardNext ==
    \/ \E r \in Routines : Seat(r)
    \/ \E j \in Judges, s \in Scores : Record(j, s)
    \/ Wipe
    \/ Publish

BoardSpec == BoardInit /\ [][BoardNext]_boardVars
=============================================================================
