---------------------------- MODULE MCBroadcast ----------------------------
(* Small rings for TLC: who registers as what. *)
EXTENDS Broadcast

CONSTANTS h1, h2, j1, j2, l1

\* one of each
OneEach == [c \in Conns |-> IF c = h1 THEN "head"
                           ELSE IF c = j1 THEN "judges" ELSE "listeners"]

\* head judges that replace each other, and judges
NoListener == [c \in Conns |-> IF c \in {h1, h2} THEN "head" ELSE "judges"]
=============================================================================
