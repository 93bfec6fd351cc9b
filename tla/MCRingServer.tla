---------------------------- MODULE MCRingServer ----------------------------
(* Small rings for TLC: event e1 has two competitors; e2 has nobody in the  *)
(* Turns lineup, and the first competitor of e1 in the Double lineup.       *)
EXTENDS RingServer, TLC

CONSTANTS e1, e2, c1, c2

TurnsRoutines == {<<e1, c1>>, <<e1, c2>>}
TurnsFirstUp == [e \in Events |-> IF e = e1 THEN c1 ELSE None]

DoubleRoutines == {<<e1, c1>>, <<e2, c1>>}
DoubleFirstUp == [e \in Events |-> c1]

JudgeSymmetry == Permutations(Judges)
=============================================================================
