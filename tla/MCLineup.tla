------------------------------ MODULE MCLineup ------------------------------
(***************************************************************************)
(* The running order: the generator that writes it and the ring that       *)
(* follows it, side by side.  A behaviour runs one of them.                *)
(***************************************************************************)
EXTENDS Schedule, Generator

CONSTANTS x, y, p, q

\* Three events, the last of them in another ring at the start.
MCEventOrder == [e \in Events |-> e]
MCEntries == {Row(1, x, 1), Row(2, x, 1), Row(2, y, 2), Row(3, y, 1)}

\* A heading of the test rings and one of a spreadsheet; of two people one is
\* spelled in two ways.
MCHeadings ==
    {[exp |-> "adv", style |-> "CQ", rules |-> "nandu", gender |-> "m"],
     [exp |-> "ft", style |-> "Taiji", rules |-> "comp", gender |-> "f"]}

MCNames == [who : {p, q}, spelling : {"mixed"}] \cup {[who |-> p, spelling |-> "upper"]}

\* bound: once a command did not wait for those on their way, only a ring that
\* nobody edits is followed any further
OneTrouble == hurried => edits = 0

MCInit == Init /\ GenInit

MCNext ==
    \/ GenInit /\ fileType = "UWG" /\ OneTrouble /\ Next /\ UNCHANGED genVars
    \/ Init /\ GenNext /\ UNCHANGED vars

MCSpec == MCInit /\ [][MCNext]_<<vars, genVars>>
=============================================================================
