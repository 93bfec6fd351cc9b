-------------------------- MODULE MCTechnicalPanel --------------------------
(* A ring with two A judges and a C judge. *)
EXTENDS TechnicalPanel

CONSTANTS a, b, c, m1, m2, m3, iwuf, iwufab, uswu

MCOwner == [m \in Marks |-> IF m = m3 THEN b ELSE a]
MCRuleset == [rt \in Routines |->
                 IF rt = iwuf THEN "IWUF" ELSE IF rt = uswu THEN "USWU" ELSE "IWUFAB"]

\* the panels share nothing but the selection: a behaviour uses one of them
OnePanel == (\A m \in Marks : page[m].at = "unused") \/ seen[c] = Nil

\* bound: one thing at a time fails, overtakes, clashes, is typed on or meets a selection
OneTrouble ==
    Cardinality(failed) + Cardinality(raced) + Cardinality(clashed) + Cardinality(edited)
        + (IF disturbed THEN 1 ELSE 0) <= 1
=============================================================================
