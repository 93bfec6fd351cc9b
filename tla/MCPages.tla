------------------------------ MODULE MCPages ------------------------------
(***************************************************************************)
(* Pages for TLC: a judge's page and a display.                            *)
(***************************************************************************)
EXTENDS Pages
=============================================================================
