----------------------------- MODULE MCTagTask -----------------------------
(***************************************************************************)
(* TagTask with the tags of the runs as model values.                      *)
(***************************************************************************)
EXTENDS TagTask

CONSTANTS c, u
=============================================================================
