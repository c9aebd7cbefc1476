----------------------------- MODULE MCTagCache -----------------------------
(* Instances of TagCache for TLC *)
EXTENDS TagCache, TLC

\* Tags are interchangeable as long as all, or none, of them stay.
Symmetry == Permutations(Tags)
=============================================================================
