--------------------------- MODULE MCStripeBilling ---------------------------
(***************************************************************************)
(* StripeBilling for TLC: symmetry sets for the runs without liveness.     *)
(***************************************************************************)
EXTENDS StripeBilling, TLC

Symmetry == Permutations(Workers) \cup Permutations(Orgs) \cup Permutations(Checkouts)
=============================================================================
