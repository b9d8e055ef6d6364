--------------------------- MODULE MCReviewService ---------------------------
(***************************************************************************)
(* ReviewService for TLC: symmetry sets for the runs without liveness.     *)
(***************************************************************************)
EXTENDS ReviewService, TLC

\* Identifiers and threads are interchangeable: no action or property tells
\* one from another.
Symmetry == Permutations(Workers) \cup Permutations(Assessments)
                \cup Permutations(Jobs) \cup Permutations(Repos)
=============================================================================
