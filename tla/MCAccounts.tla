----------------------------- MODULE MCAccounts -----------------------------
(***************************************************************************)
(* Accounts for TLC: symmetry sets for the runs without liveness.          *)
(***************************************************************************)
EXTENDS Accounts, TLC

\* Threads, identifiers and addresses are interchangeable.
Symmetry == Permutations(Workers) \cup Permutations(Orgs) \cup Permutations(Users)
                \cup Permutations(Emails) \cup Permutations(Tokens)
=============================================================================
