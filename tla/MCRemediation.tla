--------------------------- MODULE MCRemediation ---------------------------
(* Calls and files for model checking: each case that the pattern and its    *)
(* guard tell apart.                                                         *)
EXTENDS Remediation, TLC

Plain    == <<"arg", "close">>                           \* get(url)
Inner    == <<"open", "arg", "close", "close">>          \* get(build(path))
Trailing == <<"arg", "comma", "close">>                  \* get(url,)
Mention  == <<"mention", "close">>                       \* get(timeout_url)
\* get(url, headers(token), timeout=5)
Safe     == <<"arg", "comma", "open", "arg", "close", "comma", "timeout", "close">>

Texts == {<<Plain>>, <<Inner>>, <<Trailing>>, <<Mention>>, <<Safe, Plain>>}

Symmetry == Permutations(Runs) \cup Permutations(Clones) \cup Permutations(Files)
=============================================================================
