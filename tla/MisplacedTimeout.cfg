\* One run rewrites what is not the end of a call.
SPECIFICATION Spec
CONSTANTS
    Runs = {r1}
    Clones = {c1}
    Files = {f1, f2}
    Sources <- Texts
    Serial = TRUE
    Faults = FALSE
SYMMETRY Symmetry
CHECK_DEADLOCK FALSE
INVARIANTS
    FixesPreserveBehavior
