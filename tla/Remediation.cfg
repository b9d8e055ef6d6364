\* Runs follow one another in each clone, fail at every command and die.
SPECIFICATION Spec
CONSTANTS
    Runs = {r1, r2, r3}
    Clones = {c1, c2}
    Files = {f1, f2}
    Sources <- Texts
    Serial = TRUE
    Faults = TRUE
SYMMETRY Symmetry
CHECK_DEADLOCK FALSE
INVARIANTS
    ClonedBranchUntouched
    PullRequestCarriesFix
    CommitsAreWhole
