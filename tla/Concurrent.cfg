\* Two threads scan, create and delete without waiting, and may die anywhere.
SPECIFICATION Spec
CONSTANTS
    Workers = {w1, w2}
    Assessments = {a1, a2, a3}
    Jobs = {j1, j2}
    Repos = {}
    External = External
    None = None
    MaxAssessments = 1
    MaxScanJobs = 2
    Serial = FALSE
    Faults = TRUE
SYMMETRY Symmetry
CHECK_DEADLOCK FALSE
INVARIANTS
    StatusMatchesJobs
    FindingsMatchJobs
    ConsentBeforeScan
    OvershootBounded
