\* Two scans of one assessment at once.
SPECIFICATION Spec
CONSTANTS
    Workers = {w1, w2}
    Assessments = {a1}
    Jobs = {j1, j2}
    Repos = {}
    External = External
    None = None
    MaxAssessments = 1
    MaxScanJobs = 2
    Serial = FALSE
    Faults = FALSE
SYMMETRY Symmetry
CHECK_DEADLOCK FALSE
INVARIANTS
    ScanVisibleOnReturn
