\* One request at a time per assessment, two assessments, death anywhere.
SPECIFICATION Spec
CONSTANTS
    Workers = {w1, w2}
    Assessments = {a1, a2}
    Jobs = {j1, j2}
    Repos = {r1}
    External = External
    None = None
    MaxAssessments = 2
    MaxScanJobs = 2
    Serial = TRUE
    Faults = TRUE
SYMMETRY Symmetry
CHECK_DEADLOCK FALSE
INVARIANTS
    TypeOK
    ScanVisibleOnReturn
    WebhookMatchesRecord
    DeletedStaysDeleted
    ClonesOnDisk
PROPERTIES
    ImplementsLedger
