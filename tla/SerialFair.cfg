\* One request at a time per assessment, no thread dies, all get scheduled; one viewer.
SPECIFICATION StreamSpec
CONSTANTS
    Workers = {w1, w2}
    Assessments = {a1, a2}
    Jobs = {j1}
    Repos = {r1}
    External = External
    None = None
    MaxAssessments = 2
    MaxScanJobs = 2
    Serial = TRUE
    Faults = FALSE
    MaxPolls = 4
CHECK_DEADLOCK FALSE
INVARIANTS
    NoOrphanClone
    EventsInOrder
    StreamTellsOutcome
PROPERTIES
    JobsFinish
