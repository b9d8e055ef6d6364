\* One client pays two sessions, is put on Pro twice, and asks for Free.
SPECIFICATION Spec
CONSTANTS
    Workers = {w1}
    Orgs = {o1}
    Checkouts = {c1, c2}
    None = None
    Disciplined = FALSE
    Ordered = TRUE
    MaxDeaths = 0
SYMMETRY Symmetry
CHECK_DEADLOCK FALSE
INVARIANTS
    DowngradeCancels
