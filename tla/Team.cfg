\* One change at a time per organization, one use at a time per link; no
\* thread dies and all get scheduled.
SPECIFICATION FairSpec
CONSTANTS
    Workers = {w1, w2}
    Orgs = {o1}
    Users = {u1, u2}
    Emails = {e1, e2}
    Tokens = {t1}
    None = None
    Serial = TRUE
    Faults = FALSE
CHECK_DEADLOCK FALSE
INVARIANTS
    OwnerRemains
PROPERTIES
    ChangesStayInOrganization
    ImplementsDirectory
    InviteeGetsLink
