\* Signups, invitations and resets race for addresses and links, and may die.
SPECIFICATION Spec
CONSTANTS
    Workers = {w1, w2}
    Orgs = {o1, o2}
    Users = {u1, u2, u3}
    Emails = {e1, e2, e3}
    Tokens = {t1}
    None = None
    Serial = FALSE
    Faults = TRUE
SYMMETRY Symmetry
CHECK_DEADLOCK FALSE
INVARIANTS
    TypeOK
    EmailNamesOneUser
    PasswordFromOwnLink
    SpentLinkWasApplied
PROPERTIES
    ChangesStayInOrganization
