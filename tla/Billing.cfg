\* Two organizations change plans one step at a time; a request may die.
SPECIFICATION FairSpec
CONSTANTS
    Workers = {w1, w2}
    Orgs = {o1, o2}
    Checkouts = {c1, c2, c3}
    None = None
    Disciplined = TRUE
    Ordered = TRUE
    MaxDeaths = 1
CHECK_DEADLOCK FALSE
INVARIANTS
    TypeOK
    IdsStayInOrganization
    PlanFollowsPayment
PROPERTIES
    PaymentActivates
