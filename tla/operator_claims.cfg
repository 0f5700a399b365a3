SPECIFICATION SpecApproved
CONSTANTS
    Deployments = {d1, d2}
    Companies = {c1}
    TTLs = {1}
    NoCompany = NoCompany
    NoDeployment = NoDeployment
    MaxTime = 2
    MaxLag = 1
    MaxEvents = 5
    MaxNonces = 2
    MaxReviews = 2
    MaxDecisions = 1
SYMMETRY OperatorSymmetry
CHECK_DEADLOCK FALSE
INVARIANTS
    AuditBesidesSuperseded
    ApprovalIsCurrent
    TokensSpentOnce
    MembershipTraceable
PROPERTIES
    DecidedOnLiveClaims
