SPECIFICATION SpecEither
CONSTANTS
    Deployments = {d1, d2}
    Companies = {c1}
    TTLs = {1}
    NoCompany = NoCompany
    NoDeployment = NoDeployment
    Contractors = {b1}
    SecondsPerDay = 1
    MaxTime = 3
    MaxLag = 1
    MaxEvents = 3
    MaxNonces = 1
    MaxReviews = 2
    MaxDecisions = 1
    MaxExitEvents = 3
    MaxTransferEvents = 4
    MaxAllocationEvents = 2
    FounderScaled = 3
    BaseMultiplier = 30000
    MaximumSafeMinor = 1000
    FirstMonth = 1
    DaysPerMonth = 2
    Currencies = {"EUR"}
    Amounts = {100}
    Weights = {1, 3}
    MaxRows = 4
    MaxSettlements = 2
    MaxTransferSteps = 3
    MaxExits = 2
SYMMETRY ExitSymmetry
CHECK_DEADLOCK FALSE
INVARIANTS
    RailsAudited
    OneOutcome
    SettlementAuditPasses
    AllocationsFair
    ExitPaidOnce
PROPERTIES
    CompletedOnCurrentGrounds
    ReviewsStayReproduced
    PaidMembersEligible
