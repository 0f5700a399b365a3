SPECIFICATION SpecReported
CONSTANTS
    Deployments = {d1, d2}
    Companies = {c1}
    TTLs = {1}
    NoCompany = NoCompany
    NoDeployment = NoDeployment
    Contractors = {}
    SecondsPerDay = 1
    MaxTime = 3
    MaxLag = 1
    MaxEvents = 2
    MaxNonces = 1
    MaxReviews = 2
    MaxDecisions = 0
    MaxExitEvents = 2
    MaxTransferEvents = 3
    MaxAllocationEvents = 0
    FounderScaled = 3
    BaseMultiplier = 30000
    MaximumSafeMinor = 1000
    FirstMonth = 1
    DaysPerMonth = 2
    Currencies = {"EUR"}
    Amounts = {100}
    Weights = {1, 3}
    MaxRows = 3
    MaxSettlements = 1
    MaxTransferSteps = 3
    MaxExits = 2
SYMMETRY ExitSymmetry
CHECK_DEADLOCK FALSE
PROPERTY
    PaidWherePresent
