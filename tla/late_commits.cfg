SPECIFICATION SpecWithoutRetries
CONSTANTS
    Deployments = {d1, d2}
    Companies = {c1}
    TTLs = {1}
    NoCompany = NoCompany
    NoDeployment = NoDeployment
    Contractors = {}
    SecondsPerDay = 1
    MaxTime = 2
    MaxLag = 1
    MaxEvents = 5
    MaxNonces = 3
    MaxReviews = 2
    MaxDecisions = 1
    MaxExitEvents = 2
    MaxTransferEvents = 1
    MaxAllocationEvents = 0
SYMMETRY ExitSymmetry
CHECK_DEADLOCK FALSE
INVARIANT
    SomeClauseSurvives
