SPECIFICATION SpecTimed
CONSTANTS
    Deployments = {d1, d2}
    Periods = {1, 2}
    Commitments = {1, 2}
    Counts = {2}
    MaxVersion = 2
    MaxReports = 3
    MaxItems = 2
    MaxEvents = 5
    MaxSubmissions = 2
    MaxTime = 2
    MaxLag = 1
SYMMETRY IdentitySymmetry
CHECK_DEADLOCK FALSE
INVARIANTS
    TypeOK
    IdentityTablesAudited
    OneIdentityPerPerson
    SnapshotsAccurate
    StagedSubmissionsFinish
