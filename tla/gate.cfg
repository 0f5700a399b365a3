SPECIFICATION FairSpec
CONSTANTS
    Handlers = {h1, h2}
    Auditors = {worker, probe}
    Probes = {probe}
    MaxForeign = 2
INVARIANTS
    MutexHeld
    TrustedWasChecked
PROPERTIES
    FailClosed
    LatchClears
    RequestsAnswered
