SPECIFICATION SpecEither
CONSTANTS
    Keys = {k1, k2}
    Nonces = {n1, n2, "spare"}
    IdempotencyKeys = {i1, i2, "spare"}
    Versions = {v1, v2}
    Periods = {m1}
    Kinds = {"monthly-qmau", "daily-revenue"}
    Counts = {0}
    Currencies = {eur}
    Amounts = {2}
    MaximumMinor = 3
    Handlers = {h1, h2}
    Finalizers = {}
    DayLength = 1
    CreatedAt = 0
    TimestampSkew = 0
    MaxTime = 1
    MaxLedger = 3
    MaxRevision = 2
SYMMETRY EitherSymmetry
INVARIANTS
    TypeOK
    AuditPasses
    ExactlyOnce
    NeverInconsistent
    CorrectionsOrdered
    AggregateFits
