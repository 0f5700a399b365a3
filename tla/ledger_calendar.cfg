SPECIFICATION FairSpecBatches
CONSTANTS
    Keys = {k1}
    Nonces = {n1, n2}
    IdempotencyKeys = {i1, i2}
    Versions = {v1}
    Periods = {m1}
    Kinds = {"installation-test"}
    Counts = {0}
    Currencies = {}
    Amounts = {}
    MaximumMinor = 0
    Handlers = {h1}
    Finalizers = {f1}
    DayLength = 2
    CreatedAt = 1
    TimestampSkew = 0
    MaxTime = 4
    MaxLedger = 2
    MaxRevision = 1
INVARIANTS
    AuditPasses
    ReceiptsCovered
PROPERTIES
    ImplementsJournal
    CompletedDaysSealed
