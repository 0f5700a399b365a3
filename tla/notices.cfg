SPECIFICATION SpecApart
CONSTANTS
    Publications = {p1, p2, p3}
    Kinds = {"GENERAL", "UPDATE"}
    Drafts <- FewDrafts
    AnyKind = AnyKind
    Readers = {r1}
    Limits = {1, 2}
    Administrators = {a1, a2}
    Listers = {l1}
    Subjects = {s1}
    MaxTime = 2
    MaxLag = 1
    MaxAnnouncements = 3
    MaxCaseEvents = 4
SYMMETRY NoticesSymmetry
CHECK_DEADLOCK FALSE
INVARIANTS
    NoticesAuditPass
    FeedExactlyOnce
    CaseListsComplete
