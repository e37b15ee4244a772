SPECIFICATION FairSpec
CONSTANTS
    u1 = u1  u2 = u2  u3 = u3  k1 = k1  k2 = k2
    None = None
    Procs = {p1, p2}
    Puts = {u1, u2}
    Blobs = {k1}
    Content <- OneContent
    Inline = {}
    Embedded = FALSE
    Grace = 1
    SweepBatch = 1
    SweepProcs = {p1}
    VerifyProcs = {p2}
    MaxStoreErrors = 1
    MaxFileErrors = 1
    MaxUnlinkErrors = 0
    MaxCrashes = 1
INVARIANTS RefsCoverHolders RefsExact
PROPERTIES LossOnlyInSweepWindow AlarmsHaveCause ZeroRefsCollected
CHECK_DEADLOCK FALSE
