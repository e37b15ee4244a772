SPECIFICATION FairSpec
CONSTANTS
    s1 = s1  s2 = s2  f1 = f1  f2 = f2
    Size = 4
    Segments <- TwoSegments
    Finals <- TwoFinals
    Ttl = 1
    Fsync = FALSE
    MaxErrors = 1
    MaxCrashes = 1
INVARIANTS TypeOK NoHole SpansExact RowHasFile PublishedCanFinish FailedPutLeavesNothing
PROPERTIES NothingImmortal
CHECK_DEADLOCK FALSE
