SPECIFICATION Spec
CONSTANTS
    u1 = u1  u2 = u2  u3 = u3  k1 = k1  k2 = k2
    None = None
    Procs = {p1}
    Puts = {u1, u2, u3}
    Blobs = {k1, k2}
    Content <- TwoContents
    Inline = {u3}
    Embedded = TRUE
    Grace = 1
    SweepBatch = 1
    SweepProcs = {p1}
    VerifyProcs = {p1}
    MaxStoreErrors = 0
    MaxFileErrors = 1
    MaxUnlinkErrors = 1
    MaxCrashes = 1
INVARIANTS TypeOK HeldIsReadable NoOrphanFile
PROPERTIES GraceHonored VerifyIsQuiet
CHECK_DEADLOCK FALSE
