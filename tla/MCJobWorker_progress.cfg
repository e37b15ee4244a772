SPECIFICATION FairSpec
CONSTANTS
    j1 = j1  j2 = j2  j3 = j3
    None = None
    Procs = {p1}
    Jobs = {j1, j2}
    MaxConcurrency = 1
    MaxAttempts <- FirstRetries
    Urgency <- SameUrgency
    Callback = {j1}
    Backoff = 1
    Ttl = 1
    OrphanTimeout = 0
    SweepProcs = {p1}
    Ordered = TRUE
    WebhookMaxAttempts = 2
    MaxCrashes = 0
    MaxErrors = 1
    MaxRemoves = 1
INVARIANTS AttemptsHonored
PROPERTIES EveryEntryLeaves
