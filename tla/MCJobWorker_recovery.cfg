SPECIFICATION FairSpec
CONSTANTS
    j1 = j1  j2 = j2  j3 = j3
    None = None
    Procs = {p1, p2}
    Jobs = {j1}
    MaxConcurrency = 1
    MaxAttempts <- TwoTries
    Urgency <- SameUrgency
    Callback = {j1}
    Backoff = 1
    Ttl = 1
    OrphanTimeout = 1
    SweepProcs = {p1, p2}
    Ordered = FALSE
    WebhookMaxAttempts = 2
    MaxCrashes = 1
    MaxErrors = 1
    MaxRemoves = 1
 
PROPERTIES NoImmortalRecord
