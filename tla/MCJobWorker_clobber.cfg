SPECIFICATION Spec
CONSTANTS
    j1 = j1  j2 = j2  j3 = j3
    None = None
    Procs = {p1}
    Jobs = {j1, j2}
    MaxConcurrency = 1
    MaxAttempts <- OneShot
    Urgency <- SameUrgency
    Callback = {}
    Backoff = 1
    Ttl = 1
    OrphanTimeout = 1
    SweepProcs = {p1}
    Ordered = TRUE
    WebhookMaxAttempts = 2
    MaxCrashes = 0
    MaxErrors = 0
    MaxRemoves = 0
INVARIANTS SelfCorrects
