SPECIFICATION Spec
CONSTANTS
    j1 = j1  j2 = j2  j3 = j3
    None = None
    Procs = {p1}
    Jobs = {j1, j2, j3}
    MaxConcurrency = 2
    MaxAttempts <- FirstRetries
    Urgency <- ThirdUrgent
    Callback = {}
    Backoff = 1
    Ttl = 1
    OrphanTimeout = 0
    SweepProcs = {}
    Ordered = FALSE
    WebhookMaxAttempts = 2
    MaxCrashes = 0
    MaxErrors = 1
    MaxRemoves = 1
INVARIANTS TypeOK SlotsAccounted NoLostWakeup
