SPECIFICATION FairSpec
CONSTANTS
    r1 = r1  r2 = r2  r3 = r3  r4 = r4
    ann = ann  p1 = p1  p2 = p2
    None = None
    Requests = {r1, r2, r3, r4}
    Procs = {p1, p2}
    Proc <- OnTwo
    Principal <- Anns
    Operation <- PayOrRefund
    IdemKey <- OneKey
    Payload <- ThirdDiffers
    Required = {"refund"}
    FailOpen = {p2}
    InflightTtl = 1
    Ttl = 2
    MaxErrors = 1
    MaxLosses = 1
INVARIANTS TypeOK Exclusive RecordKept ReplayIsOwn ReservationIsLive
PROPERTY AllAnswered
CHECK_DEADLOCK FALSE
