SPECIFICATION FairSpec
CONSTANTS
    c1 = c1  c2 = c2  c3 = c3  c4 = c4  c5 = c5
    p1 = p1  p2 = p2  s1 = s1
    None = None
    Calls = {c1, c2, c3, c4, c5}
    Kind <- Kinds
    Procs = {p1, p2}
    Proc <- SecondFar
    Stores = {s1}
    StoreOf <- Shared
    MaxAttempts = 2
    LockFor = 2
    Window = 2
    MaxClock = 2
    MaxErrors = 1
INVARIANTS TypeOK EveryFailureCounts
PROPERTIES LockIsTerminal EveryCallAnswered
CHECK_DEADLOCK FALSE
