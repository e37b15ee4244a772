SPECIFICATION FairSpec
CONSTANTS
    r1 = r1  r2 = r2  r3 = r3  p1 = p1  p2 = p2
    home = home  feed = feed  None = None
    Requests = {r1, r2, r3}
    Replicas = {p1, p2}
    Pages = {home}
    Replica <- LastOnOther
    Page <- SecondFeed
    Static = {home}
    Cap = 1
    Ttl = 2
    MaxSaves = 1
    MaxRemovals = 1
    MaxErrors = 1
INVARIANTS TypeOK InvalidationSticks
PROPERTIES StaleGone Answered
CHECK_DEADLOCK FALSE
