SPECIFICATION FairSpec
CONSTANTS
    a1 = a1  a2 = a2  r1 = r1  z1 = z1  z2 = z2  f1 = f1  k = k  f = f
    None = None
    Calls = {a1, a2, r1, z1, z2, f1}
    Keys = {k, f}
    Verb <- TheVerbs
    Key <- TheKeys
    Foreign = {f}
    MAX_CAS_ATTEMPTS = 2
    MaxErrors = 1
PROPERTIES Implements EveryCallAnswered
CHECK_DEADLOCK FALSE
