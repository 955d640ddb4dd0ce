CONSTANTS
    r1 = r1
    r2 = r2
    c1 = c1
    c2 = c2
    c3 = c3
    Replicas = {r1, r2}
    Callers = {c1, c3}
    Home <- MCHomeTwo
    L1Ttl = 1
    L2Ttl = 2
    LockTtl = 3
    MaxWaits = 2
    MaxCompute = 1
SPECIFICATION Spec
PROPERTY CallsEnd
