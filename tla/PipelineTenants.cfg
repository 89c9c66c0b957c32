SPECIFICATION Spec
CONSTANTS
    Tenant = {t1, t2}
    Doc = {d1}
    Etag = {e1}
    FaultKinds = {}
    MaxRaw = 1
    MaxFaults = 0
INVARIANTS NeverSkippedSilently
CHECK_DEADLOCK FALSE
