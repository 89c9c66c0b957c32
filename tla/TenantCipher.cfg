SPECIFICATION Spec
CONSTANTS
    Replica = {r1, r2}
    Slot = {s1, s2}
    r1 = r1
    r2 = r2
    s1 = s1
    s2 = s2
    MaxKeys = 2
    MaxShreds = 2
SYMMETRY Symmetry
INVARIANTS OnlyStoredKeys SealedReadable ForgottenForGood
