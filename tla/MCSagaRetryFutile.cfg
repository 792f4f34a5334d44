\* A uuid_short collision inside the create transaction, then the retries.
CONSTANTS
    Workers = {w1, w2}
    u1 = u1
    u2 = u2
    u3 = u3
    Uuids = {u1, u2, u3}
    ShortOf <- MCShortOf
    Allocs = {a1}
    MaxExtra = 0
    Faults = {}
    NoAlloc = NoAlloc
    NoServer = NoServer
    NoUuid = NoUuid
    Gone = Gone
SPECIFICATION Spec
SYMMETRY MCSymmetry
INVARIANT ExhaustedOnlyByCollisions
