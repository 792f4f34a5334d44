\* What a delete reports against what it leaves in the servers table, with
\* the faults that reach a delete: lost replies and dropped delete tasks.
CONSTANTS
    Workers = {w1, w2}
    u1 = u1
    u2 = u2
    u3 = u3
    Uuids = {u1, u2}
    ShortOf <- MCShortOf
    Allocs = {a1}
    MaxExtra = 0
    Faults = {"lost_reply", "cancel_delete"}
    NoAlloc = NoAlloc
    NoServer = NoServer
    NoUuid = NoUuid
    Gone = Gone
SPECIFICATION Spec
SYMMETRY MCSymmetry
INVARIANT TypeOK
PROPERTY DeleteSuccessRemovesRow
