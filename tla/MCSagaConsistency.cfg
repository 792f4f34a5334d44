\* The saga under concurrency, agent refusals, failed compensation and
\* creates abandoned after commit: the documented gaps only.
CONSTANTS
    Workers = {w1, w2}
    u1 = u1
    u2 = u2
    u3 = u3
    Uuids = {u1, u2}
    ShortOf <- MCDistinctShort
    Allocs = {a1, a2}
    MaxExtra = 1
    Faults = {"comp_fail", "cancel_create"}
    NoAlloc = NoAlloc
    NoServer = NoServer
    NoUuid = NoUuid
    Gone = Gone
SPECIFICATION Spec
SYMMETRY MCSymmetry
INVARIANT SettledConsistent
