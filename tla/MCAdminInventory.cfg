\* Two concurrent admin requests over two nodes in two locations, two names
\* (both in use, so a rename to the other's name conflicts and one to its
\* own succeeds), two allocations that servers created by the requests
\* bind, two statements of the allocation pool and server deletes running
\* meanwhile.
CONSTANTS
    Admins = {w1, w2}
    Nodes = {n1, n2}
    Locations = {l1, l2}
    Names = {x, y}
    Allocs = {a1, a2}
    ServerIds = {s1, s2}
    MaxCalls = 2
    Unused = Unused
    None = None
    Invalid = Invalid
    Gone = Gone
    ServerPayloads <- MCServerPayloads
SPECIFICATION Spec
SYMMETRY MCSymmetry
INVARIANT TypeOK
\* Every task answers once; when they all have, the pool's statements run
\* out too (ids are not reused), and nothing can happen any more.
CHECK_DEADLOCK FALSE
