\* Every reset that returns Ok has failed the backups its restart orphaned,
\* with statement errors, overlapping resets and the agent working meanwhile.
CONSTANTS
    Servers = {s1}
    Backups = {b1, b2}
    MaxRestarts = 2
    Faults = {"stmt_fail"}
SPECIFICATION Spec
SYMMETRY MCSymmetry
INVARIANT ResetClearsOwed
\* A reset that fails is not retried (reset.rs has no retry and the agent
\* calls it once per boot): what it left orphaned stays so and the node may
\* go quiet, which the spec (4.5) accepts as best effort.
CHECK_DEADLOCK FALSE
