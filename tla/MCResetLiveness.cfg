\* Every orphaned backup and restore is eventually ended, when no statement
\* fails.
CONSTANTS
    Servers = {s1}
    Backups = {b1, b2}
    MaxRestarts = 2
    Faults = {}
SPECIFICATION Spec
PROPERTY OrphansResolved
