\* A backup that completes between the reset's SELECT and its UPDATE is
\* overwritten as failed.
CONSTANTS
    Servers = {s1}
    Backups = {b1}
    MaxRestarts = 1
    Faults = {}
SPECIFICATION Spec
PROPERTY CompletedBackupKept
