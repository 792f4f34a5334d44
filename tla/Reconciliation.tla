---------------------------- MODULE Reconciliation ----------------------------
(***************************************************************************)
(* POST /api/remote/servers/reset (backend/src/routes/api/remote/servers/ *)
(* reset.rs): the node agent calls it after it (re)started, and the panel  *)
(* repairs state that the restart left dangling.                           *)
(*                                                                         *)
(* The handler joins two statements with tokio::try_join!, so they run     *)
(* concurrently on separate connections:                                   *)
(*   UPDATE servers SET status = NULL WHERE status = 'RESTORING_BACKUP'    *)
(*   SELECT server_backups.id WHERE completed IS NULL                      *)
(* and then, after both, runs                                              *)
(*   UPDATE server_backups SET successful = false, completed = NOW()       *)
(*   WHERE id = ANY(<the ids selected>)                                    *)
(* Each statement is atomic on its own; nothing makes the three one        *)
(* transaction.  Meanwhile the agent keeps working: it starts and         *)
(* finishes backups and restores, and each finish is reported to the      *)
(* panel.  A restart makes the agent forget what it was doing: those      *)
(* backups and restores are orphaned, and only the reset can end them.    *)
(***************************************************************************)
EXTENDS Naturals, FiniteSets

CONSTANTS
    Servers,      \* servers of the node
    Backups,      \* server_backups rows of those servers that may exist
    MaxRestarts,  \* bound on agent restarts, hence on reset requests
    Faults        \* subset of {"stmt_fail"}: a statement returns an error

ASSUME MaxRestarts \in Nat /\ Faults \subseteq {"stmt_fail"}

Resets == 1..MaxRestarts

(***************************************************************************)
(* A backup row: "none" (not created), "running" (completed IS NULL, the   *)
(* agent works on it), "orphan" (completed IS NULL, the agent forgot it),  *)
(* "ok" / "failed" (completed set, successful true / false).               *)
(* A server: "none" (status NULL), "restoring" (RESTORING_BACKUP, agent    *)
(* restoring), "orphan" (RESTORING_BACKUP, the agent forgot it).           *)
(***************************************************************************)
Pending == {"running", "orphan"}

VARIABLES
    backup,     \* [Backups -> state of the row]
    status,     \* [Servers -> state of the server]
    restarts,   \* agent restarts so far
    rpc,        \* [Resets -> where that reset request is]
    joined,     \* [Resets -> subset of {"update", "select"}]: finished halves
    selected,   \* [Resets -> ids the SELECT returned]
    owed        \* ghost: [Resets -> backups orphaned when that request was sent]

vars == <<backup, status, restarts, rpc, joined, selected, owed>>

(***************************************************************************)
(* The agent                                                               *)
(***************************************************************************)
BackupStart(b) ==
    /\ backup[b] = "none"
    /\ backup' = [backup EXCEPT ![b] = "running"]
    /\ UNCHANGED <<status, restarts, rpc, joined, selected, owed>>

\* The agent reports a finished backup; the report only records a backup
\* the panel still has as not completed.
BackupDone(b) ==
    /\ backup[b] = "running"
    /\ \E ok \in BOOLEAN : backup' = [backup EXCEPT ![b] = IF ok THEN "ok" ELSE "failed"]
    /\ UNCHANGED <<status, restarts, rpc, joined, selected, owed>>

RestoreStart(s) ==
    /\ status[s] = "none"
    /\ status' = [status EXCEPT ![s] = "restoring"]
    /\ UNCHANGED <<backup, restarts, rpc, joined, selected, owed>>

RestoreDone(s) ==
    /\ status[s] = "restoring"
    /\ status' = [status EXCEPT ![s] = "none"]
    /\ UNCHANGED <<backup, restarts, rpc, joined, selected, owed>>

\* The agent restarts: whatever it was running is orphaned, and on boot it
\* calls the reset endpoint (a new request).
AgentRestart ==
    /\ restarts < MaxRestarts
    /\ restarts' = restarts + 1
    /\ backup' = [b \in Backups |-> IF backup[b] = "running" THEN "orphan" ELSE backup[b]]
    /\ status' = [s \in Servers |-> IF status[s] = "restoring" THEN "orphan" ELSE status[s]]
    /\ rpc' = [rpc EXCEPT ![restarts + 1] = "join"]
    /\ owed' = [owed EXCEPT ![restarts + 1] = {b \in Backups : backup'[b] = "orphan"}]
    /\ UNCHANGED <<joined, selected>>

(***************************************************************************)
(* The reset handler (reset.rs, post::route)                               *)
(***************************************************************************)
\* tokio::try_join! fails as soon as one future fails; the other is dropped.
Fail(r) ==
    /\ "stmt_fail" \in Faults
    /\ rpc' = [rpc EXCEPT ![r] = "error"]
    /\ UNCHANGED <<backup, status, restarts, joined, selected, owed>>

\* UPDATE servers SET status = NULL WHERE ... status = 'RESTORING_BACKUP'
ResetUpdateServers(r) ==
    /\ rpc[r] = "join"
    /\ "update" \notin joined[r]
    /\ status' = [s \in Servers |-> IF status[s] # "none" THEN "none" ELSE status[s]]
    /\ joined' = [joined EXCEPT ![r] = @ \cup {"update"}]
    /\ UNCHANGED <<backup, restarts, rpc, selected, owed>>

\* SELECT server_backups.id ... WHERE server_backups.completed IS NULL
ResetSelect(r) ==
    /\ rpc[r] = "join"
    /\ "select" \notin joined[r]
    /\ selected' = [selected EXCEPT ![r] = {b \in Backups : backup[b] \in Pending}]
    /\ joined' = [joined EXCEPT ![r] = @ \cup {"select"}]
    /\ UNCHANGED <<backup, status, restarts, rpc, owed>>

\* Either half of the join returns an error.
ResetJoinFail(r) ==
    /\ rpc[r] = "join"
    /\ joined[r] # {"update", "select"}
    /\ Fail(r)

\* Mutant: the second UPDATE starts once the first UPDATE is done, without
\* waiting for the SELECT's ids.
ResetUpdateBackupsEarly(r) ==
    /\ rpc[r] = "join"
    /\ "update" \in joined[r]
    /\ \/ /\ backup' = [b \in Backups |-> IF b \in selected[r] THEN "failed" ELSE backup[b]]
          /\ rpc' = [rpc EXCEPT ![r] = "ok"]
          /\ UNCHANGED <<status, restarts, joined, selected, owed>>
       \/ Fail(r)

\* UPDATE server_backups SET successful = false, completed = NOW()
\* WHERE server_backups.id = ANY($1)
ResetUpdateBackups(r) ==
    /\ rpc[r] = "join"
    /\ joined[r] = {"update", "select"}
    /\ \/ /\ backup' = [b \in Backups |-> IF b \in selected[r] THEN "failed" ELSE backup[b]]
          /\ rpc' = [rpc EXCEPT ![r] = "ok"]
          /\ UNCHANGED <<status, restarts, joined, selected, owed>>
       \/ Fail(r)

Init ==
    /\ backup = [b \in Backups |-> "none"]
    /\ status = [s \in Servers |-> "none"]
    /\ restarts = 0
    /\ rpc = [r \in Resets |-> "idle"]
    /\ joined = [r \in Resets |-> {}]
    /\ selected = [r \in Resets |-> {}]
    /\ owed = [r \in Resets |-> {}]

Next ==
    \/ \E b \in Backups : BackupStart(b) \/ BackupDone(b)
    \/ \E s \in Servers : RestoreStart(s) \/ RestoreDone(s)
    \/ AgentRestart
    \/ \E r \in Resets :
          \/ ResetUpdateServers(r) \/ ResetSelect(r) \/ ResetJoinFail(r)
          \/ ResetUpdateBackups(r)

(***************************************************************************)
(* A started request runs to its end (tokio polls it; each statement       *)
(* returns), so the handler's steps are weakly fair.  The agent's own work *)
(* is not: it may never finish a backup, and it need not restart.          *)
(***************************************************************************)
Fairness ==
    \A r \in Resets :
        WF_vars(ResetUpdateServers(r) \/ ResetSelect(r) \/ ResetUpdateBackups(r))

Spec == Init /\ [][Next]_vars /\ Fairness

-----------------------------------------------------------------------------
(***************************************************************************)
(* A reset that returns Ok has ended every backup the restart that sent it *)
(* orphaned, whatever other resets and the agent did meanwhile (the       *)
(* SELECT and the second UPDATE of reset.rs).                              *)
(***************************************************************************)
ResetClearsOwed ==
    \A r \in Resets : rpc[r] = "ok" => \A b \in owed[r] : backup[b] = "failed"

(***************************************************************************)
(* Every backup and restore the agent forgot in a restart is eventually    *)
(* ended by a reset: the row gets a completion time, the server leaves     *)
(* RESTORING_BACKUP (the purpose of reset.rs).                             *)
(***************************************************************************)
OrphansResolved ==
    /\ \A b \in Backups : backup[b] = "orphan" ~> backup[b] = "failed"
    /\ \A s \in Servers : status[s] = "orphan" ~> status[s] = "none"

(***************************************************************************)
(* A backup the agent reported as successful keeps its result: the spec    *)
(* (4.5) has the reset fail only backups with no completion time.         *)
(***************************************************************************)
CompletedBackupKept ==
    [][\A b \in Backups : backup[b] = "ok" => backup'[b] = "ok"]_vars
=============================================================================
