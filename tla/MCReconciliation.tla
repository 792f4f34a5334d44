--------------------------- MODULE MCReconciliation ---------------------------
(* Reconciliation instantiated for TLC: one server, two backups, two agent
   restarts (so two reset requests can overlap). *)
EXTENDS Reconciliation, TLC

MCSymmetry == Permutations(Backups)
=============================================================================
