---------------------------- MODULE MCAuditShard ----------------------------
(* AuditShard for TLC, with the symmetry of equally mortal workers.        *)
EXTENDS AuditShard, TLC

WorkerSymmetry == Permutations(Worker)
=============================================================================
