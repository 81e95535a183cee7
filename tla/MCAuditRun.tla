----------------------------- MODULE MCAuditRun -----------------------------
(* AuditRun for TLC, with the symmetry of equally mortal hosts.            *)
EXTENDS AuditRun, TLC

HostSymmetry == Permutations(Worker)
=============================================================================
