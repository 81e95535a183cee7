---------------------------- MODULE MCAuditStart ----------------------------
(* AuditStart for TLC, with the symmetry of equally mortal hosts.          *)
EXTENDS AuditStart, TLC

HostSymmetry == Permutations(Worker)
=============================================================================
