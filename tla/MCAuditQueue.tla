---------------------------- MODULE MCAuditQueue ----------------------------
(* AuditQueue for TLC: symmetry of the workers, which a run may declare if *)
(* all of them are mortal or none is.                                      *)
EXTENDS AuditQueue, TLC

WorkerSymmetry == Permutations(Worker)
=============================================================================
