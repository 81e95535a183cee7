---------------------------- MODULE MCCommandRun ----------------------------
(* Every command, with as many external commands as MaxCalls.              *)
EXTENDS CommandRun
=============================================================================
