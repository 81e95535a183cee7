-------------------------- MODULE MCPaperPipeline --------------------------
(* Two stages, a setup and a run per database.                             *)
EXTENDS PaperPipeline
CONSTANT d1

Stage(e, algorithms, databases) ==
    [experiment |-> e, algorithms |-> algorithms, databases |-> databases]
MCStages == <<Stage("setup", {}, {}), Stage("B1", {"MARITA"}, {})>>

(* The plan of tests/test_paper_pipeline.py, with the walk lengths and     *)
(* databases of this instance.                                             *)
ASSUME Cardinality(StageJobs(1, MCStages[1])) = 1
ASSUME Cardinality(StageJobs(2, Stage("B2", {}, {d1}))) = 2 * Cardinality(WalkLengths)
ASSUME Cardinality(StageJobs(3, Stage("B1", {"MARITA", "SPIDER"}, {}))) = 2 * Cardinality(Databases)
ASSUME Cardinality(StageJobs(5, Stage("B3", {}, {}))) = 2 * Cardinality(Databases)
=============================================================================
