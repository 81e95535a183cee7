-------------------------- MODULE MCPaperBenchmark --------------------------
(* Two hosts and three databases: the first host has two of them.          *)
EXTENDS PaperBenchmark
CONSTANTS h1, h2, d1, d2, d3

MCHosts      == <<h1, h2>>
MCDatabases  == <<d1, d2, d3>>
MCAlgorithms == <<"SPIDER", "MARITA">>
MCWorkers    == [a \in {"SPIDER", "MARITA"} |-> IF a = "SPIDER" THEN 2 ELSE 1]
MCLaunches   == [h \in {h1, h2} |-> 1]
=============================================================================
