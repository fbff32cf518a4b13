-------------------------- MODULE MCAnalysisEngine --------------------------
(* Two analysis threads, which TLC takes as model values.                   *)
EXTENDS AnalysisEngine

CONSTANTS t1, t2

MCThreads == {t1, t2}
MCPriority == <<0, 1>>
MCReporting == {2}
=============================================================================
