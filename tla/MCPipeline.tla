----------------------------- MODULE MCPipeline -----------------------------
(* TLC instances of Pipeline: j1 and j2 are about one event, j3 another.   *)
EXTENDS Pipeline, TLC

CONSTANTS j1, j2, j3, k1, k2

MCKey   == [j \in Jobs |-> IF j = j3 THEN k2 ELSE k1]
MCRuns  == Jobs \X (1 .. MaxAttempts)
MCKeyOf == [r \in Runs |-> Key[r[1]]]
=============================================================================
