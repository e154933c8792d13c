------------------------------ MODULE MCFleet ------------------------------
(* TLC instances of Fleet: up to four rows, two tasks with batches of two, *)
(* one that claims row by row, and a fair one with batch 1 and cap 1.      *)
EXTENDS Fleet, TLC

CONSTANTS j1, j2, j3, j4, w1, w2, lat, fair

\* Carrier A has a burst; the row of B falls due with the last of it.
MCCarrier == [j \in Rows |-> IF j = j4 THEN "B" ELSE "A"]
MCBurst   == (j1 :> 0) @@ (j2 :> 0) @@ (j3 :> 1) @@ (j4 :> 1)
MCBench   == [j \in Rows |-> 0]
MCBacklog == [p \in Programs |-> IF p = "demo_fairness" THEN MCBurst ELSE MCBench]

MCLimit == (w1 :> 2) @@ (w2 :> 2) @@ (lat :> 1) @@ (fair :> 4)
MCCap   == (w1 :> 2) @@ (w2 :> 2) @@ (lat :> 1) @@ (fair :> 1)

MCHandles == [bench_throughput    |-> << <<w1, w2>>, <<w1, w2>> >>,
              bench_claim_latency |-> << <<lat>> >>,
              demo_skip_locked    |-> << <<w1, w2>> >>,
              demo_fairness       |-> << <<w1>>, <<fair>> >>]
=============================================================================
