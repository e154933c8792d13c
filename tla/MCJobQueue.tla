----------------------------- MODULE MCJobQueue -----------------------------
(* TLC instances of JobQueue: up to two jobs, two workers.                 *)
EXTENDS JobQueue, TLC

CONSTANTS j1, j2, w1, w2

\* Both workers claim every kind.
MCServes == (w1 :> {j1, j2}) @@ (w2 :> {j1, j2})

\* The second worker does not claim the kind of j2.
MCServesMixed == (w1 :> {j1, j2}) @@ (w2 :> {j1})

\* Both workers claim the only job.
MCServesOne == (w1 :> {j1}) @@ (w2 :> {j1})
=============================================================================
