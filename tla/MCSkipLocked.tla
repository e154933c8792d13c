---------------------------- MODULE MCSkipLocked ----------------------------
(* TLC instances of SkipLocked: two rows of carrier A, one of B.           *)
EXTENDS SkipLocked, TLC

CONSTANTS j1, j2, j3, w1, w2

MCCarrier == (j1 :> "A") @@ (j2 :> "A") @@ (j3 :> "B")

\* w1 uses fair_claim with batch 1, and w2 claim_batch with n = 2.
MCLimit == (w1 :> 4) @@ (w2 :> 2)
MCCap   == (w1 :> 1) @@ (w2 :> 2)

\* Both workers use fair_claim with batch 1.
MCBothFair == (w1 :> 4) @@ (w2 :> 4)
MCBothCap  == (w1 :> 1) @@ (w2 :> 1)

\* The rows of carrier A are interchangeable.
MCSymmetry == Permutations({j1, j2})
=============================================================================
