---------------------------- MODULE MCPgBouncer ----------------------------
(* TLC instances of PgBouncer: two backends, a connection of every kind.   *)
EXTENDS PgBouncer

CONSTANTS b1, b2, c1, c2, f1, o1, w1, q1, q2
=============================================================================
