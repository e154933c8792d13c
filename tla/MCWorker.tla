------------------------------ MODULE MCWorker ------------------------------
(* TLC instances of Worker: three jobs.                                    *)
EXTENDS Worker

CONSTANTS j1, j2, j3
=============================================================================
