------------------------------ MODULE MCWorker ------------------------------
(* Instances of Worker for TLC: who owns which job.                        *)
EXTENDS Worker, TLC

CONSTANTS j1, j2, alice

OneUser == j1 :> alice @@ j2 :> alice
=============================================================================
