------------------------------- MODULE MCBatch -------------------------------
(* TLC instances of Batch: see MCBatch*.cfg.                               *)
EXTENDS Batch
===============================================================================
