---------------------------- MODULE MCParallelMap ----------------------------
(* TLC instances of ParallelMap: see MCParallelMap*.cfg.                   *)
EXTENDS ParallelMap
=============================================================================
