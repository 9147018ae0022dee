------------------------------ MODULE MCPackage ------------------------------
(* Package with its streams as model values that may be exchanged: their   *)
(* names matter to nothing in Package, and the run has no liveness.        *)
EXTENDS Package, TLC

StreamSymmetry == Permutations(Streams)
===============================================================================
