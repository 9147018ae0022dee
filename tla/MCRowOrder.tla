------------------------------ MODULE MCRowOrder ------------------------------
(* TLC instances of RowOrder: see MCRowOrder*.cfg.                         *)
EXTENDS RowOrder
===============================================================================
