------------------------------- MODULE MCMasks -------------------------------
(* MasksStep on every graph of StructuredCfgs, for every order in which the *)
(* blocks may follow the entry block.                                       *)
EXTENDS Masks, StructuredCfgs
=============================================================================
