------------------------- MODULE MCBarrierSimulator -------------------------
(* Simulations of functions that use all the barriers there may be.        *)
EXTENDS BarrierSimulator, BarrierFunctions, TLC

Functions == FunctionsWith(NumBarriers)
=============================================================================
