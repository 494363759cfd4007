----------------------- MODULE MCBarrierLegalization -----------------------
(* Legalization of functions that leave room for more barriers.            *)
EXTENDS BarrierLegalization, BarrierFunctions, TLC

CONSTANT Wired   \* barriers of the functions

Functions == FunctionsWith(Wired)
=============================================================================
