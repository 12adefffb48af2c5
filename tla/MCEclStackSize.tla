--------------------------- MODULE MCEclStackSize ---------------------------
(* EclStackSize for TLC: the frame stack may be resized at any time, the   *)
(* binding stack only grows by overflows.                                  *)
EXTENDS EclStackSize

MCLimits == [bds |-> {}, frs |-> {1, 5}]

(* For the runs on one stack.                                              *)
MCFramesLimits == [frs |-> {}]
=============================================================================
