--------------------------- MODULE MCFpgaPipeline ---------------------------
(* A window of two ticks and levels of two orders.  The first order centres *)
(* the window: after a first order at 10 the price 12 is outside it, after  *)
(* a first order at 12 both are inside.  Prices lie on the tick grid.       *)
EXTENDS FpgaPipeline

MCRefs == 1 .. MaxCycles
MCPrices == {10, 12}
=============================================================================
