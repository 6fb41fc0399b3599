----------------------------- MODULE MCRiskDesk -----------------------------
(* As many stocks as the table has entries, limits a few fills away, and a *)
(* price outside the band of every other.                                  *)
EXTENDS RiskDesk, TLC

CONSTANTS AAPL, MSFT
=============================================================================
