----------------------------- MODULE MCMarketData -----------------------------
(* MarketData alone: days of two hours and one symbol.                      *)
EXTENDS MarketData, TLC
=============================================================================
