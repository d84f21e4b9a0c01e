---------------------------- MODULE MCCryptoDesk ----------------------------
(* Instances of CryptoDesk small enough for TLC.                           *)
EXTENDS CryptoDeskProperties, TLC

\* A loss of eight of a hundred trips the daily-loss and the drawdown breaker,
\* two in a row the streak; two trades judge a strategy,
\* whose running P&L has no peak of exactly zero.
MCPnls == {-8, 9}
NoCrashes == {}
\* An entry's price fetch raises; a guardian or a snipe dies after the order
\* row, which nothing ever settles.
Deaths == {<<"entry", "persist">>, <<"guardian", "fill">>, <<"snipe", "bought">>}
=============================================================================
