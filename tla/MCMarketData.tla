---------------------------- MODULE MCMarketData -----------------------------
(***************************************************************************)
(* Constants for checking MarketData: the trades of HTX, whose messages    *)
(* carry several.                                                          *)
(***************************************************************************)
EXTENDS MarketData

CONSTANT htx

MCFeed      == {htx}
MCNoBinance == {}
=============================================================================
