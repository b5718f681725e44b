-------------------------- MODULE MCRealExecution ---------------------------
(***************************************************************************)
(* Constants for checking RealExecution: Binance has conditional orders    *)
(* and wants the symbol of an order; HTX neither.                          *)
(***************************************************************************)
EXTENDS RealExecution

CONSTANTS binance, htx

MCExchanges   == {binance, htx}
MCSymbolBound == {binance}
MCConditional == {binance}
\* Two units of spot, to be executed in part.
MCQuantities  == [m \in Markets |-> IF m = Spot THEN {2} ELSE {1}]
=============================================================================
