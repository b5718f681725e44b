------------------------------ MODULE MCAlerts -------------------------------
(***************************************************************************)
(* Constants for checking Alerts: one feed of each exchange.               *)
(***************************************************************************)
EXTENDS Alerts

CONSTANTS htx, binance

MCFeeds   == {htx, binance}
MCBinance == {binance}
=============================================================================
