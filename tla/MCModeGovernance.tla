-------------------------- MODULE MCModeGovernance --------------------------
(***************************************************************************)
(* Constants for checking ModeGovernance: two requests at a time.          *)
(***************************************************************************)
EXTENDS ModeGovernance

CONSTANTS r1, r2, e1

MCTwoRequests  == {r1, r2}
MCOneExchange  == {e1}
MCEveryMode    == {"backtest", "paper", "real"}
=============================================================================
