-------------------------- MODULE MCPairExecution ---------------------------
(***************************************************************************)
(* Constants for checking PairExecution: two tracked symbols.              *)
(***************************************************************************)
EXTENDS PairExecution

CONSTANTS s1, s2

MCTrackedSymbols == <<s1, s2>>
MCOneSymbol      == <<s1>>
MCQuantities     == {1}
MCTwoQuantities  == {1, 2}
MCBothSides      == {Buy, Sell}
MCSpotBought     == {Buy}
=============================================================================
