--------------------------- MODULE MCOrchestrator ----------------------------
(***************************************************************************)
(* Constants for checking Orchestrator.                                    *)
(***************************************************************************)
EXTENDS Orchestrator

CONSTANTS s1, s2

MCOneSymbol  == {s1}
MCUndeclared == {"unset"}
MCPaperOnly  == {"paper"}
MCPaperReal  == {"paper", "real"}
=============================================================================
