----------------------------- MODULE MCLearning -----------------------------
(***************************************************************************)
(* Constants for checking Learning: two strategies, trades that win, lose  *)
(* the edge or ruin. A gain in currency may be a loss in basis points.     *)
(***************************************************************************)
EXTENDS Learning

CONSTANTS s1, s2

MCStrategies == {s1, s2}

Trade(by, pnl, bps) == [by |-> by, pnl |-> pnl, bps |-> bps]
MCClosings == {Trade({s1}, -6, -60), Trade({s1}, 3, 50),
               Trade(MCStrategies, 3, 50), Trade(MCStrategies, 1, -5)}

\* A strategy to register or to bring down, one that can only come back.
MCInherited  == {[s \in MCStrategies |-> IF s = s1 THEN first ELSE "suspended"] :
                    first \in {"unknown", "validated"}}
=============================================================================
