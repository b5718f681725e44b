-------------------------- MODULE LearningContract --------------------------
(***************************************************************************)
(* What the services that learn from the closed trades promise to the one  *)
(* that decides (decision_engine reads two tables they write: the          *)
(* lifecycle status of each strategy and the active calibration). Learning *)
(* implements it; DecisionEngine rests on it alone.                        *)
(***************************************************************************)
EXTENDS Naturals

CONSTANT Strategies

VARIABLES
    status,      \* strategy_lifecycle_state.status
    active       \* maturity of the calibration that is active

Statuses == {"registered", "collecting", "experimental", "validated", "production",
             "under_review", "degraded", "suspended", "deprecated"}

\* A strategy without a row in strategy_lifecycle_state.
Unknown == "unknown"

LiveEligible        == {"validated", "production", "under_review"}
AlwaysExcluded      == {"registered", "collecting", "suspended", "deprecated"}
EvictionEligible    == {"experimental", "validated", "production", "under_review", "degraded"}
ResurrectionEligible == {"degraded", "suspended"}

\* Confidence levels; "collecting" is also what is said of no calibration at all.
Maturities == {"collecting", "preliminary", "validated"}

\* Where a cycle may take a strategy: down by one of two steps, up from the bottom to
\* "experimental"; never to a live status but "under_review".
Evictions == [under_review |-> {"experimental", "validated", "production"},
              degraded     |-> {"experimental", "validated", "production", "under_review"},
              experimental |-> ResurrectionEligible]

Register(s) ==
    /\ status[s] = Unknown
    /\ status' = [status EXCEPT ![s] = "experimental"]
    /\ UNCHANGED active

Transition(s) ==
    /\ \E new \in DOMAIN Evictions :
          /\ status[s] \in Evictions[new]
          /\ status' = [status EXCEPT ![s] = new]
    /\ UNCHANGED active

\* An activation may replace a validated calibration by a preliminary one; in between
\* there may be none.
Activate ==
    /\ active' \in Maturities
    /\ UNCHANGED status

Init ==
    /\ status \in [Strategies -> Statuses \union {Unknown}]
    /\ active \in Maturities

Next == Activate \/ \E s \in Strategies : Register(s) \/ Transition(s)

Spec == Init /\ [][Next]_<<status, active>>
=============================================================================
