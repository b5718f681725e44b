-------------------------- MODULE MCDecisionEngine --------------------------
(***************************************************************************)
(* Constants for checking DecisionEngine: two spot engines and a futures   *)
(* one. The ASSUMEs check the pure functions of MetaEngine against what is *)
(* expected of them, over small inputs.                                    *)
(***************************************************************************)
EXTENDS DecisionEngine, Sequences, FiniteSets

CONSTANTS momentum, imbalance, cascade

MCStrategies == {momentum, imbalance, cascade}
MCMarketOf   == [s \in MCStrategies |-> IF s = cascade THEN Futures ELSE Spot]
MCOpinions   == [side : Sides, score : {80}, confidence : {50}]
MCInherited  == {[s \in MCStrategies |->
                     CASE s = momentum  -> "validated"
                       [] s = imbalance -> second
                       [] OTHER         -> "production"] :
                    second \in {"unknown", "suspended"}}

-----------------------------------------------------------------------------

Voters     == 1..3
AnyOpinion == [side : Sides, score : {0, 50, 100}, confidence : {0, 40, 80}]
Ballots    == UNION {[V -> AnyOpinion] : V \in SUBSET Voters}
Mirror(b)  == [v \in DOMAIN b |-> [b[v] EXCEPT !.side = Opposite(@)]]
SidesOf(b) == {b[v].side : v \in DOMAIN b}

\* The side that wins is heard; turning every opinion around turns the winner around;
\* an engine without confidence weighs nothing; unanimity wins whenever it is heard.
ASSUME FusionIsFair ==
    \A b \in Ballots :
        /\ Fuse(b) # Undecided => Fuse(b).side \in SidesOf(b) /\ Fuse(b).confidence > 0
        /\ Fuse(Mirror(b)) = IF Fuse(b) = Undecided THEN Undecided
                             ELSE [Fuse(b) EXCEPT !.side = Opposite(@)]
        /\ Fuse(b) = Fuse([v \in {w \in DOMAIN b : b[w].confidence > 0} |-> b[v]])
        /\ Cardinality(SidesOf(b)) = 1 /\ (\E v \in DOMAIN b : b[v].confidence > 0)
               => Fuse(b).side \in SidesOf(b)

Orders   == {<<1, 2, 3>>, <<3, 1, 2>>, <<2, 3>>, <<1>>}
Momentum == [Voters -> -1..1]

\* One leader and one laggard, opposite in sign to each other's, or nobody is ranked:
\* exactly when all the momenta are equal.
ASSUME RanksAreUnique ==
    \A order \in Orders, m \in Momentum :
        LET symbols == {order[i] : i \in DOMAIN order}
            Ranked(r) == {s \in symbols : Rank(order, m, s) = r}
        IN IF Cardinality({m[s] : s \in symbols}) = 1 THEN Ranked(0) = symbols
           ELSE /\ Cardinality(Ranked(1)) = 1 /\ Cardinality(Ranked(-1)) = 1
                /\ \A s, t \in symbols : Rank(order, m, s) > Rank(order, m, t) => m[s] >= m[t]

Histories == [1..4 -> -2..2]

\* A market that turns around keeps its regime, "bullish" for "bearish"; the extremes of
\* its own history are never sideways nor of normal volatility; a short history is unknown.
ASSUME RegimesAreRelative ==
    \A h \in Histories : \A x \in {h[i] : i \in DOMAIN h} \ {0} :
        /\ (Trend(x, h) = "bullish") = (Trend(-x, h) = "bearish")
        /\ (\A i \in DOMAIN h : Magnitude(h[i]) <= Magnitude(x)) => Trend(x, h) # "sideways"
        /\ (\A i \in DOMAIN h : h[i] <= x) => VolatilityLevel(x, h) = "high"
        /\ DetectRegime(x, h, x, h, 5) = UnknownRegime
        /\ DetectRegime(x, h, x, h, 4) # UnknownRegime

\* The cost estimate of a decision and the expected value that decided it agree on what
\* covers the costs; funding received never lowers the net edge.
ASSUME CostsAgree ==
    \A m, fee, rate \in -2..2, spread, hours \in 0..2 :
        /\ \A v \in ExpectedValue([momentum |-> m, spread |-> spread], fee) :
              v > 0 <=> NetEdgeTimesEight(Magnitude(m), spread, fee, 0, 0, 0) > 0
        /\ rate >= 0 => NetEdgeTimesEight(m, spread, fee, rate, hours, 1)
                            >= NetEdgeTimesEight(m, spread, fee, rate, hours, -1)
        /\ ExpectedValue([momentum |-> m], fee) = {}

\* Backtest decides as paper does, and a bootstrap is at least as demanding as a calibrated
\* verdict on the same percentage.
ASSUME VerdictsAreGoverned ==
    /\ \A maturity \in L!Maturities, costed, probable, strong \in BOOLEAN :
          DeriveVerdict(Paper, maturity, costed, probable, strong)
              = DeriveVerdict(Backtest, maturity, costed, probable, strong)
    /\ \A score \in {0, 50, 60, 75, 100}, value, reward \in -1..3, risk \in 1..2 :
          EvaluateBootstrapVerdict([side |-> Buy, weight |-> score, confidence |-> 1],
                                   value, reward, risk) = "signal"
              => EvaluateVerdict(score, value, reward, risk) = "signal"
=============================================================================
