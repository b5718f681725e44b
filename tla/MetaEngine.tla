----------------------------- MODULE MetaEngine -----------------------------
(***************************************************************************)
(* The pure functions a decision goes through (meta_engine/fusion.py,      *)
(* cross_sectional.py, cost_estimation.py, regime_engine/detector.py,      *)
(* decision_engine/thresholds.py and _derive_verdict of main.py).          *)
(*                                                                         *)
(* Scores, confidences and percentiles are percentages, money and rates    *)
(* integers; ratios are compared by cross-multiplication, exactly where    *)
(* the code compares floats.                                               *)
(***************************************************************************)
EXTENDS PositionBook, FiniteSetsExt

Paper    == "paper"
Real     == "real"
Backtest == "backtest"
Modes    == {Paper, Real, Backtest}

-----------------------------------------------------------------------------
(* Fusion: `opinions` maps engines to [side, score, confidence].           *)

\* What a side weighs: the sum of its confidences, and of its scores weighted by them.
Backers(opinions, side)    == {e \in DOMAIN opinions : opinions[e].side = side}
Confidence(opinions, side) ==
    SumFunctionOnSet([e \in DOMAIN opinions |-> opinions[e].confidence], Backers(opinions, side))
Weight(opinions, side) ==
    SumFunctionOnSet([e \in DOMAIN opinions |-> opinions[e].confidence * opinions[e].score],
                     Backers(opinions, side))

Undecided == [side |-> "none", weight |-> 0, confidence |-> 0]

Heard(opinions) == {side \in Sides : Confidence(opinions, side) > 0}

\* Its mean score is strictly greater: a tie elects nobody.
Outscores(opinions, side, other) ==
    Weight(opinions, side) * Confidence(opinions, other)
        > Weight(opinions, other) * Confidence(opinions, side)

Winners(opinions) ==
    {side \in Heard(opinions) :
        \A other \in Heard(opinions) \ {side} : Outscores(opinions, side, other)}

Fuse(opinions) ==
    IF Winners(opinions) = {} THEN Undecided
    ELSE LET side == CHOOSE w \in Winners(opinions) : TRUE
         IN [side |-> side, weight |-> Weight(opinions, side),
             confidence |-> Confidence(opinions, side)]

\* 0.75 or more.
StrongScore(fusion) == fusion.weight >= 75 * fusion.confidence

-----------------------------------------------------------------------------
(* Which opinions are fused, and what their fusion is worth.               *)

LiveEligibleStatuses   == {"validated", "production", "under_review"}
AlwaysExcludedStatuses == {"registered", "collecting", "suspended", "deprecated"}

\* A strategy without a row trades on paper, never for real.
IsExcluded(status, mode) ==
    IF status = "unknown" THEN mode = Real
    ELSE \/ status \in AlwaysExcludedStatuses
         \/ mode = Real /\ status \notin LiveEligibleStatuses

\* `passes` says whether the calibrated probability, or the raw score for a bootstrap,
\* clears its threshold together with expected value and risk/reward.
SignalIf(passes) == IF passes THEN "signal" ELSE "no_signal"

\* Mutant: what is preliminary is applied before the mode is looked at.
DeriveVerdictModeLast(mode, maturity, costed, probable, strong) ==
    IF ~costed THEN "no_signal"
    ELSE IF maturity \in {"validated", "preliminary"} THEN SignalIf(probable)
    ELSE IF mode = Real THEN "insufficient_calibration"
    ELSE SignalIf(strong)

DeriveVerdict(mode, maturity, costed, probable, strong) ==
    IF ~costed THEN "no_signal"
    ELSE IF maturity = "validated" THEN SignalIf(probable)
    ELSE IF mode = Real THEN "insufficient_calibration"
    ELSE IF maturity = "preliminary" THEN SignalIf(probable)
    ELSE SignalIf(strong)

\* evaluate_verdict and evaluate_bootstrap_verdict: percentages, a strictly positive value,
\* a reward of three halves of the risk.
EvaluateVerdict(probability, value, reward, risk) ==
    SignalIf(probability >= 55 /\ value > 0 /\ 2 * reward >= 3 * risk)
EvaluateBootstrapVerdict(fusion, value, reward, risk) ==
    SignalIf(StrongScore(fusion) /\ value > 0 /\ 2 * reward >= 3 * risk)

\* FEATURE_FRESHNESS_SECONDS.
IsDataFresh(age) == age <= 120

-----------------------------------------------------------------------------
(* Momentum of each symbol, ranked. `order` is the order of iteration:     *)
(* the first of equals is chosen, and if it leads and lags none is ranked. *)

\* Its momentum, times `sign`, is at least everyone else's.
Extremum(order, sign, momentum) ==
    LET best == {i \in DOMAIN order :
                    \A j \in DOMAIN order : sign * momentum[order[j]] <= sign * momentum[order[i]]}
    IN order[CHOOSE i \in best : \A j \in best : i <= j]

Leader(order, momentum)  == Extremum(order, 1, momentum)
Laggard(order, momentum) == Extremum(order, -1, momentum)

Rank(order, momentum, symbol) ==
    IF DOMAIN order \subseteq {1} \/ Leader(order, momentum) = Laggard(order, momentum) THEN 0
    ELSE IF symbol = Leader(order, momentum) THEN 1
    ELSE IF symbol = Laggard(order, momentum) THEN -1
    ELSE 0

-----------------------------------------------------------------------------
(* Costs, in basis points.                                                 *)

\* `hours` held over settlements of eight hours, times eight.
FundingImpactTimesEight(rate, hours, direction) == rate * hours * direction

NetEdgeTimesEight(raw, spread, fee, rate, hours, direction) ==
    8 * (raw - spread - fee)
        + IF hours > 0 THEN FundingImpactTimesEight(rate, hours, direction) ELSE 0

Magnitude(x) == IF x < 0 THEN -x ELSE x

\* `features` is defined on those that are known. At most one value comes out: none when a
\* feature is missing or no volatility was measured. A decision expects no funding.
ExpectedValue(features, fee) ==
    IF {"momentum", "spread"} \subseteq DOMAIN features
    THEN {Magnitude(features["momentum"]) - features["spread"] - fee} ELSE {}

\* As a pair <<reward, risk>>.
RiskReward(features) ==
    IF {"momentum", "volatility"} \subseteq DOMAIN features /\ features["volatility"] > 0
    THEN {<<Magnitude(features["momentum"]), features["volatility"]>>} ELSE {}

\* A documented tariff on futures; on spot the measured one, if there is one.
RoundTripFee(market, measured) ==
    IF market = Futures THEN {10}
    ELSE IF measured = {} THEN {40} ELSE {2 * fee : fee \in measured}

-----------------------------------------------------------------------------
(* Market regime: the present against its own history.                     *)

\* The share of a history that is at most the value, compared to a percentage.
Share(value, history)     == 100 * Cardinality({i \in DOMAIN history : history[i] <= value})
Percent(history, percent) == percent * Cardinality(DOMAIN history)

Trend(momentum, history) ==
    IF Share(Magnitude(momentum), [i \in DOMAIN history |-> Magnitude(history[i])])
           < Percent(history, 40)
    THEN "sideways"
    ELSE IF momentum > 0 THEN "bullish" ELSE "bearish"

VolatilityLevel(volatility, history) ==
    IF Share(volatility, history) >= Percent(history, 75) THEN "high"
    ELSE IF Share(volatility, history) <= Percent(history, 25) THEN "low" ELSE "normal"

UnknownRegime == <<"unknown", "unknown">>

DetectRegime(momentum, momentums, volatility, volatilities, minimum) ==
    IF \E h \in {momentums, volatilities} : Cardinality(DOMAIN h) < minimum THEN UnknownRegime
    ELSE <<Trend(momentum, momentums), VolatilityLevel(volatility, volatilities)>>
=============================================================================
