---------------------------- MODULE ClosedTrades ----------------------------
(***************************************************************************)
(* The closed positions, as strategy_lifecycle and calibration read them,  *)
(* and the metrics of strategy_lifecycle/metrics.py.                       *)
(*                                                                         *)
(* A trade is attributed to a strategy through its decision, or through    *)
(* the opinions that contributed to it: `by` is a set. Its profit is in    *)
(* the reference currency and in basis points of the entry; the two may    *)
(* rank trades differently. Trades are numbered by closed_at.              *)
(***************************************************************************)
EXTENDS Integers, Sequences, FiniteSetsExt

CONSTANTS
    Strategies,
    Closings,       \* [by, pnl, bps] of the trades that may close
    MaxTrades       \* bound on the closed trades

ASSUME ClosingsAssumption  == Closings \subseteq [by : SUBSET Strategies, pnl : Int, bps : Int]
ASSUME MaxTradesAssumption == MaxTrades \in Nat \ {0}

VARIABLE trades

\* Trades of a strategy closed strictly after the first `since`.
Attributed(s, since) == {i \in (since + 1)..Len(trades) : s \in trades[i].by}

\* ORDER BY closed_at DESC LIMIT.
Newest(I, limit) == {i \in I : Cardinality({j \in I : j > i}) < limit}

Pnl(I)    == SumFunctionOnSet([i \in DOMAIN trades |-> trades[i].pnl], I)
Bps(I)    == SumFunctionOnSet([i \in DOMAIN trades |-> trades[i].bps], I)
Wins(I)   == Pnl({i \in I : trades[i].pnl > 0})
Losses(I) == -Pnl({i \in I : trades[i].pnl < 0})

\* Means and ratios are compared by cross-multiplication; without a loss there is no
\* profit factor, without a trade no expectancy.
ExpectancyAbove(I, edge)  == I # {} /\ Bps(I) > edge * Cardinality(I)
ExpectancyNegative(I)     == Bps(I) < 0
ProfitFactorBelow(I, tenths) == Losses(I) > 0 /\ 10 * Wins(I) < tenths * Losses(I)

CloseTrade(t) ==
    /\ Len(trades) < MaxTrades                                \* bound
    /\ trades' = Append(trades, t)
=============================================================================
