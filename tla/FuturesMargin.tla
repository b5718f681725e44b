---------------------------- MODULE FuturesMargin ----------------------------
(***************************************************************************)
(* The arithmetic of a futures entry (shared/futures_margin.py): margin,   *)
(* liquidation price and the price of the stop that real mode places.      *)
(*                                                                         *)
(* Exact in the integers: rates are thousandths, and the prices of a       *)
(* position at leverage L are multiples of 1 / (1000 * L).                 *)
(***************************************************************************)
EXTENDS PositionBook

Thousand              == 1000
ACTUAL_LEVERAGE       == 1
MAX_LEVERAGE          == 2
MaxLossOfMargin       == 50    \* MAX_LOSS_FRACTION_OF_MARGIN = 0.05
MaintenanceMarginRate == 4     \* DEFAULT_MAINTENANCE_MARGIN_RATE = 0.004

Scaled(price, L) == price * (Thousand * L)

\* compute_required_margin, the notional of one unit being its price.
RequiredMargin(entry, L) == entry * Thousand

\* compute_liquidation_price.
LiquidationPrice(entry, L, side) ==
    IF side = Buy
    THEN entry * (Thousand * L - Thousand + MaintenanceMarginRate * L)
    ELSE entry * (Thousand * L + Thousand - MaintenanceMarginRate * L)

\* compute_max_loss_stop_price.
StopPrice(entry, L, side) ==
    IF side = Buy
    THEN entry * (Thousand * L - MaxLossOfMargin)
    ELSE entry * (Thousand * L + MaxLossOfMargin)
=============================================================================
