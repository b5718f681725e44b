---------------------------- MODULE PositionBook ----------------------------
(***************************************************************************)
(* The effect of one fill on the `positions` table (apply_fill of          *)
(* execution_engine/positions.py), shared by the pair execution service    *)
(* and by the paper and real execution modes.                              *)
(*                                                                         *)
(* The open position of a (symbol, market) is a signed quantity: 0 when no *)
(* row is open, positive when the row is long, negative when it is short.  *)
(* Prices and realised profit are left out.                                *)
(***************************************************************************)
EXTENDS Integers

Spot    == "spot"
Futures == "futures_perpetual"
Markets == {Spot, Futures}

Buy   == "buy"
Sell  == "sell"
Sides == {Buy, Sell}

Opposite(side) == IF side = Buy THEN Sell ELSE Buy

\* `desired_side` of a futures fill: a buy wants a long row, a sell a short one.
Signed(side, n) == IF side = Buy THEN n ELSE -n

SameDirection(q, side) == IF side = Buy THEN q > 0 ELSE q < 0

\* A buy opens or reinforces; a sell closes the WHOLE position, whatever the
\* quantity sold, and does nothing when no position is open.
SpotFill(q, side, n) == IF side = Buy THEN q + n ELSE 0

\* No row: the fill opens one in its own direction. Same direction: it
\* reinforces. Opposite direction: it closes the WHOLE position, never reverses it.
FuturesFill(q, side, n) ==
    IF q = 0 \/ SameDirection(q, side) THEN q + Signed(side, n) ELSE 0

ApplyFill(market, q, side, n) ==
    IF market = Futures THEN FuturesFill(q, side, n) ELSE SpotFill(q, side, n)
=============================================================================
