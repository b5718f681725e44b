---------------------------- MODULE RealExecution ----------------------------
(***************************************************************************)
(* One order in real mode, against what the exchange does with it          *)
(* (execution_engine/modes/real.py, its adapters, positions.py and the     *)
(* reconciliation at start-up).                                            *)
(*                                                                         *)
(* Orchestrator decides WHETHER an order is sent; this module is about     *)
(* HOW: the exchange is a second database, written by calls that can fail  *)
(* before or after they take effect, and read by polling. One coroutine    *)
(* executes the orders one after the other; the exchange fills, cancels    *)
(* and triggers when it likes.                                             *)
(*                                                                         *)
(* One symbol per exchange. History variables, read by no action of the    *)
(* program: announced (the events published about each order), held and    *)
(* triggered (what no code ever asks the exchange).                        *)
(***************************************************************************)
EXTENDS PositionBook, Functions

CONSTANTS
    Exchanges,        \* ACTIVE_EXCHANGES
    SymbolBound,      \* exchanges whose get_order_status needs the symbol
    Conditional,      \* exchanges whose futures adapter SupportsConditionalOrders
    MaxOrders,        \* bound on the orders executed
    Quantities,       \* units an order may ask for, by market
    PollAttempts,     \* FILL_POLL_ATTEMPTS
    MaxFaults         \* bound on failed calls and crashes

ASSUME ExchangesAssumption    == Exchanges # {}
ASSUME AdaptersAssumption     == SymbolBound \subseteq Exchanges /\ Conditional \subseteq Exchanges
ASSUME MaxOrdersAssumption    == MaxOrders \in Nat \ {0}
ASSUME QuantitiesAssumption   ==
    \A m \in Markets : Quantities[m] # {} /\ Quantities[m] \subseteq Nat \ {0}
ASSUME PollAttemptsAssumption == PollAttempts \in Nat \ {0}
ASSUME MaxFaultsAssumption    == MaxFaults \in Nat

VARIABLES
    attested,     \* a row futures_real_trading_enabled exists
    sellable,     \* exchanges where the batch at hand was judged over an open spot position
    count,        \* orders begun; ids grow with time
    asked,        \* what each order asks for
    resting,      \* spot orders the exchange holds: "none", "open", "filled", "cancelled"
    executed,     \* units of each spot order the exchange has executed
    stops,        \* stop orders live on the exchange, named by the entry they protect
    held,         \* signed futures units that the exchange holds
    book,         \* open real position of each exchange and market
    rows,         \* the row of `orders` of each order
    run,          \* the coroutine: its next step and the locals it carries
    faults,       \* failed calls and crashes so far
    announced,    \* history: events published about each order
    triggered     \* history: stops the exchange triggered

exchange == <<resting, executed, stops, held, triggered>>
database == <<attested, book, rows>>
vars     == <<attested, sellable, count, asked, resting, executed, stops, held, book, rows,
              run, faults, announced, triggered>>

Ids     == 1..MaxOrders
NoOrder == 0

\* An open row: signed quantity (0 = no row), stop_loss_order_id (0 = NULL), decision_id.
NoPosition == [quantity |-> 0, stop |-> NoOrder, decision |-> NoOrder]
NoRow      == [status |-> "none", filled |-> 0]
NotAsked   == [exchange |-> CHOOSE e \in Exchanges : TRUE, market |-> Spot, side |-> Buy,
               quantity |-> 0]

Steps    == {"down", "idle", "gate", "place", "poll", "fill", "stop", "record", "cancel", "row"}
Statuses == {"pending", "filled", "rejected", "cancelled"}
Events   == {"gate_refused", "no_capability", "placement_failed", "attached", "cancel_failed"}

Idle(step) == [step |-> step, status |-> "pending", filled |-> 0, attempts |-> 0, stop |-> NoOrder]

\* The order at hand.
cur     == count
Order   == asked[cur]
Venue   == Order.exchange
Units   == Order.quantity
GoTo(step)      == [run EXCEPT !.step = step]
RecordAs(status) == [run EXCEPT !.step = "row", !.status = status]

Announce(event) == announced' = [announced EXCEPT ![cur] = @ \union {event}]

-----------------------------------------------------------------------------

Init ==
    /\ attested \in BOOLEAN
    /\ sellable = {}
    /\ count = 0
    /\ asked = [i \in Ids |-> NotAsked]
    /\ resting = [i \in Ids |-> "none"]
    /\ executed = [i \in Ids |-> 0]
    /\ stops = {}
    /\ held = [e \in Exchanges |-> 0]
    /\ book = [e \in Exchanges |-> [m \in Markets |-> NoPosition]]
    /\ rows = [i \in Ids |-> NoRow]
    /\ run = Idle("idle")
    /\ faults = 0
    /\ announced = [i \in Ids |-> {}]
    /\ triggered = {}

-----------------------------------------------------------------------------
(* The coroutine. `execute` chooses the road by market_type; everything    *)
(* from the call of place_order on is in a try whose `except` records the  *)
(* order as rejected and whose `finally` inserts the row of `orders`. An   *)
(* exception goes up to the loop, which drops what is left of the batch.   *)

\* The risk engine judges a whole batch before its first order is executed, and
\* SpotNoShortingRule passes a spot sale only over an open position.
JudgeBatch ==
    /\ run.step = "idle"
    /\ sellable' = {e \in Exchanges : book[e][Spot].quantity > 0}
    /\ UNCHANGED <<exchange, database, count, asked, run, faults, announced>>

\* A sale of the batch may come after another one that closed the position.
Execute(e, m, s, q) ==
    /\ run.step = "idle"
    /\ count < MaxOrders                                      \* bound
    /\ (m = Spot /\ s = Sell) => e \in sellable
    /\ count' = count + 1
    /\ asked' = [asked EXCEPT ![count + 1] =
                    [exchange |-> e, market |-> m, side |-> s, quantity |-> q]]
    /\ run' = Idle(IF m = Futures THEN "gate" ELSE "place")
    /\ UNCHANGED <<exchange, database, sellable, faults, announced>>

PassGate ==
    /\ run.step = "gate"
    /\ attested
    /\ run' = GoTo("place")
    /\ UNCHANGED <<exchange, database, sellable, count, asked, faults, announced>>

\* Inserts its rejected row before it raises, outside the try.
RefuseAtGate ==
    /\ run.step = "gate"
    /\ ~attested
    /\ run' = RecordAs("rejected")
    /\ Announce("gate_refused")
    /\ sellable' = {}
    /\ UNCHANGED <<exchange, database, count, asked, faults>>

\* Units the exchange has delivered through each order, bought minus sold.
Delivered == [i \in Ids |-> Signed(asked[i].side, executed[i])]

SpotOrders(e) == {i \in 1..count : asked[i].exchange = e /\ asked[i].market = Spot}

\* What the account holds, and what of it no resting sale has reserved. It holds nothing
\* but what the program bought.
Holding(e) == SumFunctionOnSet(Delivered, SpotOrders(e))
Available(e) ==
    Holding(e) - SumFunctionOnSet([i \in Ids |-> asked[i].quantity - executed[i]],
                     {i \in SpotOrders(e) : asked[i].side = Sell /\ resting[i] = "open"})

\* A spot order carries a price: it is a LIMIT order that rests on the exchange.
PlaceSpot ==
    /\ run.step = "place"
    /\ Order.market = Spot
    /\ Order.side = Sell => Available(Venue) >= Units
    /\ resting' = [resting EXCEPT ![cur] = "open"]
    /\ run' = GoTo("poll")
    /\ UNCHANGED <<executed, stops, held, triggered, database, sellable, count, asked, faults, announced>>

\* A sale is sized on the capital, not on what is held: the exchange refuses it.
RefuseSale ==
    /\ run.step = "place"
    /\ Order.market = Spot
    /\ Order.side = Sell /\ Available(Venue) < Units
    /\ run' = RecordAs("rejected")
    /\ sellable' = {}
    /\ UNCHANGED <<exchange, database, count, asked, faults, announced>>

\* What the exchange holds once it has accepted the futures order at hand: it nets
\* purchases and sales. (HTX would keep the two sides apart; it has no stops, and only a
\* stop is ever compared with what is held.)
HeldAfterOrder == [held EXCEPT ![Venue] = @ + Signed(Order.side, Units)]

\* A futures order is a market order, taken as filled as soon as it is accepted.
PlaceFutures ==
    /\ run.step = "place"
    /\ Order.market = Futures
    /\ held' = HeldAfterOrder
    /\ run' = [run EXCEPT !.step = "fill", !.status = "filled", !.filled = Units]
    /\ UNCHANGED <<resting, executed, stops, triggered, database, sellable, count, asked, faults, announced>>

\* get_order_status: the state the adapter reports.
ReportedState(i) ==
    CASE resting[i] = "filled" -> "filled"
      [] resting[i] = "cancelled" -> (IF executed[i] > 0 THEN "partial-canceled" ELSE "canceled")
      [] OTHER -> (IF executed[i] > 0 THEN "partial-filled" ELSE "submitted")

FillReported == [run EXCEPT !.step = "fill", !.status = "filled", !.filled = executed[cur]]
AskAgain     == IF run.attempts + 1 < PollAttempts THEN [run EXCEPT !.attempts = @ + 1]
                ELSE RecordAs("pending")

\* Mutant: keeps the exchange's own word for a cancelled order.
AfterPollSpelledTheirWay ==
    CASE ReportedState(cur) = "filled" -> FillReported
      [] ReportedState(cur) \in {"canceled", "partial-canceled"} -> RecordAs("canceled")
      [] OTHER -> AskAgain

\* Mutant: an order executed in part passes for an order filled.
AfterPartialPoll ==
    CASE ReportedState(cur) \in {"filled", "partial-filled"} -> FillReported
      [] ReportedState(cur) \in {"canceled", "partial-canceled"} -> RecordAs("cancelled")
      [] OTHER -> AskAgain

\* Mutant: the attempts are not counted.
AfterEndlessPoll ==
    CASE ReportedState(cur) = "filled" -> FillReported
      [] ReportedState(cur) \in {"canceled", "partial-canceled"} -> RecordAs("cancelled")
      [] OTHER -> run

\* filled, with what the exchange says it executed; cancelled, whatever was executed
\* before; otherwise sleep and ask again, a fixed number of times.
AfterPoll ==
    CASE ReportedState(cur) = "filled" -> FillReported
      [] ReportedState(cur) \in {"canceled", "partial-canceled"} -> RecordAs("cancelled")
      [] OTHER -> AskAgain

Poll ==
    /\ run.step = "poll"
    /\ Venue \notin SymbolBound
    /\ run' = AfterPoll
    /\ UNCHANGED <<exchange, database, sellable, count, asked, faults, announced>>

\* _poll_fill_confirmation does not pass the symbol, and BinanceAdapter.get_order_status
\* raises without it: the order, already accepted, is recorded as rejected.
PollWithoutSymbol ==
    /\ run.step = "poll"
    /\ Venue \in SymbolBound
    /\ run' = RecordAs("rejected")
    /\ sellable' = {}
    /\ UNCHANGED <<exchange, database, count, asked, faults, announced>>

\* Mutant: the row of a closed position keeps its quantity.
FilledRowKeptOpen(row) ==
    LET filled == ApplyFill(Order.market, row.quantity, Order.side, run.filled)
    IN IF filled = 0 THEN [row EXCEPT !.stop = NoOrder]
       ELSE IF row.quantity = 0 THEN [NoPosition EXCEPT !.quantity = filled, !.decision = cur]
       ELSE [row EXCEPT !.quantity = filled]

\* apply_fill: a position that is reinforced keeps its stop, a closed row gives up its own.
FilledRow(row) ==
    LET filled == ApplyFill(Order.market, row.quantity, Order.side, run.filled)
    IN IF filled = 0 THEN NoPosition
       ELSE IF row.quantity = 0 THEN [NoPosition EXCEPT !.quantity = filled, !.decision = cur]
       ELSE [row EXCEPT !.quantity = filled]

\* What a futures fill did decides what follows: a fresh position gets a stop, a closed
\* one has its stop cancelled (when one was recorded), a reinforced one nothing.
ApplyFillToBook ==
    LET before == book[Venue][Order.market]
        after  == FilledRow(before)
    IN /\ run.step = "fill"
       /\ book' = [book EXCEPT ![Venue][Order.market] = after]
       /\ run' = IF Order.market = Futures /\ before.quantity = 0 THEN GoTo("stop")
                 ELSE IF Order.market = Futures /\ after.quantity = 0 /\ before.stop # NoOrder
                         /\ Venue \in Conditional
                      THEN [run EXCEPT !.step = "cancel", !.stop = before.stop]
                      ELSE GoTo("row")
       /\ UNCHANGED <<exchange, attested, rows, sellable, count, asked, faults, announced>>

\* Mutant: an exchange without conditional orders is passed over in silence.
SkipStopSilently ==
    /\ run.step = "stop"
    /\ Venue \notin Conditional
    /\ run' = GoTo("row")
    /\ UNCHANGED <<exchange, database, sellable, count, asked, faults, announced>>

LackStopCapability ==
    /\ run.step = "stop"
    /\ Venue \notin Conditional
    /\ Announce("no_capability")
    /\ run' = GoTo("row")
    /\ UNCHANGED <<exchange, database, sellable, count, asked, faults>>

\* The second call of the entry, never atomic with the first.
PlaceStop ==
    /\ run.step = "stop"
    /\ Venue \in Conditional
    /\ stops' = stops \union {cur}
    /\ run' = GoTo("record")
    /\ UNCHANGED <<resting, executed, held, triggered, database, sellable, count, asked, faults, announced>>

\* Mutant: a failed placement is not announced.
MissStopSilently ==
    /\ run.step = "stop"
    /\ Venue \in Conditional
    /\ faults < MaxFaults                                     \* bound
    /\ faults' = faults + 1
    /\ stops' \in {stops, stops \union {cur}}
    /\ run' = GoTo("row")
    /\ UNCHANGED <<resting, executed, held, triggered, database, sellable, count, asked, announced>>

\* The call raises, refused by the exchange or with its answer lost.
MissStop ==
    /\ run.step = "stop"
    /\ Venue \in Conditional
    /\ faults < MaxFaults                                     \* bound
    /\ faults' = faults + 1
    /\ stops' \in {stops, stops \union {cur}}
    /\ Announce("placement_failed")
    /\ run' = GoTo("row")
    /\ UNCHANGED <<resting, executed, held, triggered, database, sellable, count, asked>>

\* Mutant: the identifier of the stop is announced but not written in the row.
AnnounceUnrecordedStop ==
    /\ run.step = "record"
    /\ Announce("attached")
    /\ run' = GoTo("row")
    /\ UNCHANGED <<exchange, database, sellable, count, asked, faults>>

\* record_conditional_order_ids, then the event.
RecordStop ==
    /\ run.step = "record"
    /\ book' = [book EXCEPT ![Venue][Futures].stop = cur]
    /\ Announce("attached")
    /\ run' = GoTo("row")
    /\ UNCHANGED <<exchange, attested, rows, sellable, count, asked, faults>>

\* An order the exchange does not know any more (-2011) counts as cancelled.
CancelStop ==
    /\ run.step = "cancel"
    /\ stops' = stops \ {run.stop}
    /\ run' = GoTo("row")
    /\ UNCHANGED <<resting, executed, held, triggered, database, sellable, count, asked, faults, announced>>

MissCancellation ==
    /\ run.step = "cancel"
    /\ faults < MaxFaults                                     \* bound
    /\ faults' = faults + 1
    /\ stops' \in {stops, stops \ {run.stop}}
    /\ Announce("cancel_failed")
    /\ run' = GoTo("row")
    /\ UNCHANGED <<resting, executed, held, triggered, database, sellable, count, asked>>

\* `finally`: the status, and the quantity even when an exception made it rejected.
InsertOrderRow ==
    /\ run.step = "row"
    /\ rows' = [rows EXCEPT ![cur] = [status |-> run.status, filled |-> run.filled]]
    /\ run' = Idle("idle")
    /\ UNCHANGED <<exchange, attested, book, sellable, count, asked, faults, announced>>

-----------------------------------------------------------------------------
(* What goes wrong around a step.                                          *)

\* A call of the adapter or of the database raises inside the try: refused before it
\* took effect, or after place_order did (the answer is lost).
CallRaises ==
    /\ run.step \in {"place", "poll", "fill", "record"}
    /\ faults < MaxFaults                                     \* bound
    /\ faults' = faults + 1
    /\ run' = RecordAs("rejected")
    /\ IF run.step = "place" /\ Order.market = Spot
          /\ (Order.side = Sell => Available(Venue) >= Units)
       THEN resting' \in {resting, [resting EXCEPT ![cur] = "open"]}
       ELSE UNCHANGED resting
    /\ IF run.step = "place" /\ Order.market = Futures
       THEN held' \in {held, HeldAfterOrder}
       ELSE UNCHANGED held
    /\ sellable' = {}
    /\ UNCHANGED <<executed, stops, triggered, database, count, asked, announced>>

\* The attestation cannot be read, or the row not inserted: no row at all.
RowIsLost ==
    /\ run.step \in {"gate", "row"}
    /\ faults < MaxFaults                                     \* bound
    /\ faults' = faults + 1
    /\ run' = Idle("idle")
    /\ sellable' = {}
    /\ UNCHANGED <<exchange, database, count, asked, announced>>

Crash ==
    /\ run.step # "down"
    /\ faults < MaxFaults                                     \* bound
    /\ faults' = faults + 1
    /\ run' = Idle("down")
    /\ sellable' = {}
    /\ UNCHANGED <<exchange, database, count, asked, announced>>

\* reconcile_open_positions and reconcile_pending_orders read and count, and ask the
\* exchange nothing: the loop starts again on the database as it is.
Restart ==
    /\ run.step = "down"
    /\ run' = Idle("idle")
    /\ UNCHANGED <<exchange, database, sellable, count, asked, faults, announced>>

-----------------------------------------------------------------------------
(* Everybody else.                                                         *)

\* The operator attests that real futures trading is enabled; nothing takes it back.
Attest ==
    /\ ~attested
    /\ attested' = TRUE
    /\ UNCHANGED <<exchange, book, rows, sellable, count, asked, run, faults, announced>>

\* The exchange executes one more unit of a resting order.
ExecuteUnit(i) ==
    /\ resting[i] = "open"
    /\ executed' = [executed EXCEPT ![i] = @ + 1]
    /\ resting' = IF executed[i] + 1 = asked[i].quantity
                  THEN [resting EXCEPT ![i] = "filled"] ELSE resting
    /\ UNCHANGED <<stops, held, triggered, database, sellable, count, asked, run, faults, announced>>

\* The exchange (or the operator, on its site) cancels what is left of it.
CancelRest(i) ==
    /\ resting[i] = "open"
    /\ resting' = [resting EXCEPT ![i] = "cancelled"]
    /\ UNCHANGED <<executed, stops, held, triggered, database, sellable, count, asked, run, faults, announced>>

\* The exchange holds something in the direction of entry i.
HeldFor(i) == SameDirection(held[asked[i].exchange], asked[i].side)

\* A stop (STOP_MARKET, closePosition) closes all that is held in its direction; no code
\* is told.
TriggerStop(i) ==
    /\ i \in stops
    /\ stops' = stops \ {i}
    /\ triggered' = triggered \union {i}
    /\ held' = IF HeldFor(i) THEN [held EXCEPT ![asked[i].exchange] = 0] ELSE held
    /\ UNCHANGED <<resting, executed, database, sellable, count, asked, run, faults, announced>>

-----------------------------------------------------------------------------

Work ==
    \/ PassGate \/ RefuseAtGate
    \/ PlaceSpot \/ RefuseSale \/ PlaceFutures
    \/ Poll \/ PollWithoutSymbol
    \/ ApplyFillToBook
    \/ LackStopCapability \/ PlaceStop \/ RecordStop
    \/ CancelStop
    \/ InsertOrderRow
    \/ Restart

Failure == MissStop \/ MissCancellation \/ CallRaises \/ RowIsLost \/ Crash

Around ==
    \/ Attest
    \/ \E i \in Ids : ExecuteUnit(i) \/ CancelRest(i) \/ TriggerStop(i)

Begin ==
    \/ JudgeBatch
    \/ \E e \in Exchanges, m \in Markets, s \in Sides : \E q \in Quantities[m] : Execute(e, m, s, q)

Next == Begin \/ Work \/ Failure \/ Around

\* Work: the event loop resumes a coroutine whose await has returned (the adapters' HTTP
\* clients have a timeout) and the container has a restart policy. The exchange owes
\* nothing.
Spec == Init /\ [][Next]_vars /\ WF_vars(Work)

-----------------------------------------------------------------------------
(* Properties.                                                             *)

\* Types of the variables.
TypeOK ==
    /\ attested \in BOOLEAN
    /\ sellable \subseteq Exchanges
    /\ count \in 0..MaxOrders
    /\ \A i \in Ids : /\ asked[i].exchange \in Exchanges /\ asked[i].market \in Markets
                      /\ asked[i].side \in Sides /\ asked[i].quantity \in Quantities[asked[i].market] \union {0}
    /\ resting \in [Ids -> {"none", "open", "filled", "cancelled"}]
    /\ executed \in [Ids -> Nat]
    /\ stops \subseteq Ids
    /\ held \in [Exchanges -> Int]
    /\ \A e \in Exchanges, m \in Markets : /\ book[e][m].quantity \in Int
                                           /\ book[e][m].stop \in Ids \union {NoOrder}
                                           /\ book[e][m].decision \in Ids \union {NoOrder}
    /\ \A i \in Ids : rows[i].status \in Statuses \union {"none"} /\ rows[i].filled \in Nat
    /\ run.step \in Steps /\ run.status \in Statuses
    /\ faults \in 0..MaxFaults
    /\ announced \in [Ids -> SUBSET Events]
    /\ triggered \subseteq Ids

\* A row recorded as filled tells what the exchange executed, the whole order: neither a
\* part of it, nor an order still resting, passes for a fill (_poll_fill_confirmation).
FilledRowsTellTheExecution ==
    \A i \in Ids : asked[i].market = Spot /\ rows[i].status = "filled" =>
        /\ executed[i] = asked[i].quantity
        /\ rows[i].filled = executed[i]

\* The spot book claims no more than the account holds, unless the rows of `orders` give
\* the difference away: an execution whose order was recorded as pending, rejected or
\* cancelled, or not at all. (A forgotten sale leaves a position that no longer exists.)
SpotBookIsBacked ==
    \A e \in Exchanges :
        (\A i \in SpotOrders(e) : executed[i] > 0 => rows[i].status = "filled")
        => book[e][Spot].quantity <= Holding(e)

LackAnnounced(i) == announced[i] \cap {"no_capability", "placement_failed"} # {}

\* The later futures orders of an entry's exchange: those that may have reinforced or
\* closed its position.
Closers(i) == {j \in Ids : j > i /\ asked[j].exchange = asked[i].exchange
                           /\ asked[j].market = Futures}

\* The stop of entry i was triggered, and the exchange holds nothing in its direction but
\* what a later order put there.
EndedByItsStop(i) == i \in triggered /\ (HeldFor(i) => Closers(i) # {})

\* A futures position whose entry was recorded as filled has its stop on the exchange, or
\* its lack was announced, or its stop was triggered and ended it. In the last case the row
\* stays open, and a later order in its direction is taken for a reinforcement, which gets no
\* stop (real.py:272): that new position is bare and nothing tells of it. No other road
\* leads to a bare position in silence.
FilledEntriesAreProtectedOrAnnounced ==
    \A e \in Exchanges :
        LET p == book[e][Futures]
        IN p.quantity # 0 /\ rows[p.decision].status = "filled"
           => \/ p.stop \in stops
              \/ LackAnnounced(p.decision)
              \/ p.stop = p.decision /\ EndedByItsStop(p.decision)

\* A stop that lives on the exchange and belongs to no open row can close a later position:
\* there is one only if its placement or its cancellation was announced as failed, or the
\* entry or the order that closed it is not recorded as filled.
OrphanStopsAreOnRecord ==
    \A i \in stops : book[asked[i].exchange][Futures].stop = i
        \/ "placement_failed" \in announced[i]
        \/ rows[i].status # "filled"
        \/ \E j \in Closers(i) : "cancel_failed" \in announced[j] \/ rows[j].status # "filled"

\* An order never blocks the ones behind it: whatever the exchange answers, or does not,
\* the coroutine gets back to its loop (real.py: "ne bloque jamais indefiniment").
OrdersNeverBlockTheLoop == run.step # "idle" ~> run.step = "idle"

\* What the stop of an entry still does for its position.
StopStage(i) == IF i \in stops THEN "protected" ELSE IF HeldFor(i) THEN "bare" ELSE "stopped"

\* How far the futures position of each exchange is from its protection.
ProtectionStage(e) ==
    LET p == book[e][Futures]
    IN IF p.quantity = 0 THEN "flat"
       ELSE IF p.stop # NoOrder THEN StopStage(p.stop)
       ELSE IF LackAnnounced(p.decision) THEN "announced"
       ELSE IF cur = p.decision /\ run.step \in {"stop", "record"} THEN "exposed"
       ELSE "unknown"

Protection == INSTANCE EntryProtection
                  WITH stage <- [e \in Exchanges |-> ProtectionStage(e)], losses <- faults

\* The road of a position goes through a window of exposure that ends in protection, in an
\* announcement, or with its stop triggered at once; only an interruption makes it end
\* otherwise. Protection ends with the row or with the stop, and a position is bare in
\* silence only where an order was sent over a row whose stop had been triggered.
ImplementsProtection == Protection!Spec
=============================================================================
