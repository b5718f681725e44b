------------------------- MODULE RealExecutionProofs --------------------------
(***************************************************************************)
(* Proofs about RealExecution: its state is well typed, a row recorded as  *)
(* filled tells what the exchange executed, the spot book claims no more   *)
(* than the account holds, no futures position is unprotected without a    *)
(* trace, no stop is orphaned without one, and every step follows the      *)
(* abstract road of EntryProtection. They rest on one inductive            *)
(* invariant, Inductive. The arithmetic of the stop (FuturesMargin) and of *)
(* a fill (PositionBook) comes last.                                       *)
(***************************************************************************)
EXTENDS RealExecution, FuturesMargin, ProofFacts

-----------------------------------------------------------------------------
(* The inductive invariant.                                                *)

Asked     == [exchange : Exchanges, market : Markets, side : Sides, quantity : Nat]
Positions == [quantity : Int, stop : Ids \union {NoOrder}, decision : Ids \union {NoOrder}]
OrderRows == [status : Statuses \union {"none"}, filled : Nat]
Locals    == [step : Steps, status : Statuses, filled : Nat, attempts : Nat,
              stop : Ids \union {NoOrder}]

Types ==
    /\ attested \in BOOLEAN
    /\ count \in 0..MaxOrders
    /\ asked \in [Ids -> Asked]
    /\ resting \in [Ids -> {"none", "open", "filled", "cancelled"}]
    /\ executed \in [Ids -> Nat]
    /\ stops \subseteq Ids
    /\ book \in [Exchanges -> [Markets -> Positions]]
    /\ rows \in [Ids -> OrderRows]
    /\ run \in Locals
    /\ faults \in 0..MaxFaults
    /\ announced \in [Ids -> SUBSET Events]
    /\ triggered \subseteq Ids

\* An order that was not begun has left no trace; one that was asks for something.
Unbegun ==
    \A i \in Ids :
        /\ i > count => /\ asked[i] = NotAsked /\ resting[i] = "none" /\ executed[i] = 0
                        /\ rows[i] = NoRow /\ i \notin stops \union triggered /\ announced[i] = {}
        /\ i <= count => asked[i].quantity \in Quantities[asked[i].market]

Active == run.step \notin {"idle", "down"}

\* What the coroutine may count on at each of its steps.
AtHand ==
    Active =>
        /\ cur > 0 /\ rows[cur] = NoRow
        /\ run.step \in {"gate", "stop", "record", "cancel"} => Order.market = Futures
        /\ run.step = "poll" => Order.market = Spot
        /\ run.step \in {"gate", "place"} => resting[cur] = "none"
        /\ run.step \in {"gate", "place", "poll", "fill", "cancel"} => cur \notin stops \union triggered
        /\ run.step \in {"gate", "place", "poll", "fill", "stop", "record"} => announced[cur] = {}
        /\ run.step \in {"gate", "place", "poll", "fill"} =>
               \A e \in Exchanges : book[e][Futures].decision # cur
        /\ run.step \in {"fill", "stop", "record", "cancel"} => run.status = "filled"
        /\ run.step \in {"gate", "place", "poll"} => run.status # "filled"
        /\ run.status = "filled" =>
               /\ Order.market = Spot => resting[cur] = "filled" /\ run.filled = executed[cur]
               /\ Order.market = Futures => run.filled = Units

\* What the exchange has executed of an order, and what its row says of it.
Executions ==
    \A i \in Ids : /\ executed[i] <= asked[i].quantity
                   /\ resting[i] = "none" => executed[i] = 0
                   /\ resting[i] # "none" => asked[i].market = Spot
                   /\ resting[i] = "open" => executed[i] < asked[i].quantity
                   /\ resting[i] = "filled" => executed[i] = asked[i].quantity
                   /\ rows[i].status = "filled" /\ asked[i].market = Spot =>
                          resting[i] = "filled" /\ rows[i].filled = executed[i]

\* The row of an order says filled, or is about to; it does not and never will.
RecordedAsFilled(i) ==
    rows[i].status = "filled" \/ (i = cur /\ run.step = "row" /\ run.status = "filled")

NeverRecorded(i) ==
    /\ rows[i].status # "filled"
    /\ i = cur => ~Active \/ (run.step = "row" /\ run.status # "filled")

Entry(e) == book[e][Futures]

\* An open futures position is that of its entry, protected or on record.
EntryIsKnown(e) ==
    /\ Entry(e).quantity = 0 => Entry(e) = NoPosition
    /\ Entry(e).quantity # 0 =>
           /\ Entry(e).decision \in 1..count
           /\ asked[Entry(e).decision].exchange = e
           /\ asked[Entry(e).decision].market = Futures
           /\ Entry(e).stop # NoOrder => /\ Entry(e).stop = Entry(e).decision
                                         /\ Entry(e).stop \in stops \union triggered
           /\ Entry(e).stop = NoOrder /\ RecordedAsFilled(Entry(e).decision)
                  => LackAnnounced(Entry(e).decision)

Entries == \A e \in Exchanges : EntryIsKnown(e)

\* Between the fill and the row, the position is the one this order opened or closed.
Window ==
    /\ run.step \in {"stop", "record"} =>
           Entry(Venue).quantity # 0 /\ Entry(Venue).decision = cur /\ Entry(Venue).stop = NoOrder
    /\ run.step = "record" => cur \in stops \union triggered
    /\ run.step = "cancel" =>
           /\ Entry(Venue) = NoPosition
           /\ run.stop \in 1..(cur - 1) /\ asked[run.stop].exchange = Venue

\* Why a stop is still on the exchange.
StopIsAccounted(i) ==
    \/ Entry(asked[i].exchange).stop = i
    \/ i = cur /\ run.step = "record"
    \/ run.step = "cancel" /\ run.stop = i
    \/ "placement_failed" \in announced[i]
    \/ NeverRecorded(i)
    \/ \E j \in Closers(i) : "cancel_failed" \in announced[j] \/ NeverRecorded(j)

StopsAreKnown ==
    \A i \in stops : /\ asked[i].market = Futures /\ asked[i].exchange \in Conditional
                     /\ StopIsAccounted(i)

\* The order's execution is told by its row, or still may be.
Told(i) ==
    \/ rows[i].status = "filled"
    \/ i = cur /\ Active /\ (run.step \in {"place", "poll"} \/ run.status = "filled")

\* What the exchange delivered and the book has not heard of yet.
Unbooked(e) == run.step \in {"place", "poll", "fill"} /\ Order.market = Spot /\ Venue = e
InProgress(e) == IF Unbooked(e) THEN Delivered[cur] ELSE 0

AllTold(e) == \A i \in SpotOrders(e) : executed[i] > 0 => Told(i)

\* Sales are covered by what is held, and the book by what it was told of.
Accounts ==
    \A e \in Exchanges :
        /\ Available(e) >= 0
        /\ AllTold(e) => book[e][Spot].quantity <= Holding(e) - InProgress(e)

\* What the first invariant does without: what was judged, and what the exchange holds.
\* A position ended by its stop stays ended, but for later orders.
Holdings ==
    /\ sellable \subseteq Exchanges
    /\ held \in [Exchanges -> Int]
    /\ \A i \in triggered : EndedByItsStop(i)

Inductive ==
    /\ Types /\ Unbegun /\ AtHand /\ Executions
    /\ Entries /\ Window /\ StopsAreKnown /\ Accounts

-----------------------------------------------------------------------------
(* Data.                                                                   *)

\* The numbers of orders are numbers, and the bounds are.
LEMMA Bounds ==
    /\ MaxOrders \in Nat /\ MaxOrders > 0 /\ MaxFaults \in Nat /\ PollAttempts \in Nat
    /\ NoOrder = 0 /\ NoOrder \notin Ids /\ \A i \in Ids : i \in Nat /\ i > 0 /\ i <= MaxOrders
    /\ \A i \in Nat : i > 0 /\ i <= MaxOrders => i \in Ids
    /\ \A m \in Markets : Quantities[m] \subseteq Nat \ {0}
BY MaxOrdersAssumption, MaxFaultsAssumption, PollAttemptsAssumption, QuantitiesAssumption
   DEF Ids, NoOrder

\* Spot and futures, buy and sell are two.
LEMMA Names ==
    /\ Spot \in Markets /\ Futures \in Markets /\ Spot # Futures
    /\ \A m \in Markets : m = Spot \/ m = Futures
    /\ Buy \in Sides /\ Sell \in Sides /\ Buy # Sell /\ \A s \in Sides : s = Buy \/ s = Sell
BY DEF Spot, Futures, Markets, Buy, Sell, Sides

\* The order at hand is one of the orders begun.
LEMMA Begun ==
    ASSUME Inductive, Active
    PROVE  /\ cur \in Ids /\ cur = count /\ cur <= count
           /\ Order = asked[cur] /\ Order \in Asked
           /\ Venue \in Exchanges /\ Units \in Nat /\ Units > 0
           /\ Order.market \in Markets /\ Order.side \in Sides
           /\ Order.quantity \in Quantities[Order.market]
<1>1. count \in Nat /\ count <= MaxOrders /\ count > 0
  BY Bounds DEF Inductive, Types, AtHand, cur
<1>2. cur = count /\ cur \in Ids
  BY <1>1, Bounds DEF cur
<1>3. asked[cur] \in Asked
  BY <1>2 DEF Inductive, Types
<1>4. asked[cur].quantity \in Quantities[asked[cur].market]
  BY <1>1, <1>2 DEF Inductive, Unbegun
<1>5. /\ asked[cur].exchange \in Exchanges /\ asked[cur].market \in Markets
      /\ asked[cur].side \in Sides /\ asked[cur].quantity \in Nat
  BY <1>3 DEF Asked
<1>6. asked[cur].quantity > 0
  BY <1>4, <1>5, Bounds
<1> QED BY <1>1, <1>2, <1>3, <1>4, <1>5, <1>6 DEF Order, Venue, Units

\* An order that left a trace was begun.
LEMMA TracesAreBegun ==
    ASSUME Inductive, NEW i \in Ids,
           resting[i] # "none" \/ i \in stops \/ i \in triggered \/ rows[i].status # "none"
    PROVE  i \in 1..count /\ count \in Nat
<1>1. i \in Nat /\ i > 0 /\ count \in Nat
  BY Bounds DEF Inductive, Types
<1>2. ~(i > count)
  BY DEF Inductive, Unbegun, NoRow
<1> QED BY <1>1, <1>2

\* The fields of the locals and of the position rows.
LEMMA LocalsFields ==
    ASSUME Inductive
    PROVE  /\ run.step \in Steps /\ run.status \in Statuses /\ run.filled \in Nat
           /\ run.attempts \in Nat /\ run.stop \in Ids \union {NoOrder}
           /\ run = [step |-> run.step, status |-> run.status, filled |-> run.filled,
                     attempts |-> run.attempts, stop |-> run.stop]
BY DEF Inductive, Types, Locals

\* Every row of the book is a position.
LEMMA EntryFields ==
    ASSUME Inductive, NEW e \in Exchanges
    PROVE  \A m \in Markets : /\ book[e][m] \in Positions /\ book[e][m].quantity \in Int
                              /\ book[e][m].stop \in Ids \union {NoOrder}
                              /\ book[e][m].decision \in Ids \union {NoOrder}
BY DEF Inductive, Types, Positions

-----------------------------------------------------------------------------
(* The sums of the spot account.                                           *)

Remaining    == [i \in Ids |-> asked[i].quantity - executed[i]]
OpenSales(e) == {i \in SpotOrders(e) : asked[i].side = Sell /\ resting[i] = "open"}
Reserved(e)  == SumFunctionOnSet(Remaining, OpenSales(e))

\* Every set of orders is finite.
LEMMA OrdersAreFinite == IsFiniteSet(Ids) /\ \A S \in SUBSET Ids : IsFiniteSet(S)
<1>1. 1 \in Int /\ MaxOrders \in Int
  BY Bounds
<1>2. IsFiniteSet(Ids)
  BY <1>1, FS_Interval DEF Ids
<1> QED BY <1>2, FS_Subset

\* What was delivered is an integer, what remains a number.
LEMMA DeliveredAndRemaining ==
    ASSUME Types, Executions
    PROVE  \A i \in Ids :
               /\ executed[i] \in Nat /\ asked[i].quantity \in Nat
               /\ Delivered[i] \in Int /\ Delivered[i] = Signed(asked[i].side, executed[i])
               /\ Remaining[i] \in Nat /\ Remaining[i] = asked[i].quantity - executed[i]
<1> SUFFICES ASSUME NEW i \in Ids
             PROVE  /\ executed[i] \in Nat /\ asked[i].quantity \in Nat
                    /\ Delivered[i] \in Int /\ Delivered[i] = Signed(asked[i].side, executed[i])
                    /\ Remaining[i] \in Nat /\ Remaining[i] = asked[i].quantity - executed[i]
  OBVIOUS
<1>1. executed[i] \in Nat /\ asked[i].quantity \in Nat /\ executed[i] <= asked[i].quantity
  BY DEF Types, Asked, Executions
<1>2. Delivered[i] = Signed(asked[i].side, executed[i])
  BY DEF Delivered
<1>3. Signed(asked[i].side, executed[i]) \in Int
  BY <1>1 DEF Signed
<1>4. Remaining[i] = asked[i].quantity - executed[i]
  BY DEF Remaining
<1> QED BY <1>1, <1>2, <1>3, <1>4

\* What the account holds is an integer, what its sales reserve a number.
SumsAreRight(e) ==
    /\ SpotOrders(e) \in SUBSET Ids /\ IsFiniteSet(SpotOrders(e))
    /\ OpenSales(e) \in SUBSET Ids /\ IsFiniteSet(OpenSales(e))
    /\ Holding(e) \in Int /\ Reserved(e) \in Nat
    /\ Available(e) = Holding(e) - Reserved(e)

\* So they are wherever no order is executed beyond what it asks for.
LEMMA AccountSums == Types /\ Executions => \A e \in Exchanges : SumsAreRight(e)
<1> SUFFICES ASSUME Types, Executions, NEW e \in Exchanges PROVE SumsAreRight(e)
  OBVIOUS
<1>1. SpotOrders(e) \in SUBSET Ids
  <2>1. count \in Nat /\ count <= MaxOrders
    BY Bounds DEF Types
  <2>2. 1..count \subseteq Ids
    BY <2>1, Bounds DEF Ids
  <2> QED BY <2>2 DEF SpotOrders
<1>2. OpenSales(e) \in SUBSET Ids
  BY <1>1 DEF OpenSales
<1>3. IsFiniteSet(SpotOrders(e)) /\ IsFiniteSet(OpenSales(e))
  BY <1>1, <1>2, OrdersAreFinite
<1>4. Holding(e) \in Int
  BY <1>1, <1>3, DeliveredAndRemaining, SumIsInt DEF Holding
<1>5. Reserved(e) \in Nat
  BY <1>2, <1>3, DeliveredAndRemaining, SumIsNat DEF Reserved
<1>6. Available(e) = Holding(e) - Reserved(e)
  BY DEF Available, Reserved, Remaining, OpenSales
<1> QED BY <1>1, <1>2, <1>3, <1>4, <1>5, <1>6 DEF SumsAreRight

\* The same of the next state.
LEMMA AccountSumsNext == Types' /\ Executions' => (\A e \in Exchanges : SumsAreRight(e))'
BY AccountSums, PTL

\* What the account holds is at least what is available, and never negative.
LEMMA NothingIsShort ==
    ASSUME Inductive, NEW e \in Exchanges
    PROVE  /\ Holding(e) \in Int /\ Reserved(e) \in Nat
           /\ Available(e) = Holding(e) - Reserved(e) /\ Available(e) >= 0 /\ Holding(e) >= 0
<1>1. /\ Holding(e) \in Int /\ Reserved(e) \in Nat
      /\ Available(e) = Holding(e) - Reserved(e)
  BY AccountSums DEF Inductive, SumsAreRight
<1>2. Available(e) >= 0
  BY DEF Inductive, Accounts
<1> QED BY <1>1, <1>2

-----------------------------------------------------------------------------
(* The invariant holds at the start, and implies the properties.           *)

\* The type invariant of the runs.
LEMMA TypesGiveTypeOK == Inductive /\ Holdings => TypeOK
<1> SUFFICES ASSUME Inductive, Holdings PROVE TypeOK
  OBVIOUS
<1>1. ASSUME NEW i \in Ids
      PROVE  /\ asked[i].exchange \in Exchanges /\ asked[i].market \in Markets
             /\ asked[i].side \in Sides
             /\ asked[i].quantity \in Quantities[asked[i].market] \union {0}
  <2>1. asked[i] \in Asked
    BY DEF Inductive, Types
  <2>2. i \in Nat /\ count \in Nat
    BY Bounds DEF Inductive, Types
  <2>3. CASE i > count
    <3>1. asked[i] = NotAsked
      BY <2>3 DEF Inductive, Unbegun
    <3>2. NotAsked.quantity = 0
      BY DEF NotAsked
    <3> QED BY <2>1, <3>1, <3>2 DEF Asked
  <2>4. CASE i <= count
    BY <2>1, <2>4 DEF Inductive, Unbegun, Asked
  <2> QED BY <2>2, <2>3, <2>4
<1>2. \A e \in Exchanges, m \in Markets : /\ book[e][m].quantity \in Int
                                          /\ book[e][m].stop \in Ids \union {NoOrder}
                                          /\ book[e][m].decision \in Ids \union {NoOrder}
  BY EntryFields
<1>3. \A i \in Ids : rows[i].status \in Statuses \union {"none"} /\ rows[i].filled \in Nat
  BY DEF Inductive, Types, OrderRows
<1> HIDE DEF Ids
<1> QED BY <1>1, <1>2, <1>3, LocalsFields DEF TypeOK, Inductive, Types, Holdings

\* An empty set of orders delivers and reserves nothing.
LEMMA InitKept == Init => Inductive
<1> SUFFICES ASSUME Init PROVE Inductive
  OBVIOUS
<1>1. count = 0 /\ ~Active /\ count \in 0..MaxOrders /\ faults \in 0..MaxFaults
  BY Bounds DEF Init, Active, Idle
<1>2. NotAsked \in Asked /\ NoRow \in OrderRows /\ NoPosition \in Positions
  <2>1. (CHOOSE e \in Exchanges : TRUE) \in Exchanges
    BY ExchangesAssumption
  <2> QED BY <2>1, Names DEF NotAsked, NoRow, NoPosition, Asked, OrderRows, Positions
<1>3. Idle("idle") \in Locals
  BY Bounds DEF Idle, Locals, Steps, Statuses
<1>4. Types
  BY <1>1, <1>2, <1>3 DEF Init, Types
<1>5. Unbegun
  <2>1. \A i \in Ids : ~(i <= count)
    BY <1>1, Bounds
  <2> QED BY <2>1 DEF Init, Unbegun
<1>6. AtHand
  BY <1>1 DEF AtHand
<1>7. Executions
  BY DEF Init, Executions, NotAsked, NoRow
<1>8. Entries
  BY Names DEF Init, Entries, EntryIsKnown, Entry, NoPosition
<1>9. Window
  BY DEF Init, Window, Idle
<1>10. StopsAreKnown
  BY DEF Init, StopsAreKnown
<1>11. Accounts
  <2> SUFFICES ASSUME NEW e \in Exchanges
               PROVE  /\ Available(e) >= 0
                      /\ book[e][Spot].quantity <= Holding(e) - InProgress(e)
    BY DEF Accounts
  <2>1. SpotOrders(e) = {} /\ OpenSales(e) = {}
    BY <1>1 DEF SpotOrders, OpenSales
  <2>2. Holding(e) = 0 /\ Reserved(e) = 0
    <3>1. \A f : SumFunctionOnSet(f, {}) = 0
      BY SumEquation, FS_EmptySet
    <3> QED BY <2>1, <3>1 DEF Holding, Reserved
  <2>3. Available(e) = 0
    BY <1>4, <1>7, <2>2, AccountSums DEF SumsAreRight
  <2>4. InProgress(e) = 0
    BY DEF Init, Idle, InProgress, Unbooked
  <2>5. book[e][Spot].quantity = 0
    BY Names DEF Init, NoPosition
  <2> QED BY <2>2, <2>3, <2>4, <2>5
<1> QED BY <1>4, <1>5, <1>6, <1>7, <1>8, <1>9, <1>10, <1>11 DEF Inductive

-----------------------------------------------------------------------------
(* What each part of the invariant needs of a step.                        *)

\* Orders that were not begun are left alone.
LEMMA UnbegunKept ==
    ASSUME Inductive, UNCHANGED <<count, asked>>,
           \A i \in Ids : i > count =>
               /\ resting'[i] = resting[i] /\ executed'[i] = executed[i] /\ rows'[i] = rows[i]
               /\ announced'[i] = announced[i]
               /\ i \in stops' \union triggered' => i \in stops \union triggered
    PROVE  Unbegun'
<1> HIDE DEF Ids
<1> QED BY DEF Inductive, Unbegun

\* Positions are still protected or on record where no row and no position changes, no stop
\* is forgotten, and an order about to be recorded as filled has its lack announced.
LEMMA EntriesKept ==
    ASSUME Inductive, UNCHANGED <<count, asked, book>>,
           stops \union triggered \subseteq stops' \union triggered',
           \A i \in Ids : /\ LackAnnounced(i) => LackAnnounced(i)'
                          /\ RecordedAsFilled(i)' => RecordedAsFilled(i) \/ LackAnnounced(i)'
    PROVE  Entries'
<1> SUFFICES ASSUME NEW e \in Exchanges PROVE EntryIsKnown(e)'
  BY DEF Entries
<1>1. PICK p : p = Entry(e) /\ p = Entry(e)'
  BY DEF Entry
<1>2. /\ p.quantity = 0 => p = NoPosition
      /\ p.quantity # 0 =>
          /\ p.decision \in 1..count
          /\ asked[p.decision].exchange = e
          /\ asked[p.decision].market = Futures
          /\ p.stop # NoOrder => p.stop = p.decision /\ p.stop \in stops \union triggered
          /\ p.stop = NoOrder /\ RecordedAsFilled(p.decision) => LackAnnounced(p.decision)
  <2>1. EntryIsKnown(e)
    BY DEF Inductive, Entries
  <2> HIDE DEF Entry
  <2> QED BY <1>1, <2>1 DEF EntryIsKnown
<1>3. p.decision \in 1..count => p.decision \in Ids
  <2>1. count \in Nat /\ count <= MaxOrders
    BY Bounds DEF Inductive, Types
  <2> QED BY <2>1, Bounds
<1>4. p.quantity # 0 /\ p.stop = NoOrder /\ RecordedAsFilled(p.decision)' => LackAnnounced(p.decision)'
  <2> HIDE DEF LackAnnounced, RecordedAsFilled, Ids
  <2> QED BY <1>2, <1>3
<1>5. p.quantity # 0 /\ p.stop # NoOrder => p.stop = p.decision /\ p.stop \in stops' \union triggered'
  BY <1>2
<1>6. count' = count /\ asked' = asked /\ cur' = cur
  BY DEF cur
<1>7. p.quantity # 0 /\ p.stop = NoOrder /\ RecordedAsFilled(Entry(e).decision)' => LackAnnounced(Entry(e).decision)'
  BY <1>1, <1>4, <1>6 DEF RecordedAsFilled, LackAnnounced
<1> HIDE DEF Entry, RecordedAsFilled, LackAnnounced
<1> QED BY <1>1, <1>2, <1>5, <1>6, <1>7 DEF EntryIsKnown

\* Stops are still known where no position changes, what is on record stays there, and an
\* order that leaves its window is never recorded as filled.
LEMMA StopsKept ==
    ASSUME Inductive, UNCHANGED <<count, asked, book>>, stops' \subseteq stops,
           \A i \in Ids : /\ announced[i] \subseteq announced'[i]
                          /\ NeverRecorded(i) => NeverRecorded(i)',
           run.step \in {"record", "cancel"} => NeverRecorded(cur)' \/ run' = run
    PROVE  StopsAreKnown'
<1> SUFFICES ASSUME NEW i \in stops'
             PROVE  /\ asked'[i].market = Futures /\ asked'[i].exchange \in Conditional
                    /\ StopIsAccounted(i)'
  BY DEF StopsAreKnown
<1>1. i \in stops /\ i \in Ids
  BY DEF Inductive, Types
<1>2. asked[i].market = Futures /\ asked[i].exchange \in Conditional /\ StopIsAccounted(i)
  BY <1>1 DEF Inductive, StopsAreKnown
<1>3. Closers(i)' = Closers(i) /\ cur' = cur
  BY DEF Closers, cur
<1>4. ASSUME Entry(asked[i].exchange).stop = i PROVE StopIsAccounted(i)'
  BY <1>4 DEF StopIsAccounted, Entry
<1>5. ASSUME i = cur /\ run.step = "record" PROVE StopIsAccounted(i)'
  BY <1>3, <1>5 DEF StopIsAccounted
<1>6. ASSUME run.step = "cancel" /\ run.stop = i PROVE StopIsAccounted(i)'
  <2>1. cur \in Closers(i)
    <3>1. Active
      BY <1>6 DEF Active
    <3>2. cur \in Ids /\ Order.market = Futures /\ cur \in Nat
      BY <1>6, <3>1, Begun, Bounds DEF Inductive, AtHand
    <3>3. run.stop \in 1..(cur - 1) /\ asked[run.stop].exchange = Venue
      BY <1>6 DEF Inductive, Window
    <3>4. cur > i
      BY <1>6, <3>2, <3>3
    <3> QED BY <1>6, <3>2, <3>3, <3>4 DEF Closers, Order, Venue
  <2>2. CASE run' = run
    BY <1>6, <2>2 DEF StopIsAccounted
  <2>3. CASE NeverRecorded(cur)'
    BY <1>3, <2>1, <2>3 DEF StopIsAccounted
  <2> QED BY <1>6, <2>2, <2>3
<1>7. ASSUME "placement_failed" \in announced[i] PROVE StopIsAccounted(i)'
  BY <1>1, <1>7 DEF StopIsAccounted
<1>8. ASSUME NeverRecorded(i) PROVE StopIsAccounted(i)'
  BY <1>1, <1>8 DEF StopIsAccounted
<1>9. ASSUME \E j \in Closers(i) : "cancel_failed" \in announced[j] \/ NeverRecorded(j) PROVE StopIsAccounted(i)'
  <2>1. PICK j \in Closers(i) : "cancel_failed" \in announced[j] \/ NeverRecorded(j)
    BY <1>9
  <2>2. j \in Ids
    BY DEF Closers
  <2>3. "cancel_failed" \in announced'[j] \/ NeverRecorded(j)'
    BY <2>1, <2>2
  <2> HIDE DEF NeverRecorded, Closers
  <2> QED BY <1>3, <2>1, <2>3 DEF StopIsAccounted
<1>10. StopIsAccounted(i)'
  <2> HIDE DEF NeverRecorded, Closers
  <2> QED BY <1>2, <1>4, <1>5, <1>6, <1>7, <1>8, <1>9 DEF StopIsAccounted
<1> QED BY <1>2, <1>10

\* An order placed: nothing of it was executed, and a sale reserves what was available.
Opened ==
    /\ run.step = "place" /\ Order.market = Spot
    /\ Order.side = Sell => Available(Venue) >= Units
    /\ resting' = [resting EXCEPT ![cur] = "open"]

\* What an order placed does to the exchange's account of it.
LEMMA OpenedKept ==
    ASSUME Inductive, Opened, UNCHANGED <<count, asked, executed, rows>>
    PROVE  /\ resting' \in [Ids -> {"none", "open", "filled", "cancelled"}] /\ Executions'
           /\ \A i \in Ids : i # cur => resting'[i] = resting[i]
           /\ cur \in Ids /\ cur <= count /\ resting[cur] = "none" /\ resting'[cur] = "open"
           /\ executed[cur] = 0 /\ Active
<1>1. Active
  BY DEF Opened, Active
<1>2. cur \in Ids /\ cur <= count /\ Units \in Nat /\ Units > 0 /\ Units = asked[cur].quantity /\ rows[cur] = NoRow
      /\ resting[cur] = "none" /\ Order = asked[cur]
  BY <1>1, Begun DEF Opened, Inductive, AtHand, Units, Order
<1>3. executed[cur] = 0
  BY <1>2 DEF Inductive, Executions
<1>4. /\ resting' \in [Ids -> {"none", "open", "filled", "cancelled"}]
      /\ \A i \in Ids : i # cur => resting'[i] = resting[i]
      /\ resting'[cur] = "open"
  BY <1>2 DEF Opened, Inductive, Types
<1>5. Executions'
  <2> SUFFICES ASSUME NEW i \in Ids
               PROVE  /\ executed'[i] <= asked'[i].quantity
                      /\ resting'[i] = "none" => executed'[i] = 0
                      /\ resting'[i] # "none" => asked'[i].market = Spot
                      /\ resting'[i] = "open" => executed'[i] < asked'[i].quantity
                      /\ resting'[i] = "filled" => executed'[i] = asked'[i].quantity
                      /\ rows'[i].status = "filled" /\ asked'[i].market = Spot =>
                             resting'[i] = "filled" /\ rows'[i].filled = executed'[i]
    BY DEF Executions
  <2>1. CASE i = cur
    <3>1. rows'[i].status # "filled"
      BY <1>2, <2>1 DEF NoRow
    <3>2. /\ executed'[i] = 0 /\ asked'[i].quantity = Units /\ resting'[i] = "open"
          /\ asked'[i].market = Spot
      BY <1>2, <1>3, <1>4, <2>1 DEF Opened
    <3> QED BY <1>2, <3>1, <3>2
  <2>2. CASE i # cur
    BY <1>4, <2>2 DEF Inductive, Executions
  <2> QED BY <2>1, <2>2
<1> QED BY <1>1, <1>2, <1>3, <1>4, <1>5

\* What is available stays enough where nothing is executed and at most one order is opened.
LEMMA AvailableKept ==
    ASSUME Inductive, Types', Executions', UNCHANGED <<count, asked, executed, rows>>,
           UNCHANGED resting \/ Opened
    PROVE  \A e \in Exchanges : Available(e)' >= 0 /\ Holding(e)' = Holding(e)
<1> SUFFICES ASSUME NEW e \in Exchanges PROVE Available(e)' >= 0 /\ Holding(e)' = Holding(e)
  OBVIOUS
<1>1. Holding(e)' = Holding(e) /\ Remaining' = Remaining /\ SpotOrders(e)' = SpotOrders(e)
  BY DEF Holding, Delivered, SpotOrders, Remaining
<1>2. /\ Holding(e) \in Int /\ Reserved(e) \in Nat /\ Available(e) >= 0
      /\ Available(e) = Holding(e) - Reserved(e)
  BY NothingIsShort
<1>3. Available(e)' = Holding(e)' - Reserved(e)' /\ Reserved(e)' \in Nat
  BY AccountSumsNext DEF SumsAreRight
<1>4. CASE OpenSales(e)' = OpenSales(e)
  <2>1. Reserved(e)' = Reserved(e)
    BY <1>1, <1>4 DEF Reserved
  <2> QED BY <1>1, <1>2, <1>3, <2>1
<1>5. CASE OpenSales(e)' # OpenSales(e)
  <2>1. Opened
    BY <1>1, <1>5 DEF OpenSales
  <2>2. /\ \A i \in Ids : i # cur => resting'[i] = resting[i]
        /\ cur \in Ids /\ cur <= count /\ resting[cur] = "none" /\ resting'[cur] = "open"
        /\ executed[cur] = 0 /\ Active
    BY <2>1, OpenedKept
  <2>3. SpotOrders(e) \in SUBSET Ids /\ OpenSales(e) \in SUBSET Ids /\ IsFiniteSet(OpenSales(e))
    BY AccountSums DEF Inductive, SumsAreRight
  <2>4. \A i \in SpotOrders(e) : i # cur => (i \in OpenSales(e)' <=> i \in OpenSales(e))
    BY <1>1, <2>2, <2>3 DEF OpenSales
  <2>5. cur \notin OpenSales(e) /\ OpenSales(e)' \subseteq SpotOrders(e) /\ OpenSales(e) \subseteq SpotOrders(e)
    BY <1>1, <2>2 DEF OpenSales
  <2>6. OpenSales(e)' = OpenSales(e) \union {cur} /\ cur \in OpenSales(e)'
    BY <1>5, <2>4, <2>5
  <2>7. Venue = e /\ Order.side = Sell
    BY <2>6 DEF OpenSales, SpotOrders, Venue, Order
  <2>8. Remaining[cur] = Units /\ Units \in Nat
    BY <2>2, Begun DEF Remaining, Units, Order
  <2>9. Reserved(e)' = Reserved(e) + Units
    <3>1. PICK f : f = Remaining /\ \A i \in Ids : f[i] \in Int
      BY DeliveredAndRemaining DEF Inductive
    <3>2. PICK S \in SUBSET Ids : S = OpenSales(e) /\ IsFiniteSet(S) /\ cur \notin S
      BY <2>3, <2>5
    <3>3. SumFunctionOnSet(f, S \union {cur}) = SumFunctionOnSet(f, S) + f[cur]
      BY <2>2, <3>1, <3>2, SumTakesIn
    <3>4. Reserved(e) = SumFunctionOnSet(f, S) /\ Reserved(e)' = SumFunctionOnSet(f, S \union {cur})
      BY <1>1, <2>6, <3>1, <3>2 DEF Reserved
    <3> QED BY <2>8, <3>1, <3>3, <3>4
  <2>10. Available(e) >= Units
    BY <2>1, <2>7 DEF Opened
  <2> QED BY <1>1, <1>2, <1>3, <2>8, <2>9, <2>10
<1> QED BY <1>1, <1>4, <1>5

\* The book is still backed where nothing is executed and it does not change: the order at
\* hand goes on, or is given up and never told of.
LEMMA AccountsKept ==
    ASSUME Inductive, Types', Executions', UNCHANGED <<count, asked, executed, rows>>,
           UNCHANGED resting \/ Opened,
           \A e \in Exchanges : book'[e][Spot] = book[e][Spot],
           \A i \in Ids : asked[i].market = Spot /\ Told(i)' => Told(i),
           \/ \A e \in Exchanges : Unbooked(e)' <=> Unbooked(e)
           \/ ~Told(cur)' /\ \A e \in Exchanges : ~Unbooked(e)'
    PROVE  Accounts'
<1> SUFFICES ASSUME NEW e \in Exchanges
             PROVE  /\ Available(e)' >= 0
                    /\ AllTold(e)' => book'[e][Spot].quantity <= Holding(e)' - InProgress(e)'
  BY DEF Accounts
<1>1. Available(e)' >= 0 /\ Holding(e)' = Holding(e)
  BY AvailableKept
<1>2. SpotOrders(e)' = SpotOrders(e) /\ Delivered' = Delivered /\ cur' = cur
  BY DEF SpotOrders, Delivered, cur
<1>3. SpotOrders(e) \in SUBSET Ids
  BY AccountSums DEF Inductive, SumsAreRight
<1>4. AllTold(e)' => AllTold(e)
  <2> SUFFICES ASSUME AllTold(e)', NEW i \in SpotOrders(e), executed[i] > 0 PROVE Told(i)
    BY DEF AllTold
  <2>1. i \in SpotOrders(e)' /\ executed'[i] > 0 /\ i \in Ids /\ asked[i].market = Spot
    BY <1>2, <1>3 DEF SpotOrders
  <2>2. \A j \in SpotOrders(e)' : executed'[j] > 0 => Told(j)'
    BY DEF AllTold
  <2>3. Told(i)'
    <3> HIDE DEF Told, SpotOrders
    <3> QED BY <2>1, <2>2
  <2> HIDE DEF Told
  <2> QED BY <2>1, <2>3
<1>5. AllTold(e) => book[e][Spot].quantity <= Holding(e) - InProgress(e)
  BY DEF Inductive, Accounts
<1>6. AllTold(e)' => InProgress(e)' = InProgress(e)
  <2>1. CASE Unbooked(e)' <=> Unbooked(e)
    BY <1>2, <2>1 DEF InProgress
  <2>2. CASE ~Told(cur)' /\ ~Unbooked(e)' /\ Unbooked(e)
    <3>1. Active
      BY <2>2 DEF Unbooked, Active
    <3>2. cur \in SpotOrders(e) /\ cur \in Ids
      <4>1. cur \in Ids /\ cur <= count /\ count \in Nat
        BY <3>1, Begun DEF Inductive, Types
      <4>2. cur \in 1..count
        BY <4>1, Bounds
      <4>3. asked[cur].exchange = e /\ asked[cur].market = Spot
        BY <2>2 DEF Unbooked, Order, Venue
      <4> QED BY <4>1, <4>2, <4>3 DEF SpotOrders
    <3>3. AllTold(e)' => ~(executed[cur] > 0)
      BY <1>2, <2>2, <3>2 DEF AllTold
    <3>4. executed[cur] \in Nat /\ Delivered[cur] = Signed(asked[cur].side, executed[cur])
      BY <3>2, DeliveredAndRemaining DEF Inductive
    <3>5. AllTold(e)' => Delivered[cur] = 0
      BY <3>3, <3>4 DEF Signed
    <3>6. InProgress(e) = Delivered[cur] /\ InProgress(e)' = 0
      BY <2>2 DEF InProgress
    <3> QED BY <3>5, <3>6
  <2> QED BY <2>1, <2>2
<1> HIDE DEF AllTold, InProgress
<1> QED BY <1>1, <1>4, <1>5, <1>6

-----------------------------------------------------------------------------
(* The coroutine gives the order at hand up, or leaves it behind.          *)

\* The order at hand is recorded as something else than filled, or not at all.
GivenUp ==
    \/ run'.step \in {"idle", "down"}
    \/ Active /\ run'.step = "row" /\ run'.status # "filled"

\* An order may be given up anywhere: its execution, its position and its stop are on record
\* by what its row does not say.
LEMMA GivenUpKept ==
    ASSUME Inductive, GivenUp, run' \in Locals, faults' \in 0..MaxFaults,
           UNCHANGED <<attested, count, asked, executed, stops, triggered, book, rows>>,
           UNCHANGED resting \/ Opened,
           \/ UNCHANGED announced
           \/ announced' = [announced EXCEPT ![cur] = @ \union {"gate_refused"}] /\ Active
    PROVE  Inductive'
<1>1. /\ count' = count /\ asked' = asked /\ executed' = executed /\ stops' = stops
      /\ triggered' = triggered /\ book' = book /\ rows' = rows /\ cur' = cur
  BY DEF cur
<1>2. /\ resting' \in [Ids -> {"none", "open", "filled", "cancelled"}] /\ Executions'
      /\ \A i \in Ids : i > count => resting'[i] = resting[i]
  <2>1. CASE UNCHANGED resting
    BY <1>1, <2>1 DEF Inductive, Types, Executions
  <2>2. CASE Opened
    <3>1. count \in Nat /\ \A i \in Ids : i \in Nat
      BY Bounds DEF Inductive, Types
    <3>2. \A i \in Ids : i > count => i # cur
      BY <2>2, <3>1, OpenedKept
    <3> QED BY <1>1, <2>2, <3>2, OpenedKept
  <2> QED BY <2>1, <2>2
<1>3. /\ announced' \in [Ids -> SUBSET Events]
      /\ \A i \in Ids : /\ announced[i] \subseteq announced'[i]
                        /\ i > count => announced'[i] = announced[i]
  <2>1. CASE UNCHANGED announced
    BY <2>1 DEF Inductive, Types
  <2>2. CASE announced' = [announced EXCEPT ![cur] = @ \union {"gate_refused"}] /\ Active
    <3>1. cur \in Ids /\ cur <= count /\ count \in Nat
      BY <2>2, Begun DEF Inductive, Types
    <3>2. \A i \in Ids : i \in Nat /\ (i > count => i # cur)
      BY <3>1, Bounds
    <3>3. "gate_refused" \in Events
      BY DEF Events
    <3>4. announced \in [Ids -> SUBSET Events]
      BY DEF Inductive, Types
    <3> HIDE DEF Ids, Events
    <3>5. announced' \in [Ids -> SUBSET Events]
      BY <2>2, <3>1, <3>3, <3>4
    <3>6. \A i \in Ids : announced'[i] = IF i = cur THEN announced[i] \union {"gate_refused"} ELSE announced[i]
      BY <2>2, <3>1, <3>4
    <3> QED BY <3>2, <3>5, <3>6
  <2> QED BY <2>1, <2>2
<1>4. Types'
  BY <1>1, <1>2, <1>3 DEF Inductive, Types
<1>5. Unbegun'
  <2> HIDE DEF Ids
  <2> QED BY <1>1, <1>2, <1>3, UnbegunKept
<1>6. ~Active' \/ (Active /\ run'.step = "row" /\ run'.status # "filled")
  BY DEF GivenUp, Active
<1>7. rows[cur].status # "filled" \/ ~Active
  BY DEF Inductive, AtHand, NoRow
<1>8. AtHand'
  <2>1. CASE ~Active'
    BY <2>1 DEF AtHand
  <2>2. CASE Active /\ run'.step = "row" /\ run'.status # "filled"
    BY <1>1, <2>2 DEF AtHand, Inductive
  <2> QED BY <1>6, <2>1, <2>2
<1>9. \A i : NeverRecorded(i) => NeverRecorded(i)'
  BY <1>1, <1>6 DEF NeverRecorded
<1>10. Active => NeverRecorded(cur)'
  BY <1>1, <1>6, <1>7 DEF NeverRecorded
<1>11. \A i : RecordedAsFilled(i)' => RecordedAsFilled(i)
  BY <1>1, <1>6 DEF RecordedAsFilled, Active
<1>12. \A i \in Ids : LackAnnounced(i) => LackAnnounced(i)'
  BY <1>3 DEF LackAnnounced
<1>13. Entries'
  <2> HIDE DEF Ids, LackAnnounced, RecordedAsFilled
  <2> QED BY <1>1, <1>11, <1>12, EntriesKept
<1>14. Window'
  BY <1>6 DEF Window, Active
<1>15. StopsAreKnown'
  <2>1. run.step \in {"record", "cancel"} => Active
    BY DEF Active
  <2> HIDE DEF Ids, NeverRecorded
  <2> QED BY <1>1, <1>3, <1>9, <1>10, <2>1, StopsKept
<1>16. Accounts'
  <2>1. \A i : Told(i)' => Told(i)
    BY <1>1, <1>6 DEF Told
  <2>2. \A e : ~Unbooked(e)'
    BY <1>6 DEF Unbooked, Active
  <2>3. ~Told(cur)' \/ \A e : Unbooked(e)' <=> Unbooked(e)
    <3>1. CASE Active
      <4>1. ~Told(cur)'
        BY <1>1, <1>6, <1>7, <3>1 DEF Told
      <4> QED BY <4>1
    <3>2. CASE ~Active
      <4>1. \A e : ~Unbooked(e)
        BY <3>2 DEF Unbooked, Active
      <4> QED BY <2>2, <4>1
    <3> QED BY <3>1, <3>2
  <2> HIDE DEF Ids, Told, Unbooked
  <2> QED BY <1>1, <1>2, <1>4, <2>1, <2>2, <2>3, AccountsKept
<1> QED BY <1>2, <1>4, <1>5, <1>8, <1>13, <1>14, <1>15, <1>16 DEF Inductive

\* The locals of an order that ends, and of an order recorded as something else than filled.
LEMMA EndsAreLocals ==
    ASSUME Inductive
    PROVE  /\ \A s \in {"idle", "down", "gate", "place"} :
                  /\ Idle(s) \in Locals /\ Idle(s).step = s /\ Idle(s).status = "pending"
           /\ \A status \in Statuses :
                  /\ RecordAs(status) \in Locals /\ RecordAs(status).step = "row"
                  /\ RecordAs(status).status = status /\ RecordAs(status).filled = run.filled
           /\ \A step \in Steps :
                  /\ GoTo(step) \in Locals /\ GoTo(step).step = step
                  /\ GoTo(step).status = run.status /\ GoTo(step).filled = run.filled
                  /\ GoTo(step).stop = run.stop
<1>1. run \in Locals
  BY DEF Inductive, Types
<1>2. ASSUME NEW s \in {"idle", "down", "gate", "place"}
      PROVE  Idle(s) \in Locals /\ Idle(s).step = s /\ Idle(s).status = "pending"
  BY DEF Idle, Locals, Steps, Statuses, NoOrder
<1>3. ASSUME NEW status \in Statuses
      PROVE  /\ RecordAs(status) \in Locals /\ RecordAs(status).step = "row"
             /\ RecordAs(status).status = status /\ RecordAs(status).filled = run.filled
  <2>1. "row" \in Steps
    BY DEF Steps
  <2> HIDE DEF Steps, Statuses, Ids
  <2> QED BY <1>1, <1>3, <2>1 DEF RecordAs, Locals
<1>4. ASSUME NEW step \in Steps
      PROVE  /\ GoTo(step) \in Locals /\ GoTo(step).step = step
             /\ GoTo(step).status = run.status /\ GoTo(step).filled = run.filled
             /\ GoTo(step).stop = run.stop
  <2> HIDE DEF Steps, Statuses, Ids
  <2> QED BY <1>1, <1>4 DEF GoTo, Locals
<1> QED BY <1>2, <1>3, <1>4

\* The statuses of an order that is given up.
LEMMA NotFilled == {"pending", "rejected", "cancelled", "filled"} \subseteq Statuses
BY DEF Statuses

\* A fault more is still within the bound.
LEMMA FaultsBounded ==
    ASSUME Inductive
    PROVE  faults \in 0..MaxFaults /\ (faults < MaxFaults => faults + 1 \in 0..MaxFaults)
BY Bounds DEF Inductive, Types

\* The attestation is missing: no order goes out.
LEMMA RefuseAtGateKept == Inductive /\ RefuseAtGate => Inductive'
<1> SUFFICES ASSUME Inductive, RefuseAtGate PROVE Inductive'
  OBVIOUS
<1>1. run' = RecordAs("rejected") /\ Active
  BY DEF RefuseAtGate, Active
<1>2. run' \in Locals /\ GivenUp
  BY <1>1, EndsAreLocals, NotFilled DEF GivenUp
<1>3. /\ UNCHANGED <<attested, count, asked, executed, stops, triggered, book, rows>>
      /\ UNCHANGED resting /\ faults' \in 0..MaxFaults
      /\ announced' = [announced EXCEPT ![cur] = @ \union {"gate_refused"}]
  BY FaultsBounded DEF RefuseAtGate, Announce, exchange, database
<1> QED BY <1>1, <1>2, <1>3, GivenUpKept

\* The exchange refuses a sale of what the account does not hold.
LEMMA RefuseSaleKept == Inductive /\ RefuseSale => Inductive'
<1> SUFFICES ASSUME Inductive, RefuseSale PROVE Inductive'
  OBVIOUS
<1>1. run' = RecordAs("rejected") /\ Active
  BY DEF RefuseSale, Active
<1>2. run' \in Locals /\ GivenUp
  BY <1>1, EndsAreLocals, NotFilled DEF GivenUp
<1>3. /\ UNCHANGED <<attested, count, asked, executed, stops, triggered, book, rows>>
      /\ UNCHANGED resting /\ faults' \in 0..MaxFaults /\ UNCHANGED announced
  BY FaultsBounded DEF RefuseSale, exchange, database
<1> QED BY <1>2, <1>3, GivenUpKept

\* The poll that wants a symbol raises.
LEMMA PollWithoutSymbolKept == Inductive /\ PollWithoutSymbol => Inductive'
<1> SUFFICES ASSUME Inductive, PollWithoutSymbol PROVE Inductive'
  OBVIOUS
<1>1. run' = RecordAs("rejected") /\ Active
  BY DEF PollWithoutSymbol, Active
<1>2. run' \in Locals /\ GivenUp
  BY <1>1, EndsAreLocals, NotFilled DEF GivenUp
<1>3. /\ UNCHANGED <<attested, count, asked, executed, stops, triggered, book, rows>>
      /\ UNCHANGED resting /\ faults' \in 0..MaxFaults /\ UNCHANGED announced
  BY FaultsBounded DEF PollWithoutSymbol, exchange, database
<1> QED BY <1>2, <1>3, GivenUpKept

\* A call raises, before or after the exchange took the order.
LEMMA CallRaisesKept == Inductive /\ CallRaises => Inductive'
<1> SUFFICES ASSUME Inductive, CallRaises PROVE Inductive'
  OBVIOUS
<1>1. run' = RecordAs("rejected") /\ Active
  BY DEF CallRaises, Active
<1>2. run' \in Locals /\ GivenUp
  BY <1>1, EndsAreLocals, NotFilled DEF GivenUp
<1>3. /\ UNCHANGED <<attested, count, asked, executed, stops, triggered, book, rows>>
      /\ faults' \in 0..MaxFaults /\ UNCHANGED announced
  BY FaultsBounded DEF CallRaises, database
<1>4. UNCHANGED resting \/ Opened
  BY DEF CallRaises, Opened
<1> QED BY <1>2, <1>3, <1>4, GivenUpKept

\* The row is lost, the process is killed, or it starts again.
LEMMA InterruptionsKept == Inductive /\ (RowIsLost \/ Crash \/ Restart) => Inductive'
<1> SUFFICES ASSUME Inductive, RowIsLost \/ Crash \/ Restart PROVE Inductive'
  OBVIOUS
<1>1. run' = Idle("idle") \/ run' = Idle("down")
  BY DEF RowIsLost, Crash, Restart
<1>2. run' \in Locals /\ GivenUp
  BY <1>1, EndsAreLocals DEF GivenUp
<1>3. /\ UNCHANGED <<attested, count, asked, executed, stops, triggered, book, rows>>
      /\ UNCHANGED resting /\ faults' \in 0..MaxFaults /\ UNCHANGED announced
  BY FaultsBounded DEF RowIsLost, Crash, Restart, exchange, database
<1> QED BY <1>2, <1>3, GivenUpKept

-----------------------------------------------------------------------------
(* The coroutine goes on with the order at hand.                           *)

\* An order may go on to its fill: nothing is booked or recorded on the way.
LEMMA GoesOnKept ==
    ASSUME Inductive, run.step \in {"gate", "place", "poll"},
           run'.step \in {"place", "poll", "fill"}, run' \in Locals, AtHand',
           UNCHANGED <<attested, count, asked, executed, stops, triggered, book, rows, faults, announced>>,
           UNCHANGED resting \/ Opened
    PROVE  Inductive'
<1>1. /\ count' = count /\ asked' = asked /\ executed' = executed /\ stops' = stops
      /\ triggered' = triggered /\ book' = book /\ rows' = rows /\ announced' = announced
      /\ cur' = cur
  BY DEF cur
<1>2. Active /\ Active' /\ rows[cur] = NoRow /\ rows[cur].status # "filled"
  <2>1. Active /\ Active'
    BY DEF Active
  <2> QED BY <2>1 DEF Inductive, AtHand, NoRow
<1>3. /\ resting' \in [Ids -> {"none", "open", "filled", "cancelled"}] /\ Executions'
      /\ \A i \in Ids : i > count => resting'[i] = resting[i]
  <2>1. CASE UNCHANGED resting
    BY <1>1, <2>1 DEF Inductive, Types, Executions
  <2>2. CASE Opened
    <3>1. count \in Nat /\ \A i \in Ids : i \in Nat
      BY Bounds DEF Inductive, Types
    <3>2. \A i \in Ids : i > count => i # cur
      BY <2>2, <3>1, OpenedKept
    <3> QED BY <1>1, <2>2, <3>2, OpenedKept
  <2> QED BY <2>1, <2>2
<1>4. Types'
  BY <1>1, <1>3 DEF Inductive, Types
<1>5. Unbegun'
  <2> HIDE DEF Ids
  <2> QED BY <1>1, <1>3, UnbegunKept
<1>6. \A i : NeverRecorded(i) => NeverRecorded(i)'
  BY <1>1, <1>2 DEF NeverRecorded
<1>7. \A i : RecordedAsFilled(i)' => RecordedAsFilled(i)
  BY <1>1 DEF RecordedAsFilled
<1>8. \A i \in Ids : LackAnnounced(i) => LackAnnounced(i)'
  BY <1>1 DEF LackAnnounced
<1>9. Entries'
  <2> HIDE DEF Ids, LackAnnounced, RecordedAsFilled
  <2> QED BY <1>1, <1>7, <1>8, EntriesKept
<1>10. Window'
  BY DEF Window
<1>11. StopsAreKnown'
  <2> HIDE DEF Ids, NeverRecorded
  <2> QED BY <1>1, <1>6, StopsKept
<1>12. Accounts'
  <2>1. \A i \in Ids : asked[i].market = Spot /\ Told(i)' => Told(i)
    <3> SUFFICES ASSUME NEW i \in Ids, asked[i].market = Spot, Told(i)' PROVE Told(i)
      OBVIOUS
    <3>1. CASE i # cur \/ rows[i].status = "filled"
      BY <1>1, <3>1 DEF Told
    <3>2. CASE i = cur
      <4>1. run.step # "gate"
        BY <3>2, <1>2, Names DEF Inductive, AtHand, Order
      <4> QED BY <1>2, <3>2, <4>1 DEF Told
    <3> QED BY <3>1, <3>2
  <2>2. \A e : Unbooked(e)' <=> Unbooked(e)
    <3>1. Order.market = Spot => run.step # "gate"
      BY <1>2, Names DEF Inductive, AtHand
    <3>2. Order' = Order /\ Venue' = Venue
      BY <1>1 DEF Order, Venue
    <3> QED BY <3>1, <3>2 DEF Unbooked
  <2> HIDE DEF Ids, Told, Unbooked
  <2> QED BY <1>1, <1>3, <1>4, <2>1, <2>2, AccountsKept
<1> QED BY <1>3, <1>4, <1>5, <1>9, <1>10, <1>11, <1>12 DEF Inductive

\* The attestation lets a futures order through.
LEMMA PassGateKept == Inductive /\ PassGate => Inductive'
<1> SUFFICES ASSUME Inductive, PassGate PROVE Inductive'
  OBVIOUS
<1>1. /\ run.step = "gate" /\ run' = GoTo("place") /\ Active
      /\ UNCHANGED <<attested, count, asked, executed, stops, triggered, book, rows, faults, announced>>
      /\ UNCHANGED resting
  BY DEF PassGate, Active, exchange, database
<1>2. run'.step = "place" /\ run'.status = run.status /\ run' \in Locals
  BY <1>1, EndsAreLocals DEF Steps
<1>3. AtHand'
  BY <1>1, <1>2 DEF Inductive, AtHand, Order, Units, cur
<1> QED BY <1>1, <1>2, <1>3, GoesOnKept

\* A spot order rests on the exchange.
LEMMA PlaceSpotKept == Inductive /\ PlaceSpot => Inductive'
<1> SUFFICES ASSUME Inductive, PlaceSpot PROVE Inductive'
  OBVIOUS
<1>1. /\ run.step = "place" /\ Order.market = Spot /\ run' = GoTo("poll") /\ Active /\ Opened
      /\ UNCHANGED <<attested, count, asked, executed, stops, triggered, book, rows, faults, announced>>
  BY DEF PlaceSpot, Active, Opened, database
<1>2. run'.step = "poll" /\ run'.status = run.status /\ run' \in Locals
  BY <1>1, EndsAreLocals DEF Steps
<1>3. AtHand'
  BY <1>1, <1>2 DEF Inductive, AtHand, Order, Units, cur
<1> QED BY <1>1, <1>2, <1>3, GoesOnKept

\* A futures order is taken as filled.
LEMMA PlaceFuturesKept == Inductive /\ PlaceFutures => Inductive'
<1> SUFFICES ASSUME Inductive, PlaceFutures PROVE Inductive'
  OBVIOUS
<1>1. /\ run.step = "place" /\ Order.market = Futures /\ Active
      /\ run' = [run EXCEPT !.step = "fill", !.status = "filled", !.filled = Units]
      /\ UNCHANGED <<attested, count, asked, executed, stops, triggered, book, rows, faults, announced>>
      /\ UNCHANGED resting
  BY DEF PlaceFutures, Active, exchange, database
<1>2. run'.step = "fill" /\ run'.status = "filled" /\ run'.filled = Units /\ run' \in Locals
  <2>1. run \in Locals /\ "fill" \in Steps /\ "filled" \in Statuses /\ Units \in Nat
    BY <1>1, Begun DEF Inductive, Types, Steps, Statuses
  <2> HIDE DEF Steps, Statuses, Ids
  <2> QED BY <1>1, <2>1 DEF Locals
<1>3. Order' = Order /\ Units' = Units /\ cur' = cur
  BY <1>1 DEF Order, Units, cur
<1>4. AtHand'
  BY <1>1, <1>2, <1>3, Names DEF Inductive, AtHand
<1> QED BY <1>1, <1>2, <1>4, GoesOnKept

\* The exchange is asked: filled, cancelled, or not yet.
LEMMA PollKept == Inductive /\ Poll => Inductive'
<1> SUFFICES ASSUME Inductive, Poll PROVE Inductive'
  OBVIOUS
<1>1. /\ run.step = "poll" /\ Active
      /\ UNCHANGED <<attested, count, asked, executed, stops, triggered, book, rows, faults, announced>>
      /\ UNCHANGED resting
  BY DEF Poll, Active, exchange, database
<1>2. run' = AfterPoll
  BY DEF Poll
<1>3. \/ run' = FillReported /\ resting[cur] = "filled"
      \/ run' = RecordAs("cancelled") \/ run' = RecordAs("pending")
      \/ run' = [run EXCEPT !.attempts = @ + 1]
  <2>1. ReportedState(cur) = "filled" => resting[cur] = "filled"
    BY DEF ReportedState
  <2>2. \/ AfterPoll = FillReported /\ ReportedState(cur) = "filled"
        \/ AfterPoll = RecordAs("cancelled") \/ AfterPoll = AskAgain
    <3> HIDE DEF ReportedState
    <3> QED BY DEF AfterPoll
  <2>3. AskAgain = RecordAs("pending") \/ AskAgain = [run EXCEPT !.attempts = @ + 1]
    BY DEF AskAgain
  <2> QED BY <1>2, <2>1, <2>2, <2>3
<1>4. cur \in Ids /\ Order.market = Spot /\ executed[cur] \in Nat
  BY <1>1, Begun DEF Inductive, AtHand, Types
<1>5. Order' = Order /\ Units' = Units /\ cur' = cur
  BY <1>1 DEF Order, Units, cur
<1>6. run \in Locals
  BY DEF Inductive, Types
<1>7. CASE run' = FillReported /\ resting[cur] = "filled"
  <2>1. run'.step = "fill" /\ run'.status = "filled" /\ run'.filled = executed[cur] /\ run' \in Locals
    <3>1. "fill" \in Steps /\ "filled" \in Statuses
      BY DEF Steps, Statuses
    <3> HIDE DEF Steps, Statuses, Ids
    <3> QED BY <1>4, <1>6, <1>7, <3>1 DEF Locals, FillReported
  <2>2. AtHand'
    BY <1>1, <1>4, <1>5, <1>7, <2>1, Names DEF Inductive, AtHand
  <2> QED BY <1>1, <2>1, <2>2, GoesOnKept
<1>8. CASE run' = RecordAs("cancelled") \/ run' = RecordAs("pending")
  <2>1. run' \in Locals /\ GivenUp
    BY <1>1, <1>8, EndsAreLocals, NotFilled DEF GivenUp
  <2> QED BY <1>1, <2>1, FaultsBounded, GivenUpKept
<1>9. CASE run' = [run EXCEPT !.attempts = @ + 1]
  <2>1. run'.step = "poll" /\ run'.status = run.status /\ run'.filled = run.filled /\ run' \in Locals
    <3> HIDE DEF Steps, Statuses, Ids
    <3> QED BY <1>1, <1>6, <1>9 DEF Locals
  <2>2. AtHand'
    BY <1>1, <1>4, <1>5, <2>1 DEF Inductive, AtHand
  <2> QED BY <1>1, <2>1, <2>2, GoesOnKept
<1> QED BY <1>3, <1>7, <1>8, <1>9

-----------------------------------------------------------------------------
(* The exchange and the operator.                                          *)

\* Where positions, rows, stops and the coroutine are left alone, so is what is known of
\* them.
LEMMA FuturesAlone ==
    ASSUME Inductive, UNCHANGED <<count, asked, book, rows, run, announced>>,
           stops' \subseteq stops, stops' \union triggered' = stops \union triggered
    PROVE  Entries' /\ Window' /\ StopsAreKnown'
<1>1. /\ count' = count /\ asked' = asked /\ book' = book /\ rows' = rows /\ run' = run
      /\ announced' = announced /\ cur' = cur
  BY DEF cur
<1>2. \A i : /\ LackAnnounced(i)' <=> LackAnnounced(i)
             /\ RecordedAsFilled(i)' <=> RecordedAsFilled(i)
             /\ NeverRecorded(i)' <=> NeverRecorded(i)
  BY <1>1 DEF LackAnnounced, RecordedAsFilled, NeverRecorded, Active
<1>3. Entries'
  <2> HIDE DEF Ids, LackAnnounced, RecordedAsFilled
  <2> QED BY <1>1, <1>2, EntriesKept
<1>4. StopsAreKnown'
  <2> HIDE DEF Ids, NeverRecorded
  <2> QED BY <1>1, <1>2, StopsKept
<1>5. Window'
  BY <1>1 DEF Inductive, Window, Entry, Venue, Order
<1> QED BY <1>3, <1>4, <1>5

\* The operator's attestation changes nothing else.
LEMMA AttestKept == Inductive /\ Attest => Inductive'
<1> SUFFICES ASSUME Inductive, Attest PROVE Inductive'
  OBVIOUS
<1>1. /\ attested' \in BOOLEAN
      /\ count' = count /\ asked' = asked /\ resting' = resting /\ executed' = executed
      /\ stops' = stops /\ book' = book /\ rows' = rows /\ run' = run /\ faults' = faults
      /\ announced' = announced /\ triggered' = triggered /\ cur' = cur
  BY DEF Attest, exchange, cur
<1>2. Types' /\ Executions'
  BY <1>1 DEF Inductive, Types, Executions
<1>3. Unbegun' /\ AtHand'
  BY <1>1 DEF Inductive, Unbegun, AtHand, Active, Order, Units
<1>4. Entries' /\ Window' /\ StopsAreKnown'
  BY <1>1, FuturesAlone
<1>5. Accounts'
  <2>1. \A i : (Told(i)' <=> Told(i)) /\ (Unbooked(i)' <=> Unbooked(i))
    BY <1>1 DEF Told, Unbooked, Active, Order, Venue
  <2> HIDE DEF Told, Unbooked, Ids
  <2> QED BY <1>1, <1>2, <2>1, AccountsKept
<1> QED BY <1>2, <1>3, <1>4, <1>5 DEF Inductive

\* A stop the exchange triggers is still one that was placed.
LEMMA TriggerStopKept == ASSUME Inductive, NEW i \in Ids, TriggerStop(i) PROVE Inductive'
<1>1. /\ i \in stops /\ stops' = stops \ {i} /\ triggered' = triggered \union {i}
      /\ attested' = attested /\ count' = count /\ asked' = asked /\ resting' = resting
      /\ executed' = executed /\ book' = book /\ rows' = rows /\ run' = run
      /\ faults' = faults /\ announced' = announced /\ cur' = cur
  BY DEF TriggerStop, database, cur
<1>2. stops' \subseteq stops /\ stops' \union triggered' = stops \union triggered
  BY <1>1
<1>3. Types' /\ Executions'
  BY <1>1 DEF Inductive, Types, Executions
<1>4. Unbegun'
  <2> HIDE DEF Ids
  <2> QED BY <1>1, <1>2, UnbegunKept
<1>5. AtHand'
  BY <1>1, <1>2 DEF Inductive, AtHand, Active, Order, Units
<1>6. Entries' /\ Window' /\ StopsAreKnown'
  BY <1>1, <1>2, FuturesAlone
<1>7. Accounts'
  <2>1. \A j : (Told(j)' <=> Told(j)) /\ (Unbooked(j)' <=> Unbooked(j))
    BY <1>1 DEF Told, Unbooked, Active, Order, Venue
  <2> HIDE DEF Told, Unbooked, Ids
  <2> QED BY <1>1, <1>3, <2>1, AccountsKept
<1> QED BY <1>3, <1>4, <1>5, <1>6, <1>7 DEF Inductive

\* What a resting order that the exchange works on is.
LEMMA RestingIsBegun ==
    ASSUME Inductive, NEW i \in Ids, resting[i] = "open"
    PROVE  /\ i \in 1..count /\ count \in Nat /\ asked[i].market = Spot
           /\ executed[i] \in Nat /\ asked[i].quantity \in Nat /\ executed[i] < asked[i].quantity
           /\ rows[i].status # "filled"
           /\ i = cur /\ Active => run.step \notin {"gate"} /\ run.status # "filled"
<1>1. i \in 1..count /\ count \in Nat
  BY TracesAreBegun
<1>2. asked[i].market = Spot /\ executed[i] < asked[i].quantity /\ rows[i].status # "filled"
  BY DEF Inductive, Executions
<1>3. executed[i] \in Nat /\ asked[i].quantity \in Nat
  BY DEF Inductive, Types, Asked
<1>4. i = cur /\ Active => run.step \notin {"gate"} /\ run.status # "filled"
  BY <1>2 DEF Inductive, AtHand, Order
<1> QED BY <1>1, <1>2, <1>3, <1>4

\* What remains of an order is cancelled: less is reserved.
LEMMA CancelRestKept == ASSUME Inductive, NEW i \in Ids, CancelRest(i) PROVE Inductive'
<1>1. /\ resting[i] = "open" /\ resting' = [resting EXCEPT ![i] = "cancelled"]
      /\ attested' = attested /\ count' = count /\ asked' = asked /\ stops' = stops
      /\ executed' = executed /\ book' = book /\ rows' = rows /\ run' = run
      /\ faults' = faults /\ announced' = announced /\ triggered' = triggered /\ cur' = cur
  BY DEF CancelRest, database, cur
<1>2. /\ resting' \in [Ids -> {"none", "open", "filled", "cancelled"}]
      /\ resting'[i] = "cancelled" /\ \A j \in Ids : j # i => resting'[j] = resting[j]
  BY <1>1 DEF Inductive, Types
<1>3. Types'
  BY <1>1, <1>2 DEF Inductive, Types
<1>4. Executions'
  <2> SUFFICES ASSUME NEW j \in Ids
               PROVE  /\ executed'[j] <= asked'[j].quantity
                      /\ resting'[j] = "none" => executed'[j] = 0
                      /\ resting'[j] # "none" => asked'[j].market = Spot
                      /\ resting'[j] = "open" => executed'[j] < asked'[j].quantity
                      /\ resting'[j] = "filled" => executed'[j] = asked'[j].quantity
                      /\ rows'[j].status = "filled" /\ asked'[j].market = Spot =>
                             resting'[j] = "filled" /\ rows'[j].filled = executed'[j]
    BY DEF Executions
  <2>1. CASE j = i
    BY <1>1, <1>2, <2>1, RestingIsBegun DEF Inductive, Executions
  <2>2. CASE j # i
    BY <1>1, <1>2, <2>2 DEF Inductive, Executions
  <2> QED BY <2>1, <2>2
<1>5. Unbegun'
  <2>1. \A j \in Ids : j > count => j # i
    BY <1>1, RestingIsBegun
  <2> HIDE DEF Ids
  <2> QED BY <1>1, <1>2, <2>1, UnbegunKept
<1>6. AtHand'
  <2>1. Active => cur \in Ids
    BY Begun
  <2>2. cur = i /\ Active => /\ run.step \notin {"gate", "place"}
                             /\ run.status # "filled"
    BY <1>1, RestingIsBegun DEF Inductive, AtHand
  <2>3. Active => \/ resting'[cur] = resting[cur]
                  \/ run.step \notin {"gate", "place"} /\ run.status # "filled"
    BY <1>2, <2>1, <2>2
  <2>4. Order' = Order /\ Units' = Units /\ (Active' <=> Active)
    BY <1>1 DEF Order, Units, Active
  <2> QED BY <1>1, <2>3, <2>4 DEF Inductive, AtHand
<1>7. Entries' /\ Window' /\ StopsAreKnown'
  BY <1>1, FuturesAlone
<1>8. Accounts'
  <2> SUFFICES ASSUME NEW e \in Exchanges
               PROVE  /\ Available(e)' >= 0
                      /\ AllTold(e)' => book'[e][Spot].quantity <= Holding(e)' - InProgress(e)'
    BY DEF Accounts
  <2>1. Holding(e)' = Holding(e) /\ Remaining' = Remaining /\ SpotOrders(e)' = SpotOrders(e)
    BY <1>1 DEF Holding, Delivered, SpotOrders, Remaining
  <2>2. /\ Holding(e) \in Int /\ Reserved(e) \in Nat /\ Available(e) >= 0
        /\ Available(e) = Holding(e) - Reserved(e)
    BY NothingIsShort
  <2>3. Available(e)' = Holding(e)' - Reserved(e)' /\ Reserved(e)' \in Nat
    BY <1>3, <1>4, AccountSumsNext DEF SumsAreRight
  <2>4. SpotOrders(e) \in SUBSET Ids /\ OpenSales(e) \in SUBSET Ids /\ IsFiniteSet(OpenSales(e))
    BY AccountSums DEF Inductive, SumsAreRight
  <2>5. OpenSales(e)' = OpenSales(e) \ {i}
    <3>1. \A j \in SpotOrders(e) : j \in OpenSales(e)' <=> j \in OpenSales(e) /\ j # i
      BY <1>1, <1>2, <2>1, <2>4 DEF OpenSales
    <3>2. OpenSales(e)' \subseteq SpotOrders(e) /\ OpenSales(e) \subseteq SpotOrders(e)
      BY <2>1 DEF OpenSales
    <3> QED BY <3>1, <3>2
  <2>6. Reserved(e)' <= Reserved(e)
    <3>1. CASE i \notin OpenSales(e)
      <4>1. OpenSales(e)' = OpenSales(e)
        BY <2>5, <3>1
      <4>2. Reserved(e)' = Reserved(e)
        BY <2>1, <4>1 DEF Reserved
      <4> QED BY <2>2, <4>2
    <3>2. CASE i \in OpenSales(e)
      <4>1. PICK f : f = Remaining /\ \A j \in Ids : f[j] \in Nat
        BY DeliveredAndRemaining DEF Inductive
      <4>2. PICK S \in SUBSET Ids : S = OpenSales(e) /\ IsFiniteSet(S) /\ i \in S
        BY <2>4, <3>2
      <4>3. /\ SumFunctionOnSet(f, S) = f[i] + SumFunctionOnSet(f, S \ {i})
            /\ SumFunctionOnSet(f, S \ {i}) \in Int
        BY <4>1, <4>2, SumTakesOut
      <4>4. Reserved(e) = SumFunctionOnSet(f, S) /\ Reserved(e)' = SumFunctionOnSet(f, S \ {i})
        BY <2>1, <2>5, <4>1, <4>2 DEF Reserved
      <4>5. f[i] \in Nat
        BY <4>1
      <4> QED BY <4>3, <4>4, <4>5
    <3> QED BY <3>1, <3>2
  <2>7. Available(e)' >= 0
    BY <2>1, <2>2, <2>3, <2>6
  <2>8. (AllTold(e)' <=> AllTold(e)) /\ InProgress(e)' = InProgress(e)
    BY <1>1 DEF AllTold, Told, SpotOrders, Active, InProgress, Unbooked, Delivered, Order, Venue
  <2>9. AllTold(e) => book[e][Spot].quantity <= Holding(e) - InProgress(e)
    BY DEF Inductive, Accounts
  <2> QED BY <1>1, <2>1, <2>7, <2>8, <2>9
<1> QED BY <1>3, <1>4, <1>5, <1>6, <1>7, <1>8 DEF Inductive

\* What one more unit does to the account of the exchange it was executed on.
LEMMA UnitMovesTheAccount ==
    ASSUME Inductive, NEW i \in Ids, ExecuteUnit(i), Types', Executions', NEW e \in Exchanges
    PROVE  /\ Available(e)' >= 0
           /\ asked[i].exchange # e => Holding(e)' = Holding(e)
           /\ asked[i].exchange = e => Holding(e)' = Holding(e) - Delivered[i] + Delivered'[i]
<1>1. /\ resting[i] = "open" /\ executed' = [executed EXCEPT ![i] = @ + 1]
      /\ count' = count /\ asked' = asked
  BY DEF ExecuteUnit
<1>2. /\ i \in 1..count /\ asked[i].market = Spot /\ executed[i] \in Nat
      /\ asked[i].quantity \in Nat /\ executed[i] < asked[i].quantity
  BY <1>1, RestingIsBegun
<1>3. executed'[i] = executed[i] + 1 /\ \A j \in Ids : j # i => executed'[j] = executed[j]
  BY <1>1 DEF Inductive, Types
<1>4. \A j \in Ids : j # i => resting'[j] = resting[j]
  BY DEF ExecuteUnit, Inductive, Types
<1>5. resting'[i] = IF executed[i] + 1 = asked[i].quantity THEN "filled" ELSE "open"
  BY <1>1 DEF ExecuteUnit, Inductive, Types
<1>6. PICK f, g : /\ f = Delivered /\ g = Delivered' /\ \A j \in Ids : f[j] \in Int /\ g[j] \in Int
                  /\ \A j \in Ids : j # i => g[j] = f[j]
                  /\ g[i] = f[i] + Signed(asked[i].side, 1)
  <2>1. \A j \in Ids : /\ Delivered[j] = Signed(asked[j].side, executed[j])
                       /\ Delivered'[j] = Signed(asked[j].side, executed'[j])
    BY <1>1 DEF Delivered
  <2>2. \A j \in Ids : executed[j] \in Nat /\ executed'[j] \in Nat
    BY DEF Inductive, Types
  <2>3. \A j \in Ids : Delivered[j] \in Int /\ Delivered'[j] \in Int
    BY <2>1, <2>2 DEF Signed
  <2>4. \A j \in Ids : j # i => Delivered'[j] = Delivered[j]
    BY <1>3, <2>1
  <2>5. Delivered'[i] = Delivered[i] + Signed(asked[i].side, 1)
    BY <1>2, <1>3, <2>1 DEF Signed
  <2> HIDE DEF Delivered
  <2> QED BY <2>3, <2>4, <2>5
<1>7. PICK r, s : /\ r = Remaining /\ s = Remaining' /\ \A j \in Ids : r[j] \in Nat /\ s[j] \in Nat
                  /\ \A j \in Ids : j # i => s[j] = r[j]
                  /\ s[i] = r[i] - 1
  <2>1. \A j \in Ids : /\ Remaining[j] = asked[j].quantity - executed[j]
                       /\ Remaining'[j] = asked[j].quantity - executed'[j]
    BY <1>1 DEF Remaining
  <2>2. \A j \in Ids : /\ executed[j] \in Nat /\ executed'[j] \in Nat /\ asked[j].quantity \in Nat
                       /\ executed[j] <= asked[j].quantity /\ executed'[j] <= asked[j].quantity
    BY <1>1 DEF Inductive, Types, Executions, Asked
  <2>3. \A j \in Ids : Remaining[j] \in Nat /\ Remaining'[j] \in Nat
    BY <2>1, <2>2
  <2>4. \A j \in Ids : j # i => Remaining'[j] = Remaining[j]
    BY <1>3, <2>1
  <2>5. Remaining'[i] = Remaining[i] - 1
    BY <1>2, <1>3, <2>1
  <2> HIDE DEF Remaining
  <2> QED BY <2>3, <2>4, <2>5
<1>8. PICK S \in SUBSET Ids : S = SpotOrders(e) /\ S = SpotOrders(e)' /\ IsFiniteSet(S)
  <2>1. SpotOrders(e)' = SpotOrders(e)
    BY <1>1 DEF SpotOrders
  <2> QED BY <2>1, AccountSums DEF Inductive, SumsAreRight
<1>9. i \in S <=> asked[i].exchange = e
  BY <1>2, <1>8 DEF SpotOrders
<1>10. Holding(e) = SumFunctionOnSet(f, S) /\ Holding(e)' = SumFunctionOnSet(g, S)
  BY <1>6, <1>8 DEF Holding
<1>11. CASE asked[i].exchange # e
  <2>1. Holding(e)' = Holding(e)
    BY <1>6, <1>8, <1>9, <1>10, <1>11, SumOfSame
  <2>2. Available(e)' = Holding(e)' - Reserved(e)' /\ Available(e) = Holding(e) - Reserved(e)
        /\ Available(e) >= 0
    BY AccountSumsNext, NothingIsShort DEF SumsAreRight
  <2>3. OpenSales(e)' = OpenSales(e) /\ i \notin OpenSales(e)
    BY <1>1, <1>4, <1>8, <1>9, <1>11 DEF OpenSales
  <2>4. PICK T \in SUBSET Ids : T = OpenSales(e) /\ IsFiniteSet(T)
    BY AccountSums DEF Inductive, SumsAreRight
  <2>5. SumFunctionOnSet(r, T) = SumFunctionOnSet(s, T)
    BY <1>7, <2>3, <2>4, SumOfSame
  <2>6. Reserved(e)' = Reserved(e)
    BY <1>7, <2>3, <2>4, <2>5 DEF Reserved
  <2> QED BY <1>11, <2>1, <2>2, <2>6
<1>12. CASE asked[i].exchange = e
  <2>1. Holding(e)' = Holding(e) - f[i] + g[i]
    BY <1>6, <1>8, <1>9, <1>10, <1>12, SumChanges
  <2>2. /\ Available(e)' = Holding(e)' - Reserved(e)' /\ Reserved(e)' \in Nat
        /\ Available(e) = Holding(e) - Reserved(e) /\ Reserved(e) \in Nat
        /\ Available(e) >= 0 /\ Holding(e) \in Int
    BY AccountSumsNext, NothingIsShort DEF SumsAreRight
  <2>3. PICK T \in SUBSET Ids : T = OpenSales(e) /\ IsFiniteSet(T)
    BY AccountSums DEF Inductive, SumsAreRight
  <2>4. \A j \in S : j # i => (j \in OpenSales(e)' <=> j \in OpenSales(e))
    BY <1>1, <1>4, <1>8 DEF OpenSales
  <2>5. OpenSales(e) \subseteq S /\ OpenSales(e)' \subseteq S
    BY <1>8 DEF OpenSales
  <2>6. f[i] \in Int /\ r[i] \in Nat /\ s[i] \in Nat
    BY <1>6, <1>7
  <2>7. CASE asked[i].side = Buy
    <3>1. i \notin OpenSales(e) /\ i \notin OpenSales(e)'
      BY <1>1, <2>7, Names DEF OpenSales
    <3>2. OpenSales(e)' = T
      BY <2>3, <2>4, <2>5, <3>1
    <3>3. SumFunctionOnSet(r, T) = SumFunctionOnSet(s, T)
      BY <1>7, <2>3, <3>1, SumOfSame
    <3>4. Reserved(e)' = Reserved(e)
      BY <1>7, <2>3, <3>2, <3>3 DEF Reserved
    <3>5. g[i] = f[i] + 1
      BY <1>6, <2>7 DEF Signed
    <3> QED BY <1>6, <1>12, <2>1, <2>2, <2>6, <3>4, <3>5
  <2>8. CASE asked[i].side # Buy
    <3>1. asked[i].side = Sell
      BY <2>8, Names DEF Inductive, Types, Asked
    <3>2. i \in T
      BY <1>1, <1>8, <1>9, <1>12, <2>3, <3>1 DEF OpenSales
    <3>3. g[i] = f[i] - 1
      BY <1>6, <2>6, <2>8 DEF Signed
    <3>4. Reserved(e) = SumFunctionOnSet(r, T) /\ Reserved(e)' = SumFunctionOnSet(s, OpenSales(e)')
      BY <1>7, <2>3 DEF Reserved
    <3>5. Reserved(e)' = Reserved(e) - 1
      <4>1. CASE resting'[i] = "open"
        <5>1. OpenSales(e)' = T
          <6>1. i \in OpenSales(e)'
            BY <1>1, <1>8, <1>9, <1>12, <3>1, <4>1 DEF OpenSales
          <6> QED BY <2>3, <2>4, <2>5, <3>2, <6>1
        <5>2. SumFunctionOnSet(s, T) = SumFunctionOnSet(r, T) - r[i] + s[i]
          BY <1>7, <2>3, <3>2, SumChanges
        <5> QED BY <1>7, <2>2, <2>6, <3>4, <5>1, <5>2
      <4>2. CASE resting'[i] # "open"
        <5>1. OpenSales(e)' = T \ {i}
          <6>1. i \notin OpenSales(e)'
            BY <4>2 DEF OpenSales
          <6> QED BY <2>3, <2>4, <2>5, <6>1
        <5>2. executed[i] + 1 = asked[i].quantity
          BY <1>5, <4>2
        <5>3. r[i] = 1
          BY <1>2, <1>7, <5>2 DEF Remaining
        <5>4. IsFiniteSet(T \ {i}) /\ T \ {i} \in SUBSET Ids
          BY <2>3, FS_Subset
        <5>5. SumFunctionOnSet(r, T \ {i}) = SumFunctionOnSet(s, T \ {i})
          BY <1>7, <5>4, SumOfSame
        <5>6. /\ SumFunctionOnSet(r, T) = r[i] + SumFunctionOnSet(r, T \ {i})
              /\ SumFunctionOnSet(r, T \ {i}) \in Int
          BY <1>7, <2>3, <3>2, SumTakesOut
        <5> QED BY <3>4, <5>1, <5>3, <5>5, <5>6
      <4> QED BY <4>1, <4>2
    <3> QED BY <1>6, <1>12, <2>1, <2>2, <2>6, <3>3, <3>5
  <2> QED BY <2>7, <2>8
<1> QED BY <1>11, <1>12

\* The exchange executes a unit more of an order: the book is not told yet, and an order
\* that was given up is an execution that no row tells of.
LEMMA ExecuteUnitKept == ASSUME Inductive, NEW i \in Ids, ExecuteUnit(i) PROVE Inductive'
<1>1. /\ resting[i] = "open" /\ executed' = [executed EXCEPT ![i] = @ + 1]
      /\ attested' = attested /\ count' = count /\ asked' = asked /\ stops' = stops
      /\ book' = book /\ rows' = rows /\ run' = run
      /\ faults' = faults /\ announced' = announced /\ triggered' = triggered /\ cur' = cur
  BY DEF ExecuteUnit, database, cur
<1>2. /\ i \in 1..count /\ count \in Nat /\ asked[i].market = Spot /\ executed[i] \in Nat
      /\ asked[i].quantity \in Nat /\ executed[i] < asked[i].quantity /\ rows[i].status # "filled"
      /\ i = cur /\ Active => run.step \notin {"gate"} /\ run.status # "filled"
  BY <1>1, RestingIsBegun
<1>3. /\ executed' \in [Ids -> Nat] /\ executed'[i] = executed[i] + 1
      /\ \A j \in Ids : j # i => executed'[j] = executed[j]
  BY <1>1, <1>2 DEF Inductive, Types
<1>4. /\ resting' \in [Ids -> {"none", "open", "filled", "cancelled"}]
      /\ \A j \in Ids : j # i => resting'[j] = resting[j]
      /\ resting'[i] = IF executed[i] + 1 = asked[i].quantity THEN "filled" ELSE "open"
  BY <1>1 DEF ExecuteUnit, Inductive, Types
<1>5. Types'
  BY <1>1, <1>3, <1>4 DEF Inductive, Types
<1>6. Executions'
  <2> SUFFICES ASSUME NEW j \in Ids
               PROVE  /\ executed'[j] <= asked'[j].quantity
                      /\ resting'[j] = "none" => executed'[j] = 0
                      /\ resting'[j] # "none" => asked'[j].market = Spot
                      /\ resting'[j] = "open" => executed'[j] < asked'[j].quantity
                      /\ resting'[j] = "filled" => executed'[j] = asked'[j].quantity
                      /\ rows'[j].status = "filled" /\ asked'[j].market = Spot =>
                             resting'[j] = "filled" /\ rows'[j].filled = executed'[j]
    BY DEF Executions
  <2>1. CASE j = i
    BY <1>1, <1>2, <1>3, <1>4, <2>1
  <2>2. CASE j # i
    BY <1>1, <1>3, <1>4, <2>2 DEF Inductive, Executions
  <2> QED BY <2>1, <2>2
<1>7. Unbegun'
  <2>1. \A j \in Ids : j > count => j # i
    BY <1>2
  <2> HIDE DEF Ids
  <2> QED BY <1>1, <1>3, <1>4, <2>1, UnbegunKept
<1>8. AtHand'
  <2>1. Active => cur \in Ids
    BY Begun
  <2>2. cur = i /\ Active => run.step \notin {"gate", "place"} /\ run.status # "filled"
    BY <1>1, <1>2 DEF Inductive, AtHand
  <2>3. Active => \/ resting'[cur] = resting[cur] /\ executed'[cur] = executed[cur]
                  \/ run.step \notin {"gate", "place"} /\ run.status # "filled"
    BY <1>3, <1>4, <2>1, <2>2
  <2>4. Order' = Order /\ Units' = Units /\ (Active' <=> Active)
    BY <1>1 DEF Order, Units, Active
  <2> QED BY <1>1, <2>3, <2>4 DEF Inductive, AtHand
<1>9. Entries' /\ Window' /\ StopsAreKnown'
  BY <1>1, FuturesAlone
<1>10. Accounts'
  <2> SUFFICES ASSUME NEW e \in Exchanges
               PROVE  /\ Available(e)' >= 0
                      /\ AllTold(e)' => book'[e][Spot].quantity <= Holding(e)' - InProgress(e)'
    BY DEF Accounts
  <2>1. /\ Available(e)' >= 0
        /\ asked[i].exchange # e => Holding(e)' = Holding(e)
        /\ asked[i].exchange = e => Holding(e)' = Holding(e) - Delivered[i] + Delivered'[i]
    BY <1>5, <1>6, UnitMovesTheAccount
  <2>2. SpotOrders(e)' = SpotOrders(e) /\ SpotOrders(e) \in SUBSET Ids
    BY <1>1, AccountSums DEF Inductive, SumsAreRight, SpotOrders
  <2>3. \A j : (Told(j)' <=> Told(j)) /\ (Unbooked(j)' <=> Unbooked(j))
    BY <1>1 DEF Told, Unbooked, Active, Order, Venue
  <2>4. AllTold(e)' => AllTold(e)
    <3>1. \A j \in SpotOrders(e) : executed[j] > 0 => executed'[j] > 0
      <4> SUFFICES ASSUME NEW j \in SpotOrders(e), executed[j] > 0 PROVE executed'[j] > 0
        OBVIOUS
      <4>1. CASE j = i
        BY <1>2, <1>3, <4>1
      <4>2. CASE j # i
        BY <1>3, <2>2, <4>2
      <4> QED BY <4>1, <4>2
    <3> HIDE DEF Told, SpotOrders
    <3> QED BY <2>2, <2>3, <3>1 DEF AllTold
  <2>5. AllTold(e) => book[e][Spot].quantity <= Holding(e) - InProgress(e)
    BY DEF Inductive, Accounts
  <2>6. /\ Holding(e) \in Int /\ Delivered[i] \in Int /\ Delivered'[i] \in Int
        /\ \A j \in Ids : j # i => Delivered'[j] = Delivered[j]
    <3>1. Holding(e) \in Int
      BY NothingIsShort
    <3>2. Delivered[i] \in Int /\ Delivered'[i] \in Int
      <4>1. Delivered[i] = Signed(asked[i].side, executed[i])
            /\ Delivered'[i] = Signed(asked[i].side, executed[i] + 1)
        BY <1>1, <1>3 DEF Delivered
      <4> QED BY <1>2, <4>1 DEF Signed
    <3>3. \A j \in Ids : j # i => Delivered'[j] = Delivered[j]
      BY <1>1, <1>3 DEF Delivered
    <3> QED BY <3>1, <3>2, <3>3
  <2>7. CASE asked[i].exchange # e
    <3>1. InProgress(e)' = InProgress(e)
      <4>1. Unbooked(e) => cur # i /\ cur \in Ids
        <5>1. Unbooked(e) => Active
          BY DEF Unbooked, Active
        <5> QED BY <2>7, <5>1, Begun DEF Unbooked, Venue, Order
      <4> HIDE DEF Unbooked, Ids, Delivered
      <4> QED BY <1>1, <2>3, <2>6, <4>1 DEF InProgress
    <3> QED BY <1>1, <2>1, <2>4, <2>5, <2>7, <3>1
  <2>8. CASE asked[i].exchange = e /\ i = cur /\ Unbooked(e)
    <3>1. InProgress(e) = Delivered[i] /\ InProgress(e)' = Delivered'[i]
      BY <1>1, <2>3, <2>8 DEF InProgress
    <3>2. book[e][Spot].quantity \in Int
      BY EntryFields, Names
    <3> QED BY <1>1, <2>1, <2>4, <2>5, <2>6, <2>8, <3>1, <3>2
  <2>9. CASE asked[i].exchange = e /\ ~(i = cur /\ Unbooked(e))
    <3>1. ~Told(i)
      <4>1. i = cur /\ Active => run.step \notin {"place", "poll"}
        <5>1. i = cur => Order.market = Spot /\ Venue = e
          BY <1>2, <2>9 DEF Order, Venue
        <5> QED BY <1>2, <2>9, <5>1 DEF Unbooked, Active, Inductive, AtHand
      <4> QED BY <1>2, <4>1 DEF Told
    <3>2. i \in SpotOrders(e) /\ executed'[i] > 0
      BY <1>2, <1>3, <2>9 DEF SpotOrders
    <3>3. ~AllTold(e)'
      BY <2>2, <2>3, <3>1, <3>2 DEF AllTold
    <3> QED BY <2>1, <3>3
  <2> QED BY <2>7, <2>8, <2>9
<1> QED BY <1>5, <1>6, <1>7, <1>8, <1>9, <1>10 DEF Inductive

-----------------------------------------------------------------------------
(* The next order.                                                         *)

\* The number of the next order is unused, and nothing refers to it.
LEMMA NextIsUnused ==
    ASSUME Inductive, run.step = "idle", count < MaxOrders
    PROVE  /\ count + 1 \in Ids /\ count \in Nat /\ ~Active
           /\ asked[count + 1] = NotAsked /\ resting[count + 1] = "none"
           /\ executed[count + 1] = 0 /\ rows[count + 1] = NoRow
           /\ count + 1 \notin stops \union triggered /\ announced[count + 1] = {}
           /\ \A e \in Exchanges : Entry(e).decision # count + 1
           /\ \A i \in Ids : i > count + 1 => i > count /\ i # count + 1
           /\ \A i \in Ids : i <= count + 1 => i = count + 1 \/ i <= count
<1>1. count \in Nat /\ ~Active
  BY Bounds DEF Inductive, Types, Active
<1>2. count + 1 \in Nat /\ count + 1 > 0 /\ count + 1 <= MaxOrders /\ count + 1 > count
  BY <1>1, Bounds
<1>3. count + 1 \in Ids
  BY <1>2, Bounds
<1>4. /\ asked[count + 1] = NotAsked /\ resting[count + 1] = "none"
      /\ executed[count + 1] = 0 /\ rows[count + 1] = NoRow
      /\ count + 1 \notin stops \union triggered /\ announced[count + 1] = {}
  BY <1>2, <1>3 DEF Inductive, Unbegun
<1>5. ASSUME NEW e \in Exchanges PROVE Entry(e).decision # count + 1
  <2>1. EntryIsKnown(e)
    BY DEF Inductive, Entries
  <2>2. CASE Entry(e).quantity = 0
    BY <1>2, <2>1, <2>2 DEF EntryIsKnown, NoPosition, NoOrder
  <2>3. CASE Entry(e).quantity # 0
    <3>1. Entry(e).decision \in 1..count
      BY <2>1, <2>3 DEF EntryIsKnown
    <3> QED BY <1>1, <3>1
  <2> QED BY <2>2, <2>3
<1>6. /\ \A i \in Ids : i > count + 1 => i > count /\ i # count + 1
      /\ \A i \in Ids : i <= count + 1 => i = count + 1 \/ i <= count
  BY <1>1, Bounds
<1> QED BY <1>1, <1>3, <1>4, <1>5, <1>6

\* What the next order leaves alone: every other order, and the sums of every account.
LEMMA NextOrder ==
    ASSUME Inductive, NEW e \in Exchanges, NEW m \in Markets, NEW s \in Sides,
           NEW q \in Quantities[m], Execute(e, m, s, q)
    PROVE  /\ Types' /\ Unbegun' /\ Executions'
           /\ \A i \in Ids : i # count + 1 => asked'[i] = asked[i]
           /\ asked'[count + 1] = [exchange |-> e, market |-> m, side |-> s, quantity |-> q]
<1>1. /\ run.step = "idle" /\ count < MaxOrders /\ count' = count + 1
      /\ asked' = [asked EXCEPT ![count + 1] =
                      [exchange |-> e, market |-> m, side |-> s, quantity |-> q]]
      /\ run' = Idle(IF m = Futures THEN "gate" ELSE "place")
      /\ attested' = attested /\ resting' = resting /\ executed' = executed /\ stops' = stops
      /\ triggered' = triggered /\ book' = book /\ rows' = rows /\ faults' = faults
      /\ announced' = announced
  BY DEF Execute, exchange, database
<1>2. PICK n : /\ n = count + 1 /\ n \in Ids /\ resting[n] = "none" /\ executed[n] = 0
               /\ rows[n] = NoRow /\ n \in Nat /\ n <= MaxOrders /\ n > 0
               /\ \A i \in Ids : i > n => i > count /\ i # n
               /\ \A i \in Ids : i <= n => i = n \/ i <= count
  BY <1>1, NextIsUnused, Bounds
<1>3. q \in Nat /\ q > 0
  BY Bounds
<1>4. [exchange |-> e, market |-> m, side |-> s, quantity |-> q] \in Asked
  BY <1>3 DEF Asked
<1>5. /\ asked' \in [Ids -> Asked] /\ \A i \in Ids : i # n => asked'[i] = asked[i]
      /\ asked'[n] = [exchange |-> e, market |-> m, side |-> s, quantity |-> q]
  <2>1. asked \in [Ids -> Asked]
    BY DEF Inductive, Types
  <2> HIDE DEF Asked, Ids
  <2> QED BY <1>1, <1>2, <1>4, <2>1
<1>6. run' \in Locals
  BY <1>1, EndsAreLocals
<1>7. count' \in 0..MaxOrders
  BY <1>1, <1>2, Bounds
<1>8. Types'
  BY <1>1, <1>5, <1>6, <1>7 DEF Inductive, Types
<1>9. Unbegun'
  <2> SUFFICES ASSUME NEW i \in Ids
               PROVE  /\ i > n => /\ asked'[i] = NotAsked /\ resting'[i] = "none"
                                  /\ executed'[i] = 0 /\ rows'[i] = NoRow
                                  /\ i \notin stops' \union triggered' /\ announced'[i] = {}
                      /\ i <= n => asked'[i].quantity \in Quantities[asked'[i].market]
    BY <1>1, <1>2 DEF Unbegun
  <2>1. CASE i = n
    <3>1. ~(i > n)
      BY <1>2, <2>1
    <3> QED BY <1>5, <2>1, <3>1
  <2>2. CASE i # n
    <3>1. /\ i > count => /\ asked[i] = NotAsked /\ resting[i] = "none" /\ executed[i] = 0
                          /\ rows[i] = NoRow /\ i \notin stops \union triggered
                          /\ announced[i] = {}
          /\ i <= count => asked[i].quantity \in Quantities[asked[i].market]
      BY DEF Inductive, Unbegun
    <3>2. (i > n => i > count) /\ (i <= n => i <= count) /\ asked'[i] = asked[i]
      BY <1>2, <1>5, <2>2
    <3> QED BY <1>1, <3>1, <3>2
  <2> QED BY <2>1, <2>2
<1>10. Executions'
  <2> SUFFICES ASSUME NEW i \in Ids
               PROVE  /\ executed'[i] <= asked'[i].quantity
                      /\ resting'[i] = "none" => executed'[i] = 0
                      /\ resting'[i] # "none" => asked'[i].market = Spot
                      /\ resting'[i] = "open" => executed'[i] < asked'[i].quantity
                      /\ resting'[i] = "filled" => executed'[i] = asked'[i].quantity
                      /\ rows'[i].status = "filled" /\ asked'[i].market = Spot =>
                             resting'[i] = "filled" /\ rows'[i].filled = executed'[i]
    BY DEF Executions
  <2>1. CASE i = n
    BY <1>1, <1>2, <1>3, <1>5, <2>1 DEF NoRow
  <2>2. CASE i # n
    BY <1>1, <1>5, <2>2 DEF Inductive, Executions
  <2> QED BY <2>1, <2>2
<1> QED BY <1>2, <1>5, <1>8, <1>9, <1>10

\* The next order delivers and reserves nothing yet.
LEMMA NextOrderMovesNoAccount ==
    ASSUME Inductive, NEW e \in Exchanges, NEW m \in Markets, NEW s \in Sides,
           NEW q \in Quantities[m], Execute(e, m, s, q), NEW x \in Exchanges
    PROVE  /\ Holding(x)' = Holding(x) /\ Available(x)' >= 0
           /\ SpotOrders(x) \subseteq SpotOrders(x)' /\ Delivered'[count + 1] = 0
<1>1. /\ run.step = "idle" /\ count < MaxOrders /\ count' = count + 1
      /\ resting' = resting /\ executed' = executed
  BY DEF Execute, exchange
<1>2. PICK n : /\ n = count + 1 /\ n \in Ids /\ resting[n] = "none" /\ executed[n] = 0
  BY <1>1, NextIsUnused
<1>3. /\ \A i \in Ids : i # n => asked'[i] = asked[i]
      /\ asked'[n] = [exchange |-> e, market |-> m, side |-> s, quantity |-> q]
      /\ Types' /\ Executions'
  BY <1>2, NextOrder
<1>4. /\ SpotOrders(x) \in SUBSET Ids /\ IsFiniteSet(SpotOrders(x))
      /\ OpenSales(x) \in SUBSET Ids /\ IsFiniteSet(OpenSales(x))
  BY AccountSums DEF Inductive, SumsAreRight
<1>5. count \in Nat /\ n \notin 1..count /\ 1..n = 1..count \union {n}
  <2>1. count \in Nat
    BY Bounds DEF Inductive, Types
  <2> QED BY <1>2, <2>1
<1>6. n \notin SpotOrders(x) /\ n \notin OpenSales(x)
  BY <1>5 DEF SpotOrders, OpenSales
<1>7. /\ SpotOrders(x) \subseteq SpotOrders(x)'
      /\ SpotOrders(x)' = SpotOrders(x) \/ SpotOrders(x)' = SpotOrders(x) \union {n}
  <2>1. SpotOrders(x)' = {i \in 1..n : asked'[i].exchange = x /\ asked'[i].market = Spot}
    BY <1>1, <1>2 DEF SpotOrders
  <2>2. ASSUME NEW i \in 1..count PROVE i \in SpotOrders(x)' <=> i \in SpotOrders(x)
    <3>1. i \in Ids /\ i # n /\ i \in 1..n
      BY <1>5, Bounds DEF Inductive, Types
    <3> QED BY <1>3, <2>1, <3>1 DEF SpotOrders
  <2>3. SpotOrders(x) \subseteq 1..count /\ SpotOrders(x)' \subseteq 1..count \union {n}
    BY <1>5, <2>1 DEF SpotOrders
  <2> HIDE DEF SpotOrders
  <2> QED BY <2>2, <2>3
<1>8. OpenSales(x)' = OpenSales(x)
  <2>1. n \notin OpenSales(x)'
    BY <1>1, <1>2 DEF OpenSales
  <2>2. \A i \in SpotOrders(x) : i \in OpenSales(x)' <=> i \in OpenSales(x)
    BY <1>1, <1>3, <1>4, <1>6, <1>7 DEF OpenSales
  <2>3. OpenSales(x) \subseteq SpotOrders(x) /\ OpenSales(x)' \subseteq SpotOrders(x)'
    BY DEF OpenSales
  <2> HIDE DEF SpotOrders, OpenSales
  <2> QED BY <1>7, <2>1, <2>2, <2>3
<1>9. PICK f, g : /\ f = Delivered /\ g = Delivered' /\ \A i \in Ids : f[i] \in Int /\ g[i] \in Int
                  /\ \A i \in Ids : i # n => g[i] = f[i]
                  /\ g[n] = 0
  <2>1. \A i \in Ids : executed[i] \in Nat
                       /\ Delivered[i] = Signed(asked[i].side, executed[i])
                       /\ Delivered'[i] = Signed(asked'[i].side, executed[i])
    BY <1>1 DEF Delivered, Inductive, Types
  <2>2. \A i \in Ids : Delivered[i] \in Int /\ Delivered'[i] \in Int
    BY <2>1 DEF Signed
  <2>3. \A i \in Ids : i # n => Delivered'[i] = Delivered[i]
    BY <1>3, <2>1
  <2>4. Delivered'[n] = 0
    BY <1>2, <2>1 DEF Signed
  <2> HIDE DEF Delivered
  <2> QED BY <2>2, <2>3, <2>4
<1>10. PICK S \in SUBSET Ids : S = SpotOrders(x) /\ IsFiniteSet(S) /\ n \notin S
  BY <1>4, <1>6
<1>11. SumFunctionOnSet(g, S) = SumFunctionOnSet(f, S)
  BY <1>9, <1>10, SumOfSame
<1>12. SumFunctionOnSet(g, S \union {n}) = SumFunctionOnSet(g, S) + g[n] /\ SumFunctionOnSet(f, S) \in Int
  <2>1. \A i \in S \union {n} : g[i] \in Int
    BY <1>2, <1>9, <1>10
  <2>2. SumFunctionOnSet(g, S \union {n}) = SumFunctionOnSet(g, S) + g[n]
    BY <1>10, <2>1, SumTakesIn
  <2>3. SumFunctionOnSet(f, S) \in Int
    BY <1>9, <1>10, SumIsInt
  <2> QED BY <2>2, <2>3
<1>13. Holding(x)' = Holding(x)
  <2>1. Holding(x) = SumFunctionOnSet(f, S) /\ Holding(x)' = SumFunctionOnSet(g, SpotOrders(x)')
    BY <1>9, <1>10 DEF Holding
  <2> QED BY <1>7, <1>9, <1>10, <1>11, <1>12, <2>1
<1>14. Reserved(x)' = Reserved(x)
  <2>1. PICK T \in SUBSET Ids : T = OpenSales(x) /\ IsFiniteSet(T) /\ n \notin T
    BY <1>4, <1>6
  <2>2. PICK r, t : r = Remaining /\ t = Remaining' /\ \A i \in T : r[i] \in Nat /\ t[i] = r[i]
    <3>1. \A i \in Ids : Remaining[i] \in Nat
      BY DeliveredAndRemaining DEF Inductive
    <3>2. \A i \in T : Remaining'[i] = Remaining[i]
      BY <1>1, <1>3, <2>1 DEF Remaining
    <3> HIDE DEF Remaining
    <3> QED BY <2>1, <3>1, <3>2
  <2>3. SumFunctionOnSet(r, T) = SumFunctionOnSet(t, T)
    BY <2>1, <2>2, SumOfSame
  <2> QED BY <1>8, <2>1, <2>2, <2>3 DEF Reserved
<1>15. Available(x)' = Holding(x)' - Reserved(x)'
  BY <1>3, AccountSumsNext DEF SumsAreRight
<1>16. Available(x) = Holding(x) - Reserved(x) /\ Available(x) >= 0
  BY NothingIsShort
<1> QED BY <1>2, <1>7, <1>9, <1>13, <1>14, <1>15, <1>16

\* The next order is taken up.
LEMMA ExecuteKept ==
    ASSUME Inductive, NEW e \in Exchanges, NEW m \in Markets, NEW s \in Sides,
           NEW q \in Quantities[m], Execute(e, m, s, q)
    PROVE  Inductive'
<1>1. /\ run.step = "idle" /\ count < MaxOrders /\ count' = count + 1
      /\ run' = Idle(IF m = Futures THEN "gate" ELSE "place")
      /\ resting' = resting /\ executed' = executed /\ stops' = stops
      /\ triggered' = triggered /\ book' = book /\ rows' = rows
      /\ announced' = announced
  BY DEF Execute, exchange, database
<1>2. PICK n : /\ n = count + 1 /\ n = cur' /\ n \in Ids /\ n \in Nat /\ n > 0 /\ count \in Nat
               /\ asked[n] = NotAsked /\ resting[n] = "none" /\ executed[n] = 0 /\ rows[n] = NoRow
               /\ n \notin stops \union triggered /\ announced[n] = {}
               /\ \A x \in Exchanges : Entry(x).decision # n
  BY <1>1, NextIsUnused, Bounds DEF cur
<1>3. Types' /\ Unbegun' /\ Executions'
  BY NextOrder
<1>4. /\ \A i \in Ids : i # n => asked'[i] = asked[i]
      /\ asked'[n] = [exchange |-> e, market |-> m, side |-> s, quantity |-> q]
  BY <1>2, NextOrder
<1>5. /\ run'.step \in {"gate", "place"} /\ run'.status = "pending"
      /\ run'.step = "gate" => m = Futures
  BY <1>1, EndsAreLocals
<1>6. AtHand'
  <2>1. Order' = asked'[n] /\ Order'.market = m
    BY <1>2, <1>4 DEF Order
  <2>2. \A x \in Exchanges : book'[x][Futures].decision # n
    BY <1>1, <1>2 DEF Entry
  <2> QED BY <1>1, <1>2, <1>5, <2>1, <2>2 DEF AtHand
<1>7. \A i \in Ids : i <= count => i # n
  BY <1>2, Bounds
<1>8. ~Active /\ count <= MaxOrders
  BY <1>1, Bounds DEF Active, Inductive, Types
<1>9. Entries'
  <2> SUFFICES ASSUME NEW x \in Exchanges PROVE EntryIsKnown(x)'
    BY DEF Entries
  <2>1. PICK p : p = Entry(x) /\ p = Entry(x)'
    BY <1>1 DEF Entry
  <2>2. EntryIsKnown(x)
    BY DEF Inductive, Entries
  <2>3. p.quantity = 0 => p = NoPosition
    BY <2>1, <2>2 DEF EntryIsKnown
  <2>4. ASSUME p.quantity # 0
        PROVE  /\ p.decision \in 1..count'
               /\ asked'[p.decision].exchange = x
               /\ asked'[p.decision].market = Futures
               /\ p.stop # NoOrder => p.stop = p.decision /\ p.stop \in stops' \union triggered'
               /\ p.stop = NoOrder /\ RecordedAsFilled(Entry(x).decision)'
                      => LackAnnounced(Entry(x).decision)'
    <3>1. PICK d : d = p.decision /\ d \in 1..count
      BY <2>1, <2>2, <2>4 DEF EntryIsKnown
    <3>2. d \in Ids /\ d # n /\ d \in 1..count'
      BY <1>1, <1>2, <1>8, <3>1, Bounds
    <3>3. asked'[d] = asked[d] /\ announced'[d] = announced[d] /\ rows'[d] = rows[d]
      BY <1>1, <1>4, <3>2
    <3>4. /\ asked[d].exchange = x /\ asked[d].market = Futures
          /\ p.stop # NoOrder => p.stop = d /\ p.stop \in stops \union triggered
          /\ p.stop = NoOrder /\ rows[d].status = "filled" => LackAnnounced(d)
      BY <2>1, <2>2, <2>4, <3>1 DEF EntryIsKnown, RecordedAsFilled
    <3>5. RecordedAsFilled(Entry(x).decision)' => rows[d].status = "filled"
      BY <1>5, <2>1, <3>1, <3>3 DEF RecordedAsFilled
    <3>6. LackAnnounced(d) => LackAnnounced(Entry(x).decision)'
      BY <2>1, <3>1, <3>3 DEF LackAnnounced
    <3> QED BY <1>1, <3>1, <3>2, <3>3, <3>4, <3>5, <3>6
  <2> HIDE DEF Entry, LackAnnounced, RecordedAsFilled
  <2> QED BY <2>1, <2>3, <2>4 DEF EntryIsKnown
<1>10. Window'
  BY <1>5 DEF Window
<1>11. StopsAreKnown'
  <2> SUFFICES ASSUME NEW i \in stops'
               PROVE  /\ asked'[i].market = Futures /\ asked'[i].exchange \in Conditional
                      /\ StopIsAccounted(i)'
    BY DEF StopsAreKnown
  <2>1. i \in stops /\ i \in Ids /\ i # n
    BY <1>1, <1>2 DEF Inductive, Types
  <2>2. asked[i].market = Futures /\ asked[i].exchange \in Conditional /\ StopIsAccounted(i)
    BY <2>1 DEF Inductive, StopsAreKnown
  <2>3. asked'[i] = asked[i]
    BY <1>4, <2>1
  <2>4. ASSUME NEW j \in Ids, j # n, NeverRecorded(j) PROVE NeverRecorded(j)'
    BY <1>1, <1>2, <2>4 DEF NeverRecorded
  <2>5. ASSUME NEW j \in Closers(i) PROVE j \in Closers(i)' /\ j \in Ids /\ j # n
    <3>1. j \in Ids /\ asked[j].market = Futures /\ asked[j].exchange = asked[i].exchange /\ j > i
      BY DEF Closers
    <3>2. asked[n].market # Futures
      BY <1>2, Names DEF NotAsked
    <3>3. j # n
      BY <3>1, <3>2
    <3>4. asked'[j] = asked[j]
      BY <1>4, <3>1, <3>3
    <3> QED BY <2>3, <3>1, <3>3, <3>4 DEF Closers
  <2>6. ASSUME Entry(asked[i].exchange).stop = i PROVE StopIsAccounted(i)'
    BY <1>1, <2>3, <2>6 DEF StopIsAccounted, Entry
  <2>7. ASSUME "placement_failed" \in announced[i] PROVE StopIsAccounted(i)'
    BY <1>1, <2>7 DEF StopIsAccounted
  <2>8. ASSUME NeverRecorded(i) PROVE StopIsAccounted(i)'
    BY <2>1, <2>4, <2>8 DEF StopIsAccounted
  <2>9. ASSUME \E j \in Closers(i) : "cancel_failed" \in announced[j] \/ NeverRecorded(j)
        PROVE  StopIsAccounted(i)'
    <3>1. PICK j \in Closers(i) : "cancel_failed" \in announced[j] \/ NeverRecorded(j)
      BY <2>9
    <3>2. "cancel_failed" \in announced'[j] \/ NeverRecorded(j)'
      BY <1>1, <2>4, <2>5, <3>1
    <3> HIDE DEF NeverRecorded, Closers
    <3> QED BY <2>5, <3>1, <3>2 DEF StopIsAccounted
  <2>10. StopIsAccounted(i)'
    <3>1. run.step # "record" /\ run.step # "cancel"
      BY <1>1
    <3> HIDE DEF NeverRecorded, Closers, Entry
    <3> QED BY <2>2, <2>6, <2>7, <2>8, <2>9, <3>1 DEF StopIsAccounted
  <2> QED BY <2>2, <2>3, <2>10
<1>12. Accounts'
  <2> SUFFICES ASSUME NEW x \in Exchanges
               PROVE  /\ Available(x)' >= 0
                      /\ AllTold(x)' => book'[x][Spot].quantity <= Holding(x)' - InProgress(x)'
    BY DEF Accounts
  <2>1. /\ Holding(x)' = Holding(x) /\ Available(x)' >= 0
        /\ SpotOrders(x) \subseteq SpotOrders(x)' /\ Delivered'[n] = 0
    BY <1>2, NextOrderMovesNoAccount
  <2>2. AllTold(x)' => AllTold(x)
    <3> SUFFICES ASSUME AllTold(x)', NEW i \in SpotOrders(x), executed[i] > 0 PROVE Told(i)
      BY DEF AllTold
    <3>1. i # n
      <4>1. i \in 1..count
        BY DEF SpotOrders
      <4> QED BY <1>2, <4>1
    <3>2. Told(i)'
      BY <1>1, <2>1 DEF AllTold
    <3>3. rows'[i].status = "filled"
      BY <1>2, <3>1, <3>2 DEF Told
    <3> QED BY <1>1, <3>3 DEF Told
  <2>3. AllTold(x) => book[x][Spot].quantity <= Holding(x) - InProgress(x)
    BY DEF Inductive, Accounts
  <2>4. InProgress(x) = 0
    BY <1>1 DEF InProgress, Unbooked
  <2>5. InProgress(x)' = 0
    BY <1>2, <2>1 DEF InProgress
  <2> HIDE DEF AllTold, InProgress
  <2> QED BY <1>1, <2>1, <2>2, <2>3, <2>4, <2>5
<1> QED BY <1>3, <1>6, <1>9, <1>10, <1>11, <1>12 DEF Inductive

-----------------------------------------------------------------------------
(* The coroutine after the fill of a futures order.                        *)

\* A position is still protected or on record where it does not change, its stop is not
\* forgotten, and its entry, if about to be recorded as filled, has its lack announced.
LEMMA EntryKept ==
    ASSUME Inductive, UNCHANGED <<count, asked>>, NEW e \in Exchanges, Entry(e)' = Entry(e),
           Entry(e).stop \in stops \union triggered => Entry(e).stop \in stops' \union triggered',
           NEW d, d = Entry(e).decision,
           d \in Ids /\ asked[d].exchange = e =>
               /\ LackAnnounced(d) => LackAnnounced(d)'
               /\ RecordedAsFilled(d)' => RecordedAsFilled(d) \/ LackAnnounced(d)'
    PROVE  EntryIsKnown(e)'
<1>1. PICK p : p = Entry(e) /\ p = Entry(e)' /\ d = p.decision
  BY DEF Entry
<1>2. /\ p.quantity = 0 => p = NoPosition
      /\ p.quantity # 0 =>
          /\ d \in 1..count
          /\ asked[d].exchange = e
          /\ asked[d].market = Futures
          /\ p.stop # NoOrder => p.stop = d /\ p.stop \in stops \union triggered
          /\ p.stop = NoOrder /\ RecordedAsFilled(d) => LackAnnounced(d)
  <2>1. EntryIsKnown(e)
    BY DEF Inductive, Entries
  <2> HIDE DEF Entry, RecordedAsFilled, LackAnnounced
  <2> QED BY <1>1, <2>1 DEF EntryIsKnown
<1>3. d \in 1..count => d \in Ids
  <2>1. count \in Nat /\ count <= MaxOrders
    BY Bounds DEF Inductive, Types
  <2> QED BY <2>1, Bounds
<1>4. p.quantity # 0 /\ p.stop = NoOrder /\ RecordedAsFilled(d)' => LackAnnounced(d)'
  <2> HIDE DEF LackAnnounced, RecordedAsFilled, Ids
  <2> QED BY <1>2, <1>3
<1>5. p.quantity # 0 /\ p.stop # NoOrder => p.stop = d /\ p.stop \in stops' \union triggered'
  BY <1>1, <1>2
<1>6. count' = count /\ asked' = asked /\ cur' = cur
  BY DEF cur
<1>7. p.quantity # 0 /\ p.stop = NoOrder /\ RecordedAsFilled(Entry(e).decision)' => LackAnnounced(Entry(e).decision)'
  BY <1>1, <1>4, <1>6 DEF RecordedAsFilled, LackAnnounced
<1> HIDE DEF Entry, RecordedAsFilled, LackAnnounced
<1> QED BY <1>1, <1>2, <1>5, <1>6, <1>7 DEF EntryIsKnown

\* A stop is still accounted for if it is whatever becomes of the position and of the
\* window it belongs to.
LEMMA StopKept ==
    ASSUME Inductive, NEW i \in stops, UNCHANGED <<count, asked>>,
           \/ Entry(asked[i].exchange).stop = i
           \/ i = cur /\ run.step = "record"
           \/ run.step = "cancel" /\ run.stop = i
           => StopIsAccounted(i)',
           \A j \in Ids : /\ announced[j] \subseteq announced'[j]
                          /\ NeverRecorded(j) => NeverRecorded(j)'
    PROVE  /\ asked'[i].market = Futures /\ asked'[i].exchange \in Conditional
           /\ StopIsAccounted(i)'
<1>1. i \in Ids
  BY DEF Inductive, Types
<1>2. asked[i].market = Futures /\ asked[i].exchange \in Conditional /\ StopIsAccounted(i)
  BY DEF Inductive, StopsAreKnown
<1>3. Closers(i)' = Closers(i) /\ Closers(i) \subseteq Ids
  BY DEF Closers
<1>4. ASSUME "placement_failed" \in announced[i] PROVE StopIsAccounted(i)'
  BY <1>1, <1>4 DEF StopIsAccounted
<1>5. ASSUME NeverRecorded(i) PROVE StopIsAccounted(i)'
  BY <1>1, <1>5 DEF StopIsAccounted
<1>6. ASSUME \E j \in Closers(i) : "cancel_failed" \in announced[j] \/ NeverRecorded(j)
      PROVE  StopIsAccounted(i)'
  <2>1. PICK j \in Closers(i) : "cancel_failed" \in announced[j] \/ NeverRecorded(j)
    BY <1>6
  <2>2. "cancel_failed" \in announced'[j] \/ NeverRecorded(j)'
    BY <1>3, <2>1
  <2> HIDE DEF NeverRecorded, Closers
  <2> QED BY <1>3, <2>1, <2>2 DEF StopIsAccounted
<1>7. StopIsAccounted(i)'
  <2>1. CASE \/ Entry(asked[i].exchange).stop = i
             \/ i = cur /\ run.step = "record"
             \/ run.step = "cancel" /\ run.stop = i
    BY <2>1
  <2>2. CASE ~( \/ Entry(asked[i].exchange).stop = i
                \/ i = cur /\ run.step = "record"
                \/ run.step = "cancel" /\ run.stop = i )
    <3> HIDE DEF NeverRecorded, Closers, Entry
    <3> QED BY <1>2, <1>4, <1>5, <1>6, <2>2 DEF StopIsAccounted
  <2> QED BY <2>1, <2>2
<1> QED BY <1>2, <1>7

\* The step in hand is one of those that follow the fill of a futures order.
Following(s) ==
    /\ run.step \in {"stop", "record", "cancel"} /\ run' = GoTo(s)
    /\ s = "row" \/ (s = "record" /\ run.step = "stop" /\ UNCHANGED announced)
    /\ UNCHANGED <<attested, count, asked, resting, executed, triggered, rows>>
    /\ book' \in [Exchanges -> [Markets -> Positions]]
    /\ \A e \in Exchanges : book'[e][Spot] = book[e][Spot]
    /\ stops' \subseteq stops \union {cur}
    /\ \/ UNCHANGED announced
       \/ \E event \in Events : announced' = [announced EXCEPT ![cur] = @ \union {event}]
    /\ faults' \in 0..MaxFaults

\* Such a step leaves every other order alone, and the accounts.
LEMMA FollowingKept ==
    ASSUME Inductive, NEW s, Following(s)
    PROVE  /\ Types' /\ Unbegun' /\ AtHand' /\ Executions' /\ Accounts'
           /\ \A i \in Ids : /\ announced[i] \subseteq announced'[i]
                             /\ i # cur => announced'[i] = announced[i]
           /\ \A i : NeverRecorded(i) => NeverRecorded(i)'
           /\ \A i : RecordedAsFilled(i)' => RecordedAsFilled(i) \/ i = cur
           /\ run'.step = s /\ run'.stop = run.stop /\ cur' = cur
           /\ Active /\ cur \in Ids /\ cur \in 1..count /\ Order.market = Futures /\ Venue \in Exchanges
           /\ rows[cur].status # "filled"
<1>1. /\ count' = count /\ asked' = asked /\ resting' = resting /\ executed' = executed
      /\ triggered' = triggered /\ rows' = rows /\ cur' = cur /\ attested' = attested
  BY DEF Following, cur
<1>2. Active /\ run.step # "row"
  BY DEF Following, Active
<1>3. cur \in Ids /\ cur = count /\ count \in Nat /\ Order.market = Futures /\ Venue \in Exchanges
      /\ cur \in 1..count
  BY <1>2, Begun, Bounds DEF Following, Inductive, AtHand, Types
<1>4. run' \in Locals /\ run'.step = s /\ run'.status = run.status /\ run'.filled = run.filled
      /\ run'.stop = run.stop
  BY EndsAreLocals DEF Following, Steps
<1>5. /\ announced' \in [Ids -> SUBSET Events]
      /\ \A i \in Ids : /\ announced[i] \subseteq announced'[i]
                        /\ i # cur => announced'[i] = announced[i]
  <2>1. announced \in [Ids -> SUBSET Events]
    BY DEF Inductive, Types
  <2>2. CASE UNCHANGED announced
    BY <2>1, <2>2
  <2>3. CASE \E event \in Events : announced' = [announced EXCEPT ![cur] = @ \union {event}]
    <3>1. PICK event \in Events : announced' = [announced EXCEPT ![cur] = @ \union {event}]
      BY <2>3
    <3> HIDE DEF Ids, Events, cur
    <3>2. announced' \in [Ids -> SUBSET Events]
      BY <1>3, <2>1, <3>1
    <3>3. \A i \in Ids : announced'[i] = IF i = cur THEN announced[i] \union {event} ELSE announced[i]
      BY <1>3, <2>1, <3>1
    <3> QED BY <3>2, <3>3
  <2> QED BY <2>2, <2>3 DEF Following
<1>6. stops' \subseteq Ids
  BY <1>3 DEF Following, Inductive, Types
<1>7. Types'
  BY <1>1, <1>4, <1>5, <1>6 DEF Following, Inductive, Types
<1>8. Executions'
  BY <1>1 DEF Inductive, Executions
<1>9. Unbegun'
  <2>1. \A i \in Ids : i > count => /\ announced'[i] = announced[i]
                                    /\ i \in stops' \union triggered' => i \in stops \union triggered
    BY <1>1, <1>3, <1>5, Bounds DEF Following
  <2> HIDE DEF Ids
  <2> QED BY <1>1, <2>1, UnbegunKept
<1>10. rows[cur] = NoRow /\ run.status = "filled" /\ run.filled = Units
       /\ (run.step = "stop" => announced[cur] = {})
  BY <1>2, <1>3 DEF Following, Inductive, AtHand
<1>11. Order' = Order /\ Units' = Units /\ Venue' = Venue
  BY <1>1 DEF Order, Units, Venue
<1>12. s \in {"row", "record"} /\ (s = "record" => announced' = announced /\ run.step = "stop")
  BY DEF Following
<1>13. AtHand'
  BY <1>1, <1>3, <1>4, <1>10, <1>11, <1>12, Bounds, Names DEF AtHand
<1>14. \A i : NeverRecorded(i) => NeverRecorded(i)'
  BY <1>1, <1>2 DEF NeverRecorded
<1>15. \A i : RecordedAsFilled(i)' => RecordedAsFilled(i) \/ i = cur
  BY <1>1 DEF RecordedAsFilled
<1>16. Accounts'
  <2>1. \A i \in Ids : asked[i].market = Spot /\ Told(i)' => Told(i)
    BY <1>1, <1>3, Names DEF Told, Order
  <2>2. \A e : ~Unbooked(e)' /\ ~Unbooked(e)
    BY <1>3, <1>11, Names DEF Unbooked
  <2> HIDE DEF Ids, Told, Unbooked
  <2> QED BY <1>1, <1>7, <1>8, <2>1, <2>2, AccountsKept DEF Following
<1> QED BY <1>1, <1>2, <1>3, <1>4, <1>5, <1>7, <1>8, <1>9, <1>10, <1>13, <1>14, <1>15, <1>16 DEF NoRow

\* The window that closes with the step leaves nothing to say of the coroutine.
LEMMA RowHasNoWindow == ASSUME NEW s, s = "row", run'.step = s PROVE Window'
BY DEF Window

\* A fresh position that gets no stop of its own: its lack is announced, or it waits for the
\* stop to be recorded.
LEMMA EntriesFollow ==
    ASSUME Inductive, NEW s, Following(s), UNCHANGED book, stops \subseteq stops',
           s = "record" \/ LackAnnounced(cur)'
    PROVE  Entries'
<1> SUFFICES ASSUME NEW e \in Exchanges PROVE EntryIsKnown(e)'
  BY DEF Entries
<1>1. PICK d : d = Entry(e).decision
  OBVIOUS
<1>2. /\ \A i \in Ids : announced[i] \subseteq announced'[i]
      /\ \A i : RecordedAsFilled(i)' => RecordedAsFilled(i) \/ i = cur
      /\ run'.step = s /\ cur' = cur /\ rows[cur].status # "filled"
  BY FollowingKept
<1>3. d \in Ids => (LackAnnounced(d) => LackAnnounced(d)')
  BY <1>2 DEF LackAnnounced
<1>4. RecordedAsFilled(d)' => RecordedAsFilled(d) \/ LackAnnounced(d)'
  <2>1. CASE d # cur
    <3> HIDE DEF RecordedAsFilled
    <3> QED BY <1>2, <2>1
  <2>2. CASE d = cur /\ LackAnnounced(cur)'
    BY <1>2, <2>2 DEF LackAnnounced
  <2>3. CASE d = cur /\ s = "record"
    BY <1>2, <2>3 DEF RecordedAsFilled, Following
  <2> QED BY <2>1, <2>2, <2>3
<1>5. /\ Entry(e)' = Entry(e) /\ UNCHANGED <<count, asked>>
      /\ Entry(e).stop \in stops \union triggered => Entry(e).stop \in stops' \union triggered'
  BY DEF Following, Entry
<1> HIDE DEF LackAnnounced, RecordedAsFilled, Entry, Ids
<1> QED BY <1>1, <1>3, <1>4, <1>5, EntryKept

\* The stops placed before this step are still accounted for.
LEMMA StopsFollow ==
    ASSUME Inductive, NEW s, Following(s), UNCHANGED book, run.step = "stop",
           NEW i \in stops, i \in stops'
    PROVE  /\ asked'[i].market = Futures /\ asked'[i].exchange \in Conditional
           /\ StopIsAccounted(i)'
<1>1. /\ \A j \in Ids : announced[j] \subseteq announced'[j] /\ (NeverRecorded(j) => NeverRecorded(j)')
      /\ UNCHANGED <<count, asked>>
  BY FollowingKept DEF Following
<1>2. Entry(asked[i].exchange).stop = i => StopIsAccounted(i)'
  BY <1>1 DEF StopIsAccounted, Entry
<1> HIDE DEF NeverRecorded, Ids, Entry
<1> QED BY <1>1, <1>2, StopKept

\* The exchange cannot hold a stop: the lack is announced.
LEMMA LackStopKept == Inductive /\ LackStopCapability => Inductive'
<1> SUFFICES ASSUME Inductive, LackStopCapability PROVE Inductive'
  OBVIOUS
<1>1. /\ run.step = "stop" /\ run' = GoTo("row") /\ book' = book /\ stops' = stops
      /\ announced' = [announced EXCEPT ![cur] = @ \union {"no_capability"}]
      /\ UNCHANGED <<attested, count, asked, resting, executed, triggered, rows, faults>>
  BY DEF LackStopCapability, Announce, exchange, database
<1>2. Following("row")
  <2>1. "no_capability" \in Events
    BY DEF Events
  <2> HIDE DEF cur, Events
  <2> QED BY <1>1, <2>1, FaultsBounded DEF Following, Inductive, Types
<1>3. LackAnnounced(cur)'
  <2>1. cur \in Ids /\ cur' = cur
    BY <1>2, FollowingKept
  <2>2. announced \in [Ids -> SUBSET Events]
    BY DEF Inductive, Types
  <2>3. "no_capability" \in announced'[cur]
    <3> HIDE DEF cur, Ids
    <3> QED BY <1>1, <2>1, <2>2
  <2> HIDE DEF cur, Ids
  <2> QED BY <2>1, <2>3 DEF LackAnnounced
<1>4. Entries'
  <2> HIDE DEF LackAnnounced, cur
  <2> QED BY <1>1, <1>2, <1>3, EntriesFollow
<1>5. StopsAreKnown'
  <2> HIDE DEF cur
  <2> QED BY <1>1, <1>2, StopsFollow DEF StopsAreKnown
<1>6. Window'
  BY <1>2, FollowingKept, RowHasNoWindow
<1>7. Types' /\ Unbegun' /\ AtHand' /\ Executions' /\ Accounts'
  BY <1>2, FollowingKept
<1> QED BY <1>4, <1>5, <1>6, <1>7 DEF Inductive

\* The stop is placed: it belongs to the position of the order at hand, which is recorded
\* next.
LEMMA PlaceStopKept == Inductive /\ PlaceStop => Inductive'
<1> SUFFICES ASSUME Inductive, PlaceStop PROVE Inductive'
  OBVIOUS
<1>1. /\ run.step = "stop" /\ run' = GoTo("record") /\ book' = book /\ stops' = stops \union {cur}
      /\ Venue \in Conditional
      /\ UNCHANGED <<attested, count, asked, resting, executed, triggered, rows, faults, announced>>
  BY DEF PlaceStop, database
<1>2. Following("record")
  <2> HIDE DEF cur
  <2> QED BY <1>1, FaultsBounded DEF Following, Inductive, Types
<1>3. /\ Types' /\ Unbegun' /\ AtHand' /\ Executions' /\ Accounts'
      /\ run'.step = "record" /\ cur' = cur
      /\ cur \in Ids /\ Order.market = Futures /\ Venue \in Exchanges
  BY <1>2, FollowingKept
<1>4. Entries'
  <2> HIDE DEF LackAnnounced, cur
  <2> QED BY <1>1, <1>2, EntriesFollow
<1>5. StopsAreKnown'
  <2> SUFFICES ASSUME NEW i \in stops'
               PROVE  /\ asked'[i].market = Futures /\ asked'[i].exchange \in Conditional
                      /\ StopIsAccounted(i)'
    BY DEF StopsAreKnown
  <2>1. CASE i \in stops
    <3> HIDE DEF cur
    <3> QED BY <1>1, <1>2, <2>1, StopsFollow
  <2>2. CASE i = cur
    <3>1. asked'[i] = Order
      BY <1>1, <2>2 DEF Order
    <3>2. StopIsAccounted(i)'
      BY <1>3, <2>2 DEF StopIsAccounted
    <3> QED BY <1>1, <1>3, <3>1, <3>2 DEF Venue
  <2> QED BY <1>1, <2>1, <2>2
<1>6. Window'
  <2>1. /\ Entry(Venue).quantity # 0 /\ Entry(Venue).decision = cur /\ Entry(Venue).stop = NoOrder
    BY <1>1 DEF Inductive, Window
  <2>2. Entry(Venue)' = Entry(Venue)
    BY <1>1 DEF Entry, Venue, Order, cur
  <2>3. cur' \in stops' \union triggered'
    BY <1>1, <1>3
  <2> HIDE DEF Entry
  <2> QED BY <1>3, <2>1, <2>2, <2>3 DEF Window
<1> QED BY <1>3, <1>4, <1>5, <1>6 DEF Inductive

\* The placement raises: whatever the exchange did with it, the failure is announced.
LEMMA MissStopKept == Inductive /\ MissStop => Inductive'
<1> SUFFICES ASSUME Inductive, MissStop PROVE Inductive'
  OBVIOUS
<1>1. /\ run.step = "stop" /\ run' = GoTo("row") /\ book' = book
      /\ stops' \in {stops, stops \union {cur}}
      /\ Venue \in Conditional /\ faults < MaxFaults /\ faults' = faults + 1
      /\ announced' = [announced EXCEPT ![cur] = @ \union {"placement_failed"}]
      /\ UNCHANGED <<attested, count, asked, resting, executed, triggered, rows>>
  BY DEF MissStop, Announce, database
<1>2. Following("row")
  <2>1. "placement_failed" \in Events
    BY DEF Events
  <2>2. faults' \in 0..MaxFaults
    BY <1>1, FaultsBounded
  <2> HIDE DEF cur, Events
  <2> QED BY <1>1, <2>1, <2>2 DEF Following, Inductive, Types
<1>3. /\ Types' /\ Unbegun' /\ AtHand' /\ Executions' /\ Accounts'
      /\ run'.step = "row" /\ cur' = cur
      /\ cur \in Ids /\ Order.market = Futures /\ Venue \in Exchanges
  BY <1>2, FollowingKept
<1>4. "placement_failed" \in announced'[cur]
  <2>1. announced \in [Ids -> SUBSET Events]
    BY DEF Inductive, Types
  <2> HIDE DEF cur, Ids
  <2> QED BY <1>1, <1>3, <2>1
<1>5. LackAnnounced(cur)'
  <2> HIDE DEF cur
  <2> QED BY <1>3, <1>4 DEF LackAnnounced
<1>6. Entries'
  <2> HIDE DEF LackAnnounced, cur
  <2> QED BY <1>1, <1>2, <1>5, EntriesFollow
<1>7. StopsAreKnown'
  <2> SUFFICES ASSUME NEW i \in stops'
               PROVE  /\ asked'[i].market = Futures /\ asked'[i].exchange \in Conditional
                      /\ StopIsAccounted(i)'
    BY DEF StopsAreKnown
  <2>1. CASE i \in stops
    <3> HIDE DEF cur
    <3> QED BY <1>1, <1>2, <2>1, StopsFollow
  <2>2. CASE i = cur
    <3>1. asked'[i] = Order
      BY <1>1, <2>2 DEF Order
    <3>2. StopIsAccounted(i)'
      BY <1>4, <2>2 DEF StopIsAccounted
    <3> QED BY <1>1, <1>3, <3>1, <3>2 DEF Venue
  <2> QED BY <1>1, <2>1, <2>2
<1>8. Window'
  BY <1>2, FollowingKept, RowHasNoWindow
<1> QED BY <1>3, <1>6, <1>7, <1>8 DEF Inductive

\* A stop is taken back, or its cancellation raises: the position it protected is closed.
LEMMA EntriesAfterCancel ==
    ASSUME Inductive, Following("row"), UNCHANGED book, run.step = "cancel",
           stops \ {run.stop} \subseteq stops'
    PROVE  Entries'
<1> SUFFICES ASSUME NEW e \in Exchanges PROVE EntryIsKnown(e)'
  BY DEF Entries
<1>1. PICK d : d = Entry(e).decision
  OBVIOUS
<1>2. /\ \A i \in Ids : announced[i] \subseteq announced'[i]
      /\ \A i : RecordedAsFilled(i)' => RecordedAsFilled(i) \/ i = cur
      /\ cur \in Ids /\ triggered' = triggered
  BY FollowingKept DEF Following
<1>3. Entry(Venue) = NoPosition /\ asked[run.stop].exchange = Venue
  BY DEF Inductive, Window
<1>4. EntryIsKnown(e)
  BY DEF Inductive, Entries
<1>5. d \in Ids => (LackAnnounced(d) => LackAnnounced(d)')
  BY <1>2 DEF LackAnnounced
<1>6. d \in Ids /\ asked[d].exchange = e => (RecordedAsFilled(d)' => RecordedAsFilled(d) \/ LackAnnounced(d)')
  <2>1. d = cur /\ asked[d].exchange = e => d \notin Ids
    <3>1. d = cur /\ asked[d].exchange = e => e = Venue
      BY DEF Venue, Order
    <3>2. e = Venue => d = NoOrder
      BY <1>1, <1>3 DEF NoPosition
    <3> QED BY <3>1, <3>2, Bounds
  <2> HIDE DEF RecordedAsFilled, LackAnnounced
  <2> QED BY <1>2, <2>1
<1>7. Entry(e)' = Entry(e) /\ UNCHANGED <<count, asked>>
  BY DEF Following, Entry
<1>8. Entry(e).stop \in stops \union triggered => Entry(e).stop \in stops' \union triggered'
  <2>1. CASE e = Venue
    <3>1. Entry(e).stop = NoOrder
      BY <1>3, <2>1 DEF NoPosition
    <3>2. NoOrder \notin stops \union triggered
      BY Bounds DEF Inductive, Types
    <3> QED BY <3>1, <3>2
  <2>2. CASE e # Venue /\ Entry(e).stop # NoOrder
    <3>1. Entry(e).quantity # 0
      BY <1>4, <2>2 DEF EntryIsKnown, NoPosition
    <3>2. Entry(e).stop # run.stop
      BY <1>3, <1>4, <2>2, <3>1 DEF EntryIsKnown
    <3> QED BY <1>2, <3>2
  <2>3. CASE Entry(e).stop = NoOrder
    BY <2>3, Bounds DEF Inductive, Types
  <2> QED BY <2>1, <2>2, <2>3
<1> HIDE DEF LackAnnounced, RecordedAsFilled, Entry, Ids
<1> QED BY <1>1, <1>5, <1>6, <1>7, <1>8, EntryKept

\* The stop of a closed position is cancelled.
LEMMA CancelStopKept == Inductive /\ CancelStop => Inductive'
<1> SUFFICES ASSUME Inductive, CancelStop PROVE Inductive'
  OBVIOUS
<1>1. /\ run.step = "cancel" /\ run' = GoTo("row") /\ book' = book /\ stops' = stops \ {run.stop}
      /\ UNCHANGED <<attested, count, asked, resting, executed, triggered, rows, faults, announced>>
  BY DEF CancelStop, database
<1>2. Following("row")
  BY <1>1, FaultsBounded DEF Following, Inductive, Types
<1>3. Entries'
  BY <1>1, <1>2, EntriesAfterCancel
<1>4. StopsAreKnown'
  <2> SUFFICES ASSUME NEW i \in stops'
               PROVE  /\ asked'[i].market = Futures /\ asked'[i].exchange \in Conditional
                      /\ StopIsAccounted(i)'
    BY DEF StopsAreKnown
  <2>1. i \in stops /\ run.stop # i
    BY <1>1
  <2>2. Entry(asked[i].exchange).stop = i => StopIsAccounted(i)'
    BY <1>1 DEF StopIsAccounted, Entry
  <2>3. \A j \in Ids : announced[j] \subseteq announced'[j] /\ (NeverRecorded(j) => NeverRecorded(j)')
    BY <1>2, FollowingKept
  <2> HIDE DEF NeverRecorded, Ids, Entry
  <2> QED BY <1>1, <2>1, <2>2, <2>3, StopKept
<1>5. Window'
  BY <1>2, FollowingKept, RowHasNoWindow
<1>6. Types' /\ Unbegun' /\ AtHand' /\ Executions' /\ Accounts'
  BY <1>2, FollowingKept
<1> QED BY <1>3, <1>4, <1>5, <1>6 DEF Inductive

\* The cancellation raises: the stop may live on, and the failure is announced.
LEMMA MissCancellationKept == Inductive /\ MissCancellation => Inductive'
<1> SUFFICES ASSUME Inductive, MissCancellation PROVE Inductive'
  OBVIOUS
<1>1. /\ run.step = "cancel" /\ run' = GoTo("row") /\ book' = book
      /\ stops' \in {stops, stops \ {run.stop}} /\ faults < MaxFaults /\ faults' = faults + 1
      /\ announced' = [announced EXCEPT ![cur] = @ \union {"cancel_failed"}]
      /\ UNCHANGED <<attested, count, asked, resting, executed, triggered, rows>>
  BY DEF MissCancellation, Announce, database
<1>2. Following("row")
  <2>1. "cancel_failed" \in Events
    BY DEF Events
  <2>2. faults' \in 0..MaxFaults
    BY <1>1, FaultsBounded
  <2> HIDE DEF cur, Events
  <2> QED BY <1>1, <2>1, <2>2 DEF Following, Inductive, Types
<1>3. /\ Types' /\ Unbegun' /\ AtHand' /\ Executions' /\ Accounts'
      /\ run'.step = "row" /\ cur' = cur
      /\ cur \in Ids /\ Order.market = Futures /\ Venue \in Exchanges
  BY <1>2, FollowingKept
<1>4. "cancel_failed" \in announced'[cur]
  <2>1. announced \in [Ids -> SUBSET Events]
    BY DEF Inductive, Types
  <2> HIDE DEF cur, Ids
  <2> QED BY <1>1, <1>3, <2>1
<1>5. Entries'
  BY <1>1, <1>2, EntriesAfterCancel
<1>6. StopsAreKnown'
  <2> SUFFICES ASSUME NEW i \in stops'
               PROVE  /\ asked'[i].market = Futures /\ asked'[i].exchange \in Conditional
                      /\ StopIsAccounted(i)'
    BY DEF StopsAreKnown
  <2>1. i \in stops
    BY <1>1
  <2>2. Entry(asked[i].exchange).stop = i => StopIsAccounted(i)'
    BY <1>1 DEF StopIsAccounted, Entry
  <2>3. \A j \in Ids : announced[j] \subseteq announced'[j] /\ (NeverRecorded(j) => NeverRecorded(j)')
    BY <1>2, FollowingKept
  <2>4. run.stop = i => StopIsAccounted(i)'
    <3>1. run.stop \in 1..(cur - 1) /\ asked[run.stop].exchange = Venue
      BY <1>1 DEF Inductive, Window
    <3>2. cur \in Nat
      BY <1>3, Bounds
    <3>3. run.stop = i => cur \in Closers(i)'
      BY <1>1, <1>3, <3>1, <3>2 DEF Closers, Order, Venue
    <3> HIDE DEF Closers, cur
    <3> QED BY <1>4, <3>3 DEF StopIsAccounted
  <2> HIDE DEF NeverRecorded, Ids, Entry
  <2> QED BY <1>1, <2>1, <2>2, <2>3, <2>4, StopKept
<1>7. Window'
  BY <1>2, FollowingKept, RowHasNoWindow
<1> QED BY <1>3, <1>5, <1>6, <1>7 DEF Inductive

\* The stop is written in the row of its position.
LEMMA RecordStopKept == Inductive /\ RecordStop => Inductive'
<1> SUFFICES ASSUME Inductive, RecordStop PROVE Inductive'
  OBVIOUS
<1>1. /\ run.step = "record" /\ run' = GoTo("row") /\ stops' = stops
      /\ book' = [book EXCEPT ![Venue][Futures].stop = cur]
      /\ announced' = [announced EXCEPT ![cur] = @ \union {"attached"}]
      /\ UNCHANGED <<attested, count, asked, resting, executed, triggered, rows, faults>>
  BY DEF RecordStop, Announce, exchange
<1>2. /\ Active /\ cur \in Ids /\ Venue \in Exchanges /\ cur \in 1..count
      /\ Order.market = Futures /\ asked[cur].exchange = Venue /\ asked[cur].market = Futures
  <2>1. Active
    BY <1>1 DEF Active
  <2>2. cur \in Ids /\ Venue \in Exchanges /\ cur = count /\ Order = asked[cur]
    BY <2>1, Begun
  <2> QED BY <1>1, <2>1, <2>2, Bounds DEF Inductive, AtHand, Venue
<1>3. PICK p : /\ p = Entry(Venue) /\ p \in Positions /\ p.quantity # 0 /\ p.decision = cur
               /\ p.stop = NoOrder
  BY <1>1, <1>2, EntryFields, Names DEF Inductive, Window, Entry
<1>4. /\ book' \in [Exchanges -> [Markets -> Positions]]
      /\ \A e \in Exchanges : /\ book'[e][Spot] = book[e][Spot]
                              /\ e # Venue => book'[e][Futures] = book[e][Futures]
      /\ book'[Venue][Futures] = [p EXCEPT !.stop = cur]
  <2>1. PICK v \in Exchanges : v = Venue
    BY <1>2
  <2>2. [p EXCEPT !.stop = cur] \in Positions
    BY <1>2, <1>3 DEF Positions
  <2>3. book \in [Exchanges -> [Markets -> Positions]]
    BY DEF Inductive, Types
  <2>4. book' = [book EXCEPT ![v] = [book[v] EXCEPT ![Futures] = [p EXCEPT !.stop = cur]]]
    BY <1>1, <1>3, <2>1 DEF Entry
  <2>5. PICK w : w = [book[v] EXCEPT ![Futures] = [p EXCEPT !.stop = cur]]
    OBVIOUS
  <2> HIDE DEF Positions, Markets, Spot, Futures, cur, Venue
  <2>6. w \in [Markets -> Positions] /\ w[Spot] = book[v][Spot] /\ w[Futures] = [p EXCEPT !.stop = cur]
    BY <2>2, <2>3, <2>5, Names
  <2>7. book' = [book EXCEPT ![v] = w]
    BY <2>4, <2>5
  <2> QED BY <2>1, <2>3, <2>6, <2>7
<1>5. Following("row")
  <2>1. "attached" \in Events
    BY DEF Events
  <2> HIDE DEF cur, Events
  <2> QED BY <1>1, <1>4, <2>1, FaultsBounded DEF Following
<1>6. /\ Types' /\ Unbegun' /\ AtHand' /\ Executions' /\ Accounts'
      /\ run'.step = "row" /\ cur' = cur
      /\ \A i \in Ids : /\ announced[i] \subseteq announced'[i]
                        /\ i # cur => announced'[i] = announced[i]
      /\ \A i : NeverRecorded(i) => NeverRecorded(i)'
      /\ \A i : RecordedAsFilled(i)' => RecordedAsFilled(i) \/ i = cur
  BY <1>5, FollowingKept
<1>7. Entries'
  <2> SUFFICES ASSUME NEW e \in Exchanges PROVE EntryIsKnown(e)'
    BY DEF Entries
  <2>1. CASE e = Venue
    <3>1. Entry(e)' = [p EXCEPT !.stop = cur]
      BY <1>4, <2>1 DEF Entry
    <3>2. PICK r : r = Entry(e)' /\ r.quantity # 0 /\ r.decision = cur /\ r.stop = cur
      BY <1>3, <3>1 DEF Positions
    <3>3. cur \in stops' \union triggered' /\ cur # NoOrder
      BY <1>1, <1>2, Bounds DEF Inductive, Window
    <3> HIDE DEF Entry
    <3> QED BY <1>1, <1>2, <2>1, <3>2, <3>3 DEF EntryIsKnown
  <2>2. CASE e # Venue
    <3>1. PICK d : d = Entry(e).decision
      OBVIOUS
    <3>2. d \in Ids => (LackAnnounced(d) => LackAnnounced(d)')
      BY <1>6 DEF LackAnnounced
    <3>3. asked[d].exchange = e => d # cur
      BY <1>2, <2>2
    <3>4. asked[d].exchange = e => (RecordedAsFilled(d)' => RecordedAsFilled(d) \/ LackAnnounced(d)')
      BY <1>6, <3>3
    <3>5. Entry(e)' = Entry(e)
      BY <1>4, <2>2 DEF Entry
    <3> HIDE DEF LackAnnounced, RecordedAsFilled, Entry, Ids
    <3> QED BY <1>1, <3>1, <3>2, <3>4, <3>5, EntryKept
  <2> QED BY <2>1, <2>2
<1>8. StopsAreKnown'
  <2> SUFFICES ASSUME NEW i \in stops'
               PROVE  /\ asked'[i].market = Futures /\ asked'[i].exchange \in Conditional
                      /\ StopIsAccounted(i)'
    BY DEF StopsAreKnown
  <2>1. i \in stops /\ i \in Ids
    BY <1>1 DEF Inductive, Types
  <2>2. asked[i].exchange \in Exchanges
    BY <2>1 DEF Inductive, Types, Asked
  <2>3. Entry(asked[i].exchange).stop = i => StopIsAccounted(i)'
    <3>1. Entry(asked[i].exchange).stop = i => asked[i].exchange # Venue
      BY <1>3, <2>1, Bounds
    <3>2. asked[i].exchange # Venue => Entry(asked[i].exchange)' = Entry(asked[i].exchange)
      BY <1>1, <1>4, <2>2 DEF Entry
    <3> HIDE DEF Entry
    <3> QED BY <1>1, <3>1, <3>2 DEF StopIsAccounted
  <2>4. i = cur => StopIsAccounted(i)'
    <3>1. book'[Venue][Futures].stop = cur
      BY <1>3, <1>4 DEF Positions
    <3> QED BY <1>1, <1>2, <3>1 DEF StopIsAccounted, Entry
  <2> HIDE DEF NeverRecorded, Ids, Entry
  <2> QED BY <1>1, <1>6, <2>1, <2>3, <2>4, StopKept
<1>9. Window'
  BY <1>6, RowHasNoWindow
<1> QED BY <1>6, <1>7, <1>8, <1>9 DEF Inductive

\* The row of the order is inserted: what it says is what the coroutine carried.
LEMMA InsertOrderRowKept == Inductive /\ InsertOrderRow => Inductive'
<1> SUFFICES ASSUME Inductive, InsertOrderRow PROVE Inductive'
  OBVIOUS
<1>1. /\ run.step = "row" /\ run' = Idle("idle")
      /\ rows' = [rows EXCEPT ![cur] = [status |-> run.status, filled |-> run.filled]]
      /\ attested' = attested /\ count' = count /\ asked' = asked /\ resting' = resting
      /\ executed' = executed /\ stops' = stops /\ triggered' = triggered /\ book' = book
      /\ faults' = faults /\ announced' = announced /\ cur' = cur
  BY DEF InsertOrderRow, exchange, cur
<1>2. Active
  BY <1>1 DEF Active
<1>3. cur \in Ids /\ cur \in Nat /\ cur = count /\ Order = asked[cur] /\ rows[cur] = NoRow
  BY <1>2, Begun, Bounds DEF Inductive, AtHand
<1>4. run' \in Locals /\ run'.step = "idle" /\ ~Active'
  BY <1>1, EndsAreLocals DEF Active
<1>5. /\ rows' \in [Ids -> OrderRows]
      /\ \A i \in Ids : i # cur => rows'[i] = rows[i]
      /\ rows'[cur] = [status |-> run.status, filled |-> run.filled]
  <2>1. rows \in [Ids -> OrderRows]
    BY DEF Inductive, Types
  <2>2. [status |-> run.status, filled |-> run.filled] \in OrderRows
    BY LocalsFields DEF OrderRows
  <2> HIDE DEF Ids, OrderRows, cur
  <2> QED BY <1>1, <1>3, <2>1, <2>2
<1>6. Types'
  BY <1>1, <1>4, <1>5 DEF Inductive, Types
<1>7. Unbegun'
  <2>1. ASSUME NEW i \in Ids, i > count PROVE rows'[i] = rows[i]
    <3>1. i # cur
      BY <1>3, <2>1, Bounds
    <3> QED BY <1>5, <3>1
  <2> HIDE DEF Ids
  <2> QED BY <1>1, <2>1, UnbegunKept
<1>8. AtHand' /\ Window'
  BY <1>4 DEF AtHand, Window
<1>9. Executions'
  <2> SUFFICES ASSUME NEW i \in Ids
               PROVE  rows'[i].status = "filled" /\ asked[i].market = Spot =>
                          resting[i] = "filled" /\ rows'[i].filled = executed[i]
    BY <1>1 DEF Inductive, Executions
  <2>1. CASE i = cur
    <3>1. rows'[i].status = run.status /\ rows'[i].filled = run.filled
      BY <1>5, <2>1
    <3> QED BY <1>2, <1>3, <2>1, <3>1 DEF Inductive, AtHand
  <2>2. CASE i # cur
    BY <1>5, <2>2 DEF Inductive, Executions
  <2> QED BY <2>1, <2>2
<1>10. \A i \in Ids : /\ RecordedAsFilled(i)' => RecordedAsFilled(i)
                      /\ NeverRecorded(i) => NeverRecorded(i)'
                      /\ LackAnnounced(i) => LackAnnounced(i)'
  <2> SUFFICES ASSUME NEW i \in Ids
               PROVE  /\ RecordedAsFilled(i)' => RecordedAsFilled(i)
                      /\ NeverRecorded(i) => NeverRecorded(i)'
                      /\ LackAnnounced(i) => LackAnnounced(i)'
    OBVIOUS
  <2>1. CASE i = cur
    <3>1. rows'[i].status = run.status
      BY <1>5, <2>1
    <3> QED BY <1>1, <1>2, <1>4, <2>1, <3>1 DEF RecordedAsFilled, NeverRecorded, LackAnnounced
  <2>2. CASE i # cur
    BY <1>1, <1>4, <1>5, <2>2 DEF RecordedAsFilled, NeverRecorded, LackAnnounced
  <2> QED BY <2>1, <2>2
<1>11. Entries'
  <2> HIDE DEF Ids, LackAnnounced, RecordedAsFilled
  <2> QED BY <1>1, <1>10, EntriesKept
<1>12. StopsAreKnown'
  <2> HIDE DEF Ids, NeverRecorded
  <2> QED BY <1>1, <1>10, StopsKept
<1>13. Accounts'
  <2> SUFFICES ASSUME NEW e \in Exchanges
               PROVE  /\ Available(e)' >= 0
                      /\ AllTold(e)' => book'[e][Spot].quantity <= Holding(e)' - InProgress(e)'
    BY DEF Accounts
  <2>1. /\ Holding(e)' = Holding(e) /\ Available(e)' = Available(e)
        /\ SpotOrders(e)' = SpotOrders(e)
    BY <1>1 DEF Holding, Available, Delivered, SpotOrders
  <2>2. Available(e) >= 0
    BY NothingIsShort
  <2>3. AllTold(e)' => AllTold(e)
    <3> SUFFICES ASSUME AllTold(e)', NEW i \in SpotOrders(e), executed[i] > 0 PROVE Told(i)
      BY DEF AllTold
    <3>1. Told(i)'
      BY <1>1, <2>1 DEF AllTold
    <3>2. rows'[i].status = "filled"
      BY <1>4, <3>1 DEF Told
    <3>3. CASE i = cur
      BY <1>2, <1>5, <3>2, <3>3 DEF Told
    <3>4. CASE i # cur
      <4>1. i \in Ids
        BY AccountSums DEF Inductive, SumsAreRight
      <4> QED BY <1>5, <3>2, <3>4, <4>1 DEF Told
    <3> QED BY <3>3, <3>4
  <2>4. AllTold(e) => book[e][Spot].quantity <= Holding(e) - InProgress(e)
    BY DEF Inductive, Accounts
  <2>5. InProgress(e) = 0 /\ InProgress(e)' = 0
    BY <1>1, <1>4 DEF InProgress, Unbooked
  <2> HIDE DEF AllTold, InProgress
  <2> QED BY <1>1, <2>1, <2>2, <2>3, <2>4, <2>5
<1> QED BY <1>6, <1>7, <1>8, <1>9, <1>11, <1>12, <1>13 DEF Inductive

-----------------------------------------------------------------------------
(* The fill.                                                               *)

\* What a fill makes of a row of the book.
LEMMA FillOfARow ==
    ASSUME Inductive, run.step = "fill", NEW p \in Positions
    PROVE  /\ FilledRow(p) \in Positions
           /\ FilledRow(p).quantity = ApplyFill(Order.market, p.quantity, Order.side, run.filled)
           /\ FilledRow(p).quantity = 0 => FilledRow(p) = NoPosition
           /\ FilledRow(p).quantity # 0 /\ p.quantity = 0 =>
                  FilledRow(p).stop = NoOrder /\ FilledRow(p).decision = cur
           /\ FilledRow(p).quantity # 0 /\ p.quantity # 0 =>
                  FilledRow(p).stop = p.stop /\ FilledRow(p).decision = p.decision
<1>1. Active
  BY DEF Active
<1>2. cur \in Ids /\ run.filled \in Nat
  BY <1>1, Begun, LocalsFields
<1>3. PICK n : n = ApplyFill(Order.market, p.quantity, Order.side, run.filled) /\ n \in Int
  <2>1. p.quantity \in Int
    BY DEF Positions
  <2> QED BY <1>2, <2>1 DEF ApplyFill, FuturesFill, SpotFill, Signed
<1>4. FilledRow(p) = IF n = 0 THEN NoPosition
                     ELSE IF p.quantity = 0 THEN [NoPosition EXCEPT !.quantity = n, !.decision = cur]
                     ELSE [p EXCEPT !.quantity = n]
  BY <1>3 DEF FilledRow
<1>5. CASE n = 0
  BY <1>3, <1>4, <1>5 DEF NoPosition, Positions
<1>6. CASE n # 0 /\ p.quantity = 0
  <2>1. FilledRow(p) = [quantity |-> n, stop |-> NoOrder, decision |-> cur]
    BY <1>4, <1>6 DEF NoPosition
  <2> HIDE DEF Ids
  <2> QED BY <1>2, <1>3, <1>6, <2>1 DEF Positions
<1>7. CASE n # 0 /\ p.quantity # 0
  <2>1. FilledRow(p) = [quantity |-> n, stop |-> p.stop, decision |-> p.decision]
    BY <1>4, <1>7 DEF Positions
  <2> HIDE DEF Ids
  <2> QED BY <1>3, <1>7, <2>1 DEF Positions
<1> QED BY <1>5, <1>6, <1>7

\* What a fill writes: one row of the book, and the next step of the coroutine.
LEMMA FillWrites ==
    ASSUME Inductive, ApplyFillToBook
    PROVE  /\ cur \in Ids /\ Venue \in Exchanges /\ Order.market \in Markets /\ Order = asked[cur]
           /\ Units \in Nat /\ Units > 0 /\ rows[cur] = NoRow /\ run.status = "filled"
           /\ book' \in [Exchanges -> [Markets -> Positions]]
           /\ \A e \in Exchanges, m \in Markets :
                  (e = Venue /\ m = Order.market) \/ book'[e][m] = book[e][m]
           /\ book'[Venue][Order.market] = FilledRow(book[Venue][Order.market])
           /\ book[Venue][Order.market] \in Positions
           /\ Types'
           /\ count' = count /\ asked' = asked /\ resting' = resting /\ executed' = executed
           /\ stops' = stops /\ triggered' = triggered /\ rows' = rows /\ cur' = cur
           /\ announced' = announced /\ Order' = Order /\ Units' = Units /\ Venue' = Venue
<1>1. /\ run.step = "fill"
      /\ book' = [book EXCEPT ![Venue][Order.market] = FilledRow(book[Venue][Order.market])]
      /\ attested' = attested /\ count' = count /\ asked' = asked /\ resting' = resting
      /\ executed' = executed /\ stops' = stops /\ triggered' = triggered /\ rows' = rows
      /\ cur' = cur /\ faults' = faults /\ announced' = announced
  BY DEF ApplyFillToBook, exchange, cur
<1>2. Active
  BY <1>1 DEF Active
<1>3. /\ cur \in Ids /\ Venue \in Exchanges /\ Order.market \in Markets /\ Order = asked[cur]
      /\ Units \in Nat /\ Units > 0 /\ rows[cur] = NoRow /\ run.status = "filled"
  BY <1>1, <1>2, Begun DEF Inductive, AtHand
<1>4. book[Venue][Order.market] \in Positions
  BY <1>3, EntryFields
<1>5. /\ book' \in [Exchanges -> [Markets -> Positions]]
      /\ \A e \in Exchanges, m \in Markets :
             (e = Venue /\ m = Order.market) \/ book'[e][m] = book[e][m]
      /\ book'[Venue][Order.market] = FilledRow(book[Venue][Order.market])
  <2>1. PICK v \in Exchanges, k \in Markets : v = Venue /\ k = Order.market
    BY <1>3
  <2>2. PICK r \in Positions : r = FilledRow(book[v][k])
    BY <1>1, <1>4, <2>1, FillOfARow
  <2>3. book \in [Exchanges -> [Markets -> Positions]]
    BY DEF Inductive, Types
  <2>4. book' = [book EXCEPT ![v] = [book[v] EXCEPT ![k] = r]]
    BY <1>1, <2>1, <2>2
  <2>5. PICK w : w = [book[v] EXCEPT ![k] = r]
    OBVIOUS
  <2> HIDE DEF Positions, Markets, Venue, Order, FilledRow
  <2>6. w \in [Markets -> Positions] /\ w[k] = r /\ \A m \in Markets : m # k => w[m] = book[v][m]
    BY <2>3, <2>5
  <2>7. book' = [book EXCEPT ![v] = w]
    BY <2>4, <2>5
  <2>8. book'[v] = w /\ \A e \in Exchanges : e # v => book'[e] = book[e]
    BY <2>3, <2>7
  <2> QED BY <2>1, <2>2, <2>3, <2>6, <2>7, <2>8
<1>6. run' \in Locals
  <2>1. \A step \in Steps : GoTo(step) \in Locals
    BY EndsAreLocals
  <2>2. "stop" \in Steps /\ "row" \in Steps /\ "cancel" \in Steps
    BY DEF Steps
  <2>3. \/ run' = GoTo("stop") \/ run' = GoTo("row")
        \/ run' = [run EXCEPT !.step = "cancel", !.stop = book[Venue][Order.market].stop]
    BY DEF ApplyFillToBook
  <2>4. [run EXCEPT !.step = "cancel", !.stop = book[Venue][Order.market].stop] \in Locals
    <3>1. run \in Locals /\ book[Venue][Order.market].stop \in Ids \union {NoOrder}
      BY <1>4 DEF Inductive, Types, Positions
    <3> HIDE DEF Steps, Statuses, Ids
    <3> QED BY <2>2, <3>1 DEF Locals
  <2> QED BY <2>1, <2>2, <2>3, <2>4
<1>7. Types'
  BY <1>1, <1>5, <1>6 DEF Inductive, Types
<1> QED BY <1>1, <1>3, <1>4, <1>5, <1>7 DEF Order, Units, Venue

\* Where the fill leads: to a stop for a fresh position, to a cancellation for a closed one
\* that had a stop on an exchange that holds stops, to the row otherwise.
LEMMA FillLeads ==
    ASSUME Inductive, ApplyFillToBook, NEW before, before = book[Venue][Order.market],
           NEW after, after = FilledRow(before)
    PROVE  /\ run'.status = "filled" /\ run'.filled = run.filled /\ Active'
           /\ \/ /\ run'.step = "stop" /\ Order.market = Futures /\ before.quantity = 0
                 /\ after.quantity # 0
              \/ /\ run'.step = "cancel" /\ run'.stop = before.stop
                 /\ Order.market = Futures /\ before.quantity # 0 /\ after.quantity = 0
                 /\ before.stop # NoOrder /\ Venue \in Conditional
              \/ /\ run'.step = "row"
                 /\ Order.market = Futures => before.quantity # 0
                 /\ Order.market = Futures /\ after.quantity = 0 /\ before.stop # NoOrder
                        => Venue \notin Conditional
<1>1. run.step = "fill" /\ run.status = "filled" /\ Active /\ before \in Positions
      /\ Units \in Nat /\ Units > 0
  BY FillWrites DEF ApplyFillToBook, Active
<1>2. CASE Order.market = Futures /\ before.quantity = 0
  <2>1. run' = GoTo("stop")
    BY <1>2 DEF ApplyFillToBook
  <2>2. run'.step = "stop" /\ run'.status = run.status /\ run'.filled = run.filled
    BY <2>1, EndsAreLocals DEF Steps
  <2>3. run.filled = Units
    BY <1>1, <1>2 DEF Inductive, AtHand
  <2>4. after.quantity = 0 + Signed(Order.side, Units)
    BY <1>1, <1>2, <2>3, FillOfARow DEF ApplyFill, FuturesFill
  <2>5. after.quantity # 0
    BY <1>1, <2>4 DEF Signed
  <2> QED BY <1>1, <1>2, <2>2, <2>5 DEF Active
<1>3. CASE /\ ~(Order.market = Futures /\ before.quantity = 0)
           /\ Order.market = Futures /\ after.quantity = 0 /\ before.stop # NoOrder
           /\ Venue \in Conditional
  <2>1. run' = [run EXCEPT !.step = "cancel", !.stop = before.stop]
    BY <1>3 DEF ApplyFillToBook
  <2>2. /\ run'.step = "cancel" /\ run'.stop = before.stop
        /\ run'.status = run.status /\ run'.filled = run.filled
    BY <2>1, LocalsFields
  <2> QED BY <1>1, <1>3, <2>2 DEF Active
<1>4. CASE /\ ~(Order.market = Futures /\ before.quantity = 0)
           /\ ~(Order.market = Futures /\ after.quantity = 0 /\ before.stop # NoOrder
                /\ Venue \in Conditional)
  <2>1. run' = GoTo("row")
    BY <1>4 DEF ApplyFillToBook
  <2>2. run'.step = "row" /\ run'.status = run.status /\ run'.filled = run.filled
    BY <2>1, EndsAreLocals DEF Steps
  <2> QED BY <1>1, <1>4, <2>2 DEF Active
<1> QED BY <1>2, <1>3, <1>4

\* The positions after the fill are protected or on record.
LEMMA EntriesFilled == ASSUME Inductive, ApplyFillToBook PROVE Entries'
<1> SUFFICES ASSUME NEW e \in Exchanges PROVE EntryIsKnown(e)'
  BY DEF Entries
<1>1. PICK before, after : /\ before = book[Venue][Order.market] /\ after = FilledRow(before)
                           /\ before \in Positions /\ after = book'[Venue][Order.market]
  BY FillWrites
<1>2. /\ cur \in Ids /\ cur \in 1..count /\ rows[cur] = NoRow /\ Venue = asked[cur].exchange
      /\ Order = asked[cur] /\ count' = count /\ asked' = asked /\ stops' = stops
      /\ triggered' = triggered /\ rows' = rows /\ cur' = cur /\ announced' = announced
      /\ Order.market \in Markets /\ run.step = "fill" /\ count \in Nat /\ count <= MaxOrders
  <2>1. cur = count /\ count \in 0..MaxOrders
    BY DEF cur, Inductive, Types
  <2> HIDE DEF cur
  <2> QED BY <2>1, FillWrites, Bounds DEF ApplyFillToBook, Venue
<1>3. \A d : d # cur => (RecordedAsFilled(d)' => RecordedAsFilled(d))
  BY <1>2 DEF RecordedAsFilled
<1>4. \A d : LackAnnounced(d) => LackAnnounced(d)'
  BY <1>2 DEF LackAnnounced
<1>5. Entry(e).decision # cur
  <2>1. Active
    BY <1>2 DEF Active
  <2> QED BY <1>2, <2>1 DEF Inductive, AtHand, Entry
<1>6. CASE Order.market = Spot \/ e # Venue
  <2>1. Entry(e)' = Entry(e)
    BY <1>6, FillWrites, Names DEF Entry
  <2>2. PICK d : d = Entry(e).decision
    OBVIOUS
  <2>3. /\ LackAnnounced(d) => LackAnnounced(d)'
        /\ RecordedAsFilled(d)' => RecordedAsFilled(d) \/ LackAnnounced(d)'
    BY <1>3, <1>4, <1>5, <2>2
  <2> HIDE DEF LackAnnounced, RecordedAsFilled, Entry, Ids
  <2> QED BY <1>2, <2>1, <2>2, <2>3, EntryKept
<1>7. CASE Order.market = Futures /\ e = Venue
  <2>1. before = Entry(e) /\ after = Entry(e)'
    BY <1>1, <1>2, <1>7 DEF Entry, Venue, Order
  <2>2. /\ after.quantity = 0 => after = NoPosition
        /\ after.quantity # 0 /\ before.quantity = 0 => after.stop = NoOrder /\ after.decision = cur
        /\ after.quantity # 0 /\ before.quantity # 0 =>
               after.stop = before.stop /\ after.decision = before.decision
    <3>1. run.step = "fill" /\ after = FilledRow(before) /\ before \in Positions
      BY <1>1, <1>2
    <3> HIDE DEF FilledRow, Positions, NoPosition, cur
    <3> QED BY <3>1, FillOfARow
  <2>3. CASE after.quantity = 0
    <3> HIDE DEF Entry
    <3> QED BY <2>1, <2>2, <2>3 DEF EntryIsKnown
  <2>4. CASE after.quantity # 0 /\ before.quantity = 0
    <3>1. run'.step = "stop"
      BY <1>1, <1>7, <2>4, FillLeads
    <3>2. ~RecordedAsFilled(Entry(e).decision)'
      BY <1>2, <2>1, <2>2, <2>4, <3>1 DEF RecordedAsFilled, NoRow
    <3> HIDE DEF Entry, RecordedAsFilled
    <3> QED BY <1>2, <1>7, <2>1, <2>2, <2>4, <3>2 DEF EntryIsKnown
  <2>5. CASE after.quantity # 0 /\ before.quantity # 0
    <3>1. PICK d : d = before.decision
      OBVIOUS
    <3>2. /\ d \in 1..count /\ asked[d].exchange = e /\ asked[d].market = Futures
          /\ before.stop # NoOrder => before.stop = d /\ before.stop \in stops \union triggered
          /\ before.stop = NoOrder /\ RecordedAsFilled(d) => LackAnnounced(d)
      <4>1. EntryIsKnown(e)
        BY DEF Inductive, Entries
      <4> HIDE DEF Entry, RecordedAsFilled, LackAnnounced
      <4> QED BY <2>1, <2>5, <3>1, <4>1 DEF EntryIsKnown
    <3>3. d # cur
      BY <1>5, <2>1, <3>1
    <3>4. RecordedAsFilled(d)' => RecordedAsFilled(d)
      BY <1>3, <3>3
    <3>5. /\ RecordedAsFilled(Entry(e).decision)' <=> RecordedAsFilled(d)'
          /\ LackAnnounced(Entry(e).decision)' <=> LackAnnounced(d)'
      <4>1. Entry(e)'.decision = d
        BY <2>1, <2>2, <2>5, <3>1
      <4> HIDE DEF Entry
      <4> QED BY <4>1 DEF RecordedAsFilled, LackAnnounced
    <3> HIDE DEF Entry, RecordedAsFilled, LackAnnounced
    <3> QED BY <1>2, <1>4, <2>1, <2>2, <2>5, <3>1, <3>2, <3>4, <3>5 DEF EntryIsKnown
  <2> QED BY <2>3, <2>4, <2>5
<1> QED BY <1>2, <1>6, <1>7, Names

\* Their stops are still accounted for.
LEMMA StopsFilled == ASSUME Inductive, ApplyFillToBook PROVE StopsAreKnown'
<1> SUFFICES ASSUME NEW i \in stops'
             PROVE  /\ asked'[i].market = Futures /\ asked'[i].exchange \in Conditional
                    /\ StopIsAccounted(i)'
  BY DEF StopsAreKnown
<1>1. PICK before, after : /\ before = book[Venue][Order.market] /\ after = FilledRow(before)
                           /\ before \in Positions /\ after = book'[Venue][Order.market]
  BY FillWrites
<1>2. /\ count' = count /\ asked' = asked /\ stops' = stops /\ rows' = rows /\ cur' = cur
      /\ announced' = announced /\ Order.market \in Markets /\ run.step = "fill" /\ Active
      /\ Venue' = Venue /\ Order' = Order
  BY FillWrites DEF ApplyFillToBook, Active
<1>3. i \in stops /\ i \in Ids /\ asked[i].exchange \in Exchanges /\ asked[i].exchange \in Conditional
  <2>1. i \in stops /\ i \in Ids
    BY <1>2 DEF Inductive, Types
  <2> QED BY <2>1 DEF Inductive, StopsAreKnown, Types, Asked
<1>4. \A j : NeverRecorded(j) => NeverRecorded(j)'
  BY <1>2 DEF NeverRecorded
<1>5. ASSUME Entry(asked[i].exchange).stop = i PROVE StopIsAccounted(i)'
  <2>1. CASE Order.market = Spot \/ asked[i].exchange # Venue
    <3>1. Entry(asked[i].exchange)' = Entry(asked[i].exchange)
      BY <1>2, <1>3, <2>1, FillWrites, Names DEF Entry
    <3> HIDE DEF Entry
    <3> QED BY <1>2, <1>5, <3>1 DEF StopIsAccounted
  <2>2. CASE Order.market = Futures /\ asked[i].exchange = Venue
    <3>1. before = Entry(Venue) /\ before.stop = i /\ after = Entry(Venue)'
      BY <1>1, <1>2, <1>5, <2>2 DEF Entry
    <3>2. i # NoOrder
      BY <1>3, Bounds
    <3>3. before.quantity # 0
      <4>1. EntryIsKnown(Venue)
        BY <1>3, <2>2 DEF Inductive, Entries
      <4>2. before.quantity = 0 => before.stop = NoOrder
        BY <3>1, <4>1 DEF EntryIsKnown, NoPosition
      <4> QED BY <3>1, <3>2, <4>2
    <3>4. CASE after.quantity = 0
      <4>1. run'.step = "cancel" /\ run'.stop = i
        BY <1>1, <1>3, <2>2, <3>1, <3>2, <3>3, <3>4, FillLeads
      <4> QED BY <4>1 DEF StopIsAccounted
    <3>5. CASE after.quantity # 0
      <4>1. after.stop = i
        BY <1>1, <1>2, <3>1, <3>3, <3>5, FillOfARow
      <4>2. Entry(asked[i].exchange)'.stop = i
        BY <1>2, <2>2, <3>1, <4>1 DEF Entry
      <4> HIDE DEF Entry
      <4> QED BY <1>2, <4>2 DEF StopIsAccounted
    <3> QED BY <3>4, <3>5
  <2> QED BY <1>2, <2>1, <2>2, Names
<1>6. \A j \in Ids : announced[j] \subseteq announced'[j] /\ (NeverRecorded(j) => NeverRecorded(j)')
  BY <1>2, <1>4
<1> HIDE DEF NeverRecorded, Ids, Entry
<1> QED BY <1>2, <1>3, <1>5, <1>6, StopKept

\* The spot book is backed by what the order at hand has delivered.
LEMMA AccountsFilled ==
    ASSUME Inductive, ApplyFillToBook, Types', Executions'
    PROVE  Accounts'
<1>1. PICK before, after : /\ before = book[Venue][Order.market] /\ after = FilledRow(before)
                           /\ before \in Positions /\ after = book'[Venue][Order.market]
  BY FillWrites
<1>2. /\ count' = count /\ asked' = asked /\ resting' = resting /\ executed' = executed
      /\ rows' = rows /\ cur' = cur /\ Order' = Order /\ Venue' = Venue
      /\ cur \in Ids /\ Order.market \in Markets /\ Order = asked[cur] /\ Venue \in Exchanges
      /\ run.step = "fill" /\ run.status = "filled" /\ Active
  BY FillWrites DEF ApplyFillToBook, Active
<1>3. run'.status = "filled" /\ run'.step \in {"stop", "cancel", "row"} /\ Active'
  BY <1>1, FillLeads
<1>4. \A i : Told(i)' => Told(i)
  BY <1>2 DEF Told
<1>5. \A e : ~Unbooked(e)'
  BY <1>3 DEF Unbooked
<1>6. CASE Order.market = Futures
  <2>1. \A e \in Exchanges : book'[e][Spot] = book[e][Spot]
    BY <1>6, FillWrites, Names
  <2>2. \A e : ~Unbooked(e)
    BY <1>6, Names DEF Unbooked
  <2> HIDE DEF Ids, Told, Unbooked
  <2> QED BY <1>2, <1>4, <1>5, <2>1, <2>2, AccountsKept
<1>7. CASE Order.market = Spot
  <2> SUFFICES ASSUME NEW e \in Exchanges
               PROVE  /\ Available(e)' >= 0
                      /\ AllTold(e)' => book'[e][Spot].quantity <= Holding(e)' - InProgress(e)'
    BY DEF Accounts
  <2>1. /\ Holding(e)' = Holding(e) /\ Available(e)' = Available(e)
        /\ SpotOrders(e)' = SpotOrders(e)
    BY <1>2 DEF Holding, Available, Delivered, SpotOrders
  <2>2. Available(e) >= 0 /\ Holding(e) >= 0 /\ Holding(e) \in Int
    BY NothingIsShort
  <2>3. AllTold(e)' => AllTold(e)
    <3> HIDE DEF Told
    <3> QED BY <1>2, <1>4, <2>1 DEF AllTold
  <2>4. AllTold(e) => book[e][Spot].quantity <= Holding(e) - InProgress(e)
    BY DEF Inductive, Accounts
  <2>5. InProgress(e)' = 0
    BY <1>5 DEF InProgress
  <2>6. CASE e # Venue
    <3>1. InProgress(e) = 0
      BY <2>6 DEF InProgress, Unbooked
    <3>2. book'[e][Spot] = book[e][Spot]
      BY <2>6, FillWrites, Names
    <3> HIDE DEF AllTold, InProgress
    <3> QED BY <2>1, <2>2, <2>3, <2>4, <2>5, <3>1, <3>2
  <2>7. CASE e = Venue
    <3>1. InProgress(e) = Delivered[cur]
      BY <1>2, <1>7, <2>7 DEF InProgress, Unbooked
    <3>2. Delivered[cur] = Signed(Order.side, executed[cur])
      BY <1>2 DEF Delivered
    <3>3. run.filled = executed[cur] /\ executed[cur] \in Nat
      BY <1>2, <1>7 DEF Inductive, AtHand, Types
    <3>4. PICK q : q = before.quantity /\ q \in Int /\ q = book[e][Spot].quantity
      BY <1>1, <1>7, <2>7 DEF Positions
    <3>5. book'[e][Spot].quantity = ApplyFill(Order.market, q, Order.side, run.filled)
      <4>1. run.step = "fill" /\ after = FilledRow(before) /\ before \in Positions
        BY <1>1, <1>2
      <4>2. after.quantity = ApplyFill(Order.market, before.quantity, Order.side, run.filled)
        <5> HIDE DEF FilledRow, Positions, ApplyFill
        <5> QED BY <4>1, FillOfARow
      <4> QED BY <1>1, <1>7, <2>7, <3>4, <4>2
    <3>6. book'[e][Spot].quantity = SpotFill(q, Order.side, executed[cur])
      BY <1>7, <3>3, <3>5, Names DEF ApplyFill
    <3>7. CASE Order.side = Buy
      <4>1. book'[e][Spot].quantity = q + executed[cur] /\ InProgress(e) = executed[cur]
        BY <3>1, <3>2, <3>6, <3>7 DEF SpotFill, Signed
      <4> HIDE DEF AllTold, InProgress
      <4> QED BY <2>1, <2>2, <2>3, <2>4, <2>5, <3>3, <3>4, <4>1
    <3>8. CASE Order.side # Buy
      <4>1. book'[e][Spot].quantity = 0
        BY <3>6, <3>8 DEF SpotFill
      <4> HIDE DEF AllTold, InProgress
      <4> QED BY <2>1, <2>2, <2>5, <4>1
    <3> QED BY <3>7, <3>8
  <2> QED BY <2>6, <2>7
<1> QED BY <1>2, <1>6, <1>7, Names

\* The fill is applied to the book.
LEMMA ApplyFillKept == Inductive /\ ApplyFillToBook => Inductive'
<1> SUFFICES ASSUME Inductive, ApplyFillToBook PROVE Inductive'
  OBVIOUS
<1>1. PICK before, after : /\ before = book[Venue][Order.market] /\ after = FilledRow(before)
                           /\ before \in Positions /\ after = book'[Venue][Order.market]
  BY FillWrites
<1>2. /\ count' = count /\ asked' = asked /\ resting' = resting /\ executed' = executed
      /\ stops' = stops /\ triggered' = triggered /\ announced' = announced
      /\ rows' = rows /\ cur' = cur /\ Order' = Order /\ Venue' = Venue /\ Units' = Units
      /\ cur \in Ids /\ Order.market \in Markets /\ Order = asked[cur] /\ Venue \in Exchanges
      /\ run.step = "fill" /\ run.status = "filled" /\ Active /\ Types'
  BY FillWrites DEF ApplyFillToBook, Active
<1>3. Executions'
  BY <1>2 DEF Inductive, Executions
<1>4. Unbegun'
  <2> HIDE DEF Ids
  <2> QED BY <1>2, UnbegunKept
<1>5. /\ run'.status = "filled" /\ run'.filled = run.filled /\ Active'
      /\ run'.step \in {"stop", "cancel", "row"}
      /\ run'.step \in {"stop", "cancel"} => Order.market = Futures
  BY <1>1, FillLeads
<1>6. AtHand'
  BY <1>2, <1>5 DEF Inductive, AtHand
<1>7. Window'
  <2>1. Order.market = Futures => before = Entry(Venue) /\ after = Entry(Venue)'
    BY <1>1, <1>2 DEF Entry
  <2>2. run'.step = "stop" => after.quantity # 0 /\ before.quantity = 0
    BY <1>1, FillLeads
  <2>3. /\ after.quantity = 0 => after = NoPosition
        /\ after.quantity # 0 /\ before.quantity = 0 => after.stop = NoOrder /\ after.decision = cur
    <3>1. run.step = "fill" /\ after = FilledRow(before) /\ before \in Positions
      BY <1>1, <1>2
    <3> HIDE DEF FilledRow, Positions, NoPosition, cur
    <3> QED BY <3>1, FillOfARow
  <2>4. run'.step = "cancel" => /\ after.quantity = 0 /\ before.quantity # 0
                                /\ run'.stop = before.stop /\ before.stop # NoOrder
    BY <1>1, FillLeads
  <2>5. run'.step = "cancel" => run'.stop \in 1..(cur - 1) /\ asked[run'.stop].exchange = Venue
    <3> SUFFICES ASSUME run'.step = "cancel"
                 PROVE  run'.stop \in 1..(cur - 1) /\ asked[run'.stop].exchange = Venue
      OBVIOUS
    <3>1. EntryIsKnown(Venue)
      BY <1>2 DEF Inductive, Entries
    <3>2. /\ before.stop = before.decision /\ before.decision \in 1..count
          /\ asked[before.decision].exchange = Venue
      BY <1>5, <2>1, <2>4, <3>1 DEF EntryIsKnown
    <3>3. before.decision # cur
      BY <1>2, <1>5, <2>1 DEF Inductive, AtHand, Entry
    <3>4. cur = count /\ count \in Nat
      BY Bounds DEF cur, Inductive, Types
    <3>5. before.decision \in 1..(cur - 1)
      <4> HIDE DEF cur
      <4> QED BY <3>2, <3>3, <3>4
    <3> QED BY <2>4, <3>2, <3>5
  <2> HIDE DEF Entry
  <2> QED BY <1>2, <1>5, <2>1, <2>2, <2>3, <2>4, <2>5 DEF Window
<1> QED BY <1>2, <1>3, <1>4, <1>6, <1>7, EntriesFilled, StopsFilled, AccountsFilled DEF Inductive

-----------------------------------------------------------------------------
(* The theorems.                                                           *)

\* No step breaks the invariant.
LEMMA StepKept == Inductive /\ [Next]_vars => Inductive'
<1> SUFFICES ASSUME Inductive, [Next]_vars PROVE Inductive'
  OBVIOUS
<1>1. CASE \E e \in Exchanges, m \in Markets, s \in Sides : \E q \in Quantities[m] : Execute(e, m, s, q)
  <2>1. PICK e \in Exchanges, m \in Markets, s \in Sides : \E q \in Quantities[m] : Execute(e, m, s, q)
    BY <1>1
  <2>2. PICK q \in Quantities[m] : Execute(e, m, s, q)
    BY <2>1
  <2> QED BY <2>2, ExecuteKept
<1>2. CASE PassGate \/ RefuseAtGate \/ PlaceSpot \/ RefuseSale \/ PlaceFutures \/ Poll \/ PollWithoutSymbol
  BY <1>2, PassGateKept, RefuseAtGateKept, PlaceSpotKept, RefuseSaleKept, PlaceFuturesKept,
     PollKept, PollWithoutSymbolKept
<1>3. CASE \/ ApplyFillToBook \/ LackStopCapability \/ PlaceStop \/ RecordStop \/ CancelStop
           \/ InsertOrderRow \/ Restart
  BY <1>3, ApplyFillKept, LackStopKept, PlaceStopKept, RecordStopKept, CancelStopKept,
     InsertOrderRowKept, InterruptionsKept
<1>4. CASE Failure
  BY <1>4, MissStopKept, MissCancellationKept, CallRaisesKept, InterruptionsKept DEF Failure
<1>5. CASE Around
  BY <1>5, AttestKept, ExecuteUnitKept, CancelRestKept, TriggerStopKept DEF Around
<1>6. CASE JudgeBatch \/ UNCHANGED vars
  <2>1. /\ attested' = attested /\ count' = count /\ asked' = asked /\ resting' = resting
        /\ executed' = executed /\ stops' = stops /\ book' = book /\ rows' = rows /\ run' = run
        /\ faults' = faults /\ announced' = announced /\ triggered' = triggered
    BY <1>6 DEF JudgeBatch, exchange, database, vars
  <2>2. cur' = cur
    BY <2>1 DEF cur
  <2>3. Types' /\ Executions' /\ Unbegun' /\ AtHand'
    BY <2>1, <2>2 DEF Inductive, Types, Executions, Unbegun, AtHand, Active, Order, Units
  <2>4. Entries' /\ Window' /\ StopsAreKnown'
    BY <2>1, FuturesAlone
  <2>5. Accounts'
    <3>1. \A i : (Told(i)' <=> Told(i)) /\ (Unbooked(i)' <=> Unbooked(i))
      BY <2>1, <2>2 DEF Told, Unbooked, Active, Order, Venue
    <3> HIDE DEF Told, Unbooked, Ids
    <3> QED BY <2>1, <2>3, <3>1, AccountsKept
  <2> QED BY <2>3, <2>4, <2>5 DEF Inductive
<1> QED BY <1>1, <1>2, <1>3, <1>4, <1>5, <1>6 DEF Next, Begin, Work

\* The inductive invariant holds in every reachable state.
THEOREM InductiveHolds == Spec => []Inductive
BY InitKept, StepKept, PTL DEF Spec

\* Where neither what is held, nor the stops triggered, nor the orders change, what is
\* known of them stays.
LEMMA HoldingsStay ==
    ASSUME Holdings, sellable' \subseteq Exchanges, UNCHANGED <<held, triggered, asked>>
    PROVE  Holdings'
BY DEF Holdings, EndedByItsStop, HeldFor, Closers

\* The next order is none of those that may have put something on the exchange again.
LEMMA HoldingsAfterExecute ==
    ASSUME Inductive, Holdings, NEW e \in Exchanges, NEW m \in Markets, NEW s \in Sides,
           NEW q \in Quantities[m], Execute(e, m, s, q)
    PROVE  Holdings'
<1>1. /\ UNCHANGED <<sellable, held, triggered>> /\ count + 1 \in Ids
      /\ \A i \in Ids : i # count + 1 => asked'[i] = asked[i]
  <2>1. count \in Nat /\ asked \in [Ids -> Asked] /\ count < MaxOrders
    BY DEF Inductive, Types, Execute
  <2>2. count + 1 \in Ids
    BY <2>1, Bounds
  <2> HIDE DEF Ids
  <2> QED BY <2>1, <2>2 DEF Execute, exchange
<1>2. asked[count + 1].market = Spot
  <2>1. count \in Nat /\ count + 1 > count
    BY DEF Inductive, Types
  <2>2. \A i \in Ids : i > count => asked[i] = NotAsked
    BY DEF Inductive, Unbegun
  <2>3. asked[count + 1] = NotAsked
    <3> HIDE DEF Ids, NotAsked
    <3> QED BY <1>1, <2>1, <2>2
  <2> QED BY <2>3 DEF NotAsked
<1>3. \A i \in triggered : i \in Ids /\ i # count + 1
  <2> SUFFICES ASSUME NEW i \in triggered PROVE i \in Ids /\ i # count + 1
    OBVIOUS
  <2>1. i \in Ids
    BY DEF Inductive, Types
  <2>2. i \in 1..count /\ count \in Nat
    BY <2>1, TracesAreBegun
  <2> QED BY <2>1, <2>2
<1>4. \A i \in triggered : Closers(i) \subseteq Closers(i)'
  <2> SUFFICES ASSUME NEW i \in triggered, NEW j \in Closers(i) PROVE j \in Closers(i)'
    OBVIOUS
  <2>1. j \in Ids /\ asked[j].market = Futures
    BY DEF Closers
  <2>2. j # count + 1
    BY <1>2, <2>1, Names
  <2> QED BY <1>1, <1>3, <2>1, <2>2 DEF Closers
<1>5. \A i \in triggered : HeldFor(i)' <=> HeldFor(i)
  BY <1>1, <1>3 DEF HeldFor
<1> HIDE DEF HeldFor, Closers, Ids
<1> QED BY <1>1, <1>4, <1>5 DEF Holdings, EndedByItsStop

\* A futures order comes after every entry whose stop was triggered.
LEMMA HoldingsAfterOrder ==
    ASSUME Inductive, Holdings, run.step = "place", Order.market = Futures,
           held' \in {held, HeldAfterOrder}, UNCHANGED <<triggered, count, asked>>,
           sellable' \subseteq Exchanges
    PROVE  Holdings'
<1>1. Active
  BY DEF Active
<1>2. /\ cur \in Ids /\ cur = count /\ Venue \in Exchanges /\ Units \in Nat /\ Order = asked[cur]
      /\ cur \notin triggered
  BY <1>1, Begun DEF Inductive, AtHand
<1>3. /\ held' \in [Exchanges -> Int]
      /\ \A e \in Exchanges : e # Venue => held'[e] = held[e]
  <2>1. held \in [Exchanges -> Int]
    BY DEF Holdings
  <2>2. held[Venue] + Signed(Order.side, Units) \in Int
    BY <1>2, <2>1 DEF Signed
  <2> HIDE DEF Venue, Order, Units
  <2> QED BY <1>2, <2>1, <2>2 DEF HeldAfterOrder
<1>4. ASSUME NEW i \in triggered PROVE EndedByItsStop(i)'
  <2>1. i \in Ids /\ EndedByItsStop(i) /\ asked[i].exchange \in Exchanges
    BY DEF Inductive, Types, Asked, Holdings
  <2>2. i \in 1..count /\ count \in Nat
    BY <2>1, TracesAreBegun
  <2>3. CASE asked[i].exchange = Venue
    <3>1. cur > i
      BY <1>2, <2>2
    <3>2. cur \in Closers(i)
      BY <1>2, <2>3, <3>1 DEF Closers, Venue
    <3>3. Closers(i)' = Closers(i)
      BY DEF Closers
    <3> HIDE DEF Closers
    <3> QED BY <3>2, <3>3 DEF EndedByItsStop
  <2>4. CASE asked[i].exchange # Venue
    <3>1. (HeldFor(i)' <=> HeldFor(i)) /\ Closers(i)' = Closers(i)
      BY <1>3, <2>1, <2>4 DEF HeldFor, Closers
    <3> HIDE DEF HeldFor, Closers
    <3> QED BY <2>1, <3>1 DEF EndedByItsStop
  <2> QED BY <2>3, <2>4
<1> QED BY <1>3, <1>4 DEF Holdings

\* A stop leaves nothing in its direction.
LEMMA StopEndsItsPosition ==
    ASSUME Inductive, Holdings, NEW i \in Ids, TriggerStop(i)
    PROVE  /\ held' \in [Exchanges -> Int] /\ ~HeldFor(i)'
           /\ \A e \in Exchanges : held'[e] = held[e] \/ held'[e] = 0
           /\ \A e \in Exchanges : e # asked[i].exchange => held'[e] = held[e]
           /\ UNCHANGED <<book, announced, count, asked, run, faults, sellable>>
           /\ i \in stops /\ stops' = stops \ {i} /\ triggered' = triggered \union {i}
<1>1. /\ i \in stops /\ stops' = stops \ {i} /\ triggered' = triggered \union {i}
      /\ UNCHANGED <<book, announced, count, asked, run, faults, sellable>>
      /\ held' = IF HeldFor(i) THEN [held EXCEPT ![asked[i].exchange] = 0] ELSE held
  BY DEF TriggerStop, database
<1>2. held \in [Exchanges -> Int] /\ asked[i].exchange \in Exchanges
  BY DEF Inductive, Types, Asked, Holdings
<1>3. CASE HeldFor(i)
  <2>1. held' = [held EXCEPT ![asked[i].exchange] = 0]
    BY <1>1, <1>3
  <2>2. ~HeldFor(i)'
    BY <1>1, <1>2, <2>1 DEF HeldFor, SameDirection
  <2> QED BY <1>1, <1>2, <2>1, <2>2
<1>4. CASE ~HeldFor(i)
  <2>1. held' = held
    BY <1>1, <1>4
  <2>2. ~HeldFor(i)'
    BY <1>1, <1>4, <2>1 DEF HeldFor
  <2> QED BY <1>1, <1>2, <2>1, <2>2
<1> QED BY <1>3, <1>4

\* So what is held is known after it.
LEMMA HoldingsAfterStop == ASSUME Inductive, Holdings, NEW i \in Ids, TriggerStop(i) PROVE Holdings'
<1>1. /\ held' \in [Exchanges -> Int] /\ ~HeldFor(i)'
      /\ \A e \in Exchanges : held'[e] = held[e] \/ held'[e] = 0
      /\ UNCHANGED <<asked, sellable>> /\ triggered' = triggered \union {i}
  BY StopEndsItsPosition
<1>2. ASSUME NEW k \in triggered PROVE EndedByItsStop(k)'
  <2>1. EndedByItsStop(k) /\ asked[k].exchange \in Exchanges
    BY DEF Inductive, Types, Asked, Holdings
  <2>2. HeldFor(k)' => HeldFor(k)
    BY <1>1, <2>1 DEF HeldFor, SameDirection
  <2>3. Closers(k)' = Closers(k)
    BY <1>1 DEF Closers
  <2> HIDE DEF HeldFor, Closers
  <2> QED BY <1>1, <2>1, <2>2, <2>3 DEF EndedByItsStop
<1>3. EndedByItsStop(i)'
  <2> HIDE DEF HeldFor, Closers
  <2> QED BY <1>1 DEF EndedByItsStop
<1> QED BY <1>1, <1>2, <1>3 DEF Holdings

\* No step breaks what is known of the holdings.
LEMMA HoldingsKept == Inductive /\ Holdings /\ [Next]_vars => Holdings'
<1> SUFFICES ASSUME Inductive, Holdings, [Next]_vars PROVE Holdings'
  OBVIOUS
<1>1. sellable \subseteq Exchanges
  BY DEF Holdings
<1>2. CASE \E e \in Exchanges, m \in Markets, s \in Sides : \E q \in Quantities[m] : Execute(e, m, s, q)
  <2>1. PICK e \in Exchanges, m \in Markets, s \in Sides : \E q \in Quantities[m] : Execute(e, m, s, q)
    BY <1>2
  <2>2. PICK q \in Quantities[m] : Execute(e, m, s, q)
    BY <2>1
  <2> QED BY <2>2, HoldingsAfterExecute
<1>3. CASE JudgeBatch
  <2>1. sellable' \subseteq Exchanges /\ UNCHANGED <<held, triggered, asked>>
    BY <1>3 DEF JudgeBatch, exchange
  <2> QED BY <2>1, HoldingsStay
<1>4. CASE \/ PassGate \/ RefuseAtGate \/ PlaceSpot \/ RefuseSale \/ Poll \/ PollWithoutSymbol
           \/ InsertOrderRow \/ Restart \/ RowIsLost \/ Crash \/ Attest \/ UNCHANGED vars
  <2>1. sellable' \subseteq Exchanges /\ UNCHANGED <<held, triggered, asked>>
    BY <1>1, <1>4 DEF PassGate, RefuseAtGate, PlaceSpot, RefuseSale, Poll, PollWithoutSymbol,
       InsertOrderRow, Restart, RowIsLost, Crash, Attest, exchange, vars
  <2> QED BY <2>1, HoldingsStay
<1>5. CASE \/ ApplyFillToBook \/ LackStopCapability \/ PlaceStop \/ RecordStop \/ CancelStop
           \/ MissStop \/ MissCancellation
  <2>1. sellable' \subseteq Exchanges /\ UNCHANGED <<held, triggered, asked>>
    BY <1>1, <1>5 DEF ApplyFillToBook, LackStopCapability, PlaceStop, RecordStop, CancelStop,
       MissStop, MissCancellation, exchange
  <2> QED BY <2>1, HoldingsStay
<1>6. CASE PlaceFutures
  BY <1>1, <1>6, HoldingsAfterOrder DEF PlaceFutures
<1>7. CASE CallRaises
  <2>1. sellable' = {} /\ UNCHANGED <<triggered, count, asked>>
    BY <1>7 DEF CallRaises
  <2>2. CASE run.step = "place" /\ Order.market = Futures
    <3>1. held' \in {held, HeldAfterOrder}
      BY <1>7, <2>2 DEF CallRaises
    <3> QED BY <2>1, <2>2, <3>1, HoldingsAfterOrder
  <2>3. CASE ~(run.step = "place" /\ Order.market = Futures)
    <3>1. held' = held
      BY <1>7, <2>3 DEF CallRaises
    <3> QED BY <2>1, <3>1, HoldingsStay
  <2> QED BY <2>2, <2>3
<1>8. CASE \E i \in Ids : ExecuteUnit(i) \/ CancelRest(i)
  <2>1. sellable' \subseteq Exchanges /\ UNCHANGED <<held, triggered, asked>>
    BY <1>1, <1>8 DEF ExecuteUnit, CancelRest
  <2> QED BY <2>1, HoldingsStay
<1>9. CASE \E i \in Ids : TriggerStop(i)
  BY <1>9, HoldingsAfterStop
<1> QED BY <1>2, <1>3, <1>4, <1>5, <1>6, <1>7, <1>8, <1>9 DEF Next, Begin, Work, Failure, Around

\* Both invariants hold in every reachable state.
LEMMA HoldingsHold == Spec => [](Inductive /\ Holdings)
<1>1. Init => Holdings
  BY DEF Init, Holdings
<1> QED BY <1>1, HoldingsKept, InductiveHolds, PTL DEF Spec

\* The state is well typed.
THEOREM TypeCorrectness == Spec => []TypeOK
BY HoldingsHold, TypesGiveTypeOK, PTL

\* A row recorded as filled tells what the exchange executed, the whole order: neither a
\* part of it, nor an order still resting, passes for a fill.
THEOREM FilledRows == Spec => []FilledRowsTellTheExecution
<1>1. Inductive => FilledRowsTellTheExecution
  BY DEF Inductive, Executions, FilledRowsTellTheExecution
<1> QED BY <1>1, InductiveHolds, PTL

\* The spot book claims no more than the account holds, unless a row gives an execution away.
THEOREM SpotBacked == Spec => []SpotBookIsBacked
<1>1. Inductive => SpotBookIsBacked
  <2> SUFFICES ASSUME Inductive, NEW e \in Exchanges,
                      \A i \in SpotOrders(e) : executed[i] > 0 => rows[i].status = "filled"
               PROVE  book[e][Spot].quantity <= Holding(e)
    BY DEF SpotBookIsBacked
  <2>1. AllTold(e)
    BY DEF AllTold, Told
  <2>2. book[e][Spot].quantity <= Holding(e) - InProgress(e)
    BY <2>1 DEF Inductive, Accounts
  <2>3. InProgress(e) = 0
    <3>1. CASE ~Unbooked(e)
      BY <3>1 DEF InProgress
    <3>2. CASE Unbooked(e)
      <4>1. Active
        BY <3>2 DEF Unbooked, Active
      <4>2. cur \in Ids /\ cur = count /\ count \in Nat /\ Order = asked[cur] /\ rows[cur] = NoRow
        BY <4>1, Begun DEF Inductive, AtHand, Types
      <4>3. cur \in 1..count
        BY <4>2, Bounds
      <4>4. cur \in SpotOrders(e) /\ rows[cur].status # "filled"
        BY <3>2, <4>2, <4>3 DEF SpotOrders, Unbooked, Venue, NoRow
      <4>5. executed[cur] \in Nat /\ ~(executed[cur] > 0)
        BY <4>2, <4>4 DEF Inductive, Types
      <4>6. Delivered[cur] = Signed(asked[cur].side, executed[cur])
        BY <4>2 DEF Delivered
      <4>7. Delivered[cur] = 0
        BY <4>5, <4>6 DEF Signed
      <4> QED BY <3>2, <4>7 DEF InProgress
    <3> QED BY <3>1, <3>2
  <2>4. Holding(e) \in Int
    BY NothingIsShort
  <2> QED BY <2>2, <2>3, <2>4
<1> QED BY <1>1, InductiveHolds, PTL

\* A futures position whose entry was recorded as filled has its stop on the exchange, or
\* its lack was announced, or its stop was triggered and ended it: the exchange then holds
\* nothing of it but what a later order put there.
THEOREM EntriesProtected == Spec => []FilledEntriesAreProtectedOrAnnounced
<1>1. Inductive /\ Holdings => FilledEntriesAreProtectedOrAnnounced
  <2> SUFFICES ASSUME Inductive, Holdings, NEW e \in Exchanges, Entry(e).quantity # 0,
                      rows[Entry(e).decision].status = "filled"
               PROVE  \/ Entry(e).stop \in stops
                      \/ LackAnnounced(Entry(e).decision)
                      \/ /\ Entry(e).stop = Entry(e).decision
                         /\ EndedByItsStop(Entry(e).decision)
    BY DEF FilledEntriesAreProtectedOrAnnounced, Entry
  <2>1. PICK p : p = Entry(e)
    OBVIOUS
  <2>2. EntryIsKnown(e)
    BY DEF Inductive, Entries
  <2>3. \/ LackAnnounced(p.decision)
        \/ p.stop = p.decision /\ p.stop \in stops \union triggered
    BY <2>1, <2>2 DEF EntryIsKnown, RecordedAsFilled
  <2>4. p.stop \in triggered => EndedByItsStop(p.stop)
    BY DEF Holdings
  <2> HIDE DEF Entry, LackAnnounced, EndedByItsStop
  <2> QED BY <2>1, <2>3, <2>4
<1> QED BY <1>1, HoldingsHold, PTL

\* A stop that belongs to no open row is on record: its placement or its cancellation was
\* announced as failed, or an order involved is not recorded as filled.
THEOREM OrphanStops == Spec => []OrphanStopsAreOnRecord
<1>1. Inductive => OrphanStopsAreOnRecord
  <2> SUFFICES ASSUME Inductive, NEW i \in stops
               PROVE  \/ book[asked[i].exchange][Futures].stop = i
                      \/ "placement_failed" \in announced[i]
                      \/ rows[i].status # "filled"
                      \/ \E j \in Closers(i) : "cancel_failed" \in announced[j] \/ rows[j].status # "filled"
    BY DEF OrphanStopsAreOnRecord
  <2>1. StopIsAccounted(i)
    BY DEF Inductive, StopsAreKnown
  <2>2. Active => rows[cur].status # "filled"
    BY DEF Inductive, AtHand, NoRow
  <2>3. ASSUME run.step = "cancel", run.stop = i
        PROVE  cur \in Closers(i) /\ rows[cur].status # "filled"
    <3>1. Active
      BY <2>3 DEF Active
    <3>2. cur \in Ids /\ cur \in Nat /\ Order.market = Futures
      BY <2>3, <3>1, Begun, Bounds DEF Inductive, AtHand
    <3>3. run.stop \in 1..(cur - 1) /\ asked[run.stop].exchange = Venue
      BY <2>3 DEF Inductive, Window
    <3> QED BY <2>2, <2>3, <3>1, <3>2, <3>3 DEF Closers, Order, Venue
  <2>4. CASE Entry(asked[i].exchange).stop = i
    BY <2>4 DEF Entry
  <2>5. CASE i = cur /\ run.step = "record"
    BY <2>2, <2>5 DEF Active
  <2>6. CASE run.step = "cancel" /\ run.stop = i
    BY <2>3, <2>6
  <2>7. CASE "placement_failed" \in announced[i]
    BY <2>7
  <2>8. CASE NeverRecorded(i)
    BY <2>8 DEF NeverRecorded
  <2>9. CASE \E j \in Closers(i) : "cancel_failed" \in announced[j] \/ NeverRecorded(j)
    BY <2>9 DEF NeverRecorded
  <2> QED BY <2>1, <2>4, <2>5, <2>6, <2>7, <2>8, <2>9 DEF StopIsAccounted
<1> QED BY <1>1, InductiveHolds, PTL

-----------------------------------------------------------------------------
(* Every step follows the road of EntryProtection.                         *)

AllStages == [e \in Exchanges |-> ProtectionStage(e)]

\* The order at hand is the entry, between its fill and the end of its protection.
InWindow(i) == i = cur /\ run.step \in {"stop", "record"}

StopStages == {"protected", "bare", "stopped"}

\* What a stop does for its position is one of these, and "protected" while it lives.
LEMMA StopStageCases ==
    \A i :
        /\ StopStage(i) \in StopStages
        /\ StopStage(i) = "protected" <=> i \in stops
        /\ StopStage(i) = "bare" <=> i \notin stops /\ HeldFor(i)
        /\ StopStage(i) = "stopped" <=> i \notin stops /\ ~HeldFor(i)
<1> HIDE DEF HeldFor
<1> QED BY DEF StopStage, StopStages

\* The same of the next state.
LEMMA StopStageCasesNext ==
    (\A i :
        /\ StopStage(i) \in StopStages
        /\ StopStage(i) = "protected" <=> i \in stops
        /\ StopStage(i) = "bare" <=> i \notin stops /\ HeldFor(i)
        /\ StopStage(i) = "stopped" <=> i \notin stops /\ ~HeldFor(i))'
BY StopStageCases, PTL

\* The stage of an exchange, case by case.
LEMMA StageCases ==
    \A e \in Exchanges :
        /\ Entry(e).quantity = 0 <=> ProtectionStage(e) = "flat"
        /\ Entry(e).quantity # 0 /\ Entry(e).stop # NoOrder <=> ProtectionStage(e) \in StopStages
        /\ Entry(e).quantity # 0 /\ Entry(e).stop # NoOrder
               => ProtectionStage(e) = StopStage(Entry(e).stop)
        /\ Entry(e).quantity # 0 /\ Entry(e).stop = NoOrder /\ LackAnnounced(Entry(e).decision)
               <=> ProtectionStage(e) = "announced"
        /\ Entry(e).quantity # 0 /\ Entry(e).stop = NoOrder /\ ~LackAnnounced(Entry(e).decision)
               /\ InWindow(Entry(e).decision)
               <=> ProtectionStage(e) = "exposed"
        /\ Entry(e).quantity # 0 /\ Entry(e).stop = NoOrder /\ ~LackAnnounced(Entry(e).decision)
               /\ ~InWindow(Entry(e).decision)
               <=> ProtectionStage(e) = "unknown"
<1> SUFFICES ASSUME NEW e \in Exchanges
    PROVE
        /\ Entry(e).quantity = 0 <=> ProtectionStage(e) = "flat"
        /\ Entry(e).quantity # 0 /\ Entry(e).stop # NoOrder <=> ProtectionStage(e) \in StopStages
        /\ Entry(e).quantity # 0 /\ Entry(e).stop # NoOrder
               => ProtectionStage(e) = StopStage(Entry(e).stop)
        /\ Entry(e).quantity # 0 /\ Entry(e).stop = NoOrder /\ LackAnnounced(Entry(e).decision)
               <=> ProtectionStage(e) = "announced"
        /\ Entry(e).quantity # 0 /\ Entry(e).stop = NoOrder /\ ~LackAnnounced(Entry(e).decision)
               /\ InWindow(Entry(e).decision)
               <=> ProtectionStage(e) = "exposed"
        /\ Entry(e).quantity # 0 /\ Entry(e).stop = NoOrder /\ ~LackAnnounced(Entry(e).decision)
               /\ ~InWindow(Entry(e).decision)
               <=> ProtectionStage(e) = "unknown"
  OBVIOUS
<1>1. ProtectionStage(e) =
          IF Entry(e).quantity = 0 THEN "flat"
          ELSE IF Entry(e).stop # NoOrder THEN StopStage(Entry(e).stop)
          ELSE IF LackAnnounced(Entry(e).decision) THEN "announced"
          ELSE IF InWindow(Entry(e).decision) THEN "exposed"
          ELSE "unknown"
  BY DEF ProtectionStage, InWindow, Entry
<1> HIDE DEF Entry, LackAnnounced, InWindow, StopStage, ProtectionStage
<1>2. CASE Entry(e).quantity = 0
  <2>1. ProtectionStage(e) = "flat"
    BY <1>1, <1>2
  <2> QED BY <1>2, <2>1 DEF StopStages
<1>3. CASE Entry(e).quantity # 0 /\ Entry(e).stop # NoOrder
  <2>1. ProtectionStage(e) = StopStage(Entry(e).stop) /\ ProtectionStage(e) \in StopStages
    BY <1>1, <1>3, StopStageCases
  <2> QED BY <1>3, <2>1 DEF StopStages
<1>4. CASE Entry(e).quantity # 0 /\ Entry(e).stop = NoOrder /\ LackAnnounced(Entry(e).decision)
  <2>1. ProtectionStage(e) = "announced"
    BY <1>1, <1>4
  <2> QED BY <1>4, <2>1 DEF StopStages
<1>5. CASE Entry(e).quantity # 0 /\ Entry(e).stop = NoOrder /\ ~LackAnnounced(Entry(e).decision)
           /\ InWindow(Entry(e).decision)
  <2>1. ProtectionStage(e) = "exposed"
    BY <1>1, <1>5
  <2> QED BY <1>5, <2>1 DEF StopStages
<1>6. CASE Entry(e).quantity # 0 /\ Entry(e).stop = NoOrder /\ ~LackAnnounced(Entry(e).decision)
           /\ ~InWindow(Entry(e).decision)
  <2>1. ProtectionStage(e) = "unknown"
    BY <1>1, <1>6
  <2> QED BY <1>6, <2>1 DEF StopStages
<1> QED BY <1>2, <1>3, <1>4, <1>5, <1>6

\* The same of the next state.
LEMMA StageCasesNext ==
    (\A e \in Exchanges :
        /\ Entry(e).quantity = 0 <=> ProtectionStage(e) = "flat"
        /\ Entry(e).quantity # 0 /\ Entry(e).stop # NoOrder <=> ProtectionStage(e) \in StopStages
        /\ Entry(e).quantity # 0 /\ Entry(e).stop # NoOrder
               => ProtectionStage(e) = StopStage(Entry(e).stop)
        /\ Entry(e).quantity # 0 /\ Entry(e).stop = NoOrder /\ LackAnnounced(Entry(e).decision)
               <=> ProtectionStage(e) = "announced"
        /\ Entry(e).quantity # 0 /\ Entry(e).stop = NoOrder /\ ~LackAnnounced(Entry(e).decision)
               /\ InWindow(Entry(e).decision)
               <=> ProtectionStage(e) = "exposed"
        /\ Entry(e).quantity # 0 /\ Entry(e).stop = NoOrder /\ ~LackAnnounced(Entry(e).decision)
               /\ ~InWindow(Entry(e).decision)
               <=> ProtectionStage(e) = "unknown")'
BY StageCases, PTL

\* Where a position stays, what was announced of its entry, the window of its entry and what
\* its stop does for it, so does its stage.
LEMMA StageStays ==
    ASSUME Inductive, NEW e \in Exchanges, Entry(e)' = Entry(e), NEW d, d = Entry(e).decision,
           d \in Ids /\ asked[d].exchange = e =>
               /\ LackAnnounced(d)' <=> LackAnnounced(d)
               /\ InWindow(d)' <=> InWindow(d)
               /\ Entry(e).stop = d => StopStage(d)' = StopStage(d)
    PROVE  ProtectionStage(e)' = ProtectionStage(e)
<1>1. PICK p : p = Entry(e) /\ p = Entry(e)' /\ d = p.decision
  BY DEF Entry
<1>2. /\ p.quantity # 0 => d \in Ids /\ asked[d].exchange = e
      /\ p.quantity # 0 /\ p.stop # NoOrder => p.stop = d
  <2>1. EntryIsKnown(e)
    BY DEF Inductive, Entries
  <2>2. /\ p.quantity # 0 => d \in 1..count /\ asked[d].exchange = e
        /\ p.quantity # 0 /\ p.stop # NoOrder => p.stop = d
    <3> HIDE DEF Entry, RecordedAsFilled, LackAnnounced
    <3> QED BY <1>1, <2>1 DEF EntryIsKnown
  <2>3. count \in Nat /\ count <= MaxOrders
    BY Bounds DEF Inductive, Types
  <2> QED BY <2>2, <2>3, Bounds
<1>3. /\ LackAnnounced(Entry(e).decision)' <=> LackAnnounced(d)'
      /\ InWindow(Entry(e).decision)' <=> InWindow(d)'
  <2>1. Entry(e)'.decision = d
    BY <1>1
  <2> HIDE DEF Entry
  <2> QED BY <2>1 DEF LackAnnounced, InWindow
<1>4. ProtectionStage(e) =
          IF p.quantity = 0 THEN "flat"
          ELSE IF p.stop # NoOrder THEN StopStage(p.stop)
          ELSE IF LackAnnounced(d) THEN "announced"
          ELSE IF InWindow(d) THEN "exposed"
          ELSE "unknown"
  BY <1>1 DEF ProtectionStage, InWindow, Entry
<1>5. ProtectionStage(e)' =
          IF p.quantity = 0 THEN "flat"
          ELSE IF p.stop # NoOrder THEN StopStage(p.stop)'
          ELSE IF LackAnnounced(d)' THEN "announced"
          ELSE IF InWindow(d)' THEN "exposed"
          ELSE "unknown"
  <2>1. ProtectionStage(e)' =
          IF Entry(e)'.quantity = 0 THEN "flat"
          ELSE IF Entry(e)'.stop # NoOrder THEN StopStage(Entry(e).stop)'
          ELSE IF LackAnnounced(Entry(e).decision)' THEN "announced"
          ELSE IF InWindow(Entry(e).decision)' THEN "exposed"
          ELSE "unknown"
    BY DEF ProtectionStage, InWindow, Entry
  <2>2. StopStage(Entry(e).stop)' = StopStage(p.stop)'
    <3>1. Entry(e)'.stop = p.stop
      BY <1>1
    <3> HIDE DEF Entry
    <3> QED BY <3>1 DEF StopStage, HeldFor
  <2> HIDE DEF Entry, LackAnnounced, InWindow, StopStage, ProtectionStage
  <2> QED BY <1>1, <1>3, <2>1, <2>2
<1>6. CASE p.quantity = 0
  BY <1>4, <1>5, <1>6
<1>7. CASE p.quantity # 0
  <2>1. p.stop # NoOrder => StopStage(p.stop)' = StopStage(p.stop)
    <3>1. p.stop # NoOrder => p.stop = d /\ Entry(e).stop = d
      BY <1>1, <1>2, <1>7
    <3>2. p.stop # NoOrder => StopStage(d)' = StopStage(d)
      BY <1>2, <1>7, <3>1
    <3>3. p.stop = d => (StopStage(p.stop)' = StopStage(d)' /\ StopStage(p.stop) = StopStage(d))
      BY DEF StopStage, HeldFor
    <3> HIDE DEF StopStage, Entry
    <3> QED BY <3>1, <3>2, <3>3
  <2> HIDE DEF LackAnnounced, InWindow, StopStage, ProtectionStage
  <2> QED BY <1>2, <1>4, <1>5, <1>7, <2>1
<1> QED BY <1>6, <1>7

\* A step that leaves every stage where it is.
Still == \A e \in Exchanges : ProtectionStage(e)' = ProtectionStage(e)

\* Where no position changes, no lack is announced, no window opens or closes and no stop
\* of an open row comes or goes, the stages stay.
LEMMA StagesStay ==
    ASSUME Inductive, UNCHANGED book,
           \A i \in Ids : i <= count => /\ LackAnnounced(i)' <=> LackAnnounced(i)
                                        /\ InWindow(i)' <=> InWindow(i)
                                        /\ Entry(asked[i].exchange).stop = i
                                               => StopStage(i)' = StopStage(i)
    PROVE  Still
<1> SUFFICES ASSUME NEW e \in Exchanges PROVE ProtectionStage(e)' = ProtectionStage(e)
  BY DEF Still
<1>1. CASE Entry(e).quantity = 0
  <2>1. Entry(e).quantity = 0 /\ Entry(e)'.quantity = 0
    BY <1>1 DEF Entry
  <2> QED BY <2>1 DEF ProtectionStage, Entry
<1>2. CASE Entry(e).quantity # 0
  <2>1. PICK d : d = Entry(e).decision
    OBVIOUS
  <2>2. d \in Ids /\ d <= count /\ asked[d].exchange = e
    <3>1. EntryIsKnown(e)
      BY DEF Inductive, Entries
    <3>2. d \in 1..count /\ asked[d].exchange = e
      <4> HIDE DEF Entry, RecordedAsFilled, LackAnnounced
      <4> QED BY <1>2, <2>1, <3>1 DEF EntryIsKnown
    <3>3. count \in Nat /\ count <= MaxOrders
      BY Bounds DEF Inductive, Types
    <3> QED BY <3>2, <3>3, Bounds
  <2>3. /\ LackAnnounced(d)' <=> LackAnnounced(d)
        /\ InWindow(d)' <=> InWindow(d)
        /\ Entry(e).stop = d => StopStage(d)' = StopStage(d)
    <3> HIDE DEF Entry, LackAnnounced, InWindow, StopStage, Ids
    <3> QED BY <2>2
  <2>4. Entry(e)' = Entry(e)
    BY DEF Entry
  <2> HIDE DEF Entry, LackAnnounced, InWindow, StopStage, ProtectionStage
  <2> QED BY <2>1, <2>3, <2>4, StageStays
<1> QED BY <1>1, <1>2

\* Only the exchange of the order at hand can move in its window.
LEMMA OnlyTheVenueMoves ==
    ASSUME Inductive, Active, NEW e \in Exchanges, e # Venue, Entry(e)' = Entry(e),
           UNCHANGED asked, cur' = cur,
           \A i \in Ids : i # cur => (LackAnnounced(i)' <=> LackAnnounced(i)),
           \A i \in Ids : i # cur => (i \in stops' <=> i \in stops), held'[e] = held[e]
    PROVE  ProtectionStage(e)' = ProtectionStage(e)
<1>1. PICK d : d = Entry(e).decision
  OBVIOUS
<1>2. asked[d].exchange = e => d # cur
  BY DEF Venue, Order
<1>3. d # cur => ~InWindow(d) /\ ~InWindow(d)'
  BY DEF InWindow
<1>4. d \in Ids /\ asked[d].exchange = e =>
          /\ LackAnnounced(d)' <=> LackAnnounced(d)
          /\ InWindow(d)' <=> InWindow(d)
          /\ StopStage(d)' = StopStage(d)
  <2>1. d \in Ids /\ asked[d].exchange = e => StopStage(d)' = StopStage(d)
    BY <1>2 DEF StopStage, HeldFor
  <2> QED BY <1>2, <1>3, <2>1
<1> HIDE DEF Entry, LackAnnounced, InWindow, StopStage, ProtectionStage, Ids
<1> QED BY <1>1, <1>4, StageStays

\* One stage moves, the others stay.
LEMMA OneMoves ==
    ASSUME NEW v \in Exchanges, NEW from, NEW to,
           ProtectionStage(v) \in from, ProtectionStage(v)' = to,
           \A e \in Exchanges : e # v => ProtectionStage(e)' = ProtectionStage(e)
    PROVE  Protection!Move(v, from, to)
<1>1. PICK f, g : /\ f = AllStages /\ g = AllStages'
                  /\ f = [e \in Exchanges |-> ProtectionStage(e)]
                  /\ g = [e \in Exchanges |-> ProtectionStage(e)']
  BY DEF AllStages
<1>2. f[v] \in from /\ g = [f EXCEPT ![v] = to]
  <2> HIDE DEF ProtectionStage
  <2> QED BY <1>1
<1> QED BY <1>1, <1>2 DEF Protection!Move, AllStages

\* None moves.
LEMMA NoneMoves == Still => UNCHANGED AllStages
BY DEF Still, AllStages

Road == [Protection!Next]_<<AllStages, faults>>

\* A quiet step stutters, an interruption that moves no stage is one of the road.
LEMMA QuietRefines == ASSUME Still, faults' = faults PROVE Road
BY NoneMoves DEF Road

\* So is one that leaves the exposed position without a trace.
LEMMA InterruptionRefines ==
    ASSUME faults < MaxFaults, faults' = faults + 1,
           Still \/ \E v \in Exchanges : Protection!Move(v, {"exposed"}, "unknown")
    PROVE  Road
<1>1. CASE Still
  BY <1>1, NoneMoves DEF Road, Protection!Next, Protection!Interrupt, AllStages
<1>2. CASE \E v \in Exchanges : Protection!Move(v, {"exposed"}, "unknown")
  <2>1. Protection!Interrupt
    BY <1>2 DEF Protection!Interrupt
  <2> QED BY <2>1 DEF Road, Protection!Next
<1> QED BY <1>1, <1>2

\* A stop that is triggered, or what the exchange holds, moves the stage of one exchange at
\* most: protection stops, or a position whose stop was triggered becomes bare or ends again.
LEMMA StopMovesRefine ==
    ASSUME Inductive, NEW v \in Exchanges, UNCHANGED <<book, announced, count, asked>>,
           \A i \in Ids : InWindow(i)' <=> InWindow(i),
           stops' \subseteq stops,
           \A i \in Ids : asked[i].exchange # v => StopStage(i)' = StopStage(i),
           \A i \in stops : i \notin stops' => ~HeldFor(i)' /\ faults' = faults,
           faults' = faults \/ (faults < MaxFaults /\ faults' = faults + 1)
    PROVE  Road
<1>1. \A i : LackAnnounced(i)' <=> LackAnnounced(i)
  BY DEF LackAnnounced
<1>2. \A e \in Exchanges : Entry(e)' = Entry(e)
  BY DEF Entry
<1>3. \A e \in Exchanges : e # v => ProtectionStage(e)' = ProtectionStage(e)
  <2> SUFFICES ASSUME NEW e \in Exchanges, e # v PROVE ProtectionStage(e)' = ProtectionStage(e)
    OBVIOUS
  <2>1. PICK d : d = Entry(e).decision
    OBVIOUS
  <2> HIDE DEF Entry, LackAnnounced, InWindow, StopStage, ProtectionStage, Ids
  <2> QED BY <1>1, <1>2, <2>1, StageStays
<1>4. CASE ProtectionStage(v)' = ProtectionStage(v)
  <2>1. Still
    <3> HIDE DEF ProtectionStage
    <3> QED BY <1>3, <1>4 DEF Still
  <2> QED BY <2>1, QuietRefines, InterruptionRefines
<1>5. CASE ProtectionStage(v)' # ProtectionStage(v)
  <2>1. PICK d : d = Entry(v).decision
    OBVIOUS
  <2>2. d \in Ids /\ Entry(v).stop = d /\ StopStage(d)' # StopStage(d)
    <3> HIDE DEF Entry, LackAnnounced, InWindow, StopStage, ProtectionStage, Ids
    <3> QED BY <1>1, <1>2, <1>5, <2>1, StageStays
  <2>3. Entry(v).quantity # 0 /\ d # NoOrder
    <3>1. EntryIsKnown(v)
      BY DEF Inductive, Entries
    <3>2. Entry(v).quantity = 0 => d = NoOrder
      <4> HIDE DEF Entry, RecordedAsFilled, LackAnnounced
      <4> QED BY <2>1, <3>1 DEF EntryIsKnown, NoPosition
    <3> QED BY <2>2, <3>2, Bounds
  <2>4. ProtectionStage(v) = StopStage(d)
    <3> HIDE DEF Entry, LackAnnounced, InWindow, StopStage, ProtectionStage
    <3> QED BY <2>2, <2>3, StageCases
  <2>5. ProtectionStage(v)' = StopStage(d)'
    <3>1. Entry(v)'.quantity # 0 /\ Entry(v)'.stop # NoOrder /\ Entry(v)'.stop = d
      BY <1>2, <2>2, <2>3
    <3>2. ProtectionStage(v)' = StopStage(Entry(v).stop)'
      <4> HIDE DEF Entry, LackAnnounced, InWindow, StopStage, ProtectionStage
      <4> QED BY <3>1, StageCasesNext
    <3>3. StopStage(Entry(v).stop)' = StopStage(d)'
      <4> HIDE DEF Entry
      <4> QED BY <3>1 DEF StopStage, HeldFor
    <3> QED BY <3>2, <3>3
  <2>6. CASE d \in stops
    <3>1. d \notin stops'
      <4> HIDE DEF StopStage
      <4> QED BY <2>2, <2>6, StopStageCases, StopStageCasesNext
    <3>2. ~HeldFor(d)' /\ faults' = faults
      BY <2>6, <3>1
    <3>3. ProtectionStage(v) \in {"protected", "exposed"} /\ ProtectionStage(v)' = "stopped"
      <4> HIDE DEF StopStage, HeldFor, ProtectionStage
      <4> QED BY <2>4, <2>5, <2>6, <3>1, <3>2, StopStageCases, StopStageCasesNext
    <3>4. Protection!Move(v, {"protected", "exposed"}, "stopped")
      <4> HIDE DEF ProtectionStage
      <4> QED BY <1>3, <3>3, OneMoves
    <3>5. Protection!Fire(v)
      BY <3>2, <3>4 DEF Protection!Fire
    <3> QED BY <3>5 DEF Road, Protection!Next
  <2>7. CASE d \notin stops
    <3>1. faults' \in {faults, faults + 1}
      OBVIOUS
    <3>2. \/ ProtectionStage(v) \in {"stopped"} /\ ProtectionStage(v)' = "bare"
          \/ ProtectionStage(v) \in {"bare"} /\ ProtectionStage(v)' = "stopped"
      <4>1. d \notin stops'
        BY <2>7
      <4> HIDE DEF StopStage, HeldFor, ProtectionStage
      <4> QED BY <1>5, <2>4, <2>5, <2>7, <4>1, StopStageCases, StopStageCasesNext
    <3>3. \/ Protection!Move(v, {"stopped"}, "bare")
          \/ Protection!Move(v, {"bare"}, "stopped")
      <4> HIDE DEF ProtectionStage
      <4> QED BY <1>3, <3>2, OneMoves
    <3>4. Protection!Reinforce(v) \/ Protection!Unwind(v)
      BY <3>1, <3>3 DEF Protection!Reinforce, Protection!Unwind
    <3> QED BY <3>4 DEF Road, Protection!Next
  <2> QED BY <2>6, <2>7
<1> QED BY <1>4, <1>5

\* What the exchange takes of a futures order moves no more than that.
LEMMA HeldMovesRefine ==
    ASSUME Inductive, Holdings, run.step = "place", Order.market = Futures,
           UNCHANGED <<book, announced, count, asked, stops>>,
           run'.step \notin {"stop", "record"}, held' \in {held, HeldAfterOrder},
           faults' = faults \/ (faults < MaxFaults /\ faults' = faults + 1)
    PROVE  Road
<1>1. Active
  BY DEF Active
<1>2. PICK v \in Exchanges : v = Venue
  BY <1>1, Begun
<1>3. \A i \in Ids : InWindow(i)' <=> InWindow(i)
  BY DEF InWindow
<1>4. ASSUME NEW i \in Ids, asked[i].exchange # v PROVE StopStage(i)' = StopStage(i)
  <2>1. asked[i].exchange \in Exchanges /\ held \in [Exchanges -> Int]
    BY DEF Inductive, Types, Asked, Holdings
  <2>2. held'[asked[i].exchange] = held[asked[i].exchange]
    <3> HIDE DEF Ids
    <3>1. CASE held' = held
      BY <3>1
    <3>2. CASE held' = HeldAfterOrder
      BY <1>2, <1>4, <2>1, <3>2 DEF HeldAfterOrder
    <3> QED BY <3>1, <3>2
  <2> QED BY <2>2 DEF StopStage, HeldFor
<1> HIDE DEF InWindow, StopStage, HeldFor, Ids
<1> QED BY <1>3, <1>4, StopMovesRefine

\* So does a stop that is triggered.
LEMMA TriggerRefines == ASSUME Inductive, Holdings, NEW i \in Ids, TriggerStop(i) PROVE Road
<1>1. /\ ~HeldFor(i)' /\ UNCHANGED <<book, announced, count, asked, run, faults>>
      /\ \A e \in Exchanges : e # asked[i].exchange => held'[e] = held[e]
      /\ i \in stops /\ stops' = stops \ {i}
  BY StopEndsItsPosition
<1>2. PICK v \in Exchanges : v = asked[i].exchange
  BY DEF Inductive, Types, Asked
<1>3. \A k \in Ids : InWindow(k)' <=> InWindow(k)
  BY <1>1 DEF InWindow, cur
<1>4. ASSUME NEW k \in Ids, asked[k].exchange # v PROVE StopStage(k)' = StopStage(k)
  <2>1. k # i /\ asked[k].exchange \in Exchanges
    BY <1>2, <1>4 DEF Inductive, Types, Asked
  <2> QED BY <1>1, <1>2, <1>4, <2>1 DEF StopStage, HeldFor
<1> HIDE DEF InWindow, StopStage, HeldFor, Ids
<1> QED BY <1>1, <1>3, <1>4, StopMovesRefine

\* In its window the position of the order at hand is exposed.
LEMMA ExposedInWindow ==
    ASSUME Inductive, run.step \in {"stop", "record"}
    PROVE  /\ Active /\ cur \in Ids /\ Venue \in Exchanges /\ ProtectionStage(Venue) = "exposed"
           /\ Entry(Venue).quantity # 0 /\ Entry(Venue).stop = NoOrder
           /\ Entry(Venue).decision = cur /\ announced[cur] = {}
<1>1. Active
  BY DEF Active
<1>2. cur \in Ids /\ Venue \in Exchanges
  BY <1>1, Begun
<1>3. /\ Entry(Venue).quantity # 0 /\ Entry(Venue).stop = NoOrder
      /\ Entry(Venue).decision = cur
  BY DEF Inductive, Window
<1>4. announced[cur] = {}
  BY <1>1 DEF Inductive, AtHand
<1>5. ~LackAnnounced(Entry(Venue).decision) /\ InWindow(Entry(Venue).decision)
  BY <1>3, <1>4 DEF LackAnnounced, InWindow
<1> HIDE DEF Entry, LackAnnounced, InWindow, ProtectionStage
<1> QED BY <1>1, <1>2, <1>3, <1>4, <1>5, StageCases

\* The next order, and the steps that come before the fill, after the window or from
\* outside, move no stage.
LEMMA QuietStepsRefine ==
    ASSUME Inductive,
           \/ Begin \/ PassGate \/ RefuseAtGate \/ PlaceSpot \/ RefuseSale
           \/ Poll \/ PollWithoutSymbol \/ PlaceStop \/ CancelStop \/ InsertOrderRow \/ Restart
           \/ Attest \/ (\E i \in Ids : ExecuteUnit(i) \/ CancelRest(i)) \/ UNCHANGED vars
    PROVE  Road
<1>1. ASSUME UNCHANGED <<book, announced, faults>>,
             \A i \in Ids : i <= count => /\ InWindow(i)' <=> InWindow(i)
                                          /\ Entry(asked[i].exchange).stop = i
                                                 => StopStage(i)' = StopStage(i)
      PROVE  Road
  <2>1. \A i : LackAnnounced(i)' <=> LackAnnounced(i)
    BY <1>1 DEF LackAnnounced
  <2> HIDE DEF LackAnnounced, InWindow, StopStage, Entry, Ids
  <2> QED BY <1>1, <2>1, StagesStay, QuietRefines
<1>2. CASE Begin
  <2>1. CASE JudgeBatch
    <3>1. UNCHANGED <<book, announced, faults, stops, held, asked, run, count>>
      BY <2>1 DEF JudgeBatch, exchange, database
    <3>2. \A i \in Ids : (InWindow(i)' <=> InWindow(i)) /\ StopStage(i)' = StopStage(i)
      BY <3>1 DEF InWindow, cur, StopStage, HeldFor
    <3> QED BY <1>1, <3>1, <3>2
  <2>2. CASE \E e \in Exchanges, m \in Markets, s \in Sides : \E q \in Quantities[m] : Execute(e, m, s, q)
    <3>1. PICK e \in Exchanges, m \in Markets, s \in Sides : \E q \in Quantities[m] : Execute(e, m, s, q)
      BY <2>2
    <3>2. /\ run.step = "idle" /\ UNCHANGED <<book, announced, faults, stops, held>>
          /\ run' = Idle(IF m = Futures THEN "gate" ELSE "place")
          /\ \E q : asked' = [asked EXCEPT ![count + 1] =
                                 [exchange |-> e, market |-> m, side |-> s, quantity |-> q]]
      BY <3>1 DEF Execute, database, exchange
    <3>3. run'.step \in {"gate", "place"}
      BY <3>2, EndsAreLocals
    <3>4. \A i \in Ids : ~InWindow(i)' /\ ~InWindow(i)
      BY <3>2, <3>3 DEF InWindow
    <3>5. ASSUME NEW i \in Ids, i <= count PROVE StopStage(i)' = StopStage(i)
      <4>1. i # count + 1
        BY <3>5, Bounds DEF Inductive, Types
      <4>2. asked'[i] = asked[i]
        BY <3>2, <4>1 DEF Inductive, Types
      <4> QED BY <3>2, <4>2 DEF StopStage, HeldFor
    <3> HIDE DEF InWindow, StopStage, Entry, Ids
    <3> QED BY <1>1, <3>2, <3>4, <3>5
  <2> QED BY <1>2, <2>1, <2>2 DEF Begin
<1>3. CASE PassGate \/ PlaceSpot \/ RefuseSale \/ PollWithoutSymbol
           \/ CancelStop \/ InsertOrderRow \/ Restart
  <2>1. UNCHANGED <<book, announced, faults, asked, held>> /\ run.step \notin {"stop", "record"}
    BY <1>3 DEF PassGate, PlaceSpot, RefuseSale, PollWithoutSymbol, CancelStop,
       InsertOrderRow, Restart, exchange, database
  <2>2. \/ run' = GoTo("place") \/ run' = GoTo("poll") \/ run' = RecordAs("rejected")
        \/ run'.step = "fill" \/ run' = GoTo("row") \/ run' = Idle("idle")
    BY <1>3, LocalsFields DEF PassGate, PlaceSpot, RefuseSale, PollWithoutSymbol,
       CancelStop, InsertOrderRow, Restart
  <2>5. ASSUME NEW i \in Ids, Entry(asked[i].exchange).stop = i PROVE StopStage(i)' = StopStage(i)
    <3>1. i \in stops' <=> i \in stops
      <4>1. CASE CancelStop
        <5>1. run.step = "cancel" /\ stops' = stops \ {run.stop}
          BY <4>1 DEF CancelStop
        <5>2. asked[run.stop].exchange = Venue /\ Entry(Venue) = NoPosition
          BY <5>1 DEF Inductive, Window
        <5>3. i # run.stop
          <6> HIDE DEF Entry
          <6> QED BY <2>5, <5>2, Bounds DEF NoPosition
        <5> QED BY <5>1, <5>3
      <4>2. CASE ~CancelStop
        BY <1>3, <4>2 DEF PassGate, PlaceSpot, RefuseSale, PollWithoutSymbol,
           InsertOrderRow, Restart, exchange
      <4> QED BY <4>1, <4>2
    <3> QED BY <2>1, <3>1 DEF StopStage, HeldFor
  <2>3. run'.step \notin {"stop", "record"}
    BY <2>2, EndsAreLocals, NotFilled DEF Steps
  <2>4. \A i \in Ids : ~InWindow(i)' /\ ~InWindow(i)
    BY <2>1, <2>3 DEF InWindow
  <2> HIDE DEF InWindow, StopStage, Entry, Ids
  <2> QED BY <1>1, <2>1, <2>4, <2>5
<1>4. CASE Poll
  <2>1. /\ UNCHANGED <<book, announced, faults, asked, stops, held>>
        /\ run.step = "poll" /\ run' = AfterPoll
    BY <1>4 DEF Poll, exchange, database
  <2>2. run'.step \in {"fill", "row", "poll"}
    <3>1. AfterPoll = FillReported \/ AfterPoll = RecordAs("cancelled") \/ AfterPoll = AskAgain
      <4> HIDE DEF ReportedState
      <4> QED BY DEF AfterPoll
    <3>2. AskAgain = RecordAs("pending") \/ AskAgain = [run EXCEPT !.attempts = @ + 1]
      BY DEF AskAgain
    <3>3. FillReported.step = "fill" /\ [run EXCEPT !.attempts = @ + 1].step = "poll"
      BY <2>1, LocalsFields DEF FillReported
    <3>4. RecordAs("cancelled").step = "row" /\ RecordAs("pending").step = "row"
      BY EndsAreLocals, NotFilled
    <3> QED BY <2>1, <3>1, <3>2, <3>3, <3>4
  <2>3. \A i \in Ids : ~InWindow(i)' /\ ~InWindow(i)
    BY <2>1, <2>2 DEF InWindow
  <2>4. \A i : StopStage(i)' = StopStage(i)
    BY <2>1 DEF StopStage, HeldFor
  <2> HIDE DEF InWindow, StopStage, Entry, Ids
  <2> QED BY <1>1, <2>1, <2>3, <2>4
<1>5. CASE PlaceStop
  <2>1. /\ UNCHANGED <<book, announced, faults, count, asked, held>>
        /\ run.step = "stop" /\ run' = GoTo("record") /\ stops' = stops \union {cur}
    BY <1>5 DEF PlaceStop, database
  <2>2. run'.step = "record" /\ cur' = cur
    BY <2>1, EndsAreLocals DEF Steps, cur
  <2>3. \A i \in Ids : InWindow(i)' <=> InWindow(i)
    BY <2>1, <2>2 DEF InWindow
  <2>4. ASSUME NEW i \in Ids, Entry(asked[i].exchange).stop = i PROVE StopStage(i)' = StopStage(i)
    <3>1. i # cur
      <4>1. /\ Entry(Venue).stop = NoOrder /\ cur \in Ids /\ Venue = asked[cur].exchange
        BY <2>1, ExposedInWindow DEF Venue, Order
      <4> HIDE DEF Entry, cur
      <4> QED BY <2>4, <4>1, Bounds
    <3> QED BY <2>1, <3>1 DEF StopStage, HeldFor
  <2> HIDE DEF InWindow, StopStage, Entry, Ids
  <2> QED BY <1>1, <2>1, <2>3, <2>4
<1>6. CASE Attest \/ (\E i \in Ids : ExecuteUnit(i) \/ CancelRest(i)) \/ UNCHANGED vars
  <2>1. UNCHANGED <<book, announced, faults, count, run, asked, stops, held>>
    BY <1>6 DEF Attest, ExecuteUnit, CancelRest, exchange, database, vars
  <2>2. \A i \in Ids : (InWindow(i)' <=> InWindow(i)) /\ StopStage(i)' = StopStage(i)
    BY <2>1 DEF InWindow, cur, StopStage, HeldFor
  <2> HIDE DEF InWindow, StopStage, Entry, Ids
  <2> QED BY <1>1, <2>1, <2>2
<1>7. CASE RefuseAtGate
  <2>1. /\ book' = book /\ faults' = faults /\ run.step = "gate" /\ run' = RecordAs("rejected")
        /\ announced' = [announced EXCEPT ![cur] = @ \union {"gate_refused"}]
        /\ UNCHANGED <<asked, stops, held>>
    BY <1>7 DEF RefuseAtGate, exchange, database, Announce
  <2>2. run'.step = "row"
    BY <2>1, EndsAreLocals, NotFilled
  <2>3. \A i \in Ids : ~InWindow(i)' /\ ~InWindow(i)
    BY <2>1, <2>2 DEF InWindow
  <2>4. \A i \in Ids : LackAnnounced(i)' <=> LackAnnounced(i)
    BY <2>1 DEF LackAnnounced, Inductive, Types
  <2>5. \A i : StopStage(i)' = StopStage(i)
    BY <2>1 DEF StopStage, HeldFor
  <2> HIDE DEF LackAnnounced, InWindow, StopStage, Entry, Ids
  <2> QED BY <2>1, <2>3, <2>4, <2>5, StagesStay, QuietRefines
<1> QED BY <1>2, <1>3, <1>4, <1>5, <1>6, <1>7

\* The lack of a stop is announced, at the cost of a fault or not.
LEMMA LackRefines == ASSUME Inductive, LackStopCapability \/ MissStop PROVE Road
<1>1. /\ run.step = "stop" /\ run' = GoTo("row") /\ UNCHANGED <<book, count, asked>>
      /\ \E event \in {"no_capability", "placement_failed"} :
             announced' = [announced EXCEPT ![cur] = @ \union {event}]
      /\ faults' \in {faults, faults + 1} /\ held' = held
      /\ \A i : i # cur => (i \in stops' <=> i \in stops)
  BY DEF LackStopCapability, MissStop, Announce, exchange, database
<1>2. /\ Active /\ cur \in Ids /\ Venue \in Exchanges /\ ProtectionStage(Venue) = "exposed"
      /\ Entry(Venue).quantity # 0 /\ Entry(Venue).stop = NoOrder
      /\ Entry(Venue).decision = cur
  BY <1>1, ExposedInWindow
<1>3. cur' = cur /\ Venue' = Venue
  BY <1>1 DEF cur, Venue, Order
<1>4. LackAnnounced(cur)' /\ \A i \in Ids : i # cur => (LackAnnounced(i)' <=> LackAnnounced(i))
  <2>1. PICK event \in {"no_capability", "placement_failed"} :
            announced' = [announced EXCEPT ![cur] = @ \union {event}]
    BY <1>1
  <2>2. PICK c \in Ids : c = cur /\ c = cur'
    BY <1>2, <1>3
  <2>3. announced \in [Ids -> SUBSET Events]
    BY DEF Inductive, Types
  <2> HIDE DEF cur, Ids, Events
  <2>4. event \in announced'[c] /\ \A i \in Ids : i # c => announced'[i] = announced[i]
    BY <2>1, <2>2, <2>3
  <2> QED BY <2>2, <2>4 DEF LackAnnounced
<1>5. ProtectionStage(Venue)' = "announced"
  <2>1. Entry(Venue)' = Entry(Venue)
    BY <1>1, <1>3 DEF Entry
  <2>2. PICK v \in Exchanges : v = Venue /\ v = Venue'
    BY <1>2, <1>3
  <2>3. /\ Entry(v)'.quantity # 0 /\ Entry(v)'.stop = NoOrder
        /\ Entry(v)'.decision = cur'
    BY <1>1, <1>2, <1>3, <2>2 DEF Entry
  <2>4. LackAnnounced(Entry(v).decision)'
    BY <1>3, <1>4, <2>3 DEF LackAnnounced
  <2>5. ProtectionStage(v)' = "announced"
    <3> HIDE DEF Entry, LackAnnounced, InWindow, ProtectionStage
    <3> QED BY <2>3, <2>4, StageCasesNext
  <2> QED BY <2>2, <2>5
<1>6. \A e \in Exchanges : e # Venue => ProtectionStage(e)' = ProtectionStage(e)
  <2> SUFFICES ASSUME NEW e \in Exchanges, e # Venue PROVE ProtectionStage(e)' = ProtectionStage(e)
    OBVIOUS
  <2>1. Entry(e)' = Entry(e)
    BY <1>1 DEF Entry
  <2> HIDE DEF Entry, LackAnnounced, ProtectionStage, Ids, cur
  <2> QED BY <1>1, <1>2, <1>3, <1>4, <2>1, OnlyTheVenueMoves
<1>7. PICK v \in Exchanges : v = Venue
  BY <1>2
<1>8. Protection!Move(v, {"exposed"}, "announced")
  <2>1. ProtectionStage(v) \in {"exposed"} /\ ProtectionStage(v)' = "announced"
    BY <1>2, <1>3, <1>5, <1>7 DEF ProtectionStage
  <2>2. \A e \in Exchanges : e # v => ProtectionStage(e)' = ProtectionStage(e)
    BY <1>6, <1>7
  <2> HIDE DEF ProtectionStage
  <2> QED BY <2>1, <2>2, OneMoves
<1>9. Protection!AnnounceLack(v)
  BY <1>1, <1>8 DEF Protection!AnnounceLack
<1> QED BY <1>9 DEF Road, Protection!Next

\* The stop is recorded: the position is protected, or already ended by its stop.
LEMMA RecordRefines == ASSUME Inductive, Holdings, RecordStop PROVE Road
<1>1. /\ run.step = "record" /\ run' = GoTo("row") /\ UNCHANGED <<count, asked, faults>>
      /\ book' = [book EXCEPT ![Venue][Futures].stop = cur]
      /\ announced' = [announced EXCEPT ![cur] = @ \union {"attached"}]
      /\ UNCHANGED <<stops, held>>
  BY DEF RecordStop, Announce, exchange, database
<1>2. /\ Active /\ cur \in Ids /\ Venue \in Exchanges /\ ProtectionStage(Venue) = "exposed"
      /\ Entry(Venue).quantity # 0
  BY <1>1, ExposedInWindow
<1>3. PICK v \in Exchanges, c \in Ids : v = Venue /\ c = cur /\ c = cur'
  BY <1>1, <1>2 DEF cur
<1>4. /\ Entry(v)'.quantity # 0 /\ Entry(v)'.stop = c
      /\ \A e \in Exchanges : e # v => Entry(e)' = Entry(e)
  <2>1. book \in [Exchanges -> [Markets -> Positions]] /\ book[v][Futures] \in Positions
    BY <1>3, EntryFields, Names DEF Inductive, Types
  <2>2. PICK r : r = [book[v][Futures] EXCEPT !.stop = c]
    OBVIOUS
  <2>3. r.stop = c /\ r.quantity = book[v][Futures].quantity
    BY <2>1, <2>2 DEF Positions
  <2>4. book' = [book EXCEPT ![v] = [book[v] EXCEPT ![Futures] = r]]
    BY <1>1, <1>3, <2>2
  <2>5. book'[v][Futures] = r /\ \A e \in Exchanges : e # v => book'[e][Futures] = book[e][Futures]
    <3> HIDE DEF Positions, Markets, Futures
    <3> QED BY <2>1, <2>4, Names
  <2> QED BY <1>2, <1>3, <2>3, <2>5 DEF Entry
<1>5. ProtectionStage(v)' \in {"protected", "stopped"}
  <2>1. Entry(v)'.stop # NoOrder
    BY <1>3, <1>4, Bounds
  <2>2. ProtectionStage(v)' = StopStage(Entry(v).stop)'
    <3> HIDE DEF Entry, LackAnnounced, InWindow, StopStage, ProtectionStage
    <3> QED BY <1>4, <2>1, StageCasesNext
  <2>3. StopStage(Entry(v).stop)' = StopStage(c)
    <3> HIDE DEF Entry
    <3> QED BY <1>1, <1>4 DEF StopStage, HeldFor
  <2>4. c \in stops \/ ~HeldFor(c)
    <3>1. c \in stops \union triggered
      BY <1>1, <1>3 DEF Inductive, Window
    <3>2. Closers(c) = {}
      <4> SUFFICES ASSUME NEW j \in Closers(c) PROVE FALSE
        OBVIOUS
      <4>1. j \in Ids /\ j > c /\ asked[j].market = Futures
        BY DEF Closers
      <4>2. c = count /\ asked[j] = NotAsked
        BY <1>2, <1>3, <4>1, Begun DEF Inductive, Unbegun
      <4> QED BY <4>1, <4>2, Names DEF NotAsked
    <3> QED BY <3>1, <3>2 DEF Holdings, EndedByItsStop
  <2> HIDE DEF StopStage, HeldFor, ProtectionStage
  <2> QED BY <2>2, <2>3, <2>4, StopStageCases DEF StopStages
<1>6. \A i \in Ids : i # cur => (LackAnnounced(i)' <=> LackAnnounced(i))
  <2>1. announced \in [Ids -> SUBSET Events]
    BY DEF Inductive, Types
  <2>2. \A i \in Ids : i # c => announced'[i] = announced[i]
    <3> HIDE DEF Ids, Events
    <3> QED BY <1>1, <1>3, <2>1
  <2> QED BY <1>3, <2>2 DEF LackAnnounced
<1>7. \A e \in Exchanges : e # v => ProtectionStage(e)' = ProtectionStage(e)
  <2> SUFFICES ASSUME NEW e \in Exchanges, e # v PROVE ProtectionStage(e)' = ProtectionStage(e)
    OBVIOUS
  <2> HIDE DEF Entry, LackAnnounced, ProtectionStage, Ids, cur
  <2> QED BY <1>1, <1>2, <1>3, <1>4, <1>6, OnlyTheVenueMoves
<1>8. ProtectionStage(v) \in {"exposed"} /\ ProtectionStage(v) \in {"protected", "exposed"}
  BY <1>2, <1>3
<1>9. CASE ProtectionStage(v)' = "protected"
  <2>1. Protection!Move(v, {"exposed"}, "protected")
    <3> HIDE DEF ProtectionStage
    <3> QED BY <1>7, <1>8, <1>9, OneMoves
  <2>2. Protection!Settle(v)
    BY <1>1, <2>1 DEF Protection!Settle
  <2> QED BY <2>2 DEF Road, Protection!Next
<1>10. CASE ProtectionStage(v)' = "stopped"
  <2>1. Protection!Move(v, {"protected", "exposed"}, "stopped")
    <3> HIDE DEF ProtectionStage
    <3> QED BY <1>7, <1>8, <1>10, OneMoves
  <2>2. Protection!Fire(v)
    BY <1>1, <2>1 DEF Protection!Fire
  <2> QED BY <2>2 DEF Road, Protection!Next
<1> QED BY <1>5, <1>9, <1>10

\* A fault that ends the coroutine's work on the order at hand leaves its position, if it
\* was exposed, without a trace.
LEMMA GivenUpRefines ==
    ASSUME Inductive, faults < MaxFaults, faults' = faults + 1,
           UNCHANGED <<book, announced, count, asked, stops, held>>,
           run'.step \notin {"stop", "record"}
    PROVE  Road
<1>1. \A i : /\ LackAnnounced(i)' <=> LackAnnounced(i)
            /\ StopStage(i)' = StopStage(i)
  BY DEF LackAnnounced, StopStage, HeldFor
<1>2. \A i : ~InWindow(i)'
  BY DEF InWindow
<1>3. CASE run.step \notin {"stop", "record"}
  <2>1. \A i : ~InWindow(i)
    BY <1>3 DEF InWindow
  <2>2. Still
    <3> HIDE DEF LackAnnounced, InWindow, StopStage, Entry, Ids
    <3> QED BY <1>1, <1>2, <2>1, StagesStay
  <2> QED BY <2>2, InterruptionRefines
<1>4. CASE run.step \in {"stop", "record"}
  <2>1. /\ Active /\ cur \in Ids /\ Venue \in Exchanges /\ ProtectionStage(Venue) = "exposed"
        /\ Entry(Venue).quantity # 0 /\ Entry(Venue).stop = NoOrder
        /\ Entry(Venue).decision = cur /\ announced[cur] = {}
    BY <1>4, ExposedInWindow
  <2>2. PICK v \in Exchanges : v = Venue
    BY <2>1
  <2>3. \A e : Entry(e)' = Entry(e)
    BY DEF Entry
  <2>4. cur' = cur
    BY DEF cur
  <2>5. ProtectionStage(v)' = "unknown"
    <3>1. PICK d : d = Entry(v).decision /\ d = Entry(v)'.decision
      BY <2>3
    <3>2. ~LackAnnounced(d) /\ ~LackAnnounced(d)'
      BY <1>1, <2>1, <2>2, <3>1 DEF LackAnnounced
    <3>3. ~LackAnnounced(Entry(v).decision)' /\ ~InWindow(Entry(v).decision)'
      BY <2>1, <2>2, <3>1, <3>2 DEF LackAnnounced, InWindow
    <3>4. Entry(v)'.quantity # 0 /\ Entry(v)'.stop = NoOrder
      BY <2>1, <2>2, <2>3
    <3> HIDE DEF Entry, LackAnnounced, InWindow, ProtectionStage
    <3> QED BY <3>3, <3>4, StageCasesNext
  <2>6. \A e \in Exchanges : e # v => ProtectionStage(e)' = ProtectionStage(e)
    <3> SUFFICES ASSUME NEW e \in Exchanges, e # v PROVE ProtectionStage(e)' = ProtectionStage(e)
      OBVIOUS
    <3> HIDE DEF Entry, LackAnnounced, ProtectionStage, Ids, cur
    <3> QED BY <1>1, <2>1, <2>2, <2>3, <2>4, OnlyTheVenueMoves
  <2>7. Protection!Move(v, {"exposed"}, "unknown")
    <3>1. ProtectionStage(v) \in {"exposed"}
      BY <2>1, <2>2
    <3> HIDE DEF ProtectionStage
    <3> QED BY <2>5, <2>6, <3>1, OneMoves
  <2> QED BY <2>7, InterruptionRefines
<1> QED BY <1>3, <1>4

\* A call that raises, a row that is lost, a crash.
LEMMA FaultsRefine == ASSUME Inductive, Holdings, CallRaises \/ RowIsLost \/ Crash PROVE Road
<1>1. /\ faults < MaxFaults /\ faults' = faults + 1
      /\ UNCHANGED <<book, announced, count, asked, stops>>
      /\ run' = RecordAs("rejected") \/ run' = Idle("idle") \/ run' = Idle("down")
  BY DEF CallRaises, RowIsLost, Crash, exchange, database
<1>2. run'.step \notin {"stop", "record"}
  BY <1>1, EndsAreLocals, NotFilled
<1>3. CASE held' = held
  BY <1>1, <1>2, <1>3, GivenUpRefines
<1>4. CASE held' # held
  <2>1. run.step = "place" /\ Order.market = Futures /\ held' \in {held, HeldAfterOrder}
    BY <1>4 DEF CallRaises, RowIsLost, Crash, exchange
  <2> QED BY <1>1, <1>2, <2>1, HeldMovesRefine
<1> QED BY <1>3, <1>4

\* A cancellation that raises moves no stage: the position is already closed.
LEMMA MissCancellationRefines == ASSUME Inductive, MissCancellation PROVE Road
<1>1. /\ faults < MaxFaults /\ faults' = faults + 1 /\ UNCHANGED book
      /\ run.step = "cancel" /\ run' = GoTo("row")
      /\ announced' = [announced EXCEPT ![cur] = @ \union {"cancel_failed"}]
      /\ UNCHANGED <<asked, held>> /\ stops' \in {stops, stops \ {run.stop}}
  BY DEF MissCancellation, Announce, database
<1>2. run'.step = "row"
  BY <1>1, EndsAreLocals DEF Steps
<1>3. \A i \in Ids : ~InWindow(i)' /\ ~InWindow(i)
  BY <1>1, <1>2 DEF InWindow
<1>4. \A i \in Ids : LackAnnounced(i)' <=> LackAnnounced(i)
  BY <1>1 DEF LackAnnounced, Inductive, Types
<1>5. ASSUME NEW i \in Ids, Entry(asked[i].exchange).stop = i PROVE StopStage(i)' = StopStage(i)
  <2>1. asked[run.stop].exchange = Venue /\ Entry(Venue) = NoPosition
    BY <1>1 DEF Inductive, Window
  <2>2. i # run.stop
    <3> HIDE DEF Entry
    <3> QED BY <1>5, <2>1, Bounds DEF NoPosition
  <2> QED BY <1>1, <2>2 DEF StopStage, HeldFor
<1>6. Still
  <2> HIDE DEF LackAnnounced, InWindow, StopStage, Entry, Ids
  <2> QED BY <1>1, <1>3, <1>4, <1>5, StagesStay
<1> QED BY <1>1, <1>6, InterruptionRefines

\* The fill opens the window of a fresh position, closes a position, or leaves it at its stage.
LEMMA FillRefines == ASSUME Inductive, ApplyFillToBook PROVE Road
<1>1. PICK before, after : /\ before = book[Venue][Order.market] /\ after = FilledRow(before)
                           /\ before \in Positions /\ after = book'[Venue][Order.market]
  BY FillWrites
<1>2. /\ count' = count /\ asked' = asked /\ cur' = cur /\ announced' = announced
      /\ faults' = faults /\ run.step = "fill" /\ Active /\ announced[cur] = {}
      /\ UNCHANGED <<stops, held>>
      /\ cur \in Ids /\ Order.market \in Markets /\ Venue \in Exchanges
      /\ \A e \in Exchanges, m \in Markets :
             (e = Venue /\ m = Order.market) \/ book'[e][m] = book[e][m]
  BY FillWrites DEF ApplyFillToBook, Active, Inductive, AtHand, exchange
<1>3. PICK v \in Exchanges : v = Venue
  BY <1>2
<1>4. \A i : /\ LackAnnounced(i)' <=> LackAnnounced(i)
            /\ StopStage(i)' = StopStage(i)
  BY <1>2 DEF LackAnnounced, StopStage, HeldFor
<1>5. \A e \in Exchanges : e # v => ProtectionStage(e)' = ProtectionStage(e)
  <2> SUFFICES ASSUME NEW e \in Exchanges, e # v PROVE ProtectionStage(e)' = ProtectionStage(e)
    OBVIOUS
  <2>1. Entry(e)' = Entry(e)
    BY <1>2, <1>3, Names DEF Entry
  <2> HIDE DEF Entry, LackAnnounced, ProtectionStage, Ids, cur
  <2> QED BY <1>2, <1>3, <1>4, <2>1, OnlyTheVenueMoves
<1>6. CASE Order.market = Spot
  <2>1. book'[v][Futures] = book[v][Futures]
    BY <1>2, <1>3, <1>6, Names
  <2>2. Entry(v)' = Entry(v)
    BY <2>1 DEF Entry
  <2>3. PICK d : d = Entry(v).decision
    OBVIOUS
  <2>4. ~InWindow(d)
    BY <1>2 DEF InWindow
  <2>5. ~InWindow(d)'
    <3>1. run'.step = "row"
      BY <1>1, <1>6, FillLeads, Names
    <3> QED BY <3>1 DEF InWindow
  <2>6. ProtectionStage(v)' = ProtectionStage(v)
    <3> HIDE DEF Entry, LackAnnounced, InWindow, StopStage, ProtectionStage, Ids
    <3> QED BY <1>4, <2>2, <2>3, <2>4, <2>5, StageStays
  <2> HIDE DEF ProtectionStage
  <2> QED BY <1>2, <1>5, <2>6, QuietRefines DEF Still
<1>7. CASE Order.market = Futures
  <2>1. before = Entry(v) /\ after = Entry(v)'
    BY <1>1, <1>3, <1>7 DEF Entry
  <2>2. /\ after.quantity = 0 => after = NoPosition
        /\ after.quantity # 0 /\ before.quantity = 0 => after.stop = NoOrder /\ after.decision = cur
        /\ after.quantity # 0 /\ before.quantity # 0 =>
               after.stop = before.stop /\ after.decision = before.decision
    <3>1. run.step = "fill" /\ after = FilledRow(before) /\ before \in Positions
      BY <1>1, <1>2
    <3> HIDE DEF FilledRow, Positions, NoPosition, cur
    <3> QED BY <3>1, FillOfARow
  <2>3. before.decision # cur
    BY <1>2, <1>3, <2>1 DEF Inductive, AtHand, Entry
  <2>4. CASE before.quantity = 0
    <3>1. run'.step = "stop" /\ after.quantity # 0
      BY <1>1, <1>7, <2>4, FillLeads
    <3>2. Entry(v)'.stop = NoOrder /\ Entry(v)'.decision = cur'
      BY <1>2, <2>1, <2>2, <2>4, <3>1
    <3>3. ~LackAnnounced(Entry(v).decision)' /\ InWindow(Entry(v).decision)'
      <4>1. announced'[cur'] = {}
        BY <1>2
      <4> HIDE DEF Entry
      <4> QED BY <3>1, <3>2, <4>1 DEF LackAnnounced, InWindow
    <3>4. ProtectionStage(v) = "flat" /\ ProtectionStage(v)' = "exposed"
      <4> HIDE DEF Entry, LackAnnounced, InWindow, ProtectionStage
      <4> QED BY <2>1, <2>4, <3>1, <3>2, <3>3, StageCases, StageCasesNext
    <3>5. Protection!Move(v, {"flat"}, "exposed")
      <4> HIDE DEF ProtectionStage
      <4> QED BY <1>5, <3>4, OneMoves
    <3>6. Protection!Open(v)
      BY <1>2, <3>5 DEF Protection!Open
    <3> QED BY <3>6 DEF Road, Protection!Next
  <2>5. CASE before.quantity # 0 /\ after.quantity = 0
    <3>1. ProtectionStage(v) \in Protection!Stages \ {"flat", "exposed"}
      <4>1. ~InWindow(Entry(v).decision)
        BY <1>2 DEF InWindow
      <4>2. ProtectionStage(v) \in StopStages \union {"announced", "unknown"}
        <5> HIDE DEF Entry, LackAnnounced, InWindow, ProtectionStage, StopStages
        <5> QED BY <2>1, <2>5, <4>1, StageCases
      <4> HIDE DEF ProtectionStage
      <4> QED BY <4>2 DEF StopStages, Protection!Stages
    <3>2. ProtectionStage(v)' = "flat"
      <4> HIDE DEF Entry, LackAnnounced, InWindow, ProtectionStage
      <4> QED BY <2>1, <2>5, StageCasesNext
    <3>3. Protection!Move(v, Protection!Stages \ {"flat", "exposed"}, "flat")
      <4> HIDE DEF ProtectionStage
      <4> QED BY <1>5, <3>1, <3>2, OneMoves
    <3>4. Protection!Close(v)
      BY <1>2, <3>3 DEF Protection!Close
    <3> QED BY <3>4 DEF Road, Protection!Next
  <2>6. CASE before.quantity # 0 /\ after.quantity # 0
    <3>1. PICK d : d = before.decision /\ d = after.decision /\ d # cur
      BY <2>2, <2>3, <2>6
    <3>2. /\ LackAnnounced(Entry(v).decision)' <=> LackAnnounced(Entry(v).decision)
          /\ ~InWindow(Entry(v).decision)' /\ ~InWindow(Entry(v).decision)
      <4>1. Entry(v).decision = d /\ Entry(v)'.decision = d
        BY <2>1, <3>1
      <4> HIDE DEF Entry
      <4> QED BY <1>2, <3>1, <4>1 DEF LackAnnounced, InWindow
    <3>3. /\ Entry(v).quantity # 0 /\ Entry(v)'.quantity # 0
          /\ Entry(v)'.stop = Entry(v).stop
      BY <2>1, <2>2, <2>6
    <3>4. ProtectionStage(v)' = ProtectionStage(v)
      <4>1. CASE Entry(v).stop # NoOrder
        <5>1. PICK i : i = Entry(v).stop /\ i = Entry(v)'.stop
          BY <3>3
        <5>2. StopStage(Entry(v).stop)' = StopStage(i)'
          <6> HIDE DEF Entry
          <6> QED BY <5>1 DEF StopStage, HeldFor
        <5> HIDE DEF Entry, LackAnnounced, InWindow, StopStage, ProtectionStage
        <5> QED BY <1>4, <3>3, <4>1, <5>1, <5>2, StageCases, StageCasesNext
      <4>2. CASE Entry(v).stop = NoOrder /\ LackAnnounced(Entry(v).decision)
        <5> HIDE DEF Entry, LackAnnounced, InWindow, ProtectionStage
        <5> QED BY <3>2, <3>3, <4>2, StageCases, StageCasesNext
      <4>3. CASE Entry(v).stop = NoOrder /\ ~LackAnnounced(Entry(v).decision)
        <5> HIDE DEF Entry, LackAnnounced, InWindow, ProtectionStage
        <5> QED BY <3>2, <3>3, <4>3, StageCases, StageCasesNext
      <4> QED BY <4>1, <4>2, <4>3
    <3> HIDE DEF ProtectionStage
    <3> QED BY <1>2, <1>3, <1>5, <3>4, QuietRefines DEF Still
  <2> QED BY <2>4, <2>5, <2>6
<1> QED BY <1>2, <1>6, <1>7, Names

\* No position is open at first.
LEMMA InitRefines == Init => Protection!Init
<1> SUFFICES ASSUME Init PROVE Protection!Init
  OBVIOUS
<1>1. \A e \in Exchanges : ProtectionStage(e) = "flat"
  BY Names DEF Init, ProtectionStage, NoPosition
<1>2. faults = 0
  BY DEF Init
<1> HIDE DEF ProtectionStage
<1> QED BY <1>1, <1>2 DEF Protection!Init

\* The position of each exchange never leaves the road of EntryProtection: it is exposed, then
\* protected, announced as unprotected or ended by its stop, and only a fault ends the window
\* without a trace; it is bare in silence only over a row whose stop had been triggered.
THEOREM ProtectionSafety == Spec => Protection!Init /\ [][Protection!Next]_<<AllStages, faults>>
<1>1. Inductive /\ Holdings /\ [Next]_vars => Road
  <2> SUFFICES ASSUME Inductive, Holdings, [Next]_vars PROVE Road
    OBVIOUS
  <2>1. CASE ApplyFillToBook
    BY <2>1, FillRefines
  <2>2. CASE LackStopCapability \/ MissStop
    BY <2>2, LackRefines
  <2>3. CASE RecordStop
    BY <2>3, RecordRefines
  <2>4. CASE CallRaises \/ RowIsLost \/ Crash
    BY <2>4, FaultsRefine
  <2>5. CASE MissCancellation
    BY <2>5, MissCancellationRefines
  <2>6. CASE \/ Begin \/ PassGate \/ RefuseAtGate \/ PlaceSpot \/ RefuseSale
             \/ Poll \/ PollWithoutSymbol \/ PlaceStop \/ CancelStop \/ InsertOrderRow \/ Restart
             \/ Attest \/ (\E i \in Ids : ExecuteUnit(i) \/ CancelRest(i)) \/ UNCHANGED vars
    BY <2>6, QuietStepsRefine
  <2>7. CASE PlaceFutures
    <3>1. run'.step = "fill"
      BY <2>7, LocalsFields DEF PlaceFutures
    <3> QED BY <2>7, <3>1, HeldMovesRefine DEF PlaceFutures, database
  <2>8. CASE \E i \in Ids : TriggerStop(i)
    BY <2>8, TriggerRefines
  <2> QED BY <2>1, <2>2, <2>3, <2>4, <2>5, <2>6, <2>7, <2>8 DEF Next, Work, Failure, Around
<1> QED BY <1>1, HoldingsHold, InitRefines, PTL DEF Spec, Road

-----------------------------------------------------------------------------
(* The arithmetic of the stop (FuturesMargin).                             *)

Positive == Nat \ {0}

\* The stop triggers before the exchange liquidates ("TOUJOURS avant le prix de liquidation",
\* futures_margin.py:118), which the function leaves to its caller to verify and real mode
\* does not: it holds for the rates of the code up to a leverage of 237, far above
\* MAX_LEVERAGE, at any entry price and on both sides.
LEMMA StopPrecedesLiquidation ==
    ASSUME NEW entry \in Positive, NEW L \in Positive, L <= 237
    PROVE  /\ StopPrice(entry, L, Buy) > LiquidationPrice(entry, L, Buy)
           /\ StopPrice(entry, L, Sell) < LiquidationPrice(entry, L, Sell)
<1> DEFINE gap == Thousand - MaxLossOfMargin - MaintenanceMarginRate * L
<1>1. entry \in Int /\ L \in Int /\ entry > 0 /\ Buy # Sell
  BY DEF Positive, Buy, Sell
<1>2. gap \in Int /\ gap > 0
  BY <1>1 DEF Thousand, MaxLossOfMargin, MaintenanceMarginRate
<1>3. \A x, y \in Int : x - y = gap => entry * x - entry * y = entry * gap
  BY <1>1, <1>2, SMT
<1>4. entry * gap > 0
  BY <1>1, <1>2, SMT
<1> DEFINE stopB == Thousand * L - MaxLossOfMargin
           liqB  == Thousand * L - Thousand + MaintenanceMarginRate * L
           stopS == Thousand * L + MaxLossOfMargin
           liqS  == Thousand * L + Thousand - MaintenanceMarginRate * L
<1>5. /\ stopB \in Int /\ liqB \in Int /\ stopB - liqB = gap
      /\ stopS \in Int /\ liqS \in Int /\ liqS - stopS = gap
  BY <1>1 DEF Thousand, MaxLossOfMargin, MaintenanceMarginRate
<1>6. entry * stopB - entry * liqB > 0 /\ entry * liqS - entry * stopS > 0
  <2> HIDE DEF gap, stopB, liqB, stopS, liqS
  <2> QED BY <1>3, <1>4, <1>5
<1>7. /\ entry * stopB \in Int /\ entry * liqB \in Int
      /\ entry * stopS \in Int /\ entry * liqS \in Int
  <2> HIDE DEF gap, stopB, liqB, stopS, liqS
  <2> QED BY <1>1, <1>5
<1>8. entry * stopB > entry * liqB /\ entry * stopS < entry * liqS
  <2> HIDE DEF gap, stopB, liqB, stopS, liqS
  <2> QED BY <1>6, <1>7
<1> QED BY <1>1, <1>8 DEF StopPrice, LiquidationPrice

\* What the stop loses is MAX_LOSS_FRACTION_OF_MARGIN of the margin engaged, at any leverage.
LEMMA StopCapsTheLoss ==
    ASSUME NEW entry \in Positive, NEW L \in Positive, NEW side \in Sides
    PROVE  LET loss == IF side = Buy THEN Scaled(entry, L) - StopPrice(entry, L, side)
                       ELSE StopPrice(entry, L, side) - Scaled(entry, L)
           IN loss * Thousand = MaxLossOfMargin * RequiredMargin(entry, L)
<1>1. entry \in Int /\ L \in Int
  BY DEF Positive
<1>2. CASE side = Buy
  <2>1. Scaled(entry, L) - StopPrice(entry, L, side) = entry * MaxLossOfMargin
    BY <1>1, <1>2 DEF Scaled, StopPrice, Thousand, MaxLossOfMargin
  <2> QED BY <2>1, <1>1, <1>2 DEF RequiredMargin, Thousand, MaxLossOfMargin
<1>3. CASE side # Buy
  <2>1. StopPrice(entry, L, side) - Scaled(entry, L) = entry * MaxLossOfMargin
    BY <1>1, <1>3 DEF Scaled, StopPrice, Thousand, MaxLossOfMargin
  <2> QED BY <2>1, <1>1, <1>3 DEF RequiredMargin, Thousand, MaxLossOfMargin
<1> QED BY <1>2, <1>3

-----------------------------------------------------------------------------
(* The arithmetic of a fill (PositionBook).                                *)

\* The book follows the exchange, whose position moves by what was filled, exactly when the
\* fill opens or reinforces, or closes all there is: a fill in the other direction ends the
\* row whatever its quantity (positions.py), so one of another quantity leaves a rest the
\* book does not know of. A row is never turned over, and a spot row is never short.
THEOREM BookFollowsWholeFills ==
    ASSUME NEW market \in Markets, NEW side \in Sides, NEW n \in Positive,
           NEW q \in Int, market = Spot => q >= 0
    PROVE  LET filled == ApplyFill(market, q, side, n)
               adds   == \/ side = Buy /\ q >= 0
                         \/ side = Sell /\ market = Futures /\ q <= 0
           IN /\ filled = q + Signed(side, n) <=> adds \/ q = -Signed(side, n)
              /\ q > 0 => filled >= 0
              /\ q < 0 => filled <= 0
              /\ market = Spot => filled >= 0
              /\ ~ adds => filled = 0
<1>1. n \in Int /\ n > 0 /\ Buy # Sell /\ Spot # Futures
  BY DEF Positive, Buy, Sell, Spot, Futures
<1>2. side = Buy \/ side = Sell
  BY DEF Sides
<1>3. Signed(side, n) = IF side = Buy THEN n ELSE -n
  BY DEF Signed
<1>4. CASE market = Futures
  <2>1. ApplyFill(market, q, side, n) =
            IF q = 0 \/ (IF side = Buy THEN q > 0 ELSE q < 0)
            THEN q + (IF side = Buy THEN n ELSE -n) ELSE 0
    BY <1>3, <1>4 DEF ApplyFill, FuturesFill, SameDirection
  <2>2. CASE side = Buy
    <3>1. ApplyFill(market, q, side, n) = (IF q >= 0 THEN q + n ELSE 0) /\ Signed(side, n) = n
      BY <2>1, <2>2, <1>1, <1>3
    <3> QED BY <3>1, <2>2, <1>1, <1>4
  <2>3. CASE side = Sell
    <3>1. ApplyFill(market, q, side, n) = (IF q <= 0 THEN q - n ELSE 0) /\ Signed(side, n) = -n
      BY <2>1, <2>3, <1>1, <1>3
    <3> QED BY <3>1, <2>3, <1>1, <1>4
  <2> QED BY <1>2, <2>2, <2>3
<1>5. CASE market = Spot
  <2>1. ApplyFill(market, q, side, n) = IF side = Buy THEN q + n ELSE 0
    BY <1>1, <1>5 DEF ApplyFill, SpotFill
  <2>2. CASE side = Buy
    <3>1. ApplyFill(market, q, side, n) = q + n /\ Signed(side, n) = n /\ q >= 0
      BY <2>1, <2>2, <1>3, <1>5
    <3> QED BY <3>1, <2>2, <1>1, <1>5
  <2>3. CASE side = Sell
    <3>1. ApplyFill(market, q, side, n) = 0 /\ Signed(side, n) = -n /\ q >= 0
      BY <2>1, <2>3, <1>1, <1>3, <1>5
    <3> QED BY <3>1, <2>3, <1>1, <1>5
  <2> QED BY <1>2, <2>2, <2>3
<1> QED BY <1>4, <1>5 DEF Markets
=============================================================================
