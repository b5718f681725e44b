------------------------- MODULE PairExecutionProofs -------------------------
(***************************************************************************)
(* The safety of PairExecution, proved for every list of symbols and every *)
(* number of pairs. The properties are not inductive: nothing in them says *)
(* where the process stands in the pair at hand. Inductive ties the step,  *)
(* the stage and the leg the process carries to what the tables hold of    *)
(* that pair, and what the tables hold of the others to their status.      *)
(***************************************************************************)
EXTENDS PairExecution, TLAPS

-----------------------------------------------------------------------------
(* The inductive invariant.                                                *)

\* Steps with a pair at hand.
PairSteps == Steps \ {"down", "sleep", "check", "assess", "persist"}

\* Ids are handed out in order, and only the newest pair is ever at hand.
RowsInOrder ==
    /\ \A i \in PairIds : pairs[i].status = "absent" <=> i > pairCount
    /\ \A i \in PairIds : pairs[i].resolved => i <= pairCount
    /\ partial \subseteq 1..pairCount
    /\ run.step \in PairSteps <=> run.cur # NoPair
    /\ run.cur # NoPair =>
           /\ run.cur = pairCount
           /\ pairs[run.cur].symbol = Symbol
           /\ ~pairs[run.cur].resolved

\* An unresolved partial execution shows in its status, and from the check of the
\* symbol to the end of its visit only the pair at hand may be one.
NoRival ==
    /\ \A i \in PairIds : Unresolved(i) => pairs[i].status \in BlockingStatuses
    /\ run.step \notin {"down", "sleep", "check"} =>
           \A i \in PairIds : Unresolved(i) /\ pairs[i].symbol = Symbol => i = run.cur

Inductive == TypeOK /\ RowsInOrder /\ NoRival /\ AtMostOneUnresolvedPartial

\* What each stage of the pair at hand has drawn, and when it counts as partial.
StageFitsStep ==
    /\ run.step \in {"check", "assess", "persist", "refuse", "draw"} =>
           run.stage = "both" /\ run.filled = {} /\ run.leg = Spot
    /\ run.step \in {"mark_partial", "mark_completing", "retry", "mark_compensating", "close_leg"}
           => run.stage = "first"
    /\ run.step = "incident" => run.stage # "both"
    /\ run.step = "refuse" <=> run.cur # NoPair /\ ~run.accept
    /\ run.stage = "missing" => run.filled = Markets
    /\ run.stage = "both" /\ run.step \in {"insert_leg", "fill_leg"} => run.filled = Markets
    /\ run.stage = "both" /\ run.step = "finish" => run.filled \in {{}, Markets}
    /\ run.cur # NoPair =>
           /\ pairs[run.cur].accept = run.accept
           /\ run.cur \in partial <=> run.stage # "both" /\ run.step # "mark_partial"

Ones(S) == [m \in Markets |-> IF m \in S THEN 1 ELSE 0]

\* Legs of the pair at hand that are open, sent and closed at this point.
OpenSoFar ==
    CASE run.stage = "both" ->
             IF run.step = "finish" THEN run.filled
             ELSE IF run.step \in {"insert_leg", "fill_leg"} /\ run.leg = Futures THEN {Spot}
             ELSE {}
      [] run.stage = "first" ->
             IF run.step \in {"mark_partial", "insert_leg", "fill_leg"} THEN {} ELSE {run.leg}
      [] run.stage = "missing" ->
             IF run.step \in {"insert_leg", "fill_leg"} THEN Markets \ {run.leg} ELSE Markets

SentSoFar == IF run.step = "fill_leg" THEN OpenSoFar \union {run.leg} ELSE OpenSoFar

ShutSoFar ==
    IF run.stage = "first" /\ run.step \in {"incident", "finish"} THEN {run.leg} ELSE {}

IncidentSoFar ==
    [r \in ResolutionAction |->
        IF run.stage # "both" /\ run.step = "finish" /\ r = Resolution(run.stage) THEN 1 ELSE 0]

NoIncident == [r \in ResolutionAction |-> 0]

\* What the pair has done so far to the position of market m.
DoneSoFar(i, m) ==
    /\ m \in ShutSoFar => Compensated(i, m)
    /\ m \in OpenSoFar \ ShutSoFar => Kept(i, m)
    /\ m \notin OpenSoFar => Intact(i, m)

\* The pair at hand has done exactly that, and the pairs to come have sent nothing.
Accounts ==
    /\ run.cur # NoPair =>
           /\ deals[run.cur].side = run.side /\ deals[run.cur].qty = run.qty
           /\ legs[run.cur] = Ones(SentSoFar)
           /\ \A m \in Markets : DoneSoFar(run.cur, m)
           /\ incidents[run.cur] = IncidentSoFar
    /\ \A i \in PairIds : i > pairCount => legs[i] = NoLegs /\ incidents[i] = NoIncident

InductiveAccounts ==
    /\ Inductive /\ StageFitsStep /\ Accounts
    /\ SettledPairsAccountForTheirLegs /\ OneIncidentPerPartialExecution

-----------------------------------------------------------------------------
(* Types.                                                                  *)

\* The loop of run_cycle has at least one symbol to visit, and visits only symbols.
LEMMA SymbolDomain ==
    /\ DOMAIN TrackedSymbols = 1..Len(TrackedSymbols)
    /\ Len(TrackedSymbols) \in Nat \ {0}
    /\ \A k \in DOMAIN TrackedSymbols : TrackedSymbols[k] \in Symbols
  BY TrackedSymbolsAssumption DEF Symbols

\* apply_fill and update_futures_position leave an integer quantity.
LEMMA FillType ==
    ASSUME NEW m \in Markets, NEW q \in Int, NEW side \in Sides, NEW n \in Nat
    PROVE  ApplyFill(m, q, side, n) \in Int
  BY DEF ApplyFill, FuturesFill, SpotFill, Signed, Sides, SameDirection

\* A process between pairs has well-typed locals.
LEMMA IdleType ==
    ASSUME NEW step \in Steps, NEW k \in DOMAIN TrackedSymbols
    PROVE  Idle(step, k) \in Run
  BY DEF Idle, Run, Sides, Markets, Stages

\* Going on to the next symbol of the cycle, or to sleep, keeps the locals' types.
LEMMA NextSymbolType == run \in Run => NextSymbol \in Run
  <1> SUFFICES ASSUME run \in Run PROVE NextSymbol \in Run
    OBVIOUS
  <1>1. run.at \in 1..Len(TrackedSymbols) /\ 1 \in DOMAIN TrackedSymbols
    BY SymbolDomain DEF Run
  <1>2. CASE run.at < Len(TrackedSymbols)
    <2>1. run.at + 1 \in DOMAIN TrackedSymbols
      BY <1>1, <1>2, SymbolDomain
    <2> QED
      BY <1>2, <2>1, IdleType DEF NextSymbol, Steps
  <1>3. CASE ~(run.at < Len(TrackedSymbols))
    BY <1>1, <1>3, IdleType DEF NextSymbol, Steps
  <1> QED
    BY <1>2, <1>3

\* Moving to another step of the same pair keeps the locals' types.
LEMMA GoToType ==
    ASSUME run \in Run, NEW step \in Steps
    PROVE  GoTo(step) \in Run
  BY DEF GoTo, Run

\* The empty tables and the sleeping process are well typed.
LEMMA InitType == Init => TypeOK
  <1> SUFFICES ASSUME Init PROVE TypeOK
    OBVIOUS
  <1>1. 1 \in DOMAIN TrackedSymbols /\ TrackedSymbols[1] \in Symbols
    BY SymbolDomain
  <1>2. pairs \in [PairIds -> Row]
    BY <1>1 DEF Init, Row, AbsentPair
  <1>3. run \in Run
    BY <1>1, IdleType DEF Init, Steps
  <1> QED
    BY <1>2, <1>3, MaxPairsAssumption DEF TypeOK, Init, NoLegs, NoDeal, Deal, Sides

\* A counter per pair and per key, incremented at one place.
LEMMA CounterType ==
    ASSUME NEW I, NEW K, NEW c \in [I -> [K -> Nat]], NEW i \in I, NEW k \in K
    PROVE  [c EXCEPT ![i][k] = @ + 1] \in [I -> [K -> Nat]]
  <1>1. c[i] \in [K -> Nat]
    OBVIOUS
  <1>2. [c[i] EXCEPT ![k] = c[i][k] + 1] \in [K -> Nat]
    BY <1>1
  <1> QED
    BY <1>2

\* update_pair_status writes a row of pair_decisions.
LEMMA UpdateType ==
    ASSUME TypeOK, run.cur \in PairIds, NEW status \in PairStatus, NEW resolved \in BOOLEAN,
           UpdatePairStatus(status, resolved)
    PROVE  pairs' \in [PairIds -> Row]
  <1> DEFINE row  == pairs[run.cur]
             row1 == [row EXCEPT !.status = status]
             row2 == [row1 EXCEPT !.resolved = IF resolved THEN TRUE ELSE row.resolved]
  <1>1. pairs \in [PairIds -> Row] /\ row \in Row
    BY DEF TypeOK
  <1>2. row1 \in Row /\ row1.resolved = row.resolved
    BY <1>1 DEF Row
  <1>3. row2 \in Row
    BY <1>1, <1>2 DEF Row
  <1>4. pairs' = [pairs EXCEPT ![run.cur] = row2]
    BY <1>1, <1>2 DEF UpdatePairStatus
  <1> HIDE DEF row2, row1, row
  <1> QED
    BY <1>1, <1>3, <1>4

\* A fill writes the same integer in the position and in the deal of the pair at hand.
LEMMA FillsType ==
    ASSUME TypeOK, run.cur \in PairIds, NEW side \in Sides, Fill(side)
    PROVE  /\ book' \in [Symbols -> [Markets -> Int]]
           /\ deals' \in [PairIds -> Deal]
  <1> DEFINE filled == ApplyFill(run.leg, book[Symbol][run.leg], side, run.qty)
             moved  == [deals[run.cur].left EXCEPT ![run.leg] = filled]
  <1>1. run.leg \in Markets /\ run.qty \in Nat /\ Symbol \in Symbols
    BY SymbolDomain DEF TypeOK, Run, Symbol
  <1>2. filled \in Int
    BY <1>1, FillType DEF TypeOK
  <1>3. deals \in [PairIds -> Deal] /\ deals[run.cur] \in Deal
    BY DEF TypeOK, Deal
  <1>4. moved \in [Markets -> Int]
    BY <1>1, <1>2, <1>3 DEF Deal
  <1>5. [deals[run.cur] EXCEPT !.left = moved] \in Deal
    BY <1>3, <1>4 DEF Deal
  <1>6. deals' = [deals EXCEPT ![run.cur] = [deals[run.cur] EXCEPT !.left = moved]]
    BY <1>3 DEF Fill, Deal
  <1>7. book' = [book EXCEPT ![Symbol][run.leg] = filled]
    BY DEF Fill
  <1> HIDE DEF filled, moved
  <1> QED
    BY <1>1, <1>2, <1>3, <1>5, <1>6, <1>7 DEF TypeOK

\* Every step keeps the variables in their types. The current pair is an id
\* whenever a step writes to it.
LEMMA NextType ==
    ASSUME TypeOK, RowsInOrder, [Next]_vars
    PROVE  TypeOK'
  <1> USE DEF TypeOK
  <1>cur. ASSUME run.step \in PairSteps PROVE run.cur \in PairIds
    BY <1>cur DEF RowsInOrder, Run, NoPair
  <1>sym. Symbol \in Symbols /\ 1 \in DOMAIN TrackedSymbols
    BY SymbolDomain DEF Symbol, Run
  <1>run. run.leg \in Markets /\ run.side \in Sides /\ run.qty \in Nat /\ run.filled \in SUBSET Markets
    BY DEF Run
  <1>1. CASE StartCycle
    BY <1>1, <1>sym, IdleType DEF StartCycle, tables, history, Steps
  <1>2. CASE CheckSymbol
    BY <1>2, NextSymbolType, GoToType DEF CheckSymbol, tables, history, Steps
  <1>3. CASE SkipSymbol
    BY <1>3, NextSymbolType DEF SkipSymbol, tables, history
  <1>4. ASSUME NEW side \in SpotSides, NEW qty \in Quantities, NEW accept \in BOOLEAN,
               AssessPair(side, qty, accept)
        PROVE  TypeOK'
    <2>1. side \in Sides /\ qty \in Nat
      BY SpotSidesAssumption, QuantitiesAssumption
    <2>2. run' \in Run
      BY <1>4, <2>1 DEF AssessPair, Run, Steps
    <2> QED
      BY <1>4, <2>2 DEF AssessPair, tables, history
  <1>5. CASE PersistPair
    <2>1. pairCount + 1 \in PairIds
      BY <1>5, MaxPairsAssumption DEF PersistPair, PairIds
    <2>2. pairs' \in [PairIds -> Row]
      BY <1>5, <1>sym DEF PersistPair, Row, PairStatus, Run
    <2>3. run' \in Run
      BY <1>5, <2>1 DEF PersistPair, Run, Steps
    <2>4. deals' \in [PairIds -> Deal]
      BY <1>5, <1>run, <1>sym, <2>1 DEF PersistPair, Deal
    <2> QED
      BY <1>5, <2>1, <2>2, <2>3, <2>4 DEF PersistPair, PairIds, Deal
  <1>6. CASE RefusePair
    <2>1. pairs' \in [PairIds -> Row]
      BY <1>6, <1>cur, UpdateType DEF RefusePair, PairStatus, PairSteps, Steps
    <2> QED
      BY <1>6, <2>1, NextSymbolType DEF RefusePair, history
  <1>7. ASSUME NEW filled \in SUBSET Markets, DrawLegs(filled)
        PROVE  TypeOK'
    <2>1. run' \in Run
      <3>1. PICK stage \in Stages, leg \in Markets, step \in Steps :
                run' = [run EXCEPT !.filled = filled, !.stage = stage, !.leg = leg, !.step = step]
        <4>1. \A outcome \in {"both_filled", "both_rejected", "partial_execution"} :
                  /\ (IF outcome = "partial_execution" THEN "first" ELSE "both") \in Stages
                  /\ (CASE outcome = "both_filled" -> "insert_leg"
                         [] outcome = "both_rejected" -> "finish"
                         [] OTHER -> "mark_partial") \in Steps
          BY DEF Stages, Steps
        <4>2. DetermineExecutionOutcome(filled) \in {"both_filled", "both_rejected", "partial_execution"}
          BY DEF DetermineExecutionOutcome
        <4>3. (IF Spot \in filled \/ filled = {} THEN Spot ELSE Futures) \in Markets
          BY DEF Markets
        <4> HIDE DEF Stages, Steps, Markets
        <4> QED BY <1>7, <4>1, <4>2, <4>3 DEF DrawLegs
      <3>2. run \in Run
        BY DEF TypeOK
      <3> HIDE DEF Steps, Stages, Markets
      <3> QED BY <3>1, <3>2 DEF Run
    <2> QED
      BY <1>7, <2>1 DEF DrawLegs, tables, history
  <1>8. CASE MarkPartial
    <2>1. run.cur \in PairIds
      BY <1>8, <1>cur DEF MarkPartial, PairSteps, Steps
    <2>2. pairs' \in [PairIds -> Row]
      BY <1>8, <2>1, UpdateType DEF MarkPartial, PairStatus
    <2> QED
      BY <1>8, <2>1, <2>2, GoToType DEF MarkPartial, Steps
  <1>9. CASE InsertLegDecision
    <2>1. run.cur \in PairIds
      BY <1>9, <1>cur DEF InsertLegDecision, PairSteps, Steps
    <2>2. legs' \in [PairIds -> [Markets -> Nat]]
      BY <1>9, <1>run, <2>1, CounterType DEF InsertLegDecision
    <2> QED
      BY <1>9, <2>2, GoToType DEF InsertLegDecision, history, Steps
  <1>10. CASE FillLeg
    <2>1. AfterLegFill \in Run
      <3>1. [[run EXCEPT !.leg = Futures] EXCEPT !.step = "insert_leg"] \in Run
        BY DEF Run, Steps, Markets
      <3>2. run.stage \in Stages
        BY DEF Run
      <3>3. /\ GoTo("finish") \in Run /\ GoTo("incident") \in Run
            /\ GoTo("mark_completing") \in Run /\ GoTo("mark_compensating") \in Run
        BY GoToType DEF Steps
      <3> QED
        BY <1>run, <3>1, <3>2, <3>3 DEF AfterLegFill, Stages, Markets
    <2>2. LegSide(run.leg) \in Sides
      BY <1>run DEF LegSide, Opposite, Sides
    <2>3. run.cur \in PairIds
      BY <1>10, <1>cur DEF FillLeg, PairSteps, Steps
    <2>4. book' \in [Symbols -> [Markets -> Int]] /\ deals' \in [PairIds -> Deal]
      BY <1>10, <2>2, <2>3, FillsType DEF FillLeg
    <2> QED
      BY <1>10, <2>1, <2>4 DEF FillLeg, Deal
  <1>11. CASE MarkCompleting
    <2>1. pairs' \in [PairIds -> Row]
      BY <1>11, <1>cur, UpdateType DEF MarkCompleting, PairStatus, PairSteps, Steps
    <2> QED
      BY <1>11, <2>1, GoToType DEF MarkCompleting, history, Steps
  <1>12. ASSUME NEW success \in BOOLEAN, RetryMissingLeg(success)
         PROVE  TypeOK'
    <2>1. AfterRetry(success) \in Run
      <3>1. OtherMarket(run.leg) \in Markets
        BY DEF OtherMarket, Markets
      <3>2. [[[[run EXCEPT !.filled = Markets] EXCEPT !.leg = OtherMarket(run.leg)]
                EXCEPT !.stage = "missing"] EXCEPT !.step = "insert_leg"] \in Run
        BY <3>1 DEF Run, Steps, Stages
      <3> QED
        BY <3>2, GoToType DEF AfterRetry, Steps
    <2> QED
      BY <1>12, <2>1 DEF RetryMissingLeg, tables, history
  <1>13. CASE MarkCompensating
    <2>1. pairs' \in [PairIds -> Row]
      BY <1>13, <1>cur, UpdateType DEF MarkCompensating, PairStatus, PairSteps, Steps
    <2> QED
      BY <1>13, <2>1, GoToType DEF MarkCompensating, history, Steps
  <1>14. CASE CloseLeg
    <2>1. Opposite(LegSide(run.leg)) \in Sides
      BY <1>run DEF LegSide, Opposite, Sides
    <2>2. run.cur \in PairIds
      BY <1>14, <1>cur DEF CloseLeg, PairSteps, Steps
    <2>3. book' \in [Symbols -> [Markets -> Int]] /\ deals' \in [PairIds -> Deal]
      BY <1>14, <2>1, <2>2, FillsType DEF CloseLeg
    <2> QED
      BY <1>14, <2>3, GoToType DEF CloseLeg, Steps, Deal
  <1>15. CASE RecordIncident
    <2>1. run.cur \in PairIds
      BY <1>15, <1>cur DEF RecordIncident, PairSteps, Steps
    <2>2. Resolution(run.stage) \in ResolutionAction
      BY DEF Resolution, ResolutionAction
    <2>3. incidents' \in [PairIds -> [ResolutionAction -> Nat]]
      BY <1>15, <2>1, <2>2, CounterType DEF RecordIncident
    <2> QED
      BY <1>15, <2>3, GoToType DEF RecordIncident, history, Steps
  <1>16. CASE FinishPair
    <2>1. FinalStatus \in PairStatus
      BY DEF FinalStatus, DetermineExecutionOutcome, PairStatus
    <2>2. pairs' \in [PairIds -> Row]
      BY <1>16, <2>1, <1>cur, UpdateType DEF FinishPair, PairSteps, Steps
    <2> QED
      BY <1>16, <2>2, NextSymbolType DEF FinishPair, history
  <1>17. CASE CycleError
    BY <1>17, <1>sym, IdleType DEF CycleError, tables, history, Steps
  <1>18. CASE Crash
    BY <1>18, <1>sym, IdleType DEF Crash, tables, history, Steps
  <1>19. CASE Restart
    BY <1>19, <1>sym, IdleType DEF Restart, tables, history, Steps
  <1>20. CASE UNCHANGED vars
    BY <1>20 DEF vars
  <1> QED
    BY <1>1, <1>2, <1>3, <1>4, <1>5, <1>6, <1>7, <1>8, <1>9, <1>10, <1>11, <1>12, <1>13,
       <1>14, <1>15, <1>16, <1>17, <1>18, <1>19, <1>20 DEF Next, Work

-----------------------------------------------------------------------------
(* What the updates do, field by field.                                    *)

\* update_pair_status changes the status of one row, may resolve it, and touches no other.
LEMMA UpdateEffect ==
    ASSUME TypeOK, run.cur \in PairIds, NEW status \in PairStatus, NEW resolved \in BOOLEAN,
           UpdatePairStatus(status, resolved)
    PROVE  /\ \A i \in PairIds : i # run.cur => pairs'[i] = pairs[i]
           /\ pairs'[run.cur].status = status
           /\ pairs'[run.cur].symbol = pairs[run.cur].symbol
           /\ pairs'[run.cur].accept = pairs[run.cur].accept
           /\ resolved => pairs'[run.cur].resolved
           /\ ~resolved => pairs'[run.cur].resolved = pairs[run.cur].resolved
  <1>1. pairs \in [PairIds -> Row] /\ pairs[run.cur] \in Row
    BY DEF TypeOK
  <1> QED
    BY <1>1 DEF UpdatePairStatus, Row

\* Going on to the next symbol leaves no pair at hand.
LEMMA NextSymbolFields ==
    /\ NextSymbol.step \in {"check", "sleep"}
    /\ NextSymbol.cur = NoPair
    /\ NextSymbol.stage = "both"
  BY DEF NextSymbol, Idle

\* Moving to another step changes the step alone.
LEMMA GoToFields ==
    ASSUME run \in Run, NEW step
    PROVE  /\ GoTo(step).step = step
           /\ GoTo(step).cur = run.cur /\ GoTo(step).at = run.at
           /\ GoTo(step).stage = run.stage /\ GoTo(step).filled = run.filled
           /\ GoTo(step).leg = run.leg /\ GoTo(step).accept = run.accept
           /\ GoTo(step).side = run.side /\ GoTo(step).qty = run.qty
  BY DEF GoTo, Run

-----------------------------------------------------------------------------
(* Only the newest pair is at hand.                                        *)

\* A step that changes no row of pair_decisions and either keeps the pair at hand or
\* leaves it.
LEMMA RowsInOrderKept ==
    ASSUME TypeOK, RowsInOrder, UNCHANGED <<pairs, pairCount>>,
           \/ run'.cur = NoPair /\ run'.step \notin PairSteps
           \/ run'.cur = run.cur /\ run'.at = run.at
              /\ (run.step \in PairSteps <=> run'.step \in PairSteps),
           partial' \subseteq partial
    PROVE  RowsInOrder'
  BY DEF RowsInOrder, Symbol, TypeOK

\* A step that updates the row of the pair at hand.
LEMMA RowsInOrderUpdated ==
    ASSUME TypeOK, RowsInOrder, run.step \in PairSteps, pairCount' = pairCount,
           NEW status \in PairStatus, NEW resolved \in BOOLEAN,
           UpdatePairStatus(status, resolved),
           IF resolved THEN run'.cur = NoPair /\ run'.step \notin PairSteps
           ELSE run'.cur = run.cur /\ run'.at = run.at /\ run'.step \in PairSteps,
           partial' \subseteq partial \union {run.cur}
    PROVE  RowsInOrder'
  <1>1. run.cur \in PairIds /\ run.cur = pairCount /\ pairs[run.cur].status # "absent"
    BY DEF RowsInOrder, TypeOK, Run, NoPair
  <1>2. status # "absent"
    BY DEF PairStatus
  <1>3. \A i \in PairIds : pairs'[i].status = "absent" <=> i > pairCount'
    BY <1>1, <1>2, UpdateEffect DEF RowsInOrder
  <1>6. \A i \in PairIds : pairs'[i].resolved => i <= pairCount'
    BY <1>1, UpdateEffect DEF RowsInOrder, TypeOK, PairIds
  <1>4. partial' \subseteq 1..pairCount'
    BY <1>1 DEF RowsInOrder, PairIds, TypeOK
  <1>5. ~resolved => pairs'[run.cur].symbol = pairs[run.cur].symbol /\ ~pairs'[run.cur].resolved
    BY <1>1, UpdateEffect DEF RowsInOrder, NoPair
  <1> QED
    BY <1>1, <1>3, <1>4, <1>5, <1>6 DEF RowsInOrder, Symbol, NoPair

\* Every step keeps the rows in order: ids are handed out one by one, and the pair at
\* hand is the newest.
LEMMA NextRowsInOrder ==
    ASSUME TypeOK, RowsInOrder, [Next]_vars
    PROVE  RowsInOrder'
  <1>run. run \in Run
    BY DEF TypeOK
  <1>1. CASE StartCycle
    BY <1>1, RowsInOrderKept DEF StartCycle, Idle, tables, history, PairSteps, Steps
  <1>2. CASE CheckSymbol
    BY <1>2, <1>run, RowsInOrderKept, NextSymbolFields, GoToFields
       DEF CheckSymbol, tables, history, PairSteps, Steps
  <1>3. CASE SkipSymbol
    BY <1>3, RowsInOrderKept, NextSymbolFields DEF SkipSymbol, tables, history, PairSteps, Steps
  <1>4. ASSUME NEW side \in SpotSides, NEW qty \in Quantities, NEW accept \in BOOLEAN,
               AssessPair(side, qty, accept)
        PROVE  RowsInOrder'
    <2>1. run'.cur = run.cur /\ run'.at = run.at /\ run'.step = "persist"
      BY <1>4, <1>run DEF AssessPair, Run
    <2> QED
      BY <1>4, <2>1, RowsInOrderKept DEF AssessPair, tables, history, PairSteps, Steps
  <1>5. CASE PersistPair
    <2>1. /\ run'.cur = pairCount + 1 /\ run'.at = run.at
          /\ run'.step = IF run.accept THEN "draw" ELSE "refuse"
      BY <1>5, <1>run DEF PersistPair, Run
    <2>2. pairCount \in Nat /\ pairCount + 1 \in PairIds
      BY <1>5, MaxPairsAssumption DEF PersistPair, PairIds, TypeOK
    <2>3. /\ pairs'[pairCount + 1] = [symbol |-> Symbol, accept |-> run.accept,
                                      status |-> "executing", resolved |-> FALSE]
          /\ \A i \in PairIds : i # pairCount + 1 => pairs'[i] = pairs[i]
      BY <1>5, <2>2 DEF PersistPair, TypeOK
    <2>4. run'.step \in PairSteps
      BY <2>1 DEF PairSteps, Steps
    <2>5. \A i \in PairIds : pairs'[i].status = "absent" <=> i > pairCount'
      BY <1>5, <2>2, <2>3 DEF PersistPair, RowsInOrder, PairIds
    <2>9. \A i \in PairIds : pairs'[i].resolved => i <= pairCount'
      BY <1>5, <2>2, <2>3 DEF PersistPair, RowsInOrder, PairIds
    <2>6. partial' \subseteq 1..pairCount'
      BY <1>5, <2>2 DEF PersistPair, RowsInOrder
    <2>7. run'.cur # NoPair
      BY <2>1, <2>2 DEF NoPair
    <2>8. pairs'[run'.cur].symbol = Symbol' /\ ~pairs'[run'.cur].resolved
      BY <2>1, <2>3 DEF Symbol
    <2> QED
      BY <1>5, <2>1, <2>4, <2>5, <2>6, <2>7, <2>8, <2>9 DEF RowsInOrder, PersistPair
  <1>6. CASE RefusePair
    BY <1>6, RowsInOrderUpdated, NextSymbolFields
       DEF RefusePair, history, PairSteps, Steps, PairStatus
  <1>7. ASSUME NEW filled \in SUBSET Markets, DrawLegs(filled)
        PROVE  RowsInOrder'
    <2>1. run'.cur = run.cur /\ run'.at = run.at
      BY <1>7, <1>run DEF DrawLegs, Run
    <2>2. run'.step \in {"insert_leg", "finish", "mark_partial"}
      BY <1>7, <1>run DEF DrawLegs, Run
    <2> QED
      BY <1>7, <2>1, <2>2, RowsInOrderKept DEF DrawLegs, tables, history, PairSteps, Steps
  <1>8. CASE MarkPartial
    BY <1>8, <1>run, RowsInOrderUpdated, GoToFields DEF MarkPartial, PairSteps, Steps, PairStatus
  <1>9. CASE InsertLegDecision
    BY <1>9, <1>run, RowsInOrderKept, GoToFields DEF InsertLegDecision, history, PairSteps, Steps
  <1>10. CASE FillLeg
    <2>1. run'.cur = run.cur /\ run'.at = run.at /\ run'.step \in PairSteps
      <3>1. [[run EXCEPT !.leg = Futures] EXCEPT !.step = "insert_leg"].cur = run.cur
            /\ [[run EXCEPT !.leg = Futures] EXCEPT !.step = "insert_leg"].at = run.at
            /\ [[run EXCEPT !.leg = Futures] EXCEPT !.step = "insert_leg"].step = "insert_leg"
        BY <1>run DEF Run
      <3>2. run.stage \in Stages /\ run.leg \in Markets
        BY <1>run DEF Run
      <3> QED
        BY <1>10, <1>run, <3>1, <3>2, GoToFields
           DEF FillLeg, AfterLegFill, Stages, Markets, PairSteps, Steps
    <2> QED
      BY <1>10, <2>1, RowsInOrderKept DEF FillLeg, PairSteps, Steps
  <1>11. CASE MarkCompleting
    BY <1>11, <1>run, RowsInOrderUpdated, GoToFields
       DEF MarkCompleting, history, PairSteps, Steps, PairStatus
  <1>12. ASSUME NEW success \in BOOLEAN, RetryMissingLeg(success)
         PROVE  RowsInOrder'
    <2>1. run'.cur = run.cur /\ run'.at = run.at /\ run'.step \in {"insert_leg", "mark_compensating"}
      BY <1>12, <1>run DEF RetryMissingLeg, AfterRetry, GoTo, Run
    <2> QED
      BY <1>12, <2>1, RowsInOrderKept DEF RetryMissingLeg, tables, history, PairSteps, Steps
  <1>13. CASE MarkCompensating
    BY <1>13, <1>run, RowsInOrderUpdated, GoToFields
       DEF MarkCompensating, history, PairSteps, Steps, PairStatus
  <1>14. CASE CloseLeg
    BY <1>14, <1>run, RowsInOrderKept, GoToFields DEF CloseLeg, PairSteps, Steps
  <1>15. CASE RecordIncident
    BY <1>15, <1>run, RowsInOrderKept, GoToFields DEF RecordIncident, history, PairSteps, Steps
  <1>16. CASE FinishPair
    <2>1. FinalStatus \in PairStatus
      BY DEF FinalStatus, DetermineExecutionOutcome, PairStatus
    <2> QED
      BY <1>16, <2>1, RowsInOrderUpdated, NextSymbolFields DEF FinishPair, history, PairSteps, Steps
  <1>17. CASE CycleError
    BY <1>17, RowsInOrderKept DEF CycleError, Idle, tables, history, PairSteps, Steps
  <1>18. CASE Crash
    BY <1>18, RowsInOrderKept DEF Crash, Idle, tables, history, PairSteps, Steps
  <1>19. CASE Restart
    BY <1>19, RowsInOrderKept DEF Restart, Idle, tables, history, PairSteps, Steps
  <1>20. CASE UNCHANGED vars
    BY <1>20 DEF vars, RowsInOrder, Symbol
  <1> QED
    BY <1>1, <1>2, <1>3, <1>4, <1>5, <1>6, <1>7, <1>8, <1>9, <1>10, <1>11, <1>12, <1>13,
       <1>14, <1>15, <1>16, <1>17, <1>18, <1>19, <1>20 DEF Next, Work

-----------------------------------------------------------------------------
(* No second partial execution.                                            *)

\* A step that leaves the statuses alone and does not enter the visit of a symbol.
LEMMA NoRivalKept ==
    ASSUME Inductive, UNCHANGED <<pairs, partial>>,
           \/ run'.step \in {"down", "sleep", "check"}
           \/ /\ run.step \notin {"down", "sleep", "check"}
              /\ run'.cur = run.cur /\ run'.at = run.at
    PROVE  NoRival' /\ AtMostOneUnresolvedPartial'
  BY DEF Inductive, NoRival, AtMostOneUnresolvedPartial, Unresolved, Settled, Symbol

\* A step that updates the row of the pair at hand, to a blocking status or for good.
LEMMA NoRivalUpdated ==
    ASSUME Inductive, run.step \in PairSteps,
           NEW status \in PairStatus, NEW resolved \in BOOLEAN,
           UpdatePairStatus(status, resolved),
           IF resolved THEN run'.step \in {"check", "sleep"} /\ partial' = partial
           ELSE /\ status \in BlockingStatuses
                /\ partial' \subseteq partial \union {run.cur}
                /\ run'.cur = run.cur /\ run'.at = run.at
    PROVE  NoRival' /\ AtMostOneUnresolvedPartial'
  <1>1. run.cur \in PairIds /\ run.cur # NoPair
    BY DEF Inductive, RowsInOrder, TypeOK, Run, NoPair
  <1>2. /\ \A i \in PairIds : i # run.cur => pairs'[i] = pairs[i]
        /\ pairs'[run.cur].symbol = pairs[run.cur].symbol
        /\ pairs'[run.cur].status = status
        /\ resolved => pairs'[run.cur].resolved
    BY <1>1, UpdateEffect DEF Inductive
  <1>3. \A i \in PairIds : i # run.cur /\ Unresolved(i)' => Unresolved(i)
    BY <1>2 DEF Unresolved, Settled
  <1>4. \A i \in PairIds : Unresolved(i) /\ pairs[i].symbol = Symbol => i = run.cur
    BY DEF Inductive, NoRival, PairSteps
  <1>5. pairs[run.cur].symbol = Symbol
    BY <1>1 DEF Inductive, RowsInOrder
  <1>6. \A i \in PairIds : resolved /\ i = run.cur => ~Unresolved(i)'
    BY <1>1, <1>2 DEF Unresolved, Settled
  <1>7. \A i \in PairIds : Unresolved(i)' => pairs'[i].status \in BlockingStatuses
    BY <1>2, <1>3, <1>6 DEF Inductive, NoRival
  <1>8. AtMostOneUnresolvedPartial'
    BY <1>2, <1>3, <1>4, <1>5 DEF Inductive, AtMostOneUnresolvedPartial
  <1>9. ~resolved => \A i \in PairIds : Unresolved(i)' /\ pairs'[i].symbol = Symbol' => i = run'.cur
    BY <1>2, <1>3, <1>4 DEF Symbol
  <1> QED
    BY <1>7, <1>8, <1>9 DEF NoRival

\* Every step keeps the symbol of the pair at hand free of other unresolved partial
\* executions: the proof goes by the status read of CheckSymbol and its use in PersistPair.
LEMMA NextNoRival ==
    ASSUME Inductive, [Next]_vars
    PROVE  NoRival' /\ AtMostOneUnresolvedPartial'
  <1> DEFINE Goal == NoRival' /\ AtMostOneUnresolvedPartial'
  <1>run. run \in Run
    BY DEF Inductive, TypeOK
  <1>1. CASE StartCycle
    BY <1>1, NoRivalKept DEF StartCycle, Idle, tables, history
  <1>2. CASE CheckSymbol
    <2>1. CASE IsSymbolBlocked(Symbol)
      BY <1>2, <2>1, NoRivalKept, NextSymbolFields DEF CheckSymbol, tables, history
    <2>2. CASE ~IsSymbolBlocked(Symbol)
      <3>1. \A i \in PairIds : Unresolved(i) => pairs[i].symbol # Symbol
        <4> SUFFICES ASSUME NEW i \in PairIds, Unresolved(i), pairs[i].symbol = Symbol
                     PROVE  FALSE
          OBVIOUS
        <4>1. pairs[i].status \in BlockingStatuses
          BY DEF Inductive, NoRival
        <4>2. pairs[i].status \in OpenPairStatuses(Symbol)
          BY <4>1 DEF OpenPairStatuses, BlockingStatuses
        <4> QED
          BY <2>2, <4>1, <4>2 DEF IsSymbolBlocked
      <3>2. UNCHANGED <<pairs, partial>> /\ run'.at = run.at /\ run'.cur = run.cur
        BY <1>2, <2>2, <1>run, GoToFields DEF CheckSymbol, tables, history
      <3> QED
        BY <3>1, <3>2
           DEF Inductive, NoRival, AtMostOneUnresolvedPartial, Unresolved, Settled, Symbol
    <2> QED
      BY <2>1, <2>2
  <1>3. CASE SkipSymbol
    BY <1>3, NoRivalKept, NextSymbolFields DEF SkipSymbol, tables, history
  <1>4. ASSUME NEW side \in SpotSides, NEW qty \in Quantities, NEW accept \in BOOLEAN,
               AssessPair(side, qty, accept)
        PROVE  Goal
    <2>1. run'.cur = run.cur /\ run'.at = run.at
      BY <1>4, <1>run DEF AssessPair, Run
    <2> QED
      BY <1>4, <2>1, NoRivalKept DEF AssessPair, tables, history
  <1>5. CASE PersistPair
    <2>1. pairCount \in Nat /\ pairCount + 1 \in PairIds /\ run'.at = run.at
      BY <1>5, <1>run, MaxPairsAssumption DEF PersistPair, PairIds, Inductive, TypeOK, Run
    <2>2. partial' = partial /\ pairCount + 1 \notin partial
      BY <1>5, <2>1 DEF PersistPair, Inductive, RowsInOrder
    <2>3. \A i \in PairIds : i # pairCount + 1 => pairs'[i] = pairs[i]
      BY <1>5, <2>1 DEF PersistPair, Inductive, TypeOK
    <2>4. \A i \in PairIds : Unresolved(i)' => Unresolved(i) /\ pairs'[i] = pairs[i]
      BY <2>2, <2>3 DEF Unresolved, Settled
    <2>5. \A i \in PairIds : ~(Unresolved(i) /\ pairs[i].symbol = Symbol)
      BY <1>5 DEF PersistPair, Inductive, NoRival, RowsInOrder, PairSteps, NoPair, PairIds
    <2> QED
      BY <2>1, <2>4, <2>5 DEF Inductive, NoRival, AtMostOneUnresolvedPartial, Symbol
  <1>6. CASE RefusePair
    BY <1>6, NoRivalUpdated, NextSymbolFields
       DEF RefusePair, history, PairSteps, Steps, PairStatus
  <1>7. ASSUME NEW filled \in SUBSET Markets, DrawLegs(filled)
        PROVE  Goal
    <2>1. run'.cur = run.cur /\ run'.at = run.at
      BY <1>7, <1>run DEF DrawLegs, Run
    <2> QED
      BY <1>7, <2>1, NoRivalKept DEF DrawLegs, tables, history
  <1>8. CASE MarkPartial
    BY <1>8, <1>run, NoRivalUpdated, GoToFields
       DEF MarkPartial, PairSteps, Steps, PairStatus, BlockingStatuses
  <1>9. CASE InsertLegDecision
    BY <1>9, <1>run, NoRivalKept, GoToFields DEF InsertLegDecision, history
  <1>10. CASE FillLeg
    <2>1. run'.cur = run.cur /\ run'.at = run.at
      <3>1. [[run EXCEPT !.leg = Futures] EXCEPT !.step = "insert_leg"].cur = run.cur
            /\ [[run EXCEPT !.leg = Futures] EXCEPT !.step = "insert_leg"].at = run.at
        BY <1>run DEF Run
      <3>2. run.stage \in Stages /\ run.leg \in Markets
        BY <1>run DEF Run
      <3> QED
        BY <1>10, <1>run, <3>1, <3>2, GoToFields DEF FillLeg, AfterLegFill, Stages, Markets
    <2> QED
      BY <1>10, <2>1, NoRivalKept DEF FillLeg
  <1>11. CASE MarkCompleting
    BY <1>11, <1>run, NoRivalUpdated, GoToFields
       DEF MarkCompleting, history, PairSteps, Steps, PairStatus, BlockingStatuses
  <1>12. ASSUME NEW success \in BOOLEAN, RetryMissingLeg(success)
         PROVE  Goal
    <2>1. run'.cur = run.cur /\ run'.at = run.at
      BY <1>12, <1>run DEF RetryMissingLeg, AfterRetry, GoTo, Run
    <2> QED
      BY <1>12, <2>1, NoRivalKept DEF RetryMissingLeg, tables, history
  <1>13. CASE MarkCompensating
    BY <1>13, <1>run, NoRivalUpdated, GoToFields
       DEF MarkCompensating, history, PairSteps, Steps, PairStatus, BlockingStatuses
  <1>14. CASE CloseLeg
    BY <1>14, <1>run, NoRivalKept, GoToFields DEF CloseLeg
  <1>15. CASE RecordIncident
    BY <1>15, <1>run, NoRivalKept, GoToFields DEF RecordIncident, history
  <1>16. CASE FinishPair
    <2>1. FinalStatus \in PairStatus
      BY DEF FinalStatus, DetermineExecutionOutcome, PairStatus
    <2> QED
      BY <1>16, <2>1, NoRivalUpdated, NextSymbolFields DEF FinishPair, history, PairSteps, Steps
  <1>17. CASE CycleError
    BY <1>17, NoRivalKept DEF CycleError, Idle, tables, history
  <1>18. CASE Crash
    BY <1>18, NoRivalKept DEF Crash, Idle, tables, history
  <1>19. CASE Restart
    BY <1>19, NoRivalKept DEF Restart, Idle, tables, history
  <1>20. CASE UNCHANGED vars
    BY <1>20 DEF vars, Inductive, NoRival, AtMostOneUnresolvedPartial, Unresolved, Settled, Symbol
  <1> QED
    BY <1>1, <1>2, <1>3, <1>4, <1>5, <1>6, <1>7, <1>8, <1>9, <1>10, <1>11, <1>12, <1>13,
       <1>14, <1>15, <1>16, <1>17, <1>18, <1>19, <1>20 DEF Next, Work

\* The strengthened invariant of the statuses holds of the empty tables.
LEMMA InitInductive == Init => Inductive
  <1> SUFFICES ASSUME Init PROVE Inductive
    OBVIOUS
  <1>1. pairCount = 0 /\ partial = {} /\ run.step = "sleep" /\ run.cur = NoPair
    BY DEF Init, Idle
  <1>2. \A i \in PairIds : pairs[i].status = "absent" /\ ~pairs[i].resolved /\ i > 0
    BY MaxPairsAssumption DEF Init, AbsentPair, PairIds
  <1>3. RowsInOrder
    BY <1>1, <1>2 DEF RowsInOrder, PairSteps, Steps
  <1>4. NoRival /\ AtMostOneUnresolvedPartial
    BY <1>1 DEF NoRival, AtMostOneUnresolvedPartial, Unresolved
  <1> QED
    BY <1>3, <1>4, InitType DEF Inductive

\* The strengthened invariant of the statuses is inductive.
LEMMA NextInductive == Inductive /\ [Next]_vars => Inductive'
  BY NextType, NextRowsInOrder, NextNoRival DEF Inductive

\* The strengthened invariant of the statuses holds throughout.
LEMMA InductiveHolds == Spec => []Inductive
  BY InitInductive, NextInductive, PTL DEF Spec

\* The tables and the locals of the process keep their types.
THEOREM TypeCorrect == Spec => []TypeOK
  <1>1. Inductive => TypeOK
    BY DEF Inductive
  <1> QED
    BY <1>1, InductiveHolds, PTL

\* The unresolved partial executions of a symbol never add up, whatever errors,
\* crashes and restarts come between the statuses being read and the pair created.
THEOREM AtMostOnePartial == Spec => []AtMostOneUnresolvedPartial
  <1>1. Inductive => AtMostOneUnresolvedPartial
    BY DEF Inductive
  <1> QED
    BY <1>1, InductiveHolds, PTL

-----------------------------------------------------------------------------
(* Only the pair at hand moves.                                            *)

Untouched(i) ==
    /\ UNCHANGED <<pairs[i], legs[i], incidents[i], deals[i]>>
    /\ i \in partial' <=> i \in partial

\* A step writes to no row but that of the pair at hand and that of the pair it creates.
LEMMA Frame ==
    ASSUME Inductive, [Next]_vars, NEW i \in PairIds, i # run.cur,
           PersistPair => i # pairCount + 1
    PROVE  Untouched(i)
  <1> USE DEF Untouched
  <1>type. TypeOK /\ run \in Run
    BY DEF Inductive, TypeOK
  <1>cur. run.step \in PairSteps => run.cur \in PairIds
    BY <1>type DEF Inductive, RowsInOrder, Run, NoPair
  <1>upd. ASSUME run.step \in PairSteps, NEW status \in PairStatus, NEW resolved \in BOOLEAN,
                 UpdatePairStatus(status, resolved)
          PROVE  pairs'[i] = pairs[i]
    BY <1>upd, <1>type, <1>cur, UpdateEffect
  <1>1. CASE \/ StartCycle \/ CheckSymbol \/ SkipSymbol \/ CycleError \/ Crash \/ Restart
             \/ \E side \in SpotSides, qty \in Quantities, accept \in BOOLEAN :
                    AssessPair(side, qty, accept)
             \/ \E filled \in SUBSET Markets : DrawLegs(filled)
             \/ \E success \in BOOLEAN : RetryMissingLeg(success)
             \/ UNCHANGED vars
    BY <1>1 DEF StartCycle, CheckSymbol, SkipSymbol, CycleError, Crash, Restart, AssessPair,
                DrawLegs, RetryMissingLeg, vars, tables, history
  <1>2. CASE PersistPair
    BY <1>2, <1>type DEF PersistPair, TypeOK
  <1>3. CASE RefusePair
    BY <1>3, <1>upd DEF RefusePair, history, PairSteps, Steps, PairStatus
  <1>4. CASE MarkPartial
    BY <1>4, <1>upd DEF MarkPartial, PairSteps, Steps, PairStatus
  <1>5. CASE MarkCompleting
    BY <1>5, <1>upd DEF MarkCompleting, history, PairSteps, Steps, PairStatus
  <1>6. CASE MarkCompensating
    BY <1>6, <1>upd DEF MarkCompensating, history, PairSteps, Steps, PairStatus
  <1>7. CASE FinishPair
    <2>1. FinalStatus \in PairStatus
      BY DEF FinalStatus, DetermineExecutionOutcome, PairStatus
    <2> QED
      BY <1>7, <2>1, <1>upd DEF FinishPair, history, PairSteps, Steps
  <1>8. CASE InsertLegDecision
    BY <1>8 DEF InsertLegDecision, history
  <1>9. CASE FillLeg
    BY <1>9 DEF FillLeg, Fill
  <1>10. CASE CloseLeg
    BY <1>10 DEF CloseLeg, Fill
  <1>11. CASE RecordIncident
    BY <1>11 DEF RecordIncident, history
  <1> QED
    BY <1>1, <1>2, <1>3, <1>4, <1>5, <1>6, <1>7, <1>8, <1>9, <1>10, <1>11 DEF Next, Work

\* A settled or abandoned pair is never written to again.
THEOREM OnlyTheCurrentMoves == Spec => OnlyTheCurrentPairMoves
  <1>1. ASSUME Inductive, [Next]_vars, NEW i \in PairIds, Settled(i) \/ Orphan(i)
        PROVE  UNCHANGED <<pairs[i], legs[i], incidents[i], deals[i]>>
    <2>1. pairCount \in Nat /\ i \in Nat
      BY <1>1, MaxPairsAssumption DEF Inductive, TypeOK, PairIds
    <2>2. i # run.cur
      BY <1>1 DEF Inductive, RowsInOrder, Settled, Orphan, NoPair, PairIds
    <2>3. i # pairCount + 1
      BY <1>1, <2>1 DEF Inductive, RowsInOrder, Settled, Orphan
    <2> QED
      BY <1>1, <2>2, <2>3, Frame DEF Untouched
  <1>2. Inductive /\ [Next]_vars =>
            [\A i \in PairIds : Settled(i) \/ Orphan(i) =>
                 UNCHANGED <<pairs[i], legs[i], incidents[i], deals[i]>>]_vars
    BY <1>1
  <1> QED
    BY <1>2, InductiveHolds, PTL DEF Spec, OnlyTheCurrentPairMoves

\* A pair is created only on a symbol that is free of unresolved partial executions.
THEOREM NoPairOverPartial == Spec => NoPairOverUnresolvedPartial
  <1>1. ASSUME Inductive, [Next]_vars, NEW i \in PairIds, NEW j \in PairIds,
               Created(i), Unresolved(j)
        PROVE  pairs'[i].symbol # pairs[j].symbol
    <2>1. pairCount \in Nat
      BY MaxPairsAssumption, <1>1 DEF Inductive, TypeOK
    <2>2. i # run.cur
      BY <1>1, <2>1, MaxPairsAssumption
         DEF Inductive, RowsInOrder, Created, PairIds, NoPair
    <2>3. PersistPair /\ i = pairCount + 1
      BY <1>1, <2>2, Frame DEF Untouched, Created
    <2>4. pairs'[i].symbol = Symbol
      BY <1>1, <2>3 DEF PersistPair, Inductive, TypeOK
    <2>5. Unresolved(j) /\ pairs[j].symbol = Symbol => j = run.cur
      BY <1>1, <2>3 DEF PersistPair, Inductive, NoRival
    <2>6. run.cur = NoPair
      BY <1>1, <2>3 DEF PersistPair, Inductive, RowsInOrder, PairSteps
    <2> QED
      BY <1>1, <2>4, <2>5, <2>6 DEF NoPair, PairIds
  <1>2. Inductive /\ [Next]_vars =>
            [\A i, j \in PairIds :
                 Created(i) /\ Unresolved(j) => pairs'[i].symbol # pairs[j].symbol]_vars
    BY <1>1
  <1> QED
    BY <1>2, InductiveHolds, PTL DEF Spec, NoPairOverUnresolvedPartial

-----------------------------------------------------------------------------
(* The positions are what the pairs left.                                  *)

\* A fill writes the same quantity in the position of the symbol and in the deal of the
\* pair at hand, in one market, and nothing else.
LEMMA FillEffect ==
    ASSUME Inductive, run.step \in PairSteps, NEW side \in Sides, Fill(side)
    PROVE  /\ book'[Symbol] = [book[Symbol] EXCEPT
                                  ![run.leg] = ApplyFill(run.leg, book[Symbol][run.leg], side, run.qty)]
           /\ \A s \in Symbols : s # Symbol => book'[s] = book[s]
           /\ deals'[run.cur].left =
                  [deals[run.cur].left EXCEPT
                       ![run.leg] = ApplyFill(run.leg, book[Symbol][run.leg], side, run.qty)]
           /\ deals'[run.cur].found = deals[run.cur].found
           /\ deals'[run.cur].side = deals[run.cur].side
           /\ deals'[run.cur].qty = deals[run.cur].qty
           /\ \A i \in PairIds : i # run.cur => deals'[i] = deals[i]
  <1>1. TypeOK /\ run.cur \in PairIds /\ Symbol \in Symbols
    BY SymbolDomain DEF Inductive, RowsInOrder, TypeOK, Run, NoPair, Symbol
  <1>2. deals \in [PairIds -> Deal] /\ book \in [Symbols -> [Markets -> Int]]
    BY <1>1 DEF TypeOK, Deal
  <1> QED
    BY <1>1, <1>2 DEF Fill, Deal

\* A fill of the pair at hand moves its own deal and the positions of its symbol alike.
LEMMA PositionsFilled ==
    ASSUME Inductive, PositionsAreWhatPairsLeft, run.step \in PairSteps,
           NEW side \in Sides, Fill(side), UNCHANGED <<pairs, pairCount>>
    PROVE  PositionsAreWhatPairsLeft'
  <1>1. /\ run.cur = pairCount /\ pairs[run.cur].symbol = Symbol /\ pairCount \in Nat
        /\ run.cur \in 1..pairCount /\ 1..pairCount \subseteq PairIds
    BY MaxPairsAssumption DEF Inductive, RowsInOrder, TypeOK, Run, NoPair, PairIds
  <1>2. \A i \in PairIds : pairs[i].symbol \in Symbols
    BY DEF Inductive, TypeOK, Row
  <1>3. book[Symbol] = deals[run.cur].left
    BY <1>1 DEF PositionsAreWhatPairsLeft, NewestBefore
  <1>4. book'[Symbol] = deals'[run.cur].left
    <2>1. book'[Symbol] = [book[Symbol] EXCEPT
                              ![run.leg] = ApplyFill(run.leg, book[Symbol][run.leg], side, run.qty)]
      BY FillEffect
    <2>2. deals'[run.cur].left = [deals[run.cur].left EXCEPT
                              ![run.leg] = ApplyFill(run.leg, book[Symbol][run.leg], side, run.qty)]
      BY FillEffect
    <2> QED
      BY <1>3, <2>1, <2>2
  <1>5. \A s \in Symbols : s # Symbol => book'[s] = book[s]
    BY FillEffect
  <1>6. \A i \in PairIds : i # run.cur => deals'[i] = deals[i]
    BY FillEffect
  <1>7. \A i \in PairIds : deals'[i].found = deals[i].found
    BY <1>6, FillEffect
  <1>8. ASSUME NEW i \in 1..pairCount, NewestBefore(i, pairCount + 1)
        PROVE  book'[pairs[i].symbol] = deals'[i].left
    <2>1. CASE i = run.cur
      BY <1>1, <1>4, <2>1
    <2>2. CASE i # run.cur
      <3>1. pairs[i].symbol # Symbol
        BY <1>1, <1>8, <2>2 DEF NewestBefore
      <3>2. book[pairs[i].symbol] = deals[i].left
        BY <1>8 DEF PositionsAreWhatPairsLeft
      <3> QED
        BY <1>1, <1>2, <1>5, <1>6, <2>2, <3>1, <3>2
    <2> QED
      BY <2>1, <2>2
  <1>9. ASSUME NEW i \in 1..pairCount, NEW j \in 1..pairCount, NewestBefore(i, j),
               pairs[j].symbol = pairs[i].symbol
        PROVE  deals'[j].found = deals'[i].left
    <2>1. i # run.cur
      BY <1>1, <1>9 DEF NewestBefore
    <2>2. deals[j].found = deals[i].left
      BY <1>9 DEF PositionsAreWhatPairsLeft
    <2> QED
      BY <1>1, <1>6, <1>7, <2>1, <2>2
  <1> QED
    BY <1>8, <1>9 DEF PositionsAreWhatPairsLeft, NewestBefore

\* A pair is created with the positions its symbol has at that moment.
LEMMA PositionsFound ==
    ASSUME Inductive, PositionsAreWhatPairsLeft, PersistPair
    PROVE  PositionsAreWhatPairsLeft'
  <1>0. PICK new : new = pairCount + 1
    OBVIOUS
  <1>1. pairCount \in Nat /\ new \in PairIds /\ pairCount' = new /\ book' = book
        /\ 1..pairCount \subseteq PairIds /\ new \notin 1..pairCount /\ new = pairCount + 1
    BY <1>0, MaxPairsAssumption DEF PersistPair, PairIds, Inductive, TypeOK
  <1>2. pairs'[new].symbol = Symbol /\ \A i \in PairIds : i # new => pairs'[i] = pairs[i]
    BY <1>1 DEF PersistPair, Inductive, TypeOK
  <1>3. /\ deals'[new].found = book[Symbol] /\ deals'[new].left = book[Symbol]
        /\ \A i \in PairIds : i # new => deals'[i] = deals[i]
    BY <1>1 DEF PersistPair, Inductive, TypeOK
  <1>4. \A i \in 1..pairCount, n \in 1..new :
            NewestBefore(i, n)' => NewestBefore(i, n) /\ pairs'[i] = pairs[i] /\ deals'[i] = deals[i]
    BY <1>1, <1>2, <1>3 DEF NewestBefore
  <1>5. ASSUME NEW i \in 1..new, NewestBefore(i, new + 1)'
        PROVE  book'[pairs'[i].symbol] = deals'[i].left
    <2>1. CASE i = new
      BY <1>1, <1>2, <1>3, <2>1
    <2>2. CASE i # new
      <3>1. i \in 1..pairCount /\ new \in (i + 1)..((new + 1) - 1)
        BY <1>1, <2>2
      <3>2. NewestBefore(i, new)'
        BY <1>1, <1>5, <3>1 DEF NewestBefore
      <3>3. NewestBefore(i, new) /\ pairs'[i] = pairs[i] /\ deals'[i] = deals[i]
        BY <1>1, <1>4, <3>1, <3>2
      <3>4. book[pairs[i].symbol] = deals[i].left
        BY <1>1, <3>1, <3>3 DEF PositionsAreWhatPairsLeft
      <3> QED
        BY <1>1, <3>3, <3>4
    <2> QED
      BY <2>1, <2>2
  <1>6. ASSUME NEW i \in 1..new, NEW j \in 1..new, NewestBefore(i, j)',
               pairs'[j].symbol = pairs'[i].symbol
        PROVE  deals'[j].found = deals'[i].left
    <2>1. i \in 1..pairCount
      BY <1>1, <1>6 DEF NewestBefore
    <2>2. NewestBefore(i, j) /\ pairs'[i] = pairs[i] /\ deals'[i] = deals[i]
      BY <1>4, <1>6, <2>1
    <2>3. CASE j = new
      BY <1>1, <1>2, <1>3, <1>6, <2>1, <2>2, <2>3 DEF PositionsAreWhatPairsLeft
    <2>4. CASE j # new
      <3>1. j \in 1..pairCount
        BY <1>1, <2>4
      <3>2. pairs'[j] = pairs[j] /\ deals'[j] = deals[j]
        BY <1>1, <1>2, <1>3, <3>1
      <3> QED
        BY <1>6, <2>1, <2>2, <3>1, <3>2 DEF PositionsAreWhatPairsLeft
    <2> QED
      BY <2>3, <2>4
  <1> QED
    BY <1>1, <1>5, <1>6 DEF PositionsAreWhatPairsLeft, NewestBefore

\* A step that neither fills nor creates leaves the accounts of the symbols joined up.
LEMMA PositionsKept ==
    ASSUME PositionsAreWhatPairsLeft, UNCHANGED <<pairCount, book, deals>>,
           \A i \in PairIds : pairs'[i].symbol = pairs[i].symbol,
           pairCount \in 0..MaxPairs
    PROVE  PositionsAreWhatPairsLeft'
  <1>1. 1..pairCount \subseteq PairIds
    BY MaxPairsAssumption DEF PairIds
  <1>2. \A i \in 1..pairCount, n \in 1..(pairCount + 1) :
            NewestBefore(i, n)' => NewestBefore(i, n)
    BY <1>1 DEF NewestBefore
  <1> QED
    BY <1>1, <1>2 DEF PositionsAreWhatPairsLeft

\* Every step keeps the accounts of the successive pairs of a symbol joined up.
LEMMA NextPositions ==
    ASSUME Inductive, PositionsAreWhatPairsLeft, [Next]_vars
    PROVE  PositionsAreWhatPairsLeft'
  <1>type. TypeOK /\ run \in Run /\ pairCount \in 0..MaxPairs
    BY DEF Inductive, TypeOK
  <1>cur. run.step \in PairSteps => run.cur \in PairIds
    BY <1>type DEF Inductive, RowsInOrder, Run, NoPair
  <1>upd. ASSUME run.step \in PairSteps, NEW status \in PairStatus, NEW resolved \in BOOLEAN,
                 UpdatePairStatus(status, resolved), UNCHANGED <<pairCount, book, deals>>
          PROVE  PositionsAreWhatPairsLeft'
    BY <1>upd, <1>type, <1>cur, UpdateEffect, PositionsKept
  <1>1. CASE UNCHANGED <<pairs, pairCount, book, deals>>
    BY <1>1, <1>type, PositionsKept
  <1>2. CASE PersistPair
    BY <1>2, PositionsFound
  <1>3. CASE RefusePair \/ MarkPartial \/ MarkCompleting \/ MarkCompensating
    BY <1>3, <1>upd DEF RefusePair, MarkPartial, MarkCompleting, MarkCompensating, history,
                        PairSteps, Steps, PairStatus
  <1>4. CASE FinishPair
    <2>1. FinalStatus \in PairStatus
      BY DEF FinalStatus, DetermineExecutionOutcome, PairStatus
    <2> QED
      BY <1>4, <2>1, <1>upd DEF FinishPair, history, PairSteps, Steps
  <1>5. CASE FillLeg \/ CloseLeg
    <2>1. LegSide(run.leg) \in Sides /\ Opposite(LegSide(run.leg)) \in Sides
      BY <1>type DEF LegSide, Opposite, Sides, Run
    <2> QED
      BY <1>5, <2>1, PositionsFilled DEF FillLeg, CloseLeg, PairSteps, Steps
  <1> QED
    BY <1>1, <1>2, <1>3, <1>4, <1>5
       DEF Next, Work, StartCycle, CheckSymbol, SkipSymbol, AssessPair, DrawLegs,
           InsertLegDecision, RetryMissingLeg, RecordIncident, CycleError, Crash, Restart,
           vars, tables, history

-----------------------------------------------------------------------------
(* What the tables hold of the pair at hand.                               *)

\* The fields of the process after each kind of move.
LEMMA FillFields ==
    ASSUME run \in Run
    PROVE  /\ AfterLegFill.cur = run.cur /\ AfterLegFill.at = run.at
           /\ AfterLegFill.stage = run.stage /\ AfterLegFill.filled = run.filled
           /\ AfterLegFill.accept = run.accept
           /\ AfterLegFill.side = run.side /\ AfterLegFill.qty = run.qty
           /\ AfterLegFill.step = CASE run.stage = "both" /\ run.leg = Spot -> "insert_leg"
                                    [] run.stage = "both" /\ run.leg = Futures -> "finish"
                                    [] run.stage = "first" -> "mark_completing"
                                    [] run.stage = "missing" -> "incident"
           /\ AfterLegFill.leg = IF run.stage = "both" THEN Futures ELSE run.leg
  <1> DEFINE second == [[run EXCEPT !.leg = Futures] EXCEPT !.step = "insert_leg"]
  <1>1. /\ second.cur = run.cur /\ second.at = run.at /\ second.stage = run.stage
        /\ second.filled = run.filled /\ second.accept = run.accept
        /\ second.side = run.side /\ second.qty = run.qty
        /\ second.step = "insert_leg" /\ second.leg = Futures
    BY DEF Run
  <1>2. run.stage \in {"both", "first", "missing"} /\ run.leg \in {Spot, Futures} /\ Spot # Futures
    BY DEF Run, Stages, Markets, Spot, Futures
  <1>3. DecideCompletionAttempt(0, 0, 0)
    BY DEF DecideCompletionAttempt, MaxCompletionAttempts, MaxEdgeDegradation
  <1>4. CASE run.stage = "both" /\ run.leg = Spot
    <2>1. AfterLegFill = second
      BY <1>4, <1>2 DEF AfterLegFill
    <2> QED
      BY <1>1, <1>2, <1>4, <2>1
  <1>5. CASE run.stage = "both" /\ run.leg = Futures
    <2>1. AfterLegFill = GoTo("finish")
      BY <1>5, <1>2 DEF AfterLegFill
    <2> QED
      BY <1>2, <1>5, <2>1, GoToFields
  <1>6. CASE run.stage = "first"
    <2>1. AfterLegFill = GoTo("mark_completing")
      BY <1>6, <1>2, <1>3 DEF AfterLegFill
    <2> QED
      BY <1>2, <1>6, <2>1, GoToFields
  <1>7. CASE run.stage = "missing"
    <2>1. AfterLegFill = GoTo("incident")
      BY <1>7, <1>2 DEF AfterLegFill
    <2> QED
      BY <1>2, <1>7, <2>1, GoToFields
  <1> QED
    BY <1>2, <1>4, <1>5, <1>6, <1>7

\* The locals of execute_pair once the outcomes of both legs are known.
LEMMA DrawFields ==
    ASSUME run \in Run, NEW filled \in SUBSET Markets, DrawLegs(filled)
    PROVE  /\ run'.cur = run.cur /\ run'.at = run.at /\ run'.accept = run.accept
           /\ run'.side = run.side /\ run'.qty = run.qty
           /\ run'.filled = filled
           /\ run'.stage = IF filled \in {{}, Markets} THEN "both" ELSE "first"
           /\ run'.leg = IF Spot \in filled \/ filled = {} THEN Spot ELSE Futures
           /\ run'.step = IF filled = Markets THEN "insert_leg"
                          ELSE IF filled = {} THEN "finish" ELSE "mark_partial"
  <1>1. DetermineExecutionOutcome(filled) =
            IF filled = Markets THEN "both_filled"
            ELSE IF filled = {} THEN "both_rejected" ELSE "partial_execution"
    BY DEF DetermineExecutionOutcome
  <1> QED
    BY <1>1 DEF DrawLegs, Run

\* The locals of handle_partial_execution once the retry of the missing leg is known.
LEMMA RetryFields ==
    ASSUME run \in Run, NEW success \in BOOLEAN, RetryMissingLeg(success)
    PROVE  /\ run'.cur = run.cur /\ run'.at = run.at /\ run'.accept = run.accept
           /\ run'.side = run.side /\ run'.qty = run.qty
           /\ success => /\ run'.filled = Markets /\ run'.leg = OtherMarket(run.leg)
                         /\ run'.stage = "missing" /\ run'.step = "insert_leg"
           /\ ~success => /\ run'.filled = run.filled /\ run'.leg = run.leg
                          /\ run'.stage = run.stage /\ run'.step = "mark_compensating"
  BY DEF RetryMissingLeg, AfterRetry, GoTo, Run

\* Idle is a process between pairs.
LEMMA StageFitsIdle ==
    ASSUME NEW step \in {"down", "sleep", "check"}, NEW k, run' = Idle(step, k)
    PROVE  StageFitsStep'
  BY DEF StageFitsStep, Idle, NoPair

\* A step on the pair at hand that keeps its row's acceptance.
LEMMA AcceptKept ==
    ASSUME Inductive, run.step \in PairSteps, NEW status \in PairStatus, NEW resolved \in BOOLEAN,
           UpdatePairStatus(status, resolved)
    PROVE  pairs'[run.cur].accept = pairs[run.cur].accept
  <1>1. TypeOK /\ run.cur \in PairIds
    BY DEF Inductive, RowsInOrder, TypeOK, Run, NoPair
  <1> QED
    BY <1>1, UpdateEffect

\* Every step keeps the locals in agreement with the place in the code: which legs are
\* filled, whether the pair is partial, and whether the risk check accepted it.
LEMMA NextStageFitsStep ==
    ASSUME Inductive, StageFitsStep, [Next]_vars
    PROVE  StageFitsStep'
  <1>run. run \in Run
    BY DEF Inductive, TypeOK
  <1>cur. run.step \in PairSteps => run.cur # NoPair
    BY DEF Inductive, RowsInOrder
  <1>next. ASSUME run' = NextSymbol PROVE StageFitsStep'
    BY <1>next, StageFitsIdle DEF NextSymbol
  <1>1. CASE StartCycle \/ SkipSymbol \/ RefusePair \/ FinishPair \/ CycleError \/ Crash \/ Restart
    BY <1>1, <1>next, StageFitsIdle
       DEF StartCycle, SkipSymbol, RefusePair, FinishPair, CycleError, Crash, Restart
  <1>2. CASE CheckSymbol
    <2>1. CASE run' = GoTo("assess")
      BY <1>2, <2>1, <1>run, GoToFields
         DEF CheckSymbol, StageFitsStep, Inductive, RowsInOrder, PairSteps, Steps
    <2> QED
      BY <1>2, <2>1, <1>next DEF CheckSymbol
  <1>3. ASSUME NEW side \in SpotSides, NEW qty \in Quantities, NEW accept \in BOOLEAN,
               AssessPair(side, qty, accept)
        PROVE  StageFitsStep'
    <2>1. /\ run'.step = "persist" /\ run'.stage = run.stage /\ run'.filled = run.filled
          /\ run'.leg = run.leg /\ run'.cur = run.cur
      BY <1>3, <1>run DEF AssessPair, Run
    <2>2. run.cur = NoPair /\ run.step = "assess"
      BY <1>3 DEF AssessPair, Inductive, RowsInOrder, PairSteps
    <2> QED
      BY <2>1, <2>2 DEF StageFitsStep
  <1>4. CASE PersistPair
    <2>1. /\ run'.step = IF run.accept THEN "draw" ELSE "refuse"
          /\ run'.stage = run.stage /\ run'.filled = run.filled /\ run'.leg = run.leg
          /\ run'.cur = pairCount + 1 /\ run'.accept = run.accept
      BY <1>4, <1>run DEF PersistPair, Run
    <2>2. pairCount \in Nat /\ pairCount + 1 \in PairIds /\ pairCount + 1 \notin partial
      BY <1>4, MaxPairsAssumption DEF PersistPair, PairIds, Inductive, TypeOK, RowsInOrder
    <2>3. pairs'[pairCount + 1].accept = run.accept
      BY <1>4, <2>2 DEF PersistPair, Inductive, TypeOK
    <2>4. partial' = partial
      BY <1>4 DEF PersistPair
    <2>5. run.stage = "both" /\ run.filled = {} /\ run.leg = Spot
      BY <1>4 DEF PersistPair, StageFitsStep
    <2> QED
      BY <2>1, <2>2, <2>3, <2>4, <2>5 DEF StageFitsStep, NoPair
  <1>5. ASSUME NEW filled \in SUBSET Markets, DrawLegs(filled)
        PROVE  StageFitsStep'
    <2>1. pairs' = pairs /\ partial' = partial /\ run.step = "draw"
      BY <1>5 DEF DrawLegs, tables, history
    <2>2. run.accept /\ run.cur \notin partial /\ pairs[run.cur].accept = run.accept
      BY <2>1, <1>cur DEF StageFitsStep, PairSteps, Steps
    <2> QED
      BY <1>5, <1>run, <2>1, <2>2, DrawFields DEF StageFitsStep
  <1>6. CASE MarkPartial
    <2>1. pairs'[run.cur].accept = pairs[run.cur].accept
      BY <1>6, AcceptKept DEF MarkPartial, PairSteps, Steps, PairStatus
    <2> QED
      BY <1>6, <2>1, <1>run, <1>cur, GoToFields DEF MarkPartial, StageFitsStep, PairSteps, Steps
  <1>7. CASE InsertLegDecision
    BY <1>7, <1>run, <1>cur, GoToFields
       DEF InsertLegDecision, StageFitsStep, history, PairSteps, Steps
  <1>8. CASE FillLeg
    <2>1. run.stage \in {"both", "first", "missing"} /\ run.leg \in {Spot, Futures}
      BY <1>run DEF Run, Stages, Markets
    <2>2. run.stage = "both" => run.filled = Markets
      BY <1>8 DEF FillLeg, StageFitsStep
    <2>3. /\ pairs' = pairs /\ partial' = partial /\ run.step = "fill_leg"
          /\ run' = AfterLegFill /\ run.cur # NoPair
      BY <1>8, <1>cur DEF FillLeg, PairSteps, Steps
    <2>4. /\ run.accept /\ pairs[run.cur].accept = run.accept
          /\ run.cur \in partial <=> run.stage # "both"
      BY <2>3 DEF StageFitsStep
    <2>5. /\ run'.cur = run.cur /\ run'.accept = run.accept /\ run'.stage = run.stage
          /\ run'.filled = run.filled
          /\ run'.step \in {"insert_leg", "finish", "mark_completing", "incident"}
          /\ run'.step = "mark_completing" => run.stage = "first"
          /\ run'.step = "incident" => run.stage # "both"
      BY <1>run, <2>1, <2>3, FillFields
    <2>6. run.stage = "missing" => run.filled = Markets
      BY DEF StageFitsStep
    <2> QED
      BY <2>2, <2>3, <2>4, <2>5, <2>6 DEF StageFitsStep
  <1>9. CASE MarkCompleting
    <2>1. pairs'[run.cur].accept = pairs[run.cur].accept
      BY <1>9, AcceptKept DEF MarkCompleting, PairSteps, Steps, PairStatus
    <2> QED
      BY <1>9, <2>1, <1>run, <1>cur, GoToFields
         DEF MarkCompleting, StageFitsStep, history, PairSteps, Steps
  <1>10. ASSUME NEW success \in BOOLEAN, RetryMissingLeg(success)
         PROVE  StageFitsStep'
    <2>1. pairs' = pairs /\ partial' = partial /\ run.step = "retry" /\ run.cur # NoPair
      BY <1>10, <1>cur DEF RetryMissingLeg, tables, history, PairSteps, Steps
    <2>2. run.accept /\ run.cur \in partial /\ pairs[run.cur].accept = run.accept /\ run.stage = "first"
      BY <2>1 DEF StageFitsStep
    <2> QED
      BY <1>10, <1>run, <2>1, <2>2, RetryFields DEF StageFitsStep
  <1>11. CASE MarkCompensating
    <2>1. pairs'[run.cur].accept = pairs[run.cur].accept
      BY <1>11, AcceptKept DEF MarkCompensating, PairSteps, Steps, PairStatus
    <2> QED
      BY <1>11, <2>1, <1>run, <1>cur, GoToFields
         DEF MarkCompensating, StageFitsStep, history, PairSteps, Steps
  <1>12. CASE CloseLeg
    BY <1>12, <1>run, <1>cur, GoToFields DEF CloseLeg, StageFitsStep, PairSteps, Steps
  <1>13. CASE RecordIncident
    BY <1>13, <1>run, <1>cur, GoToFields
       DEF RecordIncident, StageFitsStep, history, PairSteps, Steps
  <1>14. CASE UNCHANGED vars
    BY <1>14 DEF vars, StageFitsStep
  <1> QED
    BY <1>1, <1>2, <1>3, <1>4, <1>5, <1>6, <1>7, <1>8, <1>9, <1>10, <1>11, <1>12, <1>13, <1>14
       DEF Next, Work

\* Inserting the leg of a market adds it to the markets that have a leg.
LEMMA OnesAdd ==
    ASSUME NEW S \in SUBSET Markets, NEW m \in Markets, m \notin S
    PROVE  [Ones(S) EXCEPT ![m] = @ + 1] = Ones(S \union {m})
  <1> DEFINE added == [Ones(S) EXCEPT ![m] = @ + 1]
  <1>1. added = [n \in Markets |-> IF n = m THEN Ones(S)[m] + 1 ELSE Ones(S)[n]]
    BY DEF Ones
  <1>2. \A n \in Markets : Ones(S)[n] = IF n \in S THEN 1 ELSE 0
    BY DEF Ones
  <1>3. \A n \in Markets :
            (IF n = m THEN Ones(S)[m] + 1 ELSE Ones(S)[n]) = IF n \in S \union {m} THEN 1 ELSE 0
    BY <1>2
  <1> HIDE DEF added
  <1> QED
    BY <1>1, <1>3 DEF Ones

\* Leaving the pair at hand, or moving within it without a trace, keeps the accounts.
LEMMA AccountsKept ==
    ASSUME Accounts, UNCHANGED <<pairCount, legs, incidents, deals>>,
           \/ run'.cur = NoPair
           \/ /\ run'.cur = run.cur /\ run'.side = run.side /\ run'.qty = run.qty
              /\ SentSoFar' = SentSoFar /\ OpenSoFar' = OpenSoFar /\ ShutSoFar' = ShutSoFar
              /\ IncidentSoFar' = IncidentSoFar
    PROVE  Accounts'
  <1>1. CASE run'.cur = NoPair
    BY <1>1 DEF Accounts
  <1>2. CASE run'.cur # NoPair
    <2>1. \A m \in Markets : DoneSoFar(run.cur, m) => DoneSoFar(run.cur, m)'
      BY <1>2 DEF DoneSoFar, Compensated, Kept, Intact, TakesOff, Left, Found, DealSide
    <2> QED
      BY <1>2, <2>1 DEF Accounts, DoneSoFar, Compensated, Kept, Intact, TakesOff, Left, Found, DealSide
  <1> QED
    BY <1>1, <1>2

\* A fill of that side has nothing to add to in a position of q units.
Takes(m, q, side) == IF m = Spot THEN side = Sell ELSE q # 0 /\ ~SameDirection(q, side)

\* What apply_fill makes of a position of q units: the leg is added to it or takes it off
\* whole, and the opposite fill then leaves nothing or opens on the other side.
LEMMA LegArithmetic ==
    ASSUME NEW m \in Markets, NEW q \in Int, NEW side \in Sides, NEW n \in Nat
    PROVE  /\ ApplyFill(m, q, side, n) = IF Takes(m, q, side) THEN 0 ELSE q + Signed(side, n)
           /\ ApplyFill(m, ApplyFill(m, q, side, n), Opposite(side), n) =
                  IF Takes(m, q, side) THEN Signed(Opposite(side), n) ELSE 0
  <1>1. m \in {Spot, Futures} /\ Spot # Futures /\ side \in {Buy, Sell} /\ Buy # Sell
    BY DEF Markets, Sides, Spot, Futures, Buy, Sell
  <1>2. CASE m = Spot
    BY <1>1, <1>2 DEF Takes, ApplyFill, SpotFill, Signed, Opposite
  <1>3. CASE m = Futures
    BY <1>1, <1>3 DEF Takes, ApplyFill, FuturesFill, Signed, Opposite, SameDirection
  <1> QED
    BY <1>1, <1>2, <1>3

\* The side of a leg, as the process and as the deal of its pair have it.
LEMMA LegSides ==
    ASSUME run \in Run, deals[run.cur].side = run.side
    PROVE  \A m \in Markets : DealSide(run.cur, m) = LegSide(m) /\ LegSide(m) \in Sides
  BY DEF DealSide, LegSide, Opposite, Sides, Run

\* A fill leaves the other market of the pair at hand as it was.
LEMMA OtherLeg ==
    ASSUME Inductive, run.step \in PairSteps, NEW side \in Sides, Fill(side),
           NEW i \in PairIds, i = run.cur, NEW m \in Markets, m # run.leg
    PROVE  /\ Kept(i, m) => Kept(i, m)'
           /\ Intact(i, m) => Intact(i, m)'
  <1>1. deals[i].left \in [Markets -> Int]
    BY DEF Inductive, TypeOK, Deal
  <1>2. /\ deals'[i].left[m] = deals[i].left[m] /\ deals'[i].found = deals[i].found
        /\ deals'[i].side = deals[i].side /\ deals'[i].qty = deals[i].qty
    BY <1>1, FillEffect
  <1> QED
    BY <1>2 DEF Kept, Intact, TakesOff, Left, Found, DealSide

\* The fill of a leg: the pair at hand has left what ApplyFill makes of what it had left.
LEMMA ThisLeg ==
    ASSUME Inductive, PositionsAreWhatPairsLeft, run.step \in PairSteps,
           NEW side \in Sides, Fill(side), NEW i \in PairIds, i = run.cur,
           deals[i].side = run.side, deals[i].qty = run.qty
    PROVE  /\ deals'[i].left[run.leg] = ApplyFill(run.leg, deals[i].left[run.leg], side, deals[i].qty)
           /\ deals'[i].found = deals[i].found
           /\ deals'[i].side = deals[i].side /\ deals'[i].qty = deals[i].qty
  <1>1. run.cur = pairCount /\ pairs[run.cur].symbol = Symbol /\ run.cur \in 1..pairCount
    BY MaxPairsAssumption DEF Inductive, RowsInOrder, TypeOK, Run, NoPair, PairIds
  <1>2. book[Symbol] = deals[i].left
    BY <1>1 DEF PositionsAreWhatPairsLeft, NewestBefore
  <1>3. deals[i].left \in [Markets -> Int] /\ run.leg \in Markets
    BY DEF Inductive, TypeOK, Deal, Run
  <1>4. deals'[i].left = [deals[i].left EXCEPT
                             ![run.leg] = ApplyFill(run.leg, book[Symbol][run.leg], side, run.qty)]
    BY FillEffect
  <1>5. /\ deals'[i].found = deals[i].found
        /\ deals'[i].side = deals[i].side /\ deals'[i].qty = deals[i].qty
    BY FillEffect
  <1> QED
    BY <1>2, <1>3, <1>4, <1>5

\* Kept and Compensated, in the terms of LegArithmetic.
LEMMA DealsSay ==
    ASSUME NEW i \in PairIds, NEW m \in Markets
    PROVE  /\ Kept(i, m) <=>
                  deals[i].left[m] = IF Takes(m, deals[i].found[m], DealSide(i, m)) THEN 0
                                     ELSE deals[i].found[m] + Signed(DealSide(i, m), deals[i].qty)
           /\ Compensated(i, m) <=>
                  deals[i].left[m] = IF Takes(m, deals[i].found[m], DealSide(i, m))
                                     THEN Signed(Opposite(DealSide(i, m)), deals[i].qty) ELSE 0
  BY DEF Kept, Compensated, TakesOff, Takes, Left, Found

\* A fill changes what a deal has left, and neither its side nor its quantity.
LEMMA SameDeal ==
    ASSUME NEW i \in PairIds, NEW m \in Markets, deals'[i].found = deals[i].found,
           deals'[i].side = deals[i].side, deals'[i].qty = deals[i].qty
    PROVE  /\ DealSide(i, m)' = DealSide(i, m)
           /\ Kept(i, m)' <=>
                  deals'[i].left[m] = IF Takes(m, deals[i].found[m], DealSide(i, m)) THEN 0
                                      ELSE deals[i].found[m] + Signed(DealSide(i, m), deals[i].qty)
           /\ Compensated(i, m)' <=>
                  deals'[i].left[m] = IF Takes(m, deals[i].found[m], DealSide(i, m))
                                      THEN Signed(Opposite(DealSide(i, m)), deals[i].qty) ELSE 0
  <1>1. DealSide(i, m)' = DealSide(i, m)
    BY DEF DealSide
  <1> QED
    BY <1>1 DEF Kept, Compensated, TakesOff, Takes, Left, Found

\* The fill of a leg, in a market the pair has not touched, is an account of that leg.
LEMMA LegOpened ==
    ASSUME Inductive, PositionsAreWhatPairsLeft, FillLeg, NEW i \in PairIds, i = run.cur,
           NEW m \in Markets, m = run.leg, Intact(i, m),
           deals[i].side = run.side, deals[i].qty = run.qty
    PROVE  Kept(i, m)'
  <1>1. run \in Run /\ deals[i] \in Deal /\ deals[i].found[m] \in Int /\ deals[i].qty \in Nat
    BY DEF Inductive, TypeOK, Deal
  <1>2. DealSide(i, m) = LegSide(m) /\ LegSide(m) \in Sides
    BY <1>1, LegSides
  <1>3. /\ deals'[i].left[m] = ApplyFill(m, deals[i].found[m], DealSide(i, m), deals[i].qty)
        /\ deals'[i].found = deals[i].found
        /\ deals'[i].side = deals[i].side /\ deals'[i].qty = deals[i].qty
    BY <1>2, ThisLeg DEF FillLeg, PairSteps, Steps, Intact, Left, Found
  <1>4. deals'[i].left[m] = IF Takes(m, deals[i].found[m], DealSide(i, m)) THEN 0
                            ELSE deals[i].found[m] + Signed(DealSide(i, m), deals[i].qty)
    BY <1>1, <1>2, <1>3, LegArithmetic
  <1> QED
    BY <1>3, <1>4, SameDeal

\* The opposite fill of the leg that was kept is an account of its compensation.
LEMMA LegClosed ==
    ASSUME Inductive, PositionsAreWhatPairsLeft, CloseLeg, NEW i \in PairIds, i = run.cur,
           NEW m \in Markets, m = run.leg, Kept(i, m),
           deals[i].side = run.side, deals[i].qty = run.qty
    PROVE  Compensated(i, m)'
  <1>1. run \in Run /\ deals[i] \in Deal /\ deals[i].found[m] \in Int /\ deals[i].qty \in Nat
    BY DEF Inductive, TypeOK, Deal
  <1>2. DealSide(i, m) = LegSide(m) /\ LegSide(m) \in Sides /\ Opposite(LegSide(m)) \in Sides
    BY <1>1, LegSides DEF Opposite, Sides
  <1>3. /\ deals'[i].left[m] = ApplyFill(m, deals[i].left[m], Opposite(DealSide(i, m)), deals[i].qty)
        /\ deals'[i].found = deals[i].found
        /\ deals'[i].side = deals[i].side /\ deals'[i].qty = deals[i].qty
    BY <1>2, ThisLeg DEF CloseLeg, PairSteps, Steps
  <1>4. deals[i].left[m] = ApplyFill(m, deals[i].found[m], DealSide(i, m), deals[i].qty)
    BY <1>1, <1>2, LegArithmetic, DealsSay
  <1>5. deals'[i].left[m] = IF Takes(m, deals[i].found[m], DealSide(i, m))
                            THEN Signed(Opposite(DealSide(i, m)), deals[i].qty) ELSE 0
    BY <1>1, <1>2, <1>3, <1>4, LegArithmetic
  <1> QED
    BY <1>3, <1>5, SameDeal

\* The leg being opened is not among those already open.
LEMMA LegToOpen ==
    ASSUME run \in Run, run.step \in {"insert_leg", "fill_leg"}
    PROVE  run.leg \in Markets /\ run.leg \notin OpenSoFar /\ OpenSoFar \in SUBSET Markets
  <1>1. run.stage \in {"both", "first", "missing"} /\ run.leg \in {Spot, Futures} /\ Spot # Futures
    BY DEF Run, Stages, Markets, Spot, Futures
  <1> QED
    BY <1>1 DEF OpenSoFar, Markets

\* Every step keeps the legs and the incidents of the pair at hand in agreement with how
\* far its execution has come.
LEMMA NextAccounts ==
    ASSUME Inductive, StageFitsStep, Accounts, PositionsAreWhatPairsLeft, [Next]_vars
    PROVE  Accounts'
  <1>type. TypeOK /\ run \in Run
    BY DEF Inductive, TypeOK
  <1>cur. run.step \in PairSteps => run.cur # NoPair /\ run.cur \in PairIds /\ run.cur = pairCount
    BY <1>type DEF Inductive, RowsInOrder, Run, NoPair
  <1>kinds. /\ run.stage \in {"both", "first", "missing"}
            /\ run.leg \in {Spot, Futures} /\ Spot # Futures /\ Markets = {Spot, Futures}
    BY <1>type DEF Run, Stages, Markets, Spot, Futures
  <1>same. ASSUME run.cur # NoPair, run'.cur = run.cur, run'.stage = run.stage, run'.leg = run.leg,
                  run'.filled = run.filled, run'.side = run.side, run'.qty = run.qty,
                  \/ run.stage = "first" /\ run.step \in {"mark_completing", "retry", "mark_compensating"}
                     /\ run'.step \in {"retry", "mark_compensating", "close_leg"}
                  \/ run.stage = "first" /\ run.step = "mark_partial" /\ run'.step = "insert_leg",
                  UNCHANGED <<pairCount, legs, incidents, deals>>
           PROVE  Accounts'
    <2>1. OpenSoFar' = OpenSoFar /\ SentSoFar' = SentSoFar
      BY <1>same DEF SentSoFar, OpenSoFar
    <2>2. ShutSoFar' = ShutSoFar /\ IncidentSoFar' = IncidentSoFar
      BY <1>same DEF ShutSoFar, IncidentSoFar
    <2> QED
      BY <1>same, <2>1, <2>2, AccountsKept
  <1>1. CASE \/ StartCycle \/ SkipSymbol \/ RefusePair \/ FinishPair \/ CycleError \/ Crash \/ Restart
             \/ CheckSymbol /\ run' = NextSymbol
    <2>1. run' = NextSymbol \/ \E step \in Steps : run' = Idle(step, 1)
      BY <1>1 DEF StartCycle, SkipSymbol, RefusePair, FinishPair, CycleError, Crash, Restart, Steps
    <2>3. run'.cur = NoPair
      BY <2>1, NextSymbolFields DEF Idle
    <2>2. UNCHANGED <<pairCount, legs, incidents, deals>>
      BY <1>1 DEF StartCycle, SkipSymbol, RefusePair, FinishPair, CycleError, Crash, Restart,
                  CheckSymbol, tables, history
    <2> QED
      BY <2>2, <2>3, AccountsKept
  <1>2. CASE CheckSymbol /\ run' = GoTo("assess")
    <2>1. run'.cur = NoPair
      BY <1>2, <1>type, GoToFields DEF CheckSymbol, Inductive, RowsInOrder, PairSteps
    <2> QED
      BY <1>2, <2>1, AccountsKept DEF CheckSymbol, tables, history
  <1>3. ASSUME NEW side \in SpotSides, NEW qty \in Quantities, NEW accept \in BOOLEAN,
               AssessPair(side, qty, accept)
        PROVE  Accounts'
    <2>1. run'.cur = NoPair
      BY <1>3, <1>type DEF AssessPair, Run, Inductive, RowsInOrder, PairSteps
    <2> QED
      BY <1>3, <2>1, AccountsKept DEF AssessPair, tables, history
  <1>4. CASE PersistPair
    <2>1. /\ run'.step = IF run.accept THEN "draw" ELSE "refuse"
          /\ run'.stage = "both" /\ run'.filled = {} /\ run'.leg = Spot
          /\ run'.cur = pairCount + 1 /\ run'.side = run.side /\ run'.qty = run.qty
      BY <1>4, <1>type DEF PersistPair, Run, StageFitsStep
    <2>2. pairCount \in Nat /\ pairCount + 1 \in PairIds /\ pairCount' = pairCount + 1
      BY <1>4, MaxPairsAssumption DEF PersistPair, PairIds, TypeOK, Inductive
    <2>3. legs[pairCount + 1] = NoLegs /\ incidents[pairCount + 1] = NoIncident
      BY <2>2 DEF Accounts
    <2>4. /\ SentSoFar' = {} /\ OpenSoFar' = {} /\ ShutSoFar' = {}
          /\ IncidentSoFar' = NoIncident
      BY <2>1 DEF SentSoFar, OpenSoFar, ShutSoFar, IncidentSoFar, NoIncident
    <2>5. Ones({}) = NoLegs
      BY DEF Ones, NoLegs
    <2>6. UNCHANGED <<legs, incidents>>
      BY <1>4 DEF PersistPair
    <2>7. deals'[pairCount + 1] = [side |-> run.side, qty |-> run.qty,
                                   found |-> book[Symbol], left |-> book[Symbol]]
      BY <1>4, <1>type, <2>2 DEF PersistPair, TypeOK
    <2>8. \A m \in Markets : DoneSoFar(run.cur, m)'
      BY <2>1, <2>4, <2>7 DEF DoneSoFar, Intact, Left, Found
    <2>9. \A i \in PairIds : i > pairCount' => i > pairCount
      BY <2>2 DEF PairIds
    <2> QED
      BY <2>1, <2>2, <2>3, <2>4, <2>5, <2>6, <2>7, <2>8, <2>9 DEF Accounts
  <1>5. ASSUME NEW filled \in SUBSET Markets, DrawLegs(filled)
        PROVE  Accounts'
    <2>1. run.stage = "both" /\ run.step = "draw" /\ run'.cur = run.cur
      BY <1>5, <1>type, DrawFields DEF StageFitsStep, DrawLegs
    <2>2. OpenSoFar = {} /\ SentSoFar = {} /\ ShutSoFar = {} /\ IncidentSoFar = NoIncident
      BY <2>1 DEF SentSoFar, OpenSoFar, ShutSoFar, IncidentSoFar, NoIncident
    <2>3. OpenSoFar' = {}
      BY <1>5, <1>type, <1>kinds, DrawFields DEF OpenSoFar
    <2>4. SentSoFar' = {} /\ ShutSoFar' = {} /\ IncidentSoFar' = NoIncident
      BY <1>5, <1>type, <2>3, DrawFields DEF SentSoFar, ShutSoFar, IncidentSoFar, NoIncident
    <2> QED
      BY <1>5, <2>1, <2>2, <2>3, <2>4, AccountsKept DEF DrawLegs, tables, history
  <1>6. CASE MarkPartial
    BY <1>6, <1>type, <1>cur, <1>same, GoToFields
       DEF MarkPartial, StageFitsStep, PairSteps, Steps
  <1>7. CASE InsertLegDecision
    <2>1. /\ run.step = "insert_leg" /\ run'.step = "fill_leg" /\ run'.cur = run.cur
          /\ run'.stage = run.stage /\ run'.filled = run.filled /\ run'.leg = run.leg
          /\ run.cur \in PairIds /\ run.cur # NoPair
      BY <1>7, <1>type, <1>cur, GoToFields DEF InsertLegDecision, PairSteps, Steps
    <2>2. OpenSoFar' = OpenSoFar /\ ShutSoFar' = ShutSoFar /\ IncidentSoFar' = IncidentSoFar
      BY <2>1 DEF OpenSoFar, ShutSoFar, IncidentSoFar
    <2>3. SentSoFar = OpenSoFar /\ SentSoFar' = OpenSoFar \union {run.leg}
      BY <2>1, <2>2 DEF SentSoFar
    <2>4. legs'[run.cur] = [legs[run.cur] EXCEPT ![run.leg] = @ + 1]
          /\ \A j \in PairIds : j # run.cur => legs'[j] = legs[j]
      BY <1>7, <1>type, <2>1 DEF InsertLegDecision, TypeOK
    <2>5. legs'[run.cur] = Ones(SentSoFar')
      BY <2>1, <2>3, <2>4, <1>type, LegToOpen, OnesAdd DEF Accounts
    <2>6. UNCHANGED <<pairCount, incidents, deals>> /\ run'.side = run.side /\ run'.qty = run.qty
      BY <1>7, <1>type, GoToFields DEF InsertLegDecision, history
    <2>7. \A m \in Markets : DoneSoFar(run.cur, m) => DoneSoFar(run.cur, m)'
      BY <2>1, <2>2, <2>6 DEF DoneSoFar, Compensated, Kept, Intact, TakesOff, Left, Found, DealSide
    <2>8. \A m \in Markets : DoneSoFar(run.cur, m)'
      BY <2>1, <2>7
         DEF Accounts, DoneSoFar, Compensated, Kept, Intact, TakesOff, Left, Found, DealSide
    <2>9. \A j \in PairIds : j > pairCount => j # run.cur
      BY <1>cur, <2>1 DEF PairSteps, Steps, PairIds
    <2> QED
      BY <2>1, <2>2, <2>4, <2>5, <2>6, <2>8, <2>9 DEF Accounts
  <1>8. CASE FillLeg
    <2>1. /\ run.step = "fill_leg" /\ run' = AfterLegFill /\ run'.cur = run.cur
          /\ run.cur \in PairIds /\ run.cur # NoPair
      BY <1>8, <1>type, <1>cur, FillFields DEF FillLeg, PairSteps, Steps
    <2>2. run.stage = "both" => run.filled = Markets
      BY <2>1 DEF StageFitsStep
    <2>3. OpenSoFar' = OpenSoFar \union {run.leg}
      BY <1>type, <1>kinds, <2>1, <2>2, FillFields DEF OpenSoFar
    <2>4. SentSoFar = OpenSoFar \union {run.leg} /\ SentSoFar' = OpenSoFar'
      BY <1>type, <1>kinds, <2>1, FillFields DEF SentSoFar
    <2>5. ShutSoFar' = {} /\ ShutSoFar = {} /\ IncidentSoFar' = NoIncident /\ IncidentSoFar = NoIncident
      BY <1>type, <1>kinds, <2>1, FillFields DEF ShutSoFar, IncidentSoFar, NoIncident
    <2>6. run.leg \in Markets /\ run.leg \notin OpenSoFar
      BY <1>type, <2>1, LegToOpen
    <2>7. UNCHANGED <<pairCount, legs, incidents>> /\ run'.side = run.side /\ run'.qty = run.qty
      BY <1>8, <1>type, <2>1, FillFields DEF FillLeg
    <2>8. LegSide(run.leg) \in Sides /\ Fill(LegSide(run.leg)) /\ run.step \in PairSteps
      BY <1>8, <1>type DEF LegSide, Opposite, Sides, Run, FillLeg, PairSteps, Steps
    <2>9. deals'[run.cur].side = run.side /\ deals'[run.cur].qty = run.qty
      BY <2>1, <2>8, FillEffect DEF Accounts
    <2>10. ASSUME NEW i \in PairIds, i = run.cur, NEW m \in Markets
           PROVE  DoneSoFar(i, m)'
      <3>1. DoneSoFar(i, m) /\ deals[i].side = run.side /\ deals[i].qty = run.qty
        BY <2>1, <2>10 DEF Accounts
      <3>2. CASE m = run.leg
        <4>1. Intact(i, m)
          BY <2>6, <3>1, <3>2 DEF DoneSoFar
        <4>2. Kept(i, m)'
          BY <1>8, <2>10, <3>1, <3>2, <4>1, LegOpened
        <4> QED
          BY <2>3, <2>5, <3>2, <4>2 DEF DoneSoFar
      <3>3. CASE m # run.leg
        <4>1. (m \in OpenSoFar' <=> m \in OpenSoFar) /\ m \notin ShutSoFar /\ m \notin ShutSoFar'
          BY <2>3, <2>5, <3>3
        <4>2. (Kept(i, m) => Kept(i, m)') /\ (Intact(i, m) => Intact(i, m)')
          BY <2>8, <2>10, <3>3, OtherLeg
        <4> QED
          BY <3>1, <4>1, <4>2 DEF DoneSoFar
      <3> QED
        BY <3>2, <3>3
    <2>11. \A m \in Markets : DoneSoFar(run.cur, m)'
      BY <2>1, <2>10
    <2>12. \A j \in PairIds : j > pairCount => j # run.cur
      BY <1>cur, <2>1 DEF PairSteps, Steps, PairIds
    <2> QED
      BY <2>1, <2>3, <2>4, <2>5, <2>7, <2>9, <2>11, <2>12 DEF Accounts
  <1>9. CASE MarkCompleting
    BY <1>9, <1>type, <1>cur, <1>same, GoToFields
       DEF MarkCompleting, StageFitsStep, history, PairSteps, Steps
  <1>10. ASSUME NEW success \in BOOLEAN, RetryMissingLeg(success)
         PROVE  Accounts'
    <2>1. run.stage = "first" /\ run.step = "retry" /\ run.cur # NoPair /\ run'.cur = run.cur
      BY <1>10, <1>type, <1>cur, RetryFields DEF RetryMissingLeg, StageFitsStep, PairSteps, Steps
    <2>2. UNCHANGED <<pairCount, legs, incidents, deals>>
      BY <1>10 DEF RetryMissingLeg, tables, history
    <2>3. CASE success
      <3>1. run'.stage = "missing" /\ run'.step = "insert_leg" /\ run'.leg = OtherMarket(run.leg)
        BY <1>10, <1>type, <2>3, RetryFields
      <3>2. Markets \ {OtherMarket(run.leg)} = {run.leg}
        BY <1>kinds DEF OtherMarket
      <3>3. OpenSoFar' = OpenSoFar /\ SentSoFar' = SentSoFar
        BY <2>1, <3>1, <3>2 DEF OpenSoFar, SentSoFar
      <3>4. ShutSoFar' = ShutSoFar /\ IncidentSoFar' = IncidentSoFar
        BY <2>1, <3>1 DEF ShutSoFar, IncidentSoFar
      <3> QED
        BY <1>10, <1>type, <2>1, <2>2, <3>3, <3>4, RetryFields, AccountsKept
    <2>4. CASE ~success
      BY <1>10, <1>type, <1>same, <2>1, <2>2, <2>4, RetryFields
    <2> QED
      BY <2>3, <2>4
  <1>11. CASE MarkCompensating
    BY <1>11, <1>type, <1>cur, <1>same, GoToFields
       DEF MarkCompensating, StageFitsStep, history, PairSteps, Steps
  <1>12. CASE CloseLeg
    <2>1. /\ run.step = "close_leg" /\ run'.step = "incident" /\ run'.cur = run.cur
          /\ run.stage = "first" /\ run'.stage = "first" /\ run'.filled = run.filled
          /\ run'.leg = run.leg /\ run.cur \in PairIds /\ run.cur # NoPair
      BY <1>12, <1>type, <1>cur, GoToFields DEF CloseLeg, StageFitsStep, PairSteps, Steps
    <2>2. OpenSoFar' = OpenSoFar /\ SentSoFar' = SentSoFar /\ IncidentSoFar' = IncidentSoFar
      BY <2>1 DEF OpenSoFar, SentSoFar, IncidentSoFar
    <2>3. ShutSoFar = {} /\ ShutSoFar' = {} \union {run.leg}
      BY <2>1 DEF ShutSoFar
    <2>4. OpenSoFar = {run.leg} /\ run.leg \in Markets
      BY <1>type, <2>1 DEF OpenSoFar, Run
    <2>5. UNCHANGED <<pairCount, legs, incidents>> /\ run'.side = run.side /\ run'.qty = run.qty
      BY <1>12, <1>type, GoToFields DEF CloseLeg
    <2>6. /\ Opposite(LegSide(run.leg)) \in Sides /\ Fill(Opposite(LegSide(run.leg)))
          /\ run.step \in PairSteps
      BY <1>12, <1>type DEF LegSide, Opposite, Sides, Run, CloseLeg, PairSteps, Steps
    <2>7. deals'[run.cur].side = run.side /\ deals'[run.cur].qty = run.qty
      BY <2>1, <2>6, FillEffect DEF Accounts
    <2>8. ASSUME NEW i \in PairIds, i = run.cur, NEW m \in Markets
          PROVE  DoneSoFar(i, m)'
      <3>1. DoneSoFar(i, m) /\ deals[i].side = run.side /\ deals[i].qty = run.qty
        BY <2>1, <2>8 DEF Accounts
      <3>2. CASE m = run.leg
        <4>1. Kept(i, m)
          BY <2>3, <2>4, <3>1, <3>2 DEF DoneSoFar
        <4>2. Compensated(i, m)'
          BY <1>12, <2>8, <3>1, <3>2, <4>1, LegClosed
        <4> QED
          BY <2>2, <2>3, <2>4, <3>2, <4>2 DEF DoneSoFar
      <3>3. CASE m # run.leg
        <4>1. m \notin OpenSoFar /\ m \notin OpenSoFar' /\ m \notin ShutSoFar'
          BY <2>2, <2>3, <2>4, <3>3
        <4>2. Intact(i, m) => Intact(i, m)'
          BY <2>6, <2>8, <3>3, OtherLeg
        <4> QED
          BY <3>1, <4>1, <4>2 DEF DoneSoFar
      <3> QED
        BY <3>2, <3>3
    <2>9. \A m \in Markets : DoneSoFar(run.cur, m)'
      BY <2>1, <2>8
    <2>10. \A j \in PairIds : j > pairCount => j # run.cur
      BY <1>cur, <2>1 DEF PairSteps, Steps, PairIds
    <2> QED
      BY <2>1, <2>2, <2>5, <2>7, <2>9, <2>10 DEF Accounts
  <1>13. CASE RecordIncident
    <2>1. /\ run.step = "incident" /\ run'.step = "finish" /\ run'.cur = run.cur
          /\ run.stage # "both" /\ run'.stage = run.stage /\ run'.filled = run.filled
          /\ run'.leg = run.leg /\ run.cur \in PairIds /\ run.cur # NoPair
      BY <1>13, <1>type, <1>cur, GoToFields DEF RecordIncident, StageFitsStep, PairSteps, Steps
    <2>2. OpenSoFar' = OpenSoFar /\ SentSoFar' = SentSoFar /\ ShutSoFar' = ShutSoFar
      BY <2>1, <1>kinds DEF OpenSoFar, SentSoFar, ShutSoFar
    <2>3. incidents[run.cur] = NoIncident
      BY <2>1 DEF Accounts, IncidentSoFar, NoIncident
    <2>4. Resolution(run.stage) \in ResolutionAction
      BY DEF Resolution, ResolutionAction
    <2>5. incidents'[run.cur] = [incidents[run.cur] EXCEPT ![Resolution(run.stage)] = @ + 1]
          /\ \A j \in PairIds : j # run.cur => incidents'[j] = incidents[j]
      BY <1>13, <1>type, <2>1 DEF RecordIncident, TypeOK
    <2>6. incidents'[run.cur] = IncidentSoFar'
      BY <2>1, <2>3, <2>4, <2>5 DEF IncidentSoFar, NoIncident
    <2>7. UNCHANGED <<pairCount, legs, deals>> /\ run'.side = run.side /\ run'.qty = run.qty
      BY <1>13, <1>type, GoToFields DEF RecordIncident, history
    <2>8. \A j \in PairIds : j > pairCount => j # run.cur
      BY <1>cur, <2>1 DEF PairSteps, Steps, PairIds
    <2>9. \A m \in Markets : DoneSoFar(run.cur, m) => DoneSoFar(run.cur, m)'
      BY <2>1, <2>2, <2>7 DEF DoneSoFar, Compensated, Kept, Intact, TakesOff, Left, Found, DealSide
    <2> QED
      BY <2>1, <2>2, <2>5, <2>6, <2>7, <2>8, <2>9 DEF Accounts
  <1>14. CASE UNCHANGED vars
    <2>1. UNCHANGED <<pairCount, legs, incidents, deals, run>>
      BY <1>14 DEF vars
    <2> QED
      BY <2>1, AccountsKept DEF SentSoFar, OpenSoFar, ShutSoFar, IncidentSoFar
  <1> QED
    BY <1>1, <1>2, <1>3, <1>4, <1>5, <1>6, <1>7, <1>8, <1>9, <1>10, <1>11, <1>12, <1>13, <1>14
       DEF Next, Work, CheckSymbol

-----------------------------------------------------------------------------
(* What the tables hold of a settled pair.                                 *)

SettledFor(i) == Settled(i) => SettledPairAccounts(i)

JournalledFor(i) ==
    /\ IncidentCount(i) <= 1
    /\ IncidentCount(i) = 1 => i \in partial
    /\ Settled(i) /\ i \in partial =>
           IF pairs[i].status = "both_filled"
           THEN incidents[i]["completed_missing_leg"] = 1
           ELSE incidents[i]["compensated_open_leg"] = 1

\* The two properties of settled pairs, one pair at a time.
LEMMA PerPair ==
    /\ SettledPairsAccountForTheirLegs <=>
           (\A i \in PairIds : SettledFor(i)) /\ PositionsAreWhatPairsLeft
    /\ OneIncidentPerPartialExecution <=> \A i \in PairIds : JournalledFor(i)
  BY DEF SettledPairsAccountForTheirLegs, SettledFor,
         OneIncidentPerPartialExecution, JournalledFor

\* No leg, one leg and both legs, as counts per market.
LEMMA OnesForms ==
    /\ Ones({}) = NoLegs /\ Ones(Markets) = BothLegs
    /\ \A m \in Markets : Ones({m}) = OneLeg(m)
  BY DEF Ones, NoLegs, BothLegs, OneLeg

\* The pair a step settles is settled by RefusePair or by FinishPair.
LEMMA RefusedPair ==
    ASSUME InductiveAccounts, RefusePair, NEW i \in PairIds, i = run.cur
    PROVE  SettledFor(i)' /\ JournalledFor(i)'
  <1>1. TypeOK /\ run.cur # NoPair /\ run.step = "refuse"
    BY DEF InductiveAccounts, Inductive, RowsInOrder, RefusePair, PairSteps, Steps
  <1>2. run.stage = "both" /\ run.cur \notin partial /\ ~run.accept /\ ~pairs[i].accept
    BY <1>1 DEF InductiveAccounts, StageFitsStep
  <1>3. pairs'[i].status = "resolved" /\ ~pairs'[i].accept
    BY <1>1, <1>2, UpdateEffect DEF RefusePair, PairStatus
  <1>4. OpenSoFar = {} /\ SentSoFar = {} /\ ShutSoFar = {} /\ IncidentSoFar = NoIncident
    BY <1>1, <1>2 DEF SentSoFar, OpenSoFar, ShutSoFar, IncidentSoFar, NoIncident
  <1>5. legs[i] = NoLegs /\ incidents[i] = NoIncident /\ \A m \in Markets : Intact(i, m)
    BY <1>1, <1>4, OnesForms DEF InductiveAccounts, Accounts, DoneSoFar
  <1>6. UNCHANGED <<legs, incidents, deals, partial>>
    BY DEF RefusePair, history
  <1>7. SettledFor(i)'
    BY <1>3, <1>5, <1>6 DEF SettledFor, SettledPairAccounts, Intact, Left, Found
  <1> QED
    BY <1>2, <1>5, <1>6, <1>7 DEF JournalledFor, IncidentCount, NoIncident, ResolutionAction

\* The final update of an executed pair agrees with its legs and its incident.
LEMMA FinishedPair ==
    ASSUME InductiveAccounts, FinishPair, NEW i \in PairIds, i = run.cur
    PROVE  SettledFor(i)' /\ JournalledFor(i)'
  <1>1. TypeOK /\ run \in Run /\ run.cur # NoPair /\ run.step = "finish"
    BY DEF InductiveAccounts, Inductive, TypeOK, RowsInOrder, FinishPair, PairSteps, Steps
  <1>2. run.stage \in {"both", "first", "missing"} /\ run.leg \in Markets /\ {} # Markets
    BY <1>1 DEF Run, Stages, Markets
  <1>3. pairs[i].accept /\ (i \in partial <=> run.stage # "both")
    BY <1>1 DEF InductiveAccounts, StageFitsStep
  <1>4. FinalStatus \in PairStatus
    BY DEF FinalStatus, DetermineExecutionOutcome, PairStatus
  <1>5. pairs'[i].status = FinalStatus /\ pairs'[i].accept
    BY <1>1, <1>3, <1>4, UpdateEffect DEF FinishPair
  <1>6. /\ legs[i] = Ones(SentSoFar) /\ incidents[i] = IncidentSoFar
        /\ \A m \in Markets : DoneSoFar(i, m)
    BY <1>1 DEF InductiveAccounts, Accounts
  <1>7. UNCHANGED <<legs, incidents, deals, partial>>
    BY DEF FinishPair, history
  <1>11. \A m \in Markets :
             /\ (Kept(i, m) => Kept(i, m)')
             /\ (Compensated(i, m) => Compensated(i, m)')
             /\ (Intact(i, m) => Intact(i, m)')
    BY <1>7 DEF Kept, Compensated, Intact, TakesOff, Left, Found, DealSide
  <1>8. CASE run.stage = "both"
    <2>1. run.filled \in {{}, Markets}
      BY <1>1, <1>8 DEF InductiveAccounts, StageFitsStep
    <2>2. FinalStatus = IF run.filled = Markets THEN "both_filled" ELSE "both_rejected"
      BY <1>2, <1>8, <2>1 DEF FinalStatus, DetermineExecutionOutcome
    <2>3. OpenSoFar = run.filled /\ SentSoFar = run.filled /\ ShutSoFar = {}
      BY <1>1, <1>8 DEF SentSoFar, OpenSoFar, ShutSoFar
    <2>4. incidents[i] = NoIncident
      BY <1>6, <1>8 DEF IncidentSoFar, NoIncident
    <2>5. JournalledFor(i)'
      BY <1>3, <1>7, <1>8, <2>4 DEF JournalledFor, IncidentCount, NoIncident, ResolutionAction
    <2>6. SettledFor(i)'
      <3>1. CASE run.filled = Markets
        <4>1. legs'[i] = BothLegs /\ \A m \in Markets : Kept(i, m)'
          BY <1>6, <1>7, <1>11, <2>3, <3>1, OnesForms DEF DoneSoFar
        <4> QED
          BY <1>5, <2>2, <3>1, <4>1 DEF SettledFor, SettledPairAccounts
      <3>2. CASE run.filled = {}
        <4>1. legs'[i] = NoLegs /\ \A m \in Markets : Intact(i, m)'
          BY <1>6, <1>7, <1>11, <2>3, <3>2, OnesForms DEF DoneSoFar
        <4> QED
          BY <1>2, <1>5, <2>2, <3>2, <4>1 DEF SettledFor, SettledPairAccounts
      <3> QED
        BY <2>1, <3>1, <3>2
    <2> QED
      BY <2>5, <2>6
  <1>9. CASE run.stage = "first"
    <2>1. FinalStatus = "resolved"
      BY <1>9 DEF FinalStatus
    <2>2. OpenSoFar = {run.leg} /\ SentSoFar = {run.leg} /\ ShutSoFar = {run.leg}
      BY <1>1, <1>9 DEF SentSoFar, OpenSoFar, ShutSoFar
    <2>3. incidents[i] = [r \in ResolutionAction |-> IF r = "compensated_open_leg" THEN 1 ELSE 0]
      BY <1>1, <1>6, <1>9 DEF IncidentSoFar, Resolution
    <2>4. JournalledFor(i)'
      BY <1>3, <1>5, <1>7, <1>9, <2>1, <2>3 DEF JournalledFor, IncidentCount, ResolutionAction
    <2>5. PICK m \in Markets : m = run.leg
      BY <1>2
    <2>8. PICK other \in Markets : other = OtherMarket(m) /\ other # m
      BY <2>5 DEF OtherMarket, Markets, Spot, Futures
    <2>9. legs'[i] = OneLeg(m)
      BY <1>6, <1>7, <2>2, <2>5, OnesForms
    <2>10. Compensated(i, m) /\ Intact(i, other)
      BY <1>6, <2>2, <2>5, <2>8 DEF DoneSoFar
    <2>11. Compensated(i, m)' /\ Intact(i, other)'
      BY <1>11, <2>10
    <2>6. \E n \in Markets : legs'[i] = OneLeg(n) /\ Compensated(i, n)' /\ Intact(i, OtherMarket(n))'
      BY <2>5, <2>8, <2>9, <2>11
    <2>7. SettledFor(i)'
      BY <1>5, <2>1, <2>6 DEF SettledFor, SettledPairAccounts
    <2> QED
      BY <2>4, <2>7
  <1>10. CASE run.stage = "missing"
    <2>1. FinalStatus = "both_filled"
      BY <1>10 DEF FinalStatus, DetermineExecutionOutcome, InductiveAccounts, StageFitsStep
    <2>2. OpenSoFar = Markets /\ SentSoFar = Markets /\ ShutSoFar = {}
      BY <1>1, <1>10 DEF SentSoFar, OpenSoFar, ShutSoFar
    <2>3. incidents[i] = [r \in ResolutionAction |-> IF r = "completed_missing_leg" THEN 1 ELSE 0]
      BY <1>1, <1>6, <1>10 DEF IncidentSoFar, Resolution
    <2>4. JournalledFor(i)'
      BY <1>3, <1>5, <1>7, <1>10, <2>1, <2>3 DEF JournalledFor, IncidentCount, ResolutionAction
    <2>5. SettledFor(i)'
      <3>1. legs'[i] = BothLegs /\ \A m \in Markets : Kept(i, m)'
        BY <1>6, <1>7, <1>11, <2>2, OnesForms DEF DoneSoFar
      <3> QED
        BY <1>5, <2>1, <3>1 DEF SettledFor, SettledPairAccounts
    <2> QED
      BY <2>4, <2>5
  <1> QED
    BY <1>2, <1>8, <1>9, <1>10

\* The pair at hand, as long as no step settles it. An error or a crash leaves its
\* tables as they are.
LEMMA PairUnsettled ==
    ASSUME InductiveAccounts, [Next]_vars, NEW i \in PairIds, i = run.cur,
           ~RefusePair, ~FinishPair
    PROVE  SettledFor(i)' /\ JournalledFor(i)'
  <1>1. TypeOK /\ run \in Run /\ run.cur \in PairIds /\ run.cur # NoPair
        /\ ~pairs[i].resolved /\ run.step \in PairSteps /\ JournalledFor(i)
    BY PerPair DEF InductiveAccounts, Inductive, TypeOK, RowsInOrder, PairIds, NoPair
  <1>2. ASSUME NEW status \in PairStatus, UpdatePairStatus(status, FALSE)
        PROVE  ~pairs'[i].resolved
    BY <1>1, <1>2, UpdateEffect
  <1>3. i \in PairIds /\ i # pairCount + 1 /\ ~PersistPair
    BY <1>1, MaxPairsAssumption
       DEF InductiveAccounts, Inductive, RowsInOrder, TypeOK, PersistPair, PairSteps
  <1>4. ~pairs'[i].resolved
    <2>1. CASE MarkPartial \/ MarkCompleting \/ MarkCompensating
      BY <2>1, <1>2 DEF MarkPartial, MarkCompleting, MarkCompensating, PairStatus
    <2>2. CASE pairs' = pairs
      BY <1>1, <2>2
    <2> QED
      BY <1>3, <2>1, <2>2
         DEF Next, Work, StartCycle, CheckSymbol, SkipSymbol, AssessPair, DrawLegs,
             InsertLegDecision, FillLeg, RetryMissingLeg, CloseLeg, RecordIncident, CycleError,
             Crash, Restart, vars, tables
  <1>5. SettledFor(i)'
    BY <1>4 DEF SettledFor, Settled
  <1>6. CASE RecordIncident
    <2>1. incidents[i] = NoIncident /\ i \in partial
      BY <1>1, <1>6 DEF RecordIncident, InductiveAccounts, Accounts, IncidentSoFar, NoIncident,
                        StageFitsStep
    <2>2. incidents'[i] = [incidents[i] EXCEPT ![Resolution(run.stage)] = @ + 1]
      BY <1>1, <1>6 DEF RecordIncident, TypeOK
    <2>3. Resolution(run.stage) \in {"completed_missing_leg", "compensated_open_leg"}
      BY DEF Resolution
    <2>4. IncidentCount(i)' = 1
      BY <2>1, <2>2, <2>3 DEF IncidentCount, NoIncident, ResolutionAction
    <2> QED
      BY <1>4, <1>5, <1>6, <2>1, <2>4 DEF RecordIncident, history, JournalledFor, Settled
  <1>7. CASE ~RecordIncident
    <2>1. incidents' = incidents /\ partial \subseteq partial'
      BY <1>3, <1>7
         DEF Next, Work, StartCycle, CheckSymbol, SkipSymbol, AssessPair, DrawLegs, MarkPartial,
             InsertLegDecision, FillLeg, MarkCompleting, RetryMissingLeg, MarkCompensating,
             CloseLeg, CycleError, Crash, Restart, vars, tables, history
    <2>2. IncidentCount(i)' = IncidentCount(i)
      BY <2>1 DEF IncidentCount
    <2> QED
      BY <1>1, <1>4, <1>5, <2>1, <2>2 DEF JournalledFor, Settled
  <1> QED
    BY <1>6, <1>7

\* A pair just created is not settled and has no incident.
LEMMA NewPair ==
    ASSUME InductiveAccounts, PersistPair, NEW i \in PairIds, i = pairCount + 1
    PROVE  SettledFor(i)' /\ JournalledFor(i)'
  <1>1. TypeOK /\ pairCount \in Nat
    BY MaxPairsAssumption DEF InductiveAccounts, Inductive, TypeOK
  <1>2. ~pairs'[i].resolved
    BY <1>1 DEF PersistPair, TypeOK
  <1>3. incidents'[i] = NoIncident
    BY <1>1 DEF PersistPair, InductiveAccounts, Accounts
  <1>4. IncidentCount(i)' = 0
    BY <1>3 DEF IncidentCount, NoIncident, ResolutionAction
  <1> QED
    BY <1>2, <1>4 DEF SettledFor, JournalledFor, Settled

\* Every step keeps the accounts of settled pairs: one step settles a pair, and none
\* writes to a pair already settled.
LEMMA NextSettled ==
    ASSUME InductiveAccounts, [Next]_vars
    PROVE  SettledPairsAccountForTheirLegs' /\ OneIncidentPerPartialExecution'
  <1>1. ASSUME NEW i \in PairIds PROVE SettledFor(i)' /\ JournalledFor(i)'
    <2>1. CASE i = run.cur
      BY <2>1, RefusedPair, FinishedPair, PairUnsettled
    <2>2. CASE PersistPair /\ i = pairCount + 1
      BY <2>2, NewPair
    <2>3. CASE i # run.cur /\ ~(PersistPair /\ i = pairCount + 1)
      <3>1. Untouched(i)
        BY <2>3, Frame DEF InductiveAccounts
      <3>2. SettledFor(i) /\ JournalledFor(i)
        BY PerPair DEF InductiveAccounts
      <3> QED
        BY <3>1, <3>2
           DEF Untouched, SettledFor, JournalledFor, Settled, SettledPairAccounts, Kept, Compensated,
               Intact, TakesOff, Left, Found, DealSide, IncidentCount
    <2> QED
      BY <2>1, <2>2, <2>3
  <1>2. (\A i \in PairIds : SettledFor(i)') /\ (\A i \in PairIds : JournalledFor(i)')
    BY <1>1
  <1>3. PositionsAreWhatPairsLeft'
    BY PerPair, NextPositions DEF InductiveAccounts
  <1> QED
    BY <1>2, <1>3 DEF SettledPairsAccountForTheirLegs, SettledFor,
                      OneIncidentPerPartialExecution, JournalledFor, PairIds

\* The strengthened invariant of the accounts holds of the empty tables.
LEMMA InitInductiveAccounts == Init => InductiveAccounts
  <1> SUFFICES ASSUME Init PROVE InductiveAccounts
    OBVIOUS
  <1>1. run.step = "sleep" /\ run.cur = NoPair /\ run.stage = "both" /\ partial = {}
    BY DEF Init, Idle
  <1>2. StageFitsStep
    BY <1>1 DEF StageFitsStep
  <1>3. \A i \in PairIds :
            ~pairs[i].resolved /\ legs[i] = NoLegs /\ incidents[i] = NoIncident
    BY DEF Init, AbsentPair, NoIncident
  <1>4. Accounts
    BY <1>1, <1>3 DEF Accounts
  <1>5. \A i \in PairIds : IncidentCount(i) = 0
    BY <1>3 DEF IncidentCount, NoIncident, ResolutionAction
  <1>7. PositionsAreWhatPairsLeft
    BY DEF Init, PositionsAreWhatPairsLeft
  <1>6. SettledPairsAccountForTheirLegs /\ OneIncidentPerPartialExecution
    BY <1>3, <1>5, <1>7 DEF SettledPairsAccountForTheirLegs, OneIncidentPerPartialExecution, Settled
  <1> QED
    BY <1>2, <1>4, <1>6, InitInductive DEF InductiveAccounts

\* The strengthened invariant of the accounts is inductive.
LEMMA NextInductiveAccounts == InductiveAccounts /\ [Next]_vars => InductiveAccounts'
  BY NextInductive, NextStageFitsStep, NextAccounts, NextSettled, PerPair DEF InductiveAccounts

\* The strengthened invariant of the accounts holds throughout.
LEMMA InductiveAccountsHolds == Spec => []InductiveAccounts
  BY InitInductiveAccounts, NextInductiveAccounts, PTL DEF Spec

\* The final status of a pair is an account of its legs, whatever its retries, and
\* whatever earlier pairs of the symbol were abandoned by errors and crashes.
THEOREM SettledPairsAccount == Spec => []SettledPairsAccountForTheirLegs
  <1>1. InductiveAccounts => SettledPairsAccountForTheirLegs
    BY DEF InductiveAccounts
  <1> QED
    BY <1>1, InductiveAccountsHolds, PTL

\* The incident journal has one entry per partial execution that reached an end,
\* with the resolution it had, and none for any other pair.
THEOREM OneIncidentPerPartial == Spec => []OneIncidentPerPartialExecution
  <1>1. InductiveAccounts => OneIncidentPerPartialExecution
    BY DEF InductiveAccounts
  <1> QED
    BY <1>1, InductiveAccountsHolds, PTL
=============================================================================
