--------------------------- MODULE PairExecution ----------------------------
(***************************************************************************)
(* The cash-and-carry pair execution service (pair_execution/main.py and   *)
(* its state machine, pair_execution/state_machine.py).                    *)
(*                                                                         *)
(* One process loops over the tracked symbols. For each it reads the       *)
(* statuses of the pairs still open, sizes and assesses an opportunity,    *)
(* persists it and, when accepted, runs the state machine: draw the        *)
(* outcome of both legs, open what filled, retry a missing leg once,       *)
(* compensate otherwise. Every `await` on the database is a step of its    *)
(* own, before which the cycle may raise or the process may die. Nothing   *)
(* resumes a pair: a new cycle starts again from the first symbol.         *)
(*                                                                         *)
(* History variables, read by no action: deals, partial.                   *)
(***************************************************************************)
EXTENDS PositionBook, Sequences

CONSTANTS
    TrackedSymbols,   \* TRACKED_SYMBOLS, in the order the cycle visits them
    MaxPairs,         \* bound on the rows of pair_decisions
    SpotSides,        \* sides the sign of the funding rate may give the spot leg
    Quantities        \* leg sizes _compute_pair_quantity may return

ASSUME TrackedSymbolsAssumption ==
    /\ TrackedSymbols \in Seq({TrackedSymbols[k] : k \in DOMAIN TrackedSymbols})
    /\ Len(TrackedSymbols) > 0
ASSUME MaxPairsAssumption == MaxPairs \in Nat \ {0}
ASSUME SpotSidesAssumption == SpotSides # {} /\ SpotSides \subseteq Sides
ASSUME QuantitiesAssumption == Quantities # {} /\ Quantities \subseteq Nat \ {0}

VARIABLES
    pairs,       \* pair_decisions: status "absent" until the row is inserted
    pairCount,   \* rows of pair_decisions, hence the last id handed out
    legs,        \* leg rows of `decisions`, counted per pair and market
    incidents,   \* rows of pair_incidents, counted per pair and resolution
    book,        \* open paper positions, per symbol and market
    run,         \* the process: its next step and the locals it carries
    deals,       \* history: what each pair is made of, and the position of its symbol
                 \* when its row was inserted (found) and after its last fill (left)
    partial      \* history: pairs that entered partial_execution

tables  == <<pairs, pairCount, legs, incidents, book>>
history == <<deals, partial>>
vars    == <<pairs, pairCount, legs, incidents, book, run, deals, partial>>

Symbols == {TrackedSymbols[k] : k \in DOMAIN TrackedSymbols}
PairIds == 1..MaxPairs

-----------------------------------------------------------------------------
(* The state machine's vocabulary.                                         *)

\* pending_validation and validated are declared and never written.
PairStatus ==
    {"pending_validation", "validated", "executing", "both_filled", "both_rejected",
     "partial_execution", "completing_missing_leg", "compensating", "resolved"}

\* unresolved is declared and never written.
ResolutionAction == {"completed_missing_leg", "compensated_open_leg", "unresolved"}

\* Mutant, without compensating: a symbol whose pair is being flattened looks free.
ForgetsCompensating == {"partial_execution", "completing_missing_leg"}

BlockingStatuses == {"partial_execution", "completing_missing_leg", "compensating"}

\* `filled` is the set of markets whose leg was filled.
DetermineExecutionOutcome(filled) ==
    IF filled = Markets THEN "both_filled"
    ELSE IF filled = {} THEN "both_rejected"
    ELSE "partial_execution"

MaxCompletionAttempts == 2
MaxEdgeDegradation    == 5

DecideCompletionAttempt(current, original, attempts) ==
    /\ attempts < MaxCompletionAttempts
    /\ original - current <= MaxEdgeDegradation

\* Statuses of the pairs of s that _fetch_open_pair_statuses returns.
OpenPairStatuses(s) ==
    {pairs[i].status : i \in {j \in PairIds : pairs[j].symbol = s}}
        \ {"absent", "both_filled", "both_rejected", "resolved"}

IsSymbolBlocked(s) == OpenPairStatuses(s) \cap BlockingStatuses # {}

-----------------------------------------------------------------------------
(* The process.                                                            *)

\* Next step of the process. `insert_leg` and `fill_leg` are the two awaits of
\* _open_single_leg.
Steps == {"down", "sleep", "check", "assess", "persist", "refuse", "draw",
          "mark_partial", "insert_leg", "fill_leg", "mark_completing", "retry",
          "mark_compensating", "close_leg", "incident", "finish"}

\* Which call of _open_single_leg the pair is at: one of the two of
\* _open_both_legs, the leg that filled alone, or the missing leg after its retry.
Stages == {"both", "first", "missing"}

NoPair == 0

Run == [step : Steps, at : DOMAIN TrackedSymbols, cur : {NoPair} \union PairIds,
        side : Sides, qty : Nat, accept : BOOLEAN,
        filled : SUBSET Markets, leg : Markets, stage : Stages]

Idle(step, k) ==
    [step |-> step, at |-> k, cur |-> NoPair, side |-> Buy, qty |-> 0, accept |-> FALSE,
     filled |-> {}, leg |-> Spot, stage |-> "both"]

Symbol == TrackedSymbols[run.at]

\* Mutant: the loop runs one symbol past the last.
RunsPastTheEnd ==
    IF run.at <= Len(TrackedSymbols) THEN Idle("check", run.at + 1) ELSE Idle("sleep", 1)

\* `continue` of the loop over the symbols, or the end of the cycle.
NextSymbol == IF run.at < Len(TrackedSymbols) THEN Idle("check", run.at + 1) ELSE Idle("sleep", 1)

GoTo(step) == [run EXCEPT !.step = step]

\* The futures leg is always on the opposite side of the spot leg.
LegSide(market) == IF market = Spot THEN run.side ELSE Opposite(run.side)

OtherMarket(market) == IF market = Spot THEN Futures ELSE Spot

AbsentPair == [symbol |-> TrackedSymbols[1], accept |-> FALSE, status |-> "absent",
               resolved |-> FALSE]

NoLegs == [m \in Markets |-> 0]

Deal   == [side : Sides, qty : Nat, found : [Markets -> Int], left : [Markets -> Int]]
NoDeal == [side |-> Buy, qty |-> 0, found |-> NoLegs, left |-> NoLegs]

Init ==
    /\ pairs     = [i \in PairIds |-> AbsentPair]
    /\ pairCount = 0
    /\ legs      = [i \in PairIds |-> NoLegs]
    /\ incidents = [i \in PairIds |-> [r \in ResolutionAction |-> 0]]
    /\ book      = [s \in Symbols |-> NoLegs]
    /\ run       = Idle("sleep", 1)
    /\ deals     = [i \in PairIds |-> NoDeal]
    /\ partial   = {}

-----------------------------------------------------------------------------
(* One action per await.                                                   *)

StartCycle ==
    /\ run.step = "sleep"
    /\ run' = Idle("check", 1)
    /\ UNCHANGED <<tables, history>>

\* A symbol with an unresolved partial execution is skipped.
CheckSymbol ==
    /\ run.step = "check"
    /\ run' = IF IsSymbolBlocked(Symbol) THEN NextSymbol ELSE GoTo("assess")
    /\ UNCHANGED <<tables, history>>

\* No fresh capital or price, a leg under the minimum notional, or no funding
\* measurement: nothing to assess this cycle.
SkipSymbol ==
    /\ run.step = "assess"
    /\ run' = NextSymbol
    /\ UNCHANGED <<tables, history>>

\* The quality score accepts or rejects the opportunity; the sign of the funding
\* rate gives the side of the spot leg.
AssessPair(side, qty, accept) ==
    /\ run.step = "assess"
    /\ pairCount < MaxPairs                                   \* bound
    /\ run' = [run EXCEPT !.step = "persist", !.side = side, !.qty = qty, !.accept = accept]
    /\ UNCHANGED <<tables, history>>

\* The row is inserted with status executing, whatever the decision.
PersistPair ==
    /\ run.step = "persist"
    /\ pairCount < MaxPairs
    /\ pairCount' = pairCount + 1
    /\ pairs' = [pairs EXCEPT ![pairCount + 1] =
                    [symbol |-> Symbol, accept |-> run.accept, status |-> "executing",
                     resolved |-> FALSE]]
    /\ deals' = [deals EXCEPT ![pairCount + 1] =
                    [side |-> run.side, qty |-> run.qty, found |-> book[Symbol], left |-> book[Symbol]]]
    /\ run' = [run EXCEPT !.cur = pairCount + 1, !.step = IF run.accept THEN "draw" ELSE "refuse"]
    /\ UNCHANGED <<legs, incidents, book, partial>>

\* Mutant: an UPDATE keyed by symbol instead of id.
UpdateEveryPairOfSymbol(status, resolved) ==
    pairs' = [i \in PairIds |->
                 IF pairs[i].status # "absent" /\ pairs[i].symbol = Symbol
                 THEN [pairs[i] EXCEPT !.status = status, !.resolved = resolved]
                 ELSE pairs[i]]

UpdatePairStatus(status, resolved) ==
    pairs' = [pairs EXCEPT ![run.cur].status = status,
                           ![run.cur].resolved = IF resolved THEN TRUE ELSE @]

\* A pair the quality score rejected is closed at once.
RefusePair ==
    /\ run.step = "refuse"
    /\ UpdatePairStatus("resolved", TRUE)
    /\ run' = NextSymbol
    /\ UNCHANGED <<pairCount, legs, incidents, book, history>>

\* Each leg is all-or-nothing (FOK): filled or rejected, independently.
DrawLegs(filled) ==
    /\ run.step = "draw"
    /\ run' = [run EXCEPT
                  !.filled = filled,
                  !.stage  = IF DetermineExecutionOutcome(filled) = "partial_execution"
                             THEN "first" ELSE "both",
                  !.leg    = IF Spot \in filled \/ filled = {} THEN Spot ELSE Futures,
                  !.step   = CASE DetermineExecutionOutcome(filled) = "both_filled" -> "insert_leg"
                               [] DetermineExecutionOutcome(filled) = "both_rejected" -> "finish"
                               [] OTHER -> "mark_partial"]
    /\ UNCHANGED <<tables, history>>

MarkPartial ==
    /\ run.step = "mark_partial"
    /\ UpdatePairStatus("partial_execution", FALSE)
    /\ partial' = partial \union {run.cur}
    /\ run' = GoTo("insert_leg")
    /\ UNCHANGED <<pairCount, legs, incidents, book, deals>>

\* _insert_leg_decision: a row of `decisions` with verdict 'signal'.
InsertLegDecision ==
    /\ run.step = "insert_leg"
    /\ legs' = [legs EXCEPT ![run.cur][run.leg] = @ + 1]
    /\ run' = GoTo("fill_leg")
    /\ UNCHANGED <<pairs, pairCount, incidents, book, history>>

\* Mutant: the futures leg of a pair that filled on both sides is never opened.
ForgetsSecondLeg ==
    IF run.stage = "first" THEN GoTo("mark_completing") ELSE GoTo("finish")

\* What follows the fill of a leg. The completion decision is taken with the edge
\* the pair was accepted with and no attempt made, so it always allows the attempt.
AfterLegFill ==
    CASE run.stage = "both" /\ run.leg = Spot ->
             [run EXCEPT !.leg = Futures, !.step = "insert_leg"]
      [] run.stage = "both" /\ run.leg = Futures -> GoTo("finish")
      [] run.stage = "first" ->
             IF DecideCompletionAttempt(0, 0, 0) THEN GoTo("mark_completing")
             ELSE GoTo("mark_compensating")
      [] run.stage = "missing" -> GoTo("incident")

\* apply_fill on the paper book, in the position its symbol and market share: it
\* opens, reinforces, closes an older leg or does nothing.
Fill(side) ==
    LET filled == ApplyFill(run.leg, book[Symbol][run.leg], side, run.qty)
    IN /\ book'  = [book EXCEPT ![Symbol][run.leg] = filled]
       /\ deals' = [deals EXCEPT ![run.cur].left[run.leg] = filled]

FillLeg ==
    /\ run.step = "fill_leg"
    /\ Fill(LegSide(run.leg))
    /\ run' = AfterLegFill
    /\ UNCHANGED <<pairs, pairCount, legs, incidents, partial>>

MarkCompleting ==
    /\ run.step = "mark_completing"
    /\ UpdatePairStatus("completing_missing_leg", FALSE)
    /\ run' = GoTo("retry")
    /\ UNCHANGED <<pairCount, legs, incidents, book, history>>

\* Mutant: a retry loop with no limit on its attempts.
RetryForever(success) ==
    IF success
    THEN [run EXCEPT !.filled = Markets, !.leg = OtherMarket(run.leg), !.stage = "missing",
                     !.step = "insert_leg"]
    ELSE GoTo("mark_completing")

AfterRetry(success) ==
    IF success
    THEN [run EXCEPT !.filled = Markets, !.leg = OtherMarket(run.leg), !.stage = "missing",
                     !.step = "insert_leg"]
    ELSE GoTo("mark_compensating")

\* One more draw for the missing leg.
RetryMissingLeg(success) ==
    /\ run.step = "retry"
    /\ run' = AfterRetry(success)
    /\ UNCHANGED <<tables, history>>

MarkCompensating ==
    /\ run.step = "mark_compensating"
    /\ UpdatePairStatus("compensating", FALSE)
    /\ run' = GoTo("close_leg")
    /\ UNCHANGED <<pairCount, legs, incidents, book, history>>

\* _close_single_leg: a fill on the side opposite to the leg's.
CloseLeg ==
    /\ run.step = "close_leg"
    /\ Fill(Opposite(LegSide(run.leg)))
    /\ run' = GoTo("incident")
    /\ UNCHANGED <<pairs, pairCount, legs, incidents, partial>>

\* Mutant: every partial execution is recorded as a completed one.
AlwaysCompleted(stage) == "completed_missing_leg"

Resolution(stage) ==
    IF stage = "missing" THEN "completed_missing_leg" ELSE "compensated_open_leg"

RecordIncident ==
    /\ run.step = "incident"
    /\ incidents' = [incidents EXCEPT ![run.cur][Resolution(run.stage)] = @ + 1]
    /\ run' = GoTo("finish")
    /\ UNCHANGED <<pairs, pairCount, legs, book, history>>

FinalStatus ==
    IF run.stage = "first" THEN "resolved" ELSE DetermineExecutionOutcome(run.filled)

\* The status a pair ends with, resolved_at, and the journal event.
FinishPair ==
    /\ run.step = "finish"
    /\ UpdatePairStatus(FinalStatus, TRUE)
    /\ run' = NextSymbol
    /\ UNCHANGED <<pairCount, legs, incidents, book, history>>

\* An await raised: main() logs cycle_error and sleeps until the next cycle. The
\* pair at hand and the symbols after it are abandoned where they stand.
CycleError ==
    /\ run.step \notin {"down", "sleep"}
    /\ run' = Idle("sleep", 1)
    /\ UNCHANGED <<tables, history>>

Crash ==
    /\ run.step # "down"
    /\ run' = Idle("down", 1)
    /\ UNCHANGED <<tables, history>>

\* main() registers the strategy and starts cycling; no pair is looked up.
Restart ==
    /\ run.step = "down"
    /\ run' = Idle("sleep", 1)
    /\ UNCHANGED <<tables, history>>

-----------------------------------------------------------------------------

Work ==
    \/ CheckSymbol
    \/ SkipSymbol
    \/ \E side \in SpotSides, qty \in Quantities, accept \in BOOLEAN : AssessPair(side, qty, accept)
    \/ PersistPair
    \/ RefusePair
    \/ \E filled \in SUBSET Markets : DrawLegs(filled)
    \/ MarkPartial
    \/ InsertLegDecision
    \/ FillLeg
    \/ MarkCompleting
    \/ \E success \in BOOLEAN : RetryMissingLeg(success)
    \/ MarkCompensating
    \/ CloseLeg
    \/ RecordIncident
    \/ FinishPair

Next == StartCycle \/ Work \/ CycleError \/ Crash \/ Restart

\* The event loop runs a cycle that is neither interrupted nor killed to its end.
Spec == Init /\ [][Next]_vars /\ WF_vars(Work)

-----------------------------------------------------------------------------
(* Properties.                                                             *)

Row == [symbol : Symbols, accept : BOOLEAN, status : PairStatus \union {"absent"},
        resolved : BOOLEAN]

TypeOK ==
    /\ pairs \in [PairIds -> Row]
    /\ pairCount \in 0..MaxPairs
    /\ legs \in [PairIds -> [Markets -> Nat]]
    /\ incidents \in [PairIds -> [ResolutionAction -> Nat]]
    /\ book \in [Symbols -> [Markets -> Int]]
    /\ run \in Run
    /\ deals \in [PairIds -> Deal]
    /\ partial \subseteq PairIds

Settled(i) == pairs[i].resolved

Orphan(i) == pairs[i].status # "absent" /\ ~Settled(i) /\ run.cur # i

BothLegs == [m \in Markets |-> 1]
OneLeg(market) == [m \in Markets |-> IF m = market THEN 1 ELSE 0]

\* The side of the leg of market m of pair i, and the fields of its deal.
DealSide(i, m) == IF m = Spot THEN deals[i].side ELSE Opposite(deals[i].side)
Found(i, m)    == deals[i].found[m]
Left(i, m)     == deals[i].left[m]

\* A leg has nothing to add to: a spot sale only ever closes what is open, and a futures
\* leg closes a position of the other direction.
TakesOff(i, m) ==
    IF m = Spot THEN DealSide(i, m) = Sell
    ELSE Found(i, m) # 0 /\ ~SameDirection(Found(i, m), DealSide(i, m))

\* The leg was executed once, and kept: its quantity is in the position, on top of what
\* was there, or what was there is gone.
Kept(i, m) ==
    Left(i, m) = IF TakesOff(i, m) THEN 0 ELSE Found(i, m) + Signed(DealSide(i, m), deals[i].qty)

\* The leg was executed and compensated: nothing is left in the position, not even what
\* earlier pairs had put there, or, where the leg had closed (or sold nothing), a
\* position of the other side that the compensation opened.
Compensated(i, m) ==
    Left(i, m) = IF TakesOff(i, m) THEN Signed(Opposite(DealSide(i, m)), deals[i].qty) ELSE 0

Intact(i, m) == Left(i, m) = Found(i, m)

\* What a settled pair says of itself is what it did to the positions of its symbol: a
\* filled pair sent both legs and each took effect once, a pair resolved by compensation
\* sent one leg, which took effect and was reversed, and left the other market alone, a
\* rejected or refused pair touched nothing. A retry, a failed retry or an earlier crash
\* on the symbol must not blur it.
SettledPairAccounts(i) ==
    CASE pairs[i].status = "both_filled" -> legs[i] = BothLegs /\ \A m \in Markets : Kept(i, m)
      [] pairs[i].status = "resolved" /\ pairs[i].accept ->
             \E m \in Markets :
                 legs[i] = OneLeg(m) /\ Compensated(i, m) /\ Intact(i, OtherMarket(m))
      [] OTHER -> legs[i] = NoLegs /\ \A m \in Markets : Intact(i, m)

\* Pair i is the newest pair of its symbol before id n.
NewestBefore(i, n) == i < n /\ \A k \in (i + 1)..(n - 1) : pairs[k].symbol # pairs[i].symbol

\* Each pair found the positions of its symbol as the previous pair of the symbol, settled
\* or abandoned, left them, and the last one left them as they are.
PositionsAreWhatPairsLeft ==
    \A i \in 1..pairCount :
        /\ NewestBefore(i, pairCount + 1) => book[pairs[i].symbol] = deals[i].left
        /\ \A j \in 1..pairCount :
               NewestBefore(i, j) /\ pairs[j].symbol = pairs[i].symbol => deals[j].found = deals[i].left

\* The status of every settled pair accounts for what became of the positions of its
\* symbol on both markets between its row and its last fill, and the accounts of the
\* successive pairs of a symbol join up to the positions it has, with nothing between.
SettledPairsAccountForTheirLegs ==
    /\ \A i \in PairIds : Settled(i) => SettledPairAccounts(i)
    /\ PositionsAreWhatPairsLeft

IncidentCount(i) ==
    incidents[i]["completed_missing_leg"] + incidents[i]["compensated_open_leg"]
        + incidents[i]["unresolved"]

\* Every episode of partial execution that reached an end is journalled once, with
\* the resolution it really had, and nothing else ever is (build_incident_record:
\* "pour tout episode de PARTIAL_EXECUTION, quelle que soit son issue finale").
OneIncidentPerPartialExecution ==
    \A i \in PairIds :
        /\ IncidentCount(i) <= 1
        /\ IncidentCount(i) = 1 => i \in partial
        /\ Settled(i) /\ i \in partial =>
               IF pairs[i].status = "both_filled"
               THEN incidents[i]["completed_missing_leg"] = 1
               ELSE incidents[i]["compensated_open_leg"] = 1

Unresolved(i) == i \in partial /\ ~Settled(i)

\* At most one partial execution per symbol is open at a time, across errors,
\* crashes and restarts: the blocking statuses are what keeps a second pair out.
AtMostOneUnresolvedPartial ==
    \A i, j \in PairIds :
        Unresolved(i) /\ Unresolved(j) /\ pairs[i].symbol = pairs[j].symbol => i = j

Created(i) == pairs[i].status = "absent" /\ pairs'[i].status # "absent"

\* No pair is ever created on a symbol while an earlier pair of that symbol is in an
\* unresolved partial execution, although the statuses are read several awaits
\* before the row is inserted.
NoPairOverUnresolvedPartial ==
    [][\A i, j \in PairIds :
           Created(i) /\ Unresolved(j) => pairs'[i].symbol # pairs[j].symbol]_vars

\* A pair that is settled, or that an error or a crash abandoned, never changes
\* again: neither its row nor its legs, its incidents or its fills. Recovery does not exist,
\* and no later pair of the symbol writes over an earlier one.
OnlyTheCurrentPairMoves ==
    [][\A i \in PairIds : Settled(i) \/ Orphan(i) =>
           UNCHANGED <<pairs[i], legs[i], incidents[i], deals[i]>>]_vars

\* The state machine gives up: unless an error or a crash abandons it, a pair at
\* hand is eventually settled, however many legs are rejected.
PairAtHandIsSettledOrAbandoned ==
    \A i \in PairIds : run.cur = i ~> Settled(i) \/ Orphan(i)

-----------------------------------------------------------------------------
(* Statements of the repository that the code does not keep.               *)

\* What a pair changed of the position of a market, and whether one leg hedges the other.
Change(i, m) == Left(i, m) - Found(i, m)
Hedged(i)    == Change(i, Spot) + Change(i, Futures) = 0

\* state_machine.py:40: "tant qu'une exposition residuelle existe ou est en cours de
\* resolution, jamais une seconde paire ouverte en parallele sur ce symbole".
ResidualExposureKeepsOtherPairsOut ==
    [][\A i, j \in PairIds :
           Created(i) /\ ~Settled(j) /\ ~Hedged(j) => pairs'[i].symbol # pairs[j].symbol]_vars

\* main.py:566: compensation is the "cloture immediate de la jambe deja ouverte": it
\* takes out of the position what the leg put in, and nothing of what earlier pairs
\* of the symbol hold in the same row.
CompensationClosesTheLegItOpened ==
    [][CloseLeg => book'[Symbol] = deals[run.cur].found]_vars
=============================================================================
