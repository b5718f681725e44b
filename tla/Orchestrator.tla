---------------------------- MODULE Orchestrator -----------------------------
(***************************************************************************)
(* From decision to order: the risk engine (risk_engine/main.py and its    *)
(* rules) under the orchestrator that calls it and executes what it passes *)
(* (execution_engine/main.py), in the backtest, paper and real modes.      *)
(*                                                                         *)
(* One process loops: read the mode, fetch a batch of decisions nobody has *)
(* checked yet, judge ALL of them, then execute ALL that passed. Every     *)
(* `await` is a step of its own. Around it, other processes insert         *)
(* decisions, flip the kill switch and change the execution mode.          *)
(*                                                                         *)
(* A decision asks for one unit. Prices and order books are reduced to     *)
(* what the rules answer. History variable, read by no action: halted.     *)
(***************************************************************************)
EXTENDS PositionBook, Sequences, FiniteSets, Functions

CONSTANTS
    MaxDecisions,     \* bound on the rows of `decisions` with verdict 'signal'
    Symbols,          \* traded symbols
    BatchLimit,       \* LIMIT of the query for pending decisions (20)
    DeclaredMarkets,  \* what decision_engine may put in decisions.market_type
    TargetModes,      \* modes the operator may switch to
    FuturesRouting,   \* FUTURES_ROUTING_ENABLED
    ExposureCap,      \* units that 30% of the capital buys
    MaxInterrupts     \* bound on loop errors and crashes

ASSUME MaxDecisionsAssumption   == MaxDecisions \in Nat \ {0}
ASSUME SymbolsAssumption        == Symbols # {}
ASSUME BatchLimitAssumption     == BatchLimit \in Nat \ {0}
ASSUME DeclaredMarketsAssumption ==
    DeclaredMarkets # {} /\ DeclaredMarkets \subseteq {"unset", "futures_perpetual"}
ASSUME TargetModesAssumption    == TargetModes \subseteq {"backtest", "paper", "real"}
ASSUME FuturesRoutingAssumption == FuturesRouting \in BOOLEAN
ASSUME ExposureCapAssumption    == ExposureCap \in Nat
ASSUME MaxInterruptsAssumption  == MaxInterrupts \in Nat

VARIABLES
    mode,         \* newest row of execution_mode_state
    killed,       \* the kill switch in Redis
    decisions,    \* rows of `decisions`, kind "absent" until inserted
    count,        \* number of those rows; ids grow with `time`
    checks,       \* rows of risk_checks of each decision, in insertion order
    orders,       \* rows of `orders`, counted per decision and mode
    sent,         \* orders the exchange accepted, counted per decision
    book,         \* open positions per mode, symbol and market
    run,          \* the process: its next step and the locals it carries
    interrupts,   \* loop errors and crashes so far
    halted        \* history: decisions the kill switch has covered since before
                  \* they were judged

outside == <<mode, killed, decisions, count, halted>>
effects == <<orders, sent, book>>
vars    == <<mode, killed, decisions, count, checks, orders, sent, book, run,
             interrupts, halted>>

Ids   == 1..MaxDecisions
Modes == {"backtest", "paper", "real"}

Size(q) == IF q < 0 THEN -q ELSE q

-----------------------------------------------------------------------------
(* The risk rules.                                                         *)

\* Insertion order of the rows. "market_conditions" stands for the futures cap,
\* the daily loss limit, the consecutive losses and the liquidity check, and for a
\* capital or a price that is not positive.
RuleNames == <<"kill_switch", "spot_no_shorting", "position_sizing", "max_exposure",
               "market_conditions">>

FinalVerdict == "FINAL_VERDICT"

\* A fused decision has risk_reward_ratio >= 1.5; a pair leg is inserted with 0.
RiskReward(d) == IF decisions[d].kind = "pair_leg" THEN 0 ELSE 2

MaxRiskFraction == 1

\* Mutant: the fraction is the ceiling itself.
SizesAtTheCeiling(d) == MaxRiskFraction

\* Units position_sizing gives the decision, 0 when it fails.
SuggestedQuantity(d) == IF RiskReward(d) < MaxRiskFraction THEN RiskReward(d) ELSE MaxRiskFraction

\* A declared market prevails; else an open position attracts the decision, futures
\* first, and a sale with nothing to close goes to futures when routing is enabled.
MarketOf(d, spot, futures) ==
    IF decisions[d].market # "unset" THEN decisions[d].market
    ELSE IF futures > 0 THEN Futures
    ELSE IF spot > 0 THEN Spot
    ELSE IF decisions[d].side = Sell /\ FuturesRouting THEN Futures
    ELSE Spot

\* Mutant: the kill switch blocks purchases only.
LetsSalesThrough(rule, d, ctx, active, favourable) ==
    CASE rule = "kill_switch"       -> (~active \/ decisions[d].side = Sell)
      [] rule = "spot_no_shorting"  -> (ctx.market = Spot /\ decisions[d].side = Sell => ctx.held > 0)
      [] rule = "position_sizing"   -> (SuggestedQuantity(d) > 0)
      [] rule = "max_exposure"      -> (SuggestedQuantity(d) > 0 /\ ctx.exposure + 1 <= ExposureCap)
      [] rule = "market_conditions" -> (SuggestedQuantity(d) > 0 /\ favourable)

\* rule.check(context): pure once the context is read.
Passes(rule, d, ctx, active, favourable) ==
    CASE rule = "kill_switch"       -> ~active
      [] rule = "spot_no_shorting"  -> (ctx.market = Spot /\ decisions[d].side = Sell => ctx.held > 0)
      [] rule = "position_sizing"   -> (SuggestedQuantity(d) > 0)
      [] rule = "max_exposure"      -> (SuggestedQuantity(d) > 0 /\ ctx.exposure + 1 <= ExposureCap)
      [] rule = "market_conditions" -> (SuggestedQuantity(d) > 0 /\ favourable)

-----------------------------------------------------------------------------
(* The process.                                                            *)

Steps == {"down", "sleep", "fetch", "context", "kill_switch", "rows", "execute",
          "confirm", "fill", "order_row"}

NoContext == [mode |-> "paper", market |-> Spot, held |-> 0, exposure |-> 0]

Idle(step) == [step |-> step, mode |-> "paper", batch |-> <<>>, ctx |-> NoContext,
               results |-> <<>>, passed |-> FALSE, outcomes |-> <<>>]

GoTo(step) == [run EXCEPT !.step = step]

AbsentDecision == [kind |-> "absent", symbol |-> CHOOSE s \in Symbols : TRUE, side |-> Buy,
                   market |-> "unset"]

Flat == [s \in Symbols |-> [m \in Markets |-> 0]]

Init ==
    /\ mode = "paper"
    /\ killed = FALSE
    /\ decisions = [d \in Ids |-> AbsentDecision]
    /\ count = 0
    /\ checks = [d \in Ids |-> <<>>]
    /\ orders = [d \in Ids |-> [m \in Modes |-> 0]]
    /\ sent = [d \in Ids |-> 0]
    /\ book = [m \in Modes |-> Flat]
    /\ run = Idle("sleep")
    /\ interrupts = 0
    /\ halted = {}

-----------------------------------------------------------------------------
(* The processes around the loop.                                          *)

Insert(kind, symbol, side, market) ==
    /\ count < MaxDecisions                                   \* bound
    /\ count' = count + 1
    /\ decisions' = [decisions EXCEPT ![count + 1] =
                        [kind |-> kind, symbol |-> symbol, side |-> side, market |-> market]]
    /\ halted' = IF killed THEN halted \union {count + 1} ELSE halted
    /\ UNCHANGED <<mode, killed, checks, effects, run, interrupts>>

\* decision_engine: market_type is NULL or the futures market of the engine.
InsertSignal(symbol, side, market) == Insert("fused", symbol, side, market)

\* pair_execution: a leg row carries verdict 'signal' too, and NULL market_type.
InsertPairLeg(symbol, side) == Insert("pair_leg", symbol, side, "unset")

Judged(d) == checks[d] # <<>> \/ (run.step = "rows" /\ Head(run.batch) = d)

SetKillSwitch(active) ==
    /\ killed' = active
    /\ halted' = IF active THEN halted \union {d \in 1..count : ~Judged(d)} ELSE {}
    /\ UNCHANGED <<mode, decisions, count, checks, effects, run, interrupts>>

\* An accepted request of execution_mode_governance.
ChangeMode(target) ==
    /\ mode # target
    /\ mode' = target
    /\ UNCHANGED <<killed, decisions, count, checks, effects, run, interrupts, halted>>

-----------------------------------------------------------------------------
(* The loop: judging a batch.                                              *)

\* The mode is read once per iteration and chooses the implementation.
FetchMode ==
    /\ run.step = "sleep"
    /\ run' = [Idle("fetch") EXCEPT !.mode = mode]
    /\ UNCHANGED <<outside, checks, effects, interrupts>>

\* Mutant: a decision is pending until its FINAL_VERDICT is inserted.
PendingUntilFinal ==
    {d \in 1..count : \A k \in DOMAIN checks[d] : checks[d][k].rule # FinalVerdict}

\* Mutant: a judged decision is fetched again.
PendingForever == 1..count

\* No row of risk_checks at all.
PendingDecisions == {d \in 1..count : checks[d] = <<>>}

Increasing(s) == \A i, j \in DOMAIN s : i < j => s[i] < s[j]

\* ORDER BY time ASC.
OldestFirst(S) == CHOOSE s \in [1..Cardinality(S) -> S] : Increasing(s)

FetchBatch ==
    /\ run.step = "fetch"
    /\ LET n == Cardinality(PendingDecisions)
           batch == SubSeq(OldestFirst(PendingDecisions), 1, IF n < BatchLimit THEN n ELSE BatchLimit)
       IN run' = IF batch = <<>> THEN Idle("sleep")
                 ELSE [run EXCEPT !.step = "context", !.batch = batch]
    /\ UNCHANGED <<outside, checks, effects, interrupts>>

Exposure(m) ==
    LET sizes == [x \in Symbols \X Markets |-> Size(book[m][x[1]][x[2]])]
    IN FoldFunction(+, 0, sizes)

\* The database half of _build_risk_context, with the mode read again.
ReadContext ==
    /\ run.step = "context"
    /\ LET d == Head(run.batch)
           held == book[mode][decisions[d].symbol]
           market == MarketOf(d, Size(held[Spot]), Size(held[Futures]))
       IN run' = [run EXCEPT !.step = "kill_switch",
                             !.ctx = [mode |-> mode, market |-> market,
                                      held |-> Size(held[market]), exposure |-> Exposure(mode)]]
    /\ UNCHANGED <<outside, checks, effects, interrupts>>

\* The Redis half, then every rule at once. The conditions of the market are free.
ReadKillSwitch(favourable) ==
    /\ run.step = "kill_switch"
    /\ LET d == Head(run.batch)
           results == [k \in DOMAIN RuleNames |->
                          [rule |-> RuleNames[k],
                           passed |-> Passes(RuleNames[k], d, run.ctx, killed, favourable)]]
       IN run' = [run EXCEPT !.step = "rows", !.results = results,
                             !.passed = \A k \in DOMAIN results : results[k].passed]
    /\ UNCHANGED <<outside, checks, effects, interrupts>>

\* One INSERT per rule, each committed on its own.
InsertRuleRow ==
    /\ run.step = "rows" /\ run.results # <<>>
    /\ checks' = [checks EXCEPT ![Head(run.batch)] = Append(@, Head(run.results))]
    /\ run' = [run EXCEPT !.results = Tail(@)]
    /\ UNCHANGED <<outside, effects, interrupts>>

\* The next decision of the batch; after the last one, the execution of the
\* outcomes that passed.
NextDecision(outcomes) ==
    IF Len(run.batch) > 1
    THEN [Idle("context") EXCEPT !.mode = run.mode, !.batch = Tail(run.batch), !.outcomes = outcomes]
    ELSE IF outcomes # <<>> THEN [Idle("execute") EXCEPT !.mode = run.mode, !.outcomes = outcomes]
    ELSE Idle("sleep")

\* Mutant: every outcome of the batch is executed.
ExecutesEveryOutcome == Append(run.outcomes, [decision |-> Head(run.batch),
                                              mode |-> run.ctx.mode, market |-> run.ctx.market])

\* The outcomes the loop will execute, in the order they were judged.
PassedOutcomes ==
    IF run.passed
    THEN Append(run.outcomes, [decision |-> Head(run.batch), mode |-> run.ctx.mode,
                               market |-> run.ctx.market])
    ELSE run.outcomes

InsertFinalVerdict ==
    /\ run.step = "rows" /\ run.results = <<>>
    /\ checks' = [checks EXCEPT ![Head(run.batch)] =
                     Append(@, [rule |-> FinalVerdict, passed |-> run.passed])]
    /\ run' = NextDecision(PassedOutcomes)
    /\ UNCHANGED <<outside, effects, interrupts>>

\* Mutant: a decision whose capital is unknown gets no row, hence stays pending, at the
\* head of every later batch.
PassOverDecision ==
    /\ run.step = "context"
    /\ run' = NextDecision(run.outcomes)
    /\ UNCHANGED <<outside, checks, effects, interrupts>>

\* PortfolioUnavailableError: no fresh snapshot, allocation or paper capital.
BlockDecision ==
    /\ run.step = "context"
    /\ checks' = [checks EXCEPT ![Head(run.batch)] =
                     Append(@, [rule |-> FinalVerdict, passed |-> FALSE])]
    /\ run' = NextDecision(run.outcomes)
    /\ UNCHANGED <<outside, effects, interrupts>>

-----------------------------------------------------------------------------
(* The loop: executing the outcomes in the mode read before the batch.     *)

Outcome == Head(run.outcomes)

\* Mutant: the loop runs one outcome past the last.
RunsPastTheEnd ==
    IF Len(run.outcomes) > 0 THEN [run EXCEPT !.step = "execute", !.outcomes = Tail(@)]
    ELSE Idle("sleep")

NextOutcome ==
    IF Len(run.outcomes) > 1 THEN [run EXCEPT !.step = "execute", !.outcomes = Tail(@)]
    ELSE Idle("sleep")

RowInserted == orders' = [orders EXCEPT ![Outcome.decision][run.mode] = @ + 1]

\* Backtest writes a row and no position; paper writes the row before the position.
ExecuteSimulated ==
    /\ run.step = "execute" /\ run.mode # "real"
    /\ RowInserted
    /\ run' = IF run.mode = "paper" THEN GoTo("fill") ELSE NextOutcome
    /\ UNCHANGED <<outside, checks, sent, book, interrupts>>

\* Real: the exchange accepts the order.
PlaceOrder ==
    /\ run.step = "execute" /\ run.mode = "real"
    /\ sent' = [sent EXCEPT ![Outcome.decision] = @ + 1]
    /\ run' = GoTo("confirm")
    /\ UNCHANGED <<outside, checks, orders, book, interrupts>>

\* Polling for the fill: filled, or cancelled or still pending after the last
\* attempt. A futures order is taken as filled without polling.
Confirm(filled) ==
    /\ run.step = "confirm"
    /\ (Outcome.market = Futures => filled)
    /\ run' = GoTo(IF filled THEN "fill" ELSE "order_row")
    /\ UNCHANGED <<outside, checks, effects, interrupts>>

FilledPosition ==
    LET d == Outcome.decision
    IN ApplyFill(Outcome.market, book[run.mode][decisions[d].symbol][Outcome.market],
                 decisions[d].side, SuggestedQuantity(d))

Fill ==
    /\ run.step = "fill"
    /\ book' = [book EXCEPT ![run.mode][decisions[Outcome.decision].symbol][Outcome.market] =
                   FilledPosition]
    /\ run' = IF run.mode = "real" THEN GoTo("order_row") ELSE NextOutcome
    /\ UNCHANGED <<outside, checks, orders, sent, interrupts>>

\* Real: the row is inserted last, in a finally block.
InsertOrderRow ==
    /\ run.step = "order_row"
    /\ RowInserted
    /\ run' = NextOutcome
    /\ UNCHANGED <<outside, checks, sent, book, interrupts>>

-----------------------------------------------------------------------------
(* Failures.                                                               *)

\* A real order raised, before or after the exchange took it, after its fill for a
\* futures position whose stop-loss could not be recorded, or the futures gate
\* refused it: a 'rejected' row is inserted (in the finally block, but for the gate)
\* and the exception ends the iteration, with the outcomes that were left.
RejectOrder ==
    /\ interrupts < MaxInterrupts
    /\ run.mode = "real"
    /\ \/ run.step \in {"execute", "confirm", "fill"}
       \/ run.step = "order_row" /\ Outcome.market = Futures
    /\ RowInserted
    /\ interrupts' = interrupts + 1
    /\ run' = Idle("sleep")
    /\ UNCHANGED <<outside, checks, sent, book>>

\* Any other await that raised: the loop logs loop_error and sleeps.
LoopError ==
    /\ interrupts < MaxInterrupts
    /\ run.step \notin {"down", "sleep"}
    /\ interrupts' = interrupts + 1
    /\ run' = Idle("sleep")
    /\ UNCHANGED <<outside, checks, effects>>

Crash ==
    /\ interrupts < MaxInterrupts
    /\ run.step # "down"
    /\ interrupts' = interrupts + 1
    /\ run' = Idle("down")
    /\ UNCHANGED <<outside, checks, effects>>

\* The reconciliation at startup reads positions and pending orders, and writes
\* nothing.
Restart ==
    /\ run.step = "down"
    /\ run' = Idle("sleep")
    /\ UNCHANGED <<outside, checks, effects, interrupts>>

-----------------------------------------------------------------------------

Around ==
    \/ \E s \in Symbols, side \in Sides, m \in DeclaredMarkets : InsertSignal(s, side, m)
    \/ \E s \in Symbols, side \in Sides : InsertPairLeg(s, side)
    \/ \E active \in BOOLEAN : SetKillSwitch(active)
    \/ \E target \in TargetModes : ChangeMode(target)

Loop ==
    \/ FetchMode
    \/ FetchBatch
    \/ ReadContext
    \/ \E favourable \in BOOLEAN : ReadKillSwitch(favourable)
    \/ InsertRuleRow
    \/ InsertFinalVerdict
    \/ BlockDecision
    \/ ExecuteSimulated
    \/ PlaceOrder
    \/ \E filled \in BOOLEAN : Confirm(filled)
    \/ Fill
    \/ InsertOrderRow
    \/ Restart

Next == Around \/ Loop \/ RejectOrder \/ LoopError \/ Crash

\* The loop runs forever and the container is restarted when it dies.
Spec == Init /\ [][Next]_vars /\ WF_vars(Loop)

-----------------------------------------------------------------------------
(* Properties.                                                             *)

Verdicts == {RuleNames[k] : k \in DOMAIN RuleNames} \union {FinalVerdict}

CheckRow == [rule : Verdicts, passed : BOOLEAN]

OutcomeRow == [decision : Ids, mode : Modes, market : Markets]

TypeOK ==
    /\ mode \in Modes
    /\ killed \in BOOLEAN
    /\ decisions \in [Ids -> [kind : {"absent", "fused", "pair_leg"}, symbol : Symbols,
                              side : Sides, market : Markets \union {"unset"}]]
    /\ count \in 0..MaxDecisions
    /\ checks \in [Ids -> Seq(CheckRow)]
    /\ orders \in [Ids -> [Modes -> Nat]]
    /\ sent \in [Ids -> Nat]
    /\ book \in [Modes -> [Symbols -> [Markets -> Int]]]
    /\ run.step \in Steps /\ run.mode \in Modes /\ run.passed \in BOOLEAN
    /\ run.batch \in Seq(1..count) /\ run.results \in Seq(CheckRow)
    /\ run.outcomes \in Seq(OutcomeRow)
    /\ run.step \in {"context", "kill_switch", "rows"} => run.batch # <<>>
    /\ run.step \in {"execute", "confirm", "fill", "order_row"} => run.outcomes # <<>>
    /\ interrupts \in 0..MaxInterrupts
    /\ halted \subseteq 1..count

Rows(d) == orders[d]["backtest"] + orders[d]["paper"] + orders[d]["real"]

Ordered(d) == Rows(d) > 0 \/ sent[d] > 0

\* A decision leads to one order at most, in one mode, whatever errors, crashes and
\* mode changes come between its verdict and its execution.
AtMostOneOrderPerDecision == \A d \in Ids : Rows(d) <= 1 /\ sent[d] <= 1

\* Whatever was ordered was judged by every rule, passed them all, and had its final
\* verdict written before the order: a decision whose rows were cut short by a crash
\* is never traded.
OrdersFollowACompleteVerdict ==
    \A d \in Ids : Ordered(d) =>
        /\ {checks[d][k].rule : k \in DOMAIN checks[d]} = Verdicts
        /\ \A k \in DOMAIN checks[d] : checks[d][k].passed

\* No rule writes two rows about the same decision, although nothing in the database
\* forbids it and a judgement can be cut short anywhere: explanations shown to the
\* operator stay unambiguous.
EachRuleJudgesADecisionOnce ==
    \A d \in Ids : \A j, k \in DOMAIN checks[d] :
        checks[d][j].rule = checks[d][k].rule => j = k

\* The leg rows pair_execution writes carry verdict 'signal', so the risk engine
\* fetches and judges them like any decision: the legs, already filled by
\* pair_execution, must not be executed a second time.
PairLegsAreNeverTraded == \A d \in Ids : decisions[d].kind = "pair_leg" => ~Ordered(d)

\* A kill switch that is on, and stays on, stops every decision that was not judged
\* yet when it was set, the ones already fetched in the batch included. (Decisions
\* judged before it was set are still executed.)
KillSwitchStopsWhatIsNotJudged == \A d \in halted : ~Ordered(d)

Pending(d) == decisions[d].kind # "absent" /\ checks[d] = <<>>

\* With finitely many interruptions every decision is judged, those that LIMIT keeps out
\* of a batch included: whatever stayed pending at the head of the queue would keep them
\* out of the next ones too.
EveryDecisionIsJudged == \A d \in Ids : Pending(d) ~> ~Pending(d)

HasFinalRow(d) == \E k \in DOMAIN checks[d] : checks[d][k].rule = FinalVerdict

InOutcomes(d) == \E k \in DOMAIN run.outcomes : run.outcomes[k].decision = d

Stage(d) ==
    IF decisions[d].kind = "absent" THEN "absent"
    ELSE IF Ordered(d) THEN "ordered"
    ELSE IF checks[d] = <<>> THEN "pending"
    ELSE IF ~HasFinalRow(d)
         THEN IF run.step = "rows" /\ Head(run.batch) = d THEN "judging" ELSE "lost"
    ELSE IF ~checks[d][Len(checks[d])].passed THEN "refused"
    ELSE IF InOutcomes(d) THEN "approved"
    ELSE "lost"

Ledger == INSTANCE DecisionLedger WITH Decisions <- Ids, stage <- [d \in Ids |-> Stage(d)]

\* The orchestrator and the risk engine implement the ledger: once interrupted, a
\* judged decision is never taken up again, by any later batch.
ImplementsLedger == Ledger!Spec

-----------------------------------------------------------------------------
(* Statements of the repository that the code does not keep.               *)

\* risk_engine/main.py:272 ("separation etanche" of the paper and real capital) and
\* :310 ("le systeme ne doit jamais pouvoir depasser cette limite"): an order the
\* exchange accepts was sized on the capital allocated in real mode.
RealOrdersAreSizedOnRealCapital ==
    [][sent' # sent => Outcome.mode = "real"]_vars

\* rules/max_exposure.py:10: the total exposure, "apres cette nouvelle position, ne depasse
\* pas un seuil du capital disponible".
ExposureStaysUnderTheCap == \A m \in Modes : Exposure(m) <= ExposureCap
=============================================================================
