------------------------- MODULE OrchestratorProofs --------------------------
(***************************************************************************)
(* The road from decision to order, proved for every number of decisions,  *)
(* every set of symbols and every batch limit. The properties are not      *)
(* inductive: they speak of the tables, and the next order depends on what *)
(* the process carries in memory. Inductive ties the batch, the results    *)
(* and the outcomes the process carries to the rows the tables hold.       *)
(***************************************************************************)
EXTENDS Orchestrator, ProofFacts

-----------------------------------------------------------------------------
(* The inductive invariant.                                                *)

BatchSteps == {"context", "kill_switch", "rows"}
OrderSteps == {"execute", "confirm", "fill", "order_row"}

Judging(d) == run.step = "rows" /\ Head(run.batch) = d

\* The locals form one record; the exposure in the context is left untyped, as it is
\* a fold over the positions.
IsLocals(r) ==
    r \in [step : {r.step}, mode : {r.mode}, batch : {r.batch}, ctx : {r.ctx},
           results : {r.results}, passed : {r.passed}, outcomes : {r.outcomes}]

RunIsTyped == IsLocals(run) /\ run.ctx.mode \in Modes /\ run.ctx.market \in Markets

\* The rows a judgement leaves: those of the rules, in order; or all of them and the
\* final verdict they imply; or the refusal of a decision no rule was asked about.
RulesInOrder(d) == \A k \in DOMAIN checks[d] : k <= 5 => checks[d][k].rule = RuleNames[k]

Opened(d)  == Len(checks[d]) <= 5 /\ RulesInOrder(d)

Closed(d) ==
    /\ Len(checks[d]) = 6 /\ RulesInOrder(d)
    /\ checks[d][6].rule = FinalVerdict
    /\ checks[d][6].passed <=> \A k \in 1..5 : checks[d][k].passed

Blocked(d) == checks[d] = <<[rule |-> FinalVerdict, passed |-> FALSE]>>

Favourable(d) == Len(checks[d]) = 6 /\ \A k \in 1..6 : checks[d][k].passed

TablesAreInOrder ==
    \A d \in Ids :
        /\ decisions[d].kind = "absent" <=> d > count
        /\ d > count => checks[d] = <<>>
        /\ Opened(d) \/ Closed(d) \/ Blocked(d)
        /\ Favourable(d) => decisions[d].kind # "pair_leg"
        /\ Ordered(d) => Favourable(d)

\* The batch lists different decisions, and nothing was written about those that
\* come after the one at hand.
BatchIsFresh ==
    run.step \in BatchSteps =>
        /\ Increasing(run.batch)
        /\ \A i \in DOMAIN run.batch :
               i > 1 \/ run.step # "rows" => checks[run.batch[i]] = <<>>

\* The rows written about the decision at hand and the results still to be written
\* make one judgement.
ResultsComplete ==
    run.step = "rows" =>
        LET d == run.batch[1]
            n == Len(checks[d])
        IN /\ Opened(d) /\ n + Len(run.results) = 5
           /\ \A k \in DOMAIN run.results : run.results[k].rule = RuleNames[n + k]
           /\ run.passed <=> /\ \A k \in DOMAIN checks[d] : checks[d][k].passed
                             /\ \A k \in DOMAIN run.results : run.results[k].passed
           /\ run.passed => decisions[d].kind # "pair_leg"

\* What has been done of the outcome at the head.
HeadProgress(d) ==
    CASE run.step = "execute"              -> ~Ordered(d)
      [] run.step = "fill" /\ run.mode = "paper" -> Rows(d) = 1 /\ sent[d] = 0
      [] OTHER                             -> run.mode = "real" /\ Rows(d) = 0 /\ sent[d] = 1

\* The outcomes are different favourable decisions, and none but the head of the list
\* has been ordered.
OutcomesAreDue ==
    /\ run.step \in {"down", "sleep", "fetch"} => run.outcomes = <<>>
    /\ \A i, j \in DOMAIN run.outcomes :
           run.outcomes[i].decision = run.outcomes[j].decision => i = j
    /\ \A i \in DOMAIN run.outcomes :
           /\ Favourable(run.outcomes[i].decision)
           /\ i > 1 \/ run.step \in BatchSteps => ~Ordered(run.outcomes[i].decision)
    /\ run.step \in OrderSteps => HeadProgress(run.outcomes[1].decision)

\* A decision the kill switch covers has no favourable verdict and is not about to
\* receive one.
HaltedIsHeld ==
    /\ halted # {} => killed
    /\ \A d \in halted : ~Favourable(d) /\ ~(Judging(d) /\ run.passed)

Inductive ==
    /\ TypeOK /\ RunIsTyped
    /\ TablesAreInOrder /\ AtMostOneOrderPerDecision
    /\ BatchIsFresh /\ ResultsComplete /\ OutcomesAreDue
    /\ HaltedIsHeld

USE DEF Ids, Modes, Markets, Spot, Futures, Sides, Buy, Sell

-----------------------------------------------------------------------------
(* Types.                                                                  *)

\* A process between iterations carries nothing.
LEMMA IdleFields ==
    ASSUME NEW s, NEW m
    PROVE  LET r == [Idle(s) EXCEPT !.mode = m]
           IN /\ IsLocals(r) /\ IsLocals(Idle(s))
              /\ Idle(s).step = s /\ Idle(s).mode = "paper" /\ Idle(s).batch = <<>>
              /\ Idle(s).results = <<>> /\ Idle(s).outcomes = <<>> /\ Idle(s).passed = FALSE
              /\ Idle(s).ctx.mode \in Modes /\ Idle(s).ctx.market \in Markets
              /\ r.step = s /\ r.mode = m /\ r.batch = <<>> /\ r.results = <<>>
              /\ r.outcomes = <<>> /\ r.passed = FALSE
              /\ r.ctx.mode \in Modes /\ r.ctx.market \in Markets
BY DEF Idle, IsLocals, NoContext

\* Nothing is a list of anything.
LEMMA EmptyLists ==
    <<>> \in Seq(1..count) /\ <<>> \in Seq(CheckRow) /\ <<>> \in Seq(OutcomeRow)
BY EmptySeq

\* The state the migrations leave is in order: nothing decided, nothing carried.
LEMMA InitInductive == Init => Inductive
<1> SUFFICES ASSUME Init PROVE Inductive
  OBVIOUS
<1> USE MaxDecisionsAssumption, SymbolsAssumption, MaxInterruptsAssumption DEF Init
<1>1. /\ run.step = "sleep" /\ run.mode = "paper" /\ run.batch = <<>> /\ run.results = <<>>
      /\ run.outcomes = <<>> /\ run.passed = FALSE
  BY IdleFields
<1>2. AbsentDecision \in [kind : {"absent", "fused", "pair_leg"}, symbol : Symbols,
                          side : Sides, market : Markets \union {"unset"}]
  BY DEF AbsentDecision
<1>3. TypeOK
  <2>1. book \in [Modes -> [Symbols -> [Markets -> Int]]]
    BY DEF Flat
  <2>2. checks \in [Ids -> Seq(CheckRow)]
    BY EmptyLists
  <2>3. /\ run.batch \in Seq(1..count) /\ run.results \in Seq(CheckRow)
        /\ run.outcomes \in Seq(OutcomeRow) /\ run.step \in Steps
    BY <1>1, EmptyLists DEF Steps
  <2>4. mode \in Modes /\ killed \in BOOLEAN
    OBVIOUS
  <2>5. halted \subseteq 1..count
    OBVIOUS
  <2>6. interrupts \in 0..MaxInterrupts
    OBVIOUS
  <2>7. count \in 0..MaxDecisions
    OBVIOUS
  <2> QED BY <1>1, <1>2, <2>1, <2>2, <2>3, <2>4, <2>5, <2>6, <2>7 DEF TypeOK
<1>4. RunIsTyped
  BY IdleFields DEF RunIsTyped
<1>5. \A d \in Ids : Opened(d) /\ ~Favourable(d) /\ ~Ordered(d) /\ decisions[d].kind = "absent"
  BY DEF Opened, RulesInOrder, Favourable, Ordered, Rows, AbsentDecision
<1>6. TablesAreInOrder
  BY <1>5 DEF TablesAreInOrder
<1>7. AtMostOneOrderPerDecision
  BY DEF AtMostOneOrderPerDecision, Rows
<1>8. BatchIsFresh /\ ResultsComplete
  BY <1>1 DEF BatchIsFresh, ResultsComplete, BatchSteps
<1>9. OutcomesAreDue
  BY <1>1 DEF OutcomesAreDue, OrderSteps
<1>10. HaltedIsHeld
  BY <1>1 DEF HaltedIsHeld
<1> QED BY <1>3, <1>4, <1>6, <1>7, <1>8, <1>9, <1>10 DEF Inductive

-----------------------------------------------------------------------------
(* What the updates do.                                                    *)

\* A row of risk_checks is added to one decision.
LEMMA CheckAdded ==
    ASSUME TypeOK, NEW d \in Ids, NEW row \in CheckRow,
           checks' = [checks EXCEPT ![d] = Append(@, row)]
    PROVE  /\ checks' \in [Ids -> Seq(CheckRow)]
           /\ Len(checks'[d]) = Len(checks[d]) + 1
           /\ \A k \in 1..Len(checks[d]) : checks'[d][k] = checks[d][k]
           /\ checks'[d][Len(checks[d]) + 1] = row
           /\ \A e \in Ids \ {d} : checks'[e] = checks[e]
<1>1. checks \in [Ids -> Seq(CheckRow)] /\ checks[d] \in Seq(CheckRow)
  BY DEF TypeOK
<1>2. checks'[d] = Append(checks[d], row) /\ \A e \in Ids \ {d} : checks'[e] = checks[e]
  BY <1>1
<1> HIDE DEF Ids
<1>3. Append(checks[d], row) \in Seq(CheckRow)
  BY <1>1, AppendFacts
<1>4. checks' \in [Ids -> Seq(CheckRow)]
  BY <1>1, <1>3
<1> QED BY <1>1, <1>2, <1>4, AppendFacts

\* A row of `orders` is added to one decision.
LEMMA RowAdded ==
    ASSUME TypeOK, NEW d \in Ids, NEW m \in Modes, orders' = [orders EXCEPT ![d][m] = @ + 1]
    PROVE  /\ orders' \in [Ids -> [Modes -> Nat]]
           /\ Rows(d) \in Nat /\ Rows(d)' = Rows(d) + 1
           /\ \A e \in Ids \ {d} : Rows(e)' = Rows(e)
<1>1. orders \in [Ids -> [Modes -> Nat]] /\ orders[d] \in [Modes -> Nat]
  BY DEF TypeOK
<1>2. orders'[d] = [orders[d] EXCEPT ![m] = @ + 1]
  BY <1>1
<1>3. \A e \in Ids \ {d} : orders'[e] = orders[e]
  BY <1>1
<1>4. orders'[d] \in [Modes -> Nat]
  BY <1>1, <1>2
<1>5. orders' \in [Ids -> [Modes -> Nat]]
  <2> HIDE DEF Ids, Modes
  <2> QED BY <1>1, <1>3, <1>4
<1>6. Rows(d) \in Nat /\ Rows(d)' = Rows(d) + 1
  <2>1. PICK before : before = orders[d]
    OBVIOUS
  <2>2. /\ before["backtest"] \in Nat /\ before["paper"] \in Nat /\ before["real"] \in Nat
        /\ m = "backtest" \/ m = "paper" \/ m = "real"
    BY <1>1, <2>1 DEF Modes
  <2>3. \A k \in Modes : orders'[d][k] = IF k = m THEN before[k] + 1 ELSE before[k]
    BY <1>1, <1>2, <2>1
  <2>4. /\ "backtest" \in Modes /\ "paper" \in Modes /\ "real" \in Modes
        /\ "backtest" # "paper" /\ "backtest" # "real" /\ "paper" # "real"
    BY DEF Modes
  <2>5. /\ Rows(d) = before["backtest"] + before["paper"] + before["real"]
        /\ Rows(d)' = orders'[d]["backtest"] + orders'[d]["paper"] + orders'[d]["real"]
    BY <2>1 DEF Rows
  <2>6. CASE m = "backtest"
    <3>1. /\ orders'[d]["backtest"] = before["backtest"] + 1
          /\ orders'[d]["paper"] = before["paper"] /\ orders'[d]["real"] = before["real"]
      BY <2>3, <2>4, <2>6
    <3> QED BY <2>2, <2>5, <3>1
  <2>7. CASE m = "paper"
    <3>1. /\ orders'[d]["paper"] = before["paper"] + 1
          /\ orders'[d]["backtest"] = before["backtest"] /\ orders'[d]["real"] = before["real"]
      BY <2>3, <2>4, <2>7
    <3> QED BY <2>2, <2>5, <3>1
  <2>8. CASE m = "real"
    <3>1. /\ orders'[d]["real"] = before["real"] + 1
          /\ orders'[d]["backtest"] = before["backtest"] /\ orders'[d]["paper"] = before["paper"]
      BY <2>3, <2>4, <2>8
    <3> QED BY <2>2, <2>5, <3>1
  <2> QED BY <2>2, <2>6, <2>7, <2>8
<1>7. \A e \in Ids \ {d} : Rows(e)' = Rows(e)
  BY <1>3 DEF Rows
<1> QED BY <1>5, <1>6, <1>7

\* Ids are numbers, and only decisions that exist are covered by the kill switch.
LEMMA HaltedAreIds ==
    ASSUME Inductive
    PROVE  count \in Nat /\ 1..count \subseteq Ids /\ \A d \in halted : d \in Ids /\ d <= count
<1>1. count \in 0..MaxDecisions /\ halted \subseteq 1..count
  BY DEF Inductive, TypeOK
<1> QED BY <1>1, MaxDecisionsAssumption

\* The tables that say what was judged and ordered are left alone.
TablesAlone == UNCHANGED <<decisions, count, checks, orders, sent>>

\* The tables stay in order under a step that leaves them alone and does not switch
\* more decisions off.
LEMMA TablesKept ==
    ASSUME Inductive, TablesAlone
    PROVE  /\ TablesAreInOrder' /\ AtMostOneOrderPerDecision'
           /\ \A d \in Ids : /\ Opened(d)' <=> Opened(d)
                             /\ Favourable(d)' <=> Favourable(d)
                             /\ Ordered(d)' <=> Ordered(d)
                             /\ Rows(d)' = Rows(d)
<1>1. \A d \in Ids : /\ Opened(d)' <=> Opened(d)
                     /\ Closed(d)' <=> Closed(d)
                     /\ Blocked(d)' <=> Blocked(d)
                     /\ Favourable(d)' <=> Favourable(d)
                     /\ Rows(d)' = Rows(d)
  BY DEF TablesAlone, Opened, Closed, Blocked, RulesInOrder, Favourable, Rows
<1>2. \A d \in Ids : Ordered(d)' <=> Ordered(d)
  BY <1>1 DEF TablesAlone, Ordered
<1>3. TablesAreInOrder'
  BY <1>1, <1>2 DEF Inductive, TablesAreInOrder, TablesAlone
<1>4. AtMostOneOrderPerDecision'
  BY <1>1 DEF Inductive, AtMostOneOrderPerDecision, TablesAlone
<1> QED BY <1>1, <1>2, <1>3, <1>4

\* The decisions of the batch exist; the one at hand is the first.
LEMMA BatchAtHand ==
    ASSUME Inductive
    PROVE  /\ run.batch \in Seq(1..count) /\ Len(run.batch) \in Nat
           /\ DOMAIN run.batch = 1..Len(run.batch)
           /\ \A i \in DOMAIN run.batch : run.batch[i] \in 1..count /\ run.batch[i] \in Ids
           /\ run.step \in BatchSteps =>
                  /\ run.batch # <<>> /\ Head(run.batch) = run.batch[1] /\ 1 \in DOMAIN run.batch
                  /\ run.batch[1] \in 1..count /\ run.batch[1] \in Ids
           /\ "rows" \in BatchSteps /\ "context" \in BatchSteps /\ "kill_switch" \in BatchSteps
<1>1. run.batch \in Seq(1..count)
  BY DEF Inductive, TypeOK
<1>2. run.step \in BatchSteps => run.batch # <<>>
  BY DEF Inductive, TypeOK, BatchSteps
<1>3. 1..count \subseteq Ids
  BY HaltedAreIds
<1> HIDE DEF Ids
<1> QED BY <1>1, <1>2, <1>3, ListFacts DEF BatchSteps

\* The outcomes are typed; the one at hand is the first.
LEMMA OutcomesAtHand ==
    ASSUME Inductive
    PROVE  /\ run.outcomes \in Seq(OutcomeRow) /\ Len(run.outcomes) \in Nat
           /\ DOMAIN run.outcomes = 1..Len(run.outcomes)
           /\ \A i \in DOMAIN run.outcomes :
                  run.outcomes[i] \in OutcomeRow /\ run.outcomes[i].decision \in Ids
           /\ run.step \in OrderSteps =>
                  /\ run.outcomes # <<>> /\ Outcome = run.outcomes[1] /\ 1 \in DOMAIN run.outcomes
                  /\ Outcome.decision \in Ids /\ Outcome.market \in Markets
                  /\ run.outcomes[1].decision \in Ids
<1>1. run.outcomes \in Seq(OutcomeRow)
  BY DEF Inductive, TypeOK
<1>2. run.step \in OrderSteps => run.outcomes # <<>>
  BY DEF Inductive, TypeOK, OrderSteps
<1>3. \A r \in OutcomeRow : r.decision \in Ids /\ r.market \in Markets
  BY DEF OutcomeRow
<1> HIDE DEF Ids, Markets
<1> QED BY <1>1, <1>2, <1>3, ListFacts DEF Outcome

\* What the process carries stays in order when it and the tables are left alone.
LEMMA RunKept ==
    ASSUME Inductive, TablesAlone, run' = run
    PROVE  RunIsTyped' /\ BatchIsFresh' /\ ResultsComplete' /\ OutcomesAreDue'
<1>1. RunIsTyped' /\ BatchIsFresh'
  BY DEF Inductive, TablesAlone, RunIsTyped, BatchIsFresh
<1>2. ResultsComplete'
  BY BatchAtHand, TablesKept DEF Inductive, TablesAlone, ResultsComplete
<1>3. OutcomesAreDue'
  <2>1. \A d \in Ids : HeadProgress(d)' <=> HeadProgress(d)
    BY TablesKept DEF HeadProgress, TablesAlone
  <2> QED BY <2>1, OutcomesAtHand, TablesKept DEF Inductive, OutcomesAreDue
<1> QED BY <1>1, <1>2, <1>3

-----------------------------------------------------------------------------
(* The steps that end an iteration, and those around the loop.             *)

\* The process is between iterations, or down.
AtRest(r) ==
    /\ IsLocals(r) /\ r.step \in {"down", "sleep", "fetch"} /\ r.mode \in Modes
    /\ r.passed \in BOOLEAN /\ r.batch = <<>> /\ r.results = <<>> /\ r.outcomes = <<>>
    /\ r.ctx.mode \in Modes /\ r.ctx.market \in Markets

\* It then carries nothing that could go wrong.
LEMMA RestIsSafe ==
    ASSUME AtRest(run)'
    PROVE  /\ RunIsTyped' /\ BatchIsFresh' /\ ResultsComplete' /\ OutcomesAreDue'
           /\ run'.step \in Steps /\ run'.batch \in Seq(1..count') /\ run'.results \in Seq(CheckRow)
           /\ run'.outcomes \in Seq(OutcomeRow)
           /\ run'.step \notin BatchSteps \union OrderSteps
           /\ \A d : ~Judging(d)'
<1>1. run'.step \in Steps /\ run'.step \notin BatchSteps /\ run'.step \notin OrderSteps /\ run'.step # "rows"
  BY DEF AtRest, Steps, BatchSteps, OrderSteps
<1>2. <<>> \in Seq(1..count') /\ <<>> \in Seq(CheckRow) /\ <<>> \in Seq(OutcomeRow)
  BY EmptySeq
<1>3. RunIsTyped'
  BY DEF AtRest, RunIsTyped
<1>4. BatchIsFresh' /\ ResultsComplete'
  BY <1>1 DEF BatchIsFresh, ResultsComplete
<1>5. OutcomesAreDue'
  <2>1. DOMAIN run'.outcomes = {}
    BY DEF AtRest
  <2> QED BY <1>1, <2>1 DEF AtRest, OutcomesAreDue
<1>6. \A d : ~Judging(d)'
  BY <1>1 DEF Judging
<1> QED BY <1>1, <1>2, <1>3, <1>4, <1>5, <1>6 DEF AtRest

\* A step that changes neither the tables nor what the process carries preserves the
\* invariant when what it does change keeps its type.
LEMMA RestKept ==
    ASSUME Inductive, AtRest(run)', UNCHANGED <<outside, checks, effects>>,
           interrupts' \in 0..MaxInterrupts
    PROVE  Inductive'
<1>1. TablesAlone
  BY DEF TablesAlone, outside, effects
<1>2. TypeOK'
  <2>1. run'.mode \in Modes /\ run'.passed \in BOOLEAN
    BY DEF AtRest
  <2>2. /\ mode' = mode /\ killed' = killed /\ decisions' = decisions /\ count' = count
        /\ halted' = halted /\ checks' = checks /\ orders' = orders /\ sent' = sent /\ book' = book
    BY DEF outside, effects
  <2> QED BY <2>1, <2>2, RestIsSafe DEF Inductive, TypeOK, BatchSteps, OrderSteps
<1>3. HaltedIsHeld'
  <2>1. halted' = halted /\ killed' = killed
    BY DEF outside
  <2>2. \A d \in halted : d \in Ids
    BY HaltedAreIds
  <2>3. \A d \in halted : ~Favourable(d)'
    BY <1>1, <2>2, TablesKept DEF Inductive, HaltedIsHeld
  <2> QED BY <2>1, <2>3, RestIsSafe DEF HaltedIsHeld, Inductive
<1> QED BY <1>1, <1>2, <1>3, TablesKept, RestIsSafe DEF Inductive

\* The mode of the iteration is read; nothing is carried from the one before.
LEMMA FetchModeKept == Inductive /\ FetchMode => Inductive'
<1> SUFFICES ASSUME Inductive, FetchMode PROVE Inductive'
  OBVIOUS
<1>1. AtRest(run)'
  <2>1. mode \in Modes
    BY DEF Inductive, TypeOK
  <2>2. run' = [Idle("fetch") EXCEPT !.mode = mode]
    BY DEF FetchMode
  <2>3. AtRest([Idle("fetch") EXCEPT !.mode = mode])
    BY <2>1 DEF AtRest, Idle, IsLocals, NoContext
  <2> QED BY <2>2, <2>3
<1> QED BY <1>1, RestKept DEF FetchMode, Inductive, TypeOK

\* A process that stops or goes to sleep drops what it carried.
LEMMA IdleKept ==
    ASSUME Inductive, NEW s \in {"down", "sleep"}, run' = Idle(s),
           UNCHANGED <<outside, checks, effects>>, interrupts' \in 0..MaxInterrupts
    PROVE  Inductive'
<1>1. AtRest(run)'
  BY IdleFields DEF AtRest
<1> QED BY <1>1, RestKept

\* An exception, a crash and a restart empty what the process carries and leave the
\* tables as they are, half written as they may be.
LEMMA FailureKept == Inductive /\ (LoopError \/ Crash \/ Restart) => Inductive'
<1> SUFFICES ASSUME Inductive, LoopError \/ Crash \/ Restart PROVE Inductive'
  OBVIOUS
<1>1. interrupts' \in 0..MaxInterrupts
  BY MaxInterruptsAssumption DEF LoopError, Crash, Restart, Inductive, TypeOK
<1> QED BY <1>1, IdleKept DEF LoopError, Crash, Restart

-----------------------------------------------------------------------------
(* The processes around the loop.                                          *)

\* The decision engine inserts a decision: a new id, no row about it yet.
LEMMA InsertKept ==
    ASSUME Inductive, NEW kind \in {"fused", "pair_leg"}, NEW symbol \in Symbols,
           NEW side \in Sides, NEW market \in {"unset", "futures_perpetual"},
           Insert(kind, symbol, side, market)
    PROVE  Inductive'
<1> DEFINE new == count + 1
           row == [kind |-> kind, symbol |-> symbol, side |-> side, market |-> market]
<1>1. new \in Ids /\ new > count /\ count' = new /\ count \in Nat /\ new \in 0..MaxDecisions
  BY HaltedAreIds, MaxDecisionsAssumption DEF Insert, Inductive, TypeOK
<1>2. /\ mode' = mode /\ killed' = killed /\ checks' = checks /\ run' = run
      /\ interrupts' = interrupts /\ orders' = orders /\ sent' = sent /\ book' = book
  BY DEF Insert, effects
<1>3. decisions' = [decisions EXCEPT ![new] = row]
  BY DEF Insert
<1>4. halted' \subseteq halted \union {new} /\ (killed \/ halted' = halted)
  BY DEF Insert
<1> HIDE DEF new, Ids
<1>5. decisions'[new].kind = kind /\ \A d \in Ids \ {new} : decisions'[d] = decisions[d]
  BY <1>1, <1>3 DEF Inductive, TypeOK
<1>6. TypeOK'
  <2>1. row \in [kind : {"absent", "fused", "pair_leg"}, symbol : Symbols,
                 side : Sides, market : Markets \union {"unset"}]
    OBVIOUS
  <2>2. decisions' \in [Ids -> [kind : {"absent", "fused", "pair_leg"}, symbol : Symbols,
                                side : Sides, market : Markets \union {"unset"}]]
    BY <1>1, <1>3, <2>1 DEF Inductive, TypeOK
  <2>3. 1..count \subseteq 1..count'
    BY <1>1
  <2>4. run.batch \in Seq(1..count')
    BY <2>3, SeqMonotonic DEF Inductive, TypeOK
  <2>5. halted' \subseteq 1..count'
    <3>1. new \in 1..count'
      BY <1>1 DEF new
    <3>2. halted \subseteq 1..count
      BY DEF Inductive, TypeOK
    <3> QED BY <1>4, <2>3, <3>1, <3>2
  <2> QED BY <1>1, <1>2, <2>2, <2>4, <2>5 DEF Inductive, TypeOK
<1>7. \A d \in Ids : /\ Opened(d)' <=> Opened(d)
                     /\ Closed(d)' <=> Closed(d)
                     /\ Blocked(d)' <=> Blocked(d)
                     /\ Favourable(d)' <=> Favourable(d)
                     /\ Rows(d)' = Rows(d)
                     /\ Ordered(d)' <=> Ordered(d)
  BY <1>2 DEF Opened, Closed, Blocked, RulesInOrder, Favourable, Rows, Ordered
<1>8. checks[new] = <<>> /\ ~Favourable(new)
  BY <1>1 DEF Inductive, TablesAreInOrder, Favourable
<1>9. TablesAreInOrder'
  <2> SUFFICES ASSUME NEW d \in Ids
               PROVE  /\ decisions'[d].kind = "absent" <=> d > count'
                      /\ d > count' => checks'[d] = <<>>
                      /\ Favourable(d)' => decisions'[d].kind # "pair_leg"
    BY <1>7 DEF Inductive, TablesAreInOrder
  <2>1. CASE d = new
    BY <1>1, <1>2, <1>5, <1>7, <1>8, <2>1
  <2>2. CASE d # new
    <3>1. d > count' <=> d > count
      <4>1. d \in Nat /\ d # count + 1
        BY <2>2 DEF Ids, new
      <4>2. count' = count + 1
        BY <1>1 DEF new
      <4> QED BY <1>1, <4>1, <4>2
    <3> QED BY <1>2, <1>5, <1>7, <2>2, <3>1 DEF Inductive, TablesAreInOrder
  <2> QED BY <2>1, <2>2
<1>10. AtMostOneOrderPerDecision'
  BY <1>2, <1>7 DEF Inductive, AtMostOneOrderPerDecision
<1>11. RunIsTyped' /\ BatchIsFresh'
  BY <1>2 DEF Inductive, RunIsTyped, BatchIsFresh
<1>12. ResultsComplete'
  <2> SUFFICES ASSUME run.step = "rows" PROVE ResultsComplete'
    BY <1>2 DEF ResultsComplete
  <2>1. run.batch[1] \in Ids /\ run.batch[1] # new
    BY <1>1, BatchAtHand
  <2> QED BY <1>2, <1>5, <1>7, <2>1 DEF Inductive, ResultsComplete
<1>13. OutcomesAreDue'
  <2>1. \A i \in DOMAIN run.outcomes : run.outcomes[i].decision \in Ids
    BY OutcomesAtHand
  <2>2. \A d \in Ids : HeadProgress(d)' <=> HeadProgress(d)
    BY <1>2, <1>7 DEF HeadProgress
  <2>3. run.step \in OrderSteps => run.outcomes[1].decision \in Ids
    BY OutcomesAtHand
  <2> QED BY <1>2, <1>7, <2>1, <2>2, <2>3 DEF Inductive, OutcomesAreDue
<1>14. HaltedIsHeld'
  <2>1. halted' # {} => killed'
    BY <1>2, <1>4 DEF Inductive, HaltedIsHeld
  <2>2. \A d \in halted' : ~Favourable(d)'
    BY <1>1, <1>4, <1>7, <1>8, HaltedAreIds DEF Inductive, HaltedIsHeld
  <2>3. ~Judging(new)
    BY <1>1, BatchAtHand DEF Judging
  <2>4. \A d \in halted' : ~(Judging(d) /\ run.passed)
    BY <1>4, <2>3 DEF Inductive, HaltedIsHeld
  <2> QED BY <1>2, <2>1, <2>2, <2>4 DEF HaltedIsHeld, Judging
<1> QED BY <1>6, <1>9, <1>10, <1>11, <1>12, <1>13, <1>14 DEF Inductive

\* The kill switch is moved; turned on, it covers every decision not judged yet.
LEMMA KillSwitchKept ==
    ASSUME Inductive, NEW active \in BOOLEAN, SetKillSwitch(active)
    PROVE  Inductive'
<1>1. /\ mode' = mode /\ decisions' = decisions /\ count' = count /\ checks' = checks
      /\ run' = run /\ interrupts' = interrupts /\ orders' = orders /\ sent' = sent
      /\ book' = book /\ TablesAlone
  BY DEF SetKillSwitch, effects, TablesAlone
<1>2. TypeOK'
  <2>1. killed' \in BOOLEAN /\ halted' \subseteq 1..count
    BY HaltedAreIds DEF SetKillSwitch, Inductive, TypeOK
  <2> QED BY <1>1, <2>1 DEF Inductive, TypeOK
<1>3. HaltedIsHeld'
  <2>1. halted' # {} => killed'
    BY DEF SetKillSwitch
  <2> SUFFICES ASSUME NEW d \in halted' PROVE ~Favourable(d)' /\ ~(Judging(d) /\ run.passed)'
    BY <2>1 DEF HaltedIsHeld
  <2>2. d \in halted \/ (d \in 1..count /\ checks[d] = <<>> /\ ~Judging(d))
    BY DEF SetKillSwitch, Judged, Judging
  <2>3. d \in Ids /\ ~Favourable(d) /\ ~(Judging(d) /\ run.passed)
    BY <2>2, HaltedAreIds DEF Inductive, HaltedIsHeld, Favourable
  <2> QED BY <1>1, <2>3, TablesKept DEF Judging
<1>4. RunIsTyped' /\ BatchIsFresh' /\ ResultsComplete' /\ OutcomesAreDue'
  BY <1>1, RunKept
<1> QED BY <1>1, <1>2, <1>3, <1>4, TablesKept DEF Inductive

\* The mode of the platform changes; what is already read stays read.
LEMMA ChangeModeKept ==
    ASSUME Inductive, NEW target \in TargetModes, ChangeMode(target)
    PROVE  Inductive'
<1>1. /\ killed' = killed /\ decisions' = decisions /\ count' = count /\ checks' = checks
      /\ run' = run /\ interrupts' = interrupts /\ orders' = orders /\ sent' = sent
      /\ book' = book /\ halted' = halted /\ TablesAlone
  BY DEF ChangeMode, effects, TablesAlone
<1>2. mode' \in Modes
  BY TargetModesAssumption DEF ChangeMode
<1>3. TypeOK'
  BY <1>1, <1>2 DEF Inductive, TypeOK
<1>4. HaltedIsHeld'
  BY <1>1, TablesKept, HaltedAreIds DEF Inductive, HaltedIsHeld, Judging
<1>5. RunIsTyped' /\ BatchIsFresh' /\ ResultsComplete' /\ OutcomesAreDue'
  BY <1>1, RunKept
<1> QED BY <1>1, <1>3, <1>4, <1>5, TablesKept DEF Inductive

-----------------------------------------------------------------------------
(* Judging the batch.                                                      *)

\* While the batch is judged the outcomes wait.
LEMMA OutcomesStillDue ==
    ASSUME Inductive, TablesAlone, run.step \in BatchSteps, run'.step \in BatchSteps,
           run'.outcomes = run.outcomes
    PROVE  OutcomesAreDue'
<1>1. /\ run'.step \notin {"down", "sleep", "fetch"} /\ run'.step \notin OrderSteps
      /\ run.step \notin OrderSteps
  BY DEF BatchSteps, OrderSteps
<1>2. \A i \in DOMAIN run.outcomes :
          /\ run.outcomes[i].decision \in Ids
          /\ Favourable(run.outcomes[i].decision) /\ ~Ordered(run.outcomes[i].decision)
  BY OutcomesAtHand DEF Inductive, OutcomesAreDue
<1>3. \A i, j \in DOMAIN run.outcomes :
          run.outcomes[i].decision = run.outcomes[j].decision => i = j
  BY DEF Inductive, OutcomesAreDue
<1> QED BY <1>1, <1>2, <1>3, TablesKept DEF OutcomesAreDue

\* The batch the query returns: pending decisions, each once, oldest first.
LEMMA BatchFetched ==
    ASSUME Inductive, NEW m \in 0..Cardinality(PendingDecisions)
    PROVE  LET batch == SubSeq(OldestFirst(PendingDecisions), 1, m)
           IN /\ batch \in Seq(1..count) /\ Increasing(batch)
              /\ \A i \in DOMAIN batch : checks[batch[i]] = <<>>
<1> DEFINE P == PendingDecisions
           s == OldestFirst(P)
           batch == SubSeq(s, 1, m)
<1>1. count \in Nat /\ P \in SUBSET (1..count)
  BY HaltedAreIds DEF PendingDecisions
<1>2. P \in SUBSET (0..count)
  BY <1>1
<1>3. Cardinality(P) \in Nat
  BY <1>1, <1>2, FiniteUpTo, FS_CardinalityType
<1>4. s \in [1..Cardinality(P) -> P] /\ Increasing(s)
  <2>1. \E t \in [1..Cardinality(P) -> P] : Increasing(t)
    <3> HIDE DEF P
    <3> QED BY <1>1, IncreasingList DEF Increasing
  <2> HIDE DEF P
  <2> QED BY <2>1 DEF OldestFirst
<1>5. \A d \in P : checks[d] = <<>>
  BY DEF PendingDecisions
<1> HIDE DEF P, s
<1>6. m \in Int /\ 1 \in Int /\ \A i \in 1..m : s[i] \in P
  BY <1>3, <1>4 DEF P
<1>7. /\ batch \in Seq(P) /\ Len(batch) = IF 1 <= m THEN m - 1 + 1 ELSE 0
      /\ \A i \in 1..(m - 1 + 1) : batch[i] = s[1 + i - 1]
  BY <1>6, SubSeqProperties
<1>8. m \in Nat /\ m <= Cardinality(P)
  BY <1>3 DEF P
<1> HIDE DEF batch
<1>9. DOMAIN batch = 1..m /\ \A i \in 1..m : batch[i] = s[i]
  <2>1. DOMAIN batch = 1..Len(batch)
    BY <1>7, LenProperties
  <2>2. Len(batch) = m /\ m - 1 + 1 = m
    BY <1>7, <1>8
  <2>3. \A i \in 1..m : 1 + i - 1 = i
    OBVIOUS
  <2> QED BY <1>7, <2>1, <2>2, <2>3
<1>10. batch \in Seq(1..count)
  BY <1>1, <1>7, SeqMonotonic
<1>11. Increasing(batch)
  BY <1>3, <1>4, <1>8, <1>9 DEF Increasing
<1>12. \A i \in DOMAIN batch : checks[batch[i]] = <<>>
  BY <1>4, <1>5, <1>6, <1>9
<1> QED BY <1>10, <1>11, <1>12 DEF batch, s, P

\* The batch is what the query returns, at most BATCH_LIMIT rows.
LEMMA FetchBatchKept == Inductive /\ FetchBatch => Inductive'
<1> SUFFICES ASSUME Inductive, FetchBatch PROVE Inductive'
  OBVIOUS
<1> DEFINE n == Cardinality(PendingDecisions)
           m == IF n < BatchLimit THEN n ELSE BatchLimit
           batch == SubSeq(OldestFirst(PendingDecisions), 1, m)
<1>1. m \in 0..n
  <2>1. n \in Nat
    <3>1. count \in Nat /\ PendingDecisions \in SUBSET (0..count)
      BY HaltedAreIds DEF PendingDecisions
    <3> QED BY <3>1, FiniteUpTo, FS_CardinalityType
  <2> HIDE DEF n
  <2> QED BY <2>1, BatchLimitAssumption
<1>2. /\ batch \in Seq(1..count) /\ Increasing(batch)
      /\ \A i \in DOMAIN batch : checks[batch[i]] = <<>>
  <2> HIDE DEF m
  <2> QED BY <1>1, BatchFetched
<1>3. /\ run' = IF batch = <<>> THEN Idle("sleep")
                ELSE [run EXCEPT !.step = "context", !.batch = batch]
      /\ UNCHANGED <<outside, checks, effects>> /\ interrupts' = interrupts
      /\ run.step = "fetch"
  BY DEF FetchBatch
<1> HIDE DEF batch, m
<1>4. interrupts' \in 0..MaxInterrupts
  BY <1>3 DEF Inductive, TypeOK
<1>5. CASE batch = <<>>
  BY <1>3, <1>4, <1>5, IdleKept
<1>6. CASE batch # <<>>
  <2>1. /\ IsLocals(run') /\ run'.step = "context" /\ run'.batch = batch /\ run'.mode = run.mode
        /\ run'.ctx = run.ctx /\ run'.results = run.results /\ run'.passed = run.passed
        /\ run'.outcomes = run.outcomes
    BY <1>3, <1>6 DEF Inductive, RunIsTyped, IsLocals
  <2>2. /\ mode' = mode /\ killed' = killed /\ decisions' = decisions /\ count' = count
        /\ halted' = halted /\ checks' = checks /\ orders' = orders /\ sent' = sent /\ book' = book
        /\ TablesAlone
    BY <1>3 DEF outside, effects, TablesAlone
  <2>3. TypeOK'
    BY <1>2, <1>4, <1>6, <2>1, <2>2 DEF Inductive, TypeOK, Steps
  <2>4. RunIsTyped'
    BY <2>1 DEF Inductive, RunIsTyped
  <2>5. BatchIsFresh' /\ ResultsComplete'
    BY <1>2, <2>1, <2>2 DEF BatchIsFresh, ResultsComplete
  <2>6. run.outcomes = <<>> /\ DOMAIN run.outcomes = {} /\ run'.step \notin OrderSteps
    BY <1>3, <2>1 DEF Inductive, OutcomesAreDue, OrderSteps
  <2>7. OutcomesAreDue'
    BY <2>1, <2>6 DEF OutcomesAreDue
  <2>8. HaltedIsHeld'
    BY <2>1, <2>2, TablesKept, HaltedAreIds DEF Inductive, HaltedIsHeld, Judging
  <2> QED BY <2>2, <2>3, <2>4, <2>5, <2>7, <2>8, TablesKept DEF Inductive
<1> QED BY <1>5, <1>6

\* The context of the first decision is read into the iteration.
LEMMA ReadContextKept == Inductive /\ ReadContext => Inductive'
<1> SUFFICES ASSUME Inductive, ReadContext PROVE Inductive'
  OBVIOUS
<1>market. PICK market \in Markets : \E held, exposure :
          run' = [run EXCEPT !.step = "kill_switch",
                             !.ctx = [mode |-> mode, market |-> market,
                                      held |-> held, exposure |-> exposure]]
  <2>1. \A d \in Ids : \A spot, futures : MarketOf(d, spot, futures) \in Markets
    BY DEF MarketOf, Inductive, TypeOK
  <2>2. Head(run.batch) \in Ids
    BY BatchAtHand DEF ReadContext
  <2> QED BY <2>1, <2>2 DEF ReadContext
<1>1. PICK held, exposure :
          run' = [run EXCEPT !.step = "kill_switch",
                             !.ctx = [mode |-> mode, market |-> market,
                                      held |-> held, exposure |-> exposure]]
  BY <1>market
<1>2. /\ IsLocals(run') /\ run'.step = "kill_switch" /\ run'.batch = run.batch
      /\ run'.mode = run.mode /\ run'.ctx.mode = mode /\ run'.ctx.market = market
      /\ run'.results = run.results /\ run'.passed = run.passed /\ run'.outcomes = run.outcomes
  BY <1>1 DEF Inductive, RunIsTyped, IsLocals
<1>3. /\ mode' = mode /\ killed' = killed /\ decisions' = decisions /\ count' = count
      /\ halted' = halted /\ checks' = checks /\ orders' = orders /\ sent' = sent /\ book' = book
      /\ interrupts' = interrupts /\ TablesAlone /\ run.step = "context"
  BY DEF ReadContext, outside, effects, TablesAlone
<1>4. TypeOK'
  BY <1>2, <1>3 DEF Inductive, TypeOK, Steps
<1>5. RunIsTyped'
  BY <1>2 DEF RunIsTyped, Inductive, TypeOK
<1>6. BatchIsFresh' /\ ResultsComplete'
  BY <1>2, <1>3 DEF Inductive, BatchIsFresh, ResultsComplete, BatchSteps
<1>7. OutcomesAreDue'
  BY <1>2, <1>3, OutcomesStillDue DEF BatchSteps
<1>8. HaltedIsHeld'
  BY <1>2, <1>3, TablesKept, HaltedAreIds DEF Inductive, HaltedIsHeld, Judging
<1> QED BY <1>3, <1>4, <1>5, <1>6, <1>7, <1>8, TablesKept DEF Inductive

\* The judgement of the rules: one result per rule, in order. A pair leg fails the
\* sizing rule, and everything fails while the kill switch is on.
LEMMA Verdict ==
    ASSUME Inductive, NEW d \in Ids, NEW ctx, NEW favourable \in BOOLEAN
    PROVE  LET results == [k \in DOMAIN RuleNames |->
                              [rule |-> RuleNames[k],
                               passed |-> Passes(RuleNames[k], d, ctx, killed, favourable)]]
           IN /\ results \in Seq(CheckRow) /\ Len(results) = 5
              /\ \A k \in DOMAIN results : results[k].rule = RuleNames[k]
              /\ (\A k \in DOMAIN results : results[k].passed) =>
                     ~killed /\ decisions[d].kind # "pair_leg"
<1> DEFINE row(k) == [rule |-> RuleNames[k],
                      passed |-> Passes(RuleNames[k], d, ctx, killed, favourable)]
           results == [k \in DOMAIN RuleNames |-> row(k)]
<1>1. DOMAIN RuleNames = 1..5
  BY DEF RuleNames
<1>2. /\ RuleNames[1] = "kill_switch" /\ RuleNames[2] = "spot_no_shorting"
      /\ RuleNames[3] = "position_sizing" /\ RuleNames[4] = "max_exposure"
      /\ RuleNames[5] = "market_conditions"
  BY DEF RuleNames
<1>3. Passes(RuleNames[1], d, ctx, killed, favourable) = ~killed
  BY <1>2 DEF Passes
<1>4. Passes(RuleNames[3], d, ctx, killed, favourable) = (SuggestedQuantity(d) > 0)
  BY <1>2 DEF Passes
<1>5. decisions[d].kind = "pair_leg" => SuggestedQuantity(d) = 0
  BY DEF SuggestedQuantity, RiskReward, MaxRiskFraction
<1>6. \A k \in 1..5 : Passes(RuleNames[k], d, ctx, killed, favourable) \in BOOLEAN
  <2>2. Passes(RuleNames[2], d, ctx, killed, favourable) \in BOOLEAN
    <3>1. Passes(RuleNames[2], d, ctx, killed, favourable) =
              (ctx.market = Spot /\ decisions[d].side = Sell => ctx.held > 0)
      BY <1>2 DEF Passes
    <3> QED BY <3>1
  <2>3. Passes(RuleNames[4], d, ctx, killed, favourable) \in BOOLEAN
    <3>1. Passes(RuleNames[4], d, ctx, killed, favourable) =
              (SuggestedQuantity(d) > 0 /\ ctx.exposure + 1 <= ExposureCap)
      BY <1>2 DEF Passes
    <3> QED BY <3>1
  <2>4. Passes(RuleNames[5], d, ctx, killed, favourable) \in BOOLEAN
    <3>1. Passes(RuleNames[5], d, ctx, killed, favourable) = (SuggestedQuantity(d) > 0 /\ favourable)
      BY <1>2 DEF Passes
    <3> QED BY <3>1
  <2>5. Passes(RuleNames[1], d, ctx, killed, favourable) \in BOOLEAN
    BY <1>3
  <2>6. Passes(RuleNames[3], d, ctx, killed, favourable) \in BOOLEAN
    BY <1>4
  <2> QED BY <2>2, <2>3, <2>4, <2>5, <2>6
<1>7. \A k \in 1..5 : row(k) \in CheckRow
  BY <1>1, <1>6 DEF CheckRow, Verdicts
<1>8. results \in Seq(CheckRow) /\ Len(results) = 5
  <2>1. results = [k \in 1..5 |-> row(k)]
    BY <1>1
  <2> HIDE DEF row
  <2> QED BY <1>7, <2>1
<1>9. \A k \in DOMAIN results : results[k].rule = RuleNames[k]
  OBVIOUS
<1>10. (\A k \in DOMAIN results : results[k].passed) => ~killed /\ decisions[d].kind # "pair_leg"
  <2> SUFFICES ASSUME \A k \in DOMAIN results : results[k].passed
               PROVE  ~killed /\ decisions[d].kind # "pair_leg"
    OBVIOUS
  <2>1. \A k \in 1..5 : row(k).passed
    <3>1. \A k \in 1..5 : k \in DOMAIN results /\ results[k] = row(k)
      BY <1>1
    <3> HIDE DEF row, results
    <3> QED BY <3>1
  <2>2. Passes(RuleNames[1], d, ctx, killed, favourable) /\ Passes(RuleNames[3], d, ctx, killed, favourable)
    BY <2>1
  <2>3. ~killed /\ SuggestedQuantity(d) > 0
    BY <1>3, <1>4, <2>2
  <2> QED BY <1>5, <2>3
<1> QED BY <1>8, <1>9, <1>10

\* The six results are computed at once, the kill switch read last among the inputs.
LEMMA ReadKillSwitchKept ==
    ASSUME Inductive, NEW favourable \in BOOLEAN, ReadKillSwitch(favourable)
    PROVE  Inductive'
<1>1. run.step = "kill_switch" /\ run.step \in BatchSteps
  BY BatchAtHand DEF ReadKillSwitch
<1>2. PICK d \in Ids : /\ d = Head(run.batch) /\ d = run.batch[1] /\ checks[d] = <<>>
                       /\ 1 \in DOMAIN run.batch
  BY <1>1, BatchAtHand DEF Inductive, BatchIsFresh
<1> DEFINE results == [k \in DOMAIN RuleNames |->
                          [rule |-> RuleNames[k],
                           passed |-> Passes(RuleNames[k], d, run.ctx, killed, favourable)]]
           passed == \A k \in DOMAIN results : results[k].passed
<1>3. /\ results \in Seq(CheckRow) /\ Len(results) = 5
      /\ \A k \in DOMAIN results : results[k].rule = RuleNames[k]
      /\ passed => ~killed /\ decisions[d].kind # "pair_leg"
  BY Verdict
<1>4. run' = [run EXCEPT !.step = "rows", !.results = results, !.passed = passed]
  BY <1>2 DEF ReadKillSwitch
<1> HIDE DEF results
<1>5. /\ IsLocals(run') /\ run'.step = "rows" /\ run'.batch = run.batch
      /\ run'.mode = run.mode /\ run'.ctx = run.ctx /\ run'.results = results
      /\ run'.passed = passed /\ run'.outcomes = run.outcomes
  BY <1>4 DEF Inductive, RunIsTyped, IsLocals
<1>6. /\ mode' = mode /\ killed' = killed /\ decisions' = decisions /\ count' = count
      /\ halted' = halted /\ checks' = checks /\ orders' = orders /\ sent' = sent /\ book' = book
      /\ interrupts' = interrupts /\ TablesAlone
  BY DEF ReadKillSwitch, outside, effects, TablesAlone
<1>7. TypeOK'
  <2>1. passed \in BOOLEAN
    OBVIOUS
  <2>2. run.batch # <<>>
    BY <1>1, BatchAtHand
  <2> HIDE DEF passed
  <2> QED BY <1>3, <1>5, <1>6, <2>1, <2>2 DEF Inductive, TypeOK, Steps
<1>8. RunIsTyped'
  BY <1>5 DEF RunIsTyped, Inductive
<1>9. BatchIsFresh'
  BY <1>1, <1>5, <1>6 DEF Inductive, BatchIsFresh, BatchSteps
<1>10. ResultsComplete'
  <2>1. Len(checks[d]) = 0 /\ DOMAIN checks[d] = {} /\ Opened(d)
    BY <1>2 DEF Opened, RulesInOrder
  <2>2. Opened(d)'
    BY <1>2, <1>6, <2>1, TablesKept
  <2>3. \A k \in DOMAIN results : results[k].rule = RuleNames[0 + k]
    <3>1. \A k \in DOMAIN results : 0 + k = k
      BY <1>3, LenProperties
    <3> QED BY <1>3, <3>1
  <2>4. passed => decisions[d].kind # "pair_leg"
    BY <1>3
  <2>5. /\ run'.batch[1] = d /\ checks'[d] = <<>> /\ run'.results = results
        /\ decisions' = decisions
    BY <1>2, <1>5, <1>6
  <2>6. run'.passed <=> /\ \A k \in DOMAIN checks'[d] : checks'[d][k].passed
                        /\ \A k \in DOMAIN results : results[k].passed
    BY <1>5, <2>5
  <2>7. Len(checks'[d]) = 0 /\ 0 + Len(results) = 5
    BY <1>3, <2>5
  <2> HIDE DEF passed
  <2> QED BY <1>5, <2>2, <2>3, <2>4, <2>5, <2>6, <2>7 DEF ResultsComplete
<1>11. OutcomesAreDue'
  BY <1>1, <1>5, <1>6, BatchAtHand, OutcomesStillDue
<1>12. HaltedIsHeld'
  <2>1. \A e \in halted : killed /\ ~passed
    BY <1>3 DEF Inductive, HaltedIsHeld
  <2> HIDE DEF passed
  <2> QED BY <1>5, <1>6, <2>1, TablesKept, HaltedAreIds DEF Inductive, HaltedIsHeld
<1> QED BY <1>6, <1>7, <1>8, <1>9, <1>10, <1>11, <1>12, TablesKept DEF Inductive

\* A row is added about a decision that has no favourable verdict yet: what the tables
\* say of the others stays, and so does the order of the tables if the row fits.
LEMMA JudgementKept ==
    ASSUME Inductive, NEW d \in Ids, d <= count, ~Favourable(d),
           UNCHANGED <<decisions, count, orders, sent>>,
           \A e \in Ids \ {d} : checks'[e] = checks[e],
           (Opened(d) \/ Closed(d) \/ Blocked(d))',
           Favourable(d)' => decisions[d].kind # "pair_leg"
    PROVE  /\ TablesAreInOrder' /\ AtMostOneOrderPerDecision'
           /\ \A e \in Ids : Ordered(e)' <=> Ordered(e)
           /\ \A e \in Ids \ {d} : /\ Opened(e)' <=> Opened(e)
                                   /\ Favourable(e)' <=> Favourable(e)
           /\ ~Ordered(d)
<1>1. \A e \in Ids \ {d} : /\ Opened(e)' <=> Opened(e)
                           /\ Closed(e)' <=> Closed(e)
                           /\ Blocked(e)' <=> Blocked(e)
                           /\ Favourable(e)' <=> Favourable(e)
  BY DEF Opened, Closed, Blocked, RulesInOrder, Favourable
<1>2. \A e \in Ids : Rows(e)' = Rows(e) /\ (Ordered(e)' <=> Ordered(e))
  BY DEF Rows, Ordered
<1>3. ~Ordered(d)
  BY DEF Inductive, TablesAreInOrder
<1>4. ~(d > count)
  BY HaltedAreIds
<1>5. TablesAreInOrder'
  <2> SUFFICES ASSUME NEW e \in Ids
               PROVE  /\ decisions[e].kind = "absent" <=> e > count
                      /\ e > count => checks'[e] = <<>>
                      /\ (Opened(e) \/ Closed(e) \/ Blocked(e))'
                      /\ Favourable(e)' => decisions[e].kind # "pair_leg"
                      /\ Ordered(e) => Favourable(e)'
    BY <1>2 DEF TablesAreInOrder
  <2>1. CASE e = d
    BY <1>3, <1>4, <2>1 DEF Inductive, TablesAreInOrder
  <2>2. CASE e # d
    BY <1>1, <2>2 DEF Inductive, TablesAreInOrder
  <2> QED BY <2>1, <2>2
<1>6. AtMostOneOrderPerDecision'
  BY <1>2 DEF Inductive, AtMostOneOrderPerDecision
<1> QED BY <1>1, <1>2, <1>3, <1>5, <1>6

\* One row of risk_checks, in the order of the rules; the sixth comes when all are in.
LEMMA InsertRuleRowKept == Inductive /\ InsertRuleRow => Inductive'
<1> SUFFICES ASSUME Inductive, InsertRuleRow PROVE Inductive'
  OBVIOUS
<1>1. run.step = "rows" /\ run.step \in BatchSteps /\ run.results # <<>>
  BY BatchAtHand DEF InsertRuleRow
<1>2. PICK d \in Ids : /\ d = Head(run.batch) /\ d = run.batch[1]
                       /\ 1 \in DOMAIN run.batch /\ d <= count
  BY <1>1, BatchAtHand, HaltedAreIds
<1>n. PICK n : n = Len(checks[d])
  OBVIOUS
<1>r. PICK row : row = run.results[1]
  OBVIOUS
<1>3. /\ Opened(d) /\ n + Len(run.results) = 5
      /\ \A k \in DOMAIN run.results : run.results[k].rule = RuleNames[n + k]
      /\ run.passed <=> /\ \A k \in DOMAIN checks[d] : checks[d][k].passed
                        /\ \A k \in DOMAIN run.results : run.results[k].passed
      /\ run.passed => decisions[d].kind # "pair_leg"
  BY <1>1, <1>2, <1>n DEF Inductive, ResultsComplete
<1>4. run.results \in Seq(CheckRow) /\ checks[d] \in Seq(CheckRow)
  BY <1>2 DEF Inductive, TypeOK
<1>5. /\ Len(run.results) \in Nat /\ Len(run.results) > 0 /\ row \in CheckRow
      /\ DOMAIN run.results = 1..Len(run.results)
      /\ Head(run.results) = row /\ Tail(run.results) \in Seq(CheckRow)
      /\ Len(Tail(run.results)) = Len(run.results) - 1
      /\ DOMAIN Tail(run.results) = 1..(Len(run.results) - 1)
      /\ \A i \in 1..(Len(run.results) - 1) : Tail(run.results)[i] = run.results[i + 1]
  BY <1>1, <1>r, <1>4, ListFacts
<1>6. /\ run' = [run EXCEPT !.results = Tail(run.results)]
      /\ checks' = [checks EXCEPT ![d] = Append(@, row)]
      /\ UNCHANGED <<outside, effects, interrupts>>
  BY <1>2, <1>5 DEF InsertRuleRow
<1>7. n \in Nat /\ DOMAIN checks[d] = 1..n
  BY <1>n, <1>4, ListFacts
<1>8. /\ checks' \in [Ids -> Seq(CheckRow)]
      /\ Len(checks'[d]) = n + 1 /\ checks'[d][n + 1] = row
      /\ \A k \in 1..n : checks'[d][k] = checks[d][k]
      /\ \A e \in Ids \ {d} : checks'[e] = checks[e]
  BY <1>n, <1>5, <1>6, CheckAdded DEF Inductive
<1>9. DOMAIN checks'[d] = 1..(n + 1)
  BY <1>2, <1>8, LenProperties
<1>10. /\ IsLocals(run') /\ run'.step = "rows" /\ run'.batch = run.batch
       /\ run'.mode = run.mode /\ run'.ctx = run.ctx /\ run'.results = Tail(run.results)
       /\ run'.passed = run.passed /\ run'.outcomes = run.outcomes
  BY <1>1, <1>6 DEF Inductive, RunIsTyped, IsLocals
<1>11. /\ mode' = mode /\ killed' = killed /\ decisions' = decisions /\ count' = count
       /\ halted' = halted /\ orders' = orders /\ sent' = sent /\ book' = book
       /\ interrupts' = interrupts
  BY <1>6 DEF outside, effects
<1>12. n + 1 <= 5 /\ ~Favourable(d) /\ ~Favourable(d)'
  BY <1>3, <1>5, <1>7, <1>8 DEF Favourable
<1>13. row.rule = RuleNames[n + 1]
  BY <1>r, <1>3, <1>5, <1>7
<1>14. Opened(d)'
  <2>1. \A k \in 1..(n + 1) : checks'[d][k].rule = RuleNames[k]
    <3> SUFFICES ASSUME NEW k \in 1..(n + 1) PROVE checks'[d][k].rule = RuleNames[k]
      OBVIOUS
    <3>1. CASE k = n + 1
      BY <1>8, <1>13, <3>1
    <3>2. CASE k # n + 1
      <4>1. k \in 1..n /\ k <= 5
        BY <1>7, <1>12, <3>2
      <4> QED BY <1>3, <1>7, <1>8, <4>1 DEF Opened, RulesInOrder
    <3> QED BY <3>1, <3>2
  <2> QED BY <1>8, <1>9, <1>12, <2>1 DEF Opened, RulesInOrder
<1>15. /\ TablesAreInOrder' /\ AtMostOneOrderPerDecision'
       /\ \A e \in Ids : Ordered(e)' <=> Ordered(e)
       /\ \A e \in Ids \ {d} : Favourable(e)' <=> Favourable(e)
  BY <1>2, <1>8, <1>11, <1>12, <1>14, JudgementKept
<1>16. TypeOK'
  <2>1. run.batch # <<>>
    BY <1>1, BatchAtHand
  <2> QED BY <1>5, <1>8, <1>10, <1>11, <2>1 DEF Inductive, TypeOK, Steps
<1>17. RunIsTyped'
  BY <1>10 DEF RunIsTyped, Inductive
<1>18. BatchIsFresh'
  <2>1. \A i \in DOMAIN run.batch : i > 1 => run.batch[i] \in Ids \ {d}
    BY <1>1, <1>2, BatchAtHand DEF Inductive, BatchIsFresh, Increasing
  <2> QED BY <1>1, <1>8, <1>10, <2>1 DEF Inductive, BatchIsFresh
<1>19. ResultsComplete'
  <2>1. n + 1 + Len(run'.results) = 5
    <3>1. Len(run'.results) = Len(run.results) - 1
      BY <1>5, <1>10
    <3>2. n + Len(run.results) = 5 /\ n \in Nat /\ Len(run.results) \in Nat
      BY <1>3, <1>5, <1>7
    <3>3. n \in Int
      BY <3>2
    <3>4. Len(run.results) = 5 - n
      BY <3>2
    <3>5. Len(run'.results) = 4 - n
      BY <3>1, <3>3, <3>4
    <3> QED BY <3>3, <3>5
  <2>2. \A k \in DOMAIN run'.results : run'.results[k].rule = RuleNames[n + 1 + k]
    <3> SUFFICES ASSUME NEW k \in DOMAIN run'.results
                 PROVE  run'.results[k].rule = RuleNames[n + 1 + k]
      OBVIOUS
    <3>1. k + 1 \in DOMAIN run.results /\ run'.results[k] = run.results[k + 1]
      BY <1>5, <1>10
    <3>2. n + (k + 1) = n + 1 + k
      <4>1. DOMAIN run'.results = 1..(Len(run.results) - 1) /\ n \in Int
        BY <1>5, <1>7, <1>10
      <4>2. k \in Int
        BY <4>1
      <4> QED BY <4>1, <4>2
    <3> QED BY <1>3, <3>1, <3>2
  <2>3. run.passed <=> /\ \A k \in 1..(n + 1) : checks'[d][k].passed
                       /\ \A k \in DOMAIN run'.results : run'.results[k].passed
    <3>1. (\A k \in 1..(n + 1) : checks'[d][k].passed) <=>
              (\A k \in 1..n : checks[d][k].passed) /\ row.passed
      BY <1>7, <1>8
    <3>2. (\A k \in DOMAIN run.results : run.results[k].passed) <=>
              row.passed /\ \A k \in DOMAIN run'.results : run'.results[k].passed
      <4>1. \A k \in DOMAIN run'.results : /\ k + 1 \in DOMAIN run.results
                                           /\ run'.results[k] = run.results[k + 1]
        BY <1>5, <1>10
      <4>2. \A k \in DOMAIN run.results : k = 1 \/ (k - 1 \in DOMAIN run'.results /\ k - 1 + 1 = k)
        BY <1>5, <1>10
      <4>3. 1 \in DOMAIN run.results
        BY <1>5
      <4> QED BY <4>1, <4>2, <4>3, <1>r
    <3> QED BY <1>3, <1>7, <3>1, <3>2
  <2>4. /\ run'.batch[1] = d /\ Len(checks'[d]) = n + 1 /\ DOMAIN checks'[d] = 1..(n + 1)
        /\ run'.passed = run.passed /\ decisions' = decisions
    BY <1>2, <1>8, <1>9, <1>10, <1>11
  <2>5. run.passed => decisions[d].kind # "pair_leg"
    BY <1>3
  <2> QED BY <1>14, <2>1, <2>2, <2>3, <2>4, <2>5 DEF ResultsComplete
<1>20. OutcomesAreDue'
  <2>1. \A i \in DOMAIN run.outcomes : run.outcomes[i].decision \in Ids \ {d}
    BY <1>12, OutcomesAtHand DEF Inductive, OutcomesAreDue
  <2>2. run.step \notin OrderSteps /\ run.step \notin {"down", "sleep", "fetch"}
    BY <1>1 DEF OrderSteps
  <2> QED BY <1>1, <1>10, <1>15, <2>1, <2>2 DEF Inductive, OutcomesAreDue
<1>21. HaltedIsHeld'
  <2>1. \A e \in Ids : Judging(e)' <=> Judging(e)
    BY <1>1, <1>10 DEF Judging
  <2> QED BY <1>10, <1>11, <1>12, <1>15, <2>1, HaltedAreIds DEF Inductive, HaltedIsHeld
<1> QED BY <1>15, <1>16, <1>17, <1>18, <1>19, <1>20, <1>21 DEF Inductive

\* The judgement of the decision at hand ends, and the process goes on to the next one,
\* to the outcomes or to sleep.
LEMMA NextDecisionKept ==
    ASSUME Inductive, NEW d \in Ids, run.step \in {"context", "rows"}, d = run.batch[1],
           NEW outs \in Seq(OutcomeRow), run' = NextDecision(outs),
           UNCHANGED <<outside, effects, interrupts>>,
           checks' \in [Ids -> Seq(CheckRow)], \A e \in Ids \ {d} : checks'[e] = checks[e],
           ~Favourable(d), (Closed(d) \/ Blocked(d))',
           Favourable(d)' => decisions[d].kind # "pair_leg" /\ d \notin halted,
           \A i \in DOMAIN outs : Favourable(outs[i].decision)' /\ ~Ordered(outs[i].decision),
           \A i, j \in DOMAIN outs : outs[i].decision = outs[j].decision => i = j
    PROVE  Inductive'
<1>1. run.step \in BatchSteps /\ 1 \in DOMAIN run.batch /\ d <= count
  BY BatchAtHand, HaltedAreIds DEF BatchSteps
<1>2. /\ mode' = mode /\ killed' = killed /\ decisions' = decisions /\ count' = count
      /\ halted' = halted /\ orders' = orders /\ sent' = sent /\ book' = book
      /\ interrupts' = interrupts
  BY DEF outside, effects
<1>3. /\ TablesAreInOrder' /\ AtMostOneOrderPerDecision'
      /\ \A e \in Ids : Ordered(e)' <=> Ordered(e)
      /\ \A e \in Ids \ {d} : Favourable(e)' <=> Favourable(e)
  BY <1>1, <1>2, JudgementKept
<1>4. /\ run.batch \in Seq(1..count) /\ run.batch # <<>> /\ Len(run.batch) \in Nat
      /\ DOMAIN run.batch = 1..Len(run.batch)
      /\ \A i \in DOMAIN run.batch : run.batch[i] \in Ids
      /\ Tail(run.batch) \in Seq(1..count) /\ Len(Tail(run.batch)) = Len(run.batch) - 1
      /\ DOMAIN Tail(run.batch) = 1..(Len(run.batch) - 1)
      /\ \A i \in 1..(Len(run.batch) - 1) : Tail(run.batch)[i] = run.batch[i + 1]
  <2>1. run.batch \in Seq(1..count) /\ run.batch # <<>>
    BY <1>1, BatchAtHand
  <2>2. /\ Tail(run.batch) \in Seq(1..count) /\ Len(Tail(run.batch)) = Len(run.batch) - 1
        /\ DOMAIN Tail(run.batch) = 1..(Len(run.batch) - 1)
        /\ \A i \in 1..(Len(run.batch) - 1) : Tail(run.batch)[i] = run.batch[i + 1]
    <3>1. \A b \in Seq(1..count) : b # <<>> =>
              /\ Tail(b) \in Seq(1..count) /\ Len(Tail(b)) = Len(b) - 1
              /\ DOMAIN Tail(b) = 1..(Len(b) - 1)
              /\ \A i \in 1..(Len(b) - 1) : Tail(b)[i] = b[i + 1]
      BY ListFacts
    <3> QED BY <2>1, <3>1
  <2> QED BY <2>1, <2>2, BatchAtHand
<1>5. Len(outs) \in Nat /\ DOMAIN outs = 1..Len(outs) /\ (outs # <<>> => Len(outs) > 0)
      /\ \A i \in DOMAIN outs : outs[i].decision \in Ids
  <2>1. \A r \in OutcomeRow : r.decision \in Ids
    BY DEF OutcomeRow
  <2> HIDE DEF Ids
  <2> QED BY <2>1, ListFacts
<1>6. run.mode \in Modes
  BY DEF Inductive, TypeOK
<1>7. CASE Len(run.batch) > 1
  <2>1. /\ IsLocals(run') /\ run'.step = "context" /\ run'.mode = run.mode
        /\ run'.batch = Tail(run.batch) /\ run'.results = <<>> /\ run'.passed = FALSE
        /\ run'.ctx = NoContext /\ run'.outcomes = outs
    BY <1>7 DEF NextDecision, Idle, IsLocals
  <2>2. Tail(run.batch) # <<>>
    <3>1. Len(Tail(run.batch)) > 0
      BY <1>4, <1>7
    <3> QED BY <1>4, <3>1, ListFacts
  <2>3. TypeOK'
    BY <1>2, <1>4, <1>6, <2>1, <2>2, EmptyLists DEF Inductive, TypeOK, Steps
  <2>4. RunIsTyped'
    BY <2>1 DEF RunIsTyped, NoContext
  <2>5. BatchIsFresh'
    <3>1. \A i, j \in DOMAIN run.batch : i < j => run.batch[i] < run.batch[j]
      BY <1>1 DEF Inductive, BatchIsFresh, Increasing
    <3>2. Increasing(Tail(run.batch))
      <4> SUFFICES ASSUME NEW i \in 1..(Len(run.batch) - 1), NEW j \in 1..(Len(run.batch) - 1), i < j
                   PROVE  Tail(run.batch)[i] < Tail(run.batch)[j]
        BY <1>4 DEF Increasing
      <4>1. i + 1 \in DOMAIN run.batch /\ j + 1 \in DOMAIN run.batch /\ i + 1 < j + 1
        BY <1>4
      <4> QED BY <1>4, <3>1, <4>1
    <3>3. \A i \in DOMAIN Tail(run.batch) : checks'[Tail(run.batch)[i]] = <<>>
      <4> SUFFICES ASSUME NEW i \in 1..(Len(run.batch) - 1)
                   PROVE  checks'[Tail(run.batch)[i]] = <<>>
        BY <1>4
      <4>1. i + 1 \in DOMAIN run.batch /\ 1 < i + 1
        BY <1>4
      <4>2. checks[run.batch[i + 1]] = <<>>
        BY <1>1, <4>1 DEF Inductive, BatchIsFresh
      <4>3. run.batch[i + 1] \in Ids \ {d}
        <5>1. run.batch[1] < run.batch[i + 1] /\ run.batch[1] \in Int
          <6>1. run.batch[1] \in 1..count
            BY <1>1, <1>4, ListFacts
          <6> QED BY <1>1, <3>1, <4>1, <6>1
        <5>2. run.batch[i + 1] # d
          BY <5>1
        <5> QED BY <1>4, <4>1, <5>2
      <4> QED BY <1>4, <4>2, <4>3
    <3> QED BY <2>1, <3>2, <3>3 DEF BatchIsFresh
  <2>6. ResultsComplete'
    BY <2>1 DEF ResultsComplete
  <2>7. OutcomesAreDue'
    <3>1. run'.step \notin OrderSteps
      BY <2>1 DEF OrderSteps
    <3>2. \A i \in DOMAIN outs : Favourable(outs[i].decision)' /\ ~Ordered(outs[i].decision)'
      BY <1>3, <1>5
    <3> HIDE DEF Ids
    <3> QED BY <2>1, <3>1, <3>2 DEF OutcomesAreDue
  <2>8. HaltedIsHeld'
    <3>1. \A e \in halted : ~Favourable(e)'
      BY <1>3, HaltedAreIds DEF Inductive, HaltedIsHeld
    <3> QED BY <1>2, <2>1, <3>1 DEF Inductive, HaltedIsHeld
  <2> QED BY <1>3, <2>3, <2>4, <2>5, <2>6, <2>7, <2>8 DEF Inductive
<1>8. CASE ~(Len(run.batch) > 1) /\ outs # <<>>
  <2>1. /\ IsLocals(run') /\ run'.step = "execute" /\ run'.mode = run.mode
        /\ run'.batch = <<>> /\ run'.results = <<>> /\ run'.passed = FALSE
        /\ run'.ctx = NoContext /\ run'.outcomes = outs
    BY <1>8 DEF NextDecision, Idle, IsLocals
  <2>2. TypeOK'
    <3>1. <<>> \in Seq(1..count')
      BY EmptySeq
    <3> QED BY <1>2, <1>6, <1>8, <2>1, <3>1, EmptyLists DEF Inductive, TypeOK, Steps
  <2>3. RunIsTyped'
    BY <2>1 DEF RunIsTyped, NoContext
  <2>4. BatchIsFresh' /\ ResultsComplete'
    BY <2>1 DEF BatchIsFresh, BatchSteps, ResultsComplete
  <2>5. OutcomesAreDue'
    <3>1. \A i \in DOMAIN outs : Favourable(outs[i].decision)' /\ ~Ordered(outs[i].decision)'
      BY <1>3, <1>5
    <3>2. 1 \in DOMAIN outs
      BY <1>5, <1>8
    <3>3. HeadProgress(outs[1].decision)'
      BY <2>1, <3>1, <3>2 DEF HeadProgress
    <3> HIDE DEF Ids
    <3> QED BY <2>1, <3>1, <3>3 DEF OutcomesAreDue
  <2>6. HaltedIsHeld'
    <3>1. \A e \in halted : ~Favourable(e)'
      BY <1>3, HaltedAreIds DEF Inductive, HaltedIsHeld
    <3> QED BY <1>2, <2>1, <3>1 DEF Inductive, HaltedIsHeld
  <2> QED BY <1>3, <2>2, <2>3, <2>4, <2>5, <2>6 DEF Inductive
<1>9. CASE ~(Len(run.batch) > 1) /\ outs = <<>>
  <2>1. run' = Idle("sleep")
    BY <1>9 DEF NextDecision
  <2>2. AtRest(run)'
    <3>1. AtRest(Idle("sleep"))
      BY DEF AtRest, Idle, IsLocals, NoContext
    <3> QED BY <2>1, <3>1
  <2>3. TypeOK'
    BY <1>2, <2>2, RestIsSafe DEF Inductive, TypeOK, AtRest, BatchSteps, OrderSteps
  <2>4. HaltedIsHeld'
    <3>1. \A e \in halted : ~Favourable(e)'
      BY <1>3, HaltedAreIds DEF Inductive, HaltedIsHeld
    <3> QED BY <1>2, <2>2, <3>1, RestIsSafe DEF Inductive, HaltedIsHeld
  <2> QED BY <1>3, <2>2, <2>3, <2>4, RestIsSafe DEF Inductive
<1> QED BY <1>7, <1>8, <1>9

\* The outcomes judged so far are favourable, different from the decision at hand and
\* not ordered.
LEMMA OutcomesSoFar ==
    ASSUME Inductive, NEW d \in Ids, run.step \in {"context", "rows"}, ~Favourable(d),
           UNCHANGED <<orders, sent>>, \A e \in Ids \ {d} : checks'[e] = checks[e],
           NEW outs, outs = run.outcomes
    PROVE  /\ \A i \in DOMAIN outs : /\ outs[i].decision \in Ids \ {d}
                                     /\ Favourable(outs[i].decision)'
                                     /\ ~Ordered(outs[i].decision)
           /\ \A i, j \in DOMAIN outs : outs[i].decision = outs[j].decision => i = j
<1>1. run.step \in BatchSteps
  BY DEF BatchSteps
<1>2. \A i \in DOMAIN outs :
          /\ outs[i].decision \in Ids
          /\ Favourable(outs[i].decision) /\ ~Ordered(outs[i].decision)
  BY <1>1, OutcomesAtHand DEF Inductive, OutcomesAreDue
<1>3. \A e \in Ids \ {d} : Favourable(e)' <=> Favourable(e)
  BY DEF Favourable
<1>4. \A i \in DOMAIN outs : outs[i].decision \in Ids \ {d} /\ Favourable(outs[i].decision)'
  <2> SUFFICES ASSUME NEW i \in DOMAIN outs
               PROVE  outs[i].decision \in Ids \ {d} /\ Favourable(outs[i].decision)'
    OBVIOUS
  <2>1. PICK e \in Ids : e = outs[i].decision /\ Favourable(e)
    BY <1>2
  <2>2. e # d
    BY <2>1
  <2> QED BY <1>3, <2>1, <2>2
<1> QED BY <1>2, <1>4 DEF Inductive, OutcomesAreDue

\* A decision that cannot be judged gets its one row and leaves the batch.
LEMMA BlockDecisionKept == Inductive /\ BlockDecision => Inductive'
<1> SUFFICES ASSUME Inductive, BlockDecision PROVE Inductive'
  OBVIOUS
<1> DEFINE row == [rule |-> FinalVerdict, passed |-> FALSE]
<1>1. run.step = "context" /\ run.step \in BatchSteps
  BY BatchAtHand DEF BlockDecision
<1>2. PICK d \in Ids : /\ d = Head(run.batch) /\ d = run.batch[1]
                       /\ 1 \in DOMAIN run.batch /\ checks[d] = <<>>
  BY <1>1, BatchAtHand DEF Inductive, BatchIsFresh
<1>3. PICK outs : outs = run.outcomes
  OBVIOUS
<1>4. /\ checks' = [checks EXCEPT ![d] = Append(@, row)]
      /\ run' = NextDecision(outs) /\ UNCHANGED <<outside, effects, interrupts>>
  BY <1>2, <1>3 DEF BlockDecision
<1>5. row \in CheckRow
  BY DEF CheckRow, Verdicts
<1>6. /\ checks' \in [Ids -> Seq(CheckRow)] /\ \A e \in Ids \ {d} : checks'[e] = checks[e]
      /\ checks'[d] = <<row>>
  <2>1. checks \in [Ids -> Seq(CheckRow)] /\ checks'[d] = Append(<<>>, row)
    BY <1>2, <1>4 DEF Inductive, TypeOK
  <2> QED BY <1>4, <1>5, <2>1, CheckAdded DEF Inductive
<1>7. ~Favourable(d) /\ Blocked(d)' /\ ~Favourable(d)'
  BY <1>2, <1>6 DEF Favourable, Blocked
<1>8. outs \in Seq(OutcomeRow) /\ run.step \in {"context", "rows"} /\ UNCHANGED <<orders, sent>>
  BY <1>1, <1>3, <1>4 DEF Inductive, TypeOK, effects
<1>9. /\ \A i \in DOMAIN outs : Favourable(outs[i].decision)' /\ ~Ordered(outs[i].decision)
      /\ \A i, j \in DOMAIN outs : outs[i].decision = outs[j].decision => i = j
  BY <1>3, <1>6, <1>7, <1>8, OutcomesSoFar
<1> QED BY <1>2, <1>4, <1>6, <1>7, <1>8, <1>9, NextDecisionKept

\* The final verdict closes a decision; a favourable one joins the outcomes.
LEMMA InsertFinalVerdictKept == Inductive /\ InsertFinalVerdict => Inductive'
<1> SUFFICES ASSUME Inductive, InsertFinalVerdict PROVE Inductive'
  OBVIOUS
<1>1. run.step = "rows" /\ run.step \in BatchSteps /\ run.results = <<>>
  BY BatchAtHand DEF InsertFinalVerdict
<1>2. PICK d \in Ids : /\ d = Head(run.batch) /\ d = run.batch[1] /\ 1 \in DOMAIN run.batch
  BY <1>1, BatchAtHand
<1>3. PICK passed \in BOOLEAN : passed = run.passed
  BY DEF Inductive, TypeOK
<1>4. PICK row \in CheckRow : row = [rule |-> FinalVerdict, passed |-> run.passed]
  BY <1>3 DEF CheckRow, Verdicts
<1>5. PICK soFar : soFar = run.outcomes
  OBVIOUS
<1>6. PICK outcome \in OutcomeRow :
          outcome = [decision |-> d, mode |-> run.ctx.mode, market |-> run.ctx.market]
  BY DEF OutcomeRow, Inductive, RunIsTyped
<1>7. PICK outs : outs = PassedOutcomes
  OBVIOUS
<1>8. /\ checks' = [checks EXCEPT ![d] = Append(@, row)]
      /\ run' = NextDecision(outs) /\ UNCHANGED <<outside, effects, interrupts>>
  BY <1>2, <1>4, <1>7 DEF InsertFinalVerdict
<1>9. outs = IF passed THEN Append(soFar, outcome) ELSE soFar
  BY <1>2, <1>3, <1>5, <1>6, <1>7 DEF PassedOutcomes
<1>10. soFar \in Seq(OutcomeRow) /\ UNCHANGED <<orders, sent>>
  BY <1>5, <1>8 DEF Inductive, TypeOK, effects
<1>11. outs \in Seq(OutcomeRow)
  BY <1>9, <1>10, AppendFacts
<1>12. /\ Opened(d) /\ Len(checks[d]) = 5
       /\ passed <=> \A k \in DOMAIN checks[d] : checks[d][k].passed
       /\ passed => decisions[d].kind # "pair_leg"
  <2>1. Len(run.results) = 0 /\ DOMAIN run.results = {}
    BY <1>1
  <2>2. Len(checks[d]) \in Nat
    BY ListFacts DEF Inductive, TypeOK
  <2> QED BY <1>1, <1>2, <1>3, <2>1, <2>2 DEF Inductive, ResultsComplete
<1>13. DOMAIN checks[d] = 1..5
  BY <1>12, ListFacts DEF Inductive, TypeOK
<1>14. /\ checks' \in [Ids -> Seq(CheckRow)] /\ \A e \in Ids \ {d} : checks'[e] = checks[e]
       /\ Len(checks'[d]) = 6 /\ checks'[d][6] = row
       /\ \A k \in 1..5 : checks'[d][k] = checks[d][k]
  <2>1. /\ checks' \in [Ids -> Seq(CheckRow)] /\ \A e \in Ids \ {d} : checks'[e] = checks[e]
        /\ Len(checks'[d]) = Len(checks[d]) + 1 /\ checks'[d][Len(checks[d]) + 1] = row
        /\ \A k \in 1..Len(checks[d]) : checks'[d][k] = checks[d][k]
    BY <1>8, CheckAdded DEF Inductive
  <2>2. Len(checks[d]) + 1 = 6
    BY <1>12
  <2> QED BY <1>12, <2>1, <2>2
<1>15. DOMAIN checks'[d] = 1..6
  BY <1>14, ListFacts
<1>16. ~Favourable(d)
  BY <1>12 DEF Favourable
<1>17. Closed(d)' /\ (Favourable(d)' <=> passed)
  <2>1. row.rule = FinalVerdict /\ row.passed = passed
    BY <1>3, <1>4
  <2>2. \A k \in 1..5 : checks[d][k].rule = RuleNames[k]
    BY <1>12, <1>13 DEF Opened, RulesInOrder
  <2>3. \A k \in 1..6 : k <= 5 => checks'[d][k].rule = RuleNames[k]
    BY <1>14, <2>2
  <2>4. passed <=> \A k \in 1..5 : checks'[d][k].passed
    BY <1>12, <1>13, <1>14
  <2>5. Closed(d)'
    BY <1>14, <1>15, <2>1, <2>3, <2>4 DEF Closed, RulesInOrder
  <2>6. (\A k \in 1..6 : checks'[d][k].passed) <=> passed
    BY <1>14, <2>1, <2>4
  <2> QED BY <1>14, <2>5, <2>6 DEF Favourable
<1>18. passed => d \notin halted
  BY <1>1, <1>2, <1>3 DEF Inductive, HaltedIsHeld, Judging
<1>19. /\ \A i \in DOMAIN soFar : /\ soFar[i].decision \in Ids \ {d}
                                 /\ Favourable(soFar[i].decision)'
                                 /\ ~Ordered(soFar[i].decision)
       /\ \A i, j \in DOMAIN soFar : soFar[i].decision = soFar[j].decision => i = j
  <2>1. run.step \in {"context", "rows"} /\ UNCHANGED <<orders, sent>> /\ soFar = run.outcomes
    BY <1>1, <1>5, <1>10
  <2>2. \A e \in Ids \ {d} : checks'[e] = checks[e]
    BY <1>14
  <2> HIDE DEF Ids
  <2> QED BY <1>16, <2>1, <2>2, OutcomesSoFar
<1>20. ~Ordered(d)
  BY <1>16 DEF Inductive, TablesAreInOrder
<1>21. /\ \A i \in DOMAIN outs : Favourable(outs[i].decision)' /\ ~Ordered(outs[i].decision)
       /\ \A i, j \in DOMAIN outs : outs[i].decision = outs[j].decision => i = j
  <2>1. CASE ~passed
    BY <1>9, <1>19, <2>1
  <2>2. CASE passed
    <3>1. /\ Len(soFar) \in Nat /\ DOMAIN soFar = 1..Len(soFar)
          /\ DOMAIN outs = 1..(Len(soFar) + 1)
          /\ \A i \in 1..Len(soFar) : outs[i] = soFar[i]
          /\ outs[Len(soFar) + 1] = outcome
      BY <1>9, <1>10, <2>2, AppendFacts, ListFacts
    <3>2. outcome.decision = d
      BY <1>6
    <3>3. \A i \in DOMAIN outs : i \in DOMAIN soFar \/ i = Len(soFar) + 1
      BY <3>1
    <3>4. \A i \in DOMAIN outs : Favourable(outs[i].decision)' /\ ~Ordered(outs[i].decision)
      <4> SUFFICES ASSUME NEW i \in DOMAIN outs
                   PROVE  Favourable(outs[i].decision)' /\ ~Ordered(outs[i].decision)
        OBVIOUS
      <4>1. CASE i \in DOMAIN soFar
        BY <1>19, <3>1, <4>1
      <4>2. CASE i = Len(soFar) + 1
        BY <1>17, <1>20, <2>2, <3>1, <3>2, <4>2
      <4> QED BY <3>3, <4>1, <4>2
    <3>5. \A i, j \in DOMAIN outs : outs[i].decision = outs[j].decision => i = j
      BY <1>19, <3>1, <3>2, <3>3
    <3> QED BY <3>4, <3>5
  <2> QED BY <2>1, <2>2
<1>22. run.step \in {"context", "rows"}
  BY <1>1
<1> QED BY <1>2, <1>8, <1>11, <1>12, <1>14, <1>16, <1>17, <1>18, <1>21, <1>22, NextDecisionKept

-----------------------------------------------------------------------------
(* Executing the outcomes.                                                 *)

\* An order is being placed for a favourable decision: the tables stay in order.
LEMMA OrderTablesKept ==
    ASSUME Inductive, NEW d \in Ids, Favourable(d), UNCHANGED <<decisions, count, checks>>,
           Rows(d)' \in 0..1, sent'[d] \in 0..1,
           \A e \in Ids \ {d} : Rows(e)' = Rows(e) /\ sent'[e] = sent[e]
    PROVE  /\ TablesAreInOrder' /\ AtMostOneOrderPerDecision'
           /\ \A e \in Ids : Favourable(e)' <=> Favourable(e)
           /\ \A e \in Ids \ {d} : Ordered(e)' <=> Ordered(e)
<1>1. \A e \in Ids : /\ Opened(e)' <=> Opened(e)
                     /\ Closed(e)' <=> Closed(e)
                     /\ Blocked(e)' <=> Blocked(e)
                     /\ Favourable(e)' <=> Favourable(e)
  BY DEF Opened, Closed, Blocked, RulesInOrder, Favourable
<1>2. \A e \in Ids \ {d} : Ordered(e)' <=> Ordered(e)
  BY DEF Ordered
<1>3. TablesAreInOrder'
  <2> SUFFICES ASSUME NEW e \in Ids PROVE Ordered(e)' => Favourable(e)'
    BY <1>1 DEF Inductive, TablesAreInOrder
  <2>1. CASE e = d
    BY <1>1, <2>1
  <2>2. CASE e # d
    BY <1>1, <1>2, <2>2 DEF Inductive, TablesAreInOrder
  <2> QED BY <2>1, <2>2
<1>4. AtMostOneOrderPerDecision'
  <2> SUFFICES ASSUME NEW e \in Ids PROVE Rows(e)' <= 1 /\ sent'[e] <= 1
    BY DEF AtMostOneOrderPerDecision
  <2>1. CASE e = d
    BY <2>1
  <2>2. CASE e # d
    BY <2>2 DEF Inductive, AtMostOneOrderPerDecision
  <2> QED BY <2>1, <2>2
<1> QED BY <1>1, <1>2, <1>3, <1>4

\* A step about the outcome at hand keeps the invariant, if it leaves the outcome as far
\* as the next step expects it, or is done with it, or ends the iteration.
LEMMA OutcomeStepKept ==
    ASSUME Inductive, run.step \in OrderSteps, NEW d \in Ids, d = run.outcomes[1].decision,
           UNCHANGED <<outside, checks>>, interrupts' \in 0..MaxInterrupts,
           orders' \in [Ids -> [Modes -> Nat]], sent' \in [Ids -> Nat],
           book' \in [Modes -> [Symbols -> [Markets -> Int]]],
           Rows(d)' \in 0..1, sent'[d] \in 0..1,
           \A e \in Ids \ {d} : Rows(e)' = Rows(e) /\ sent'[e] = sent[e],
           \/ run' = NextOutcome
           \/ \E s \in OrderSteps : run' = [run EXCEPT !.step = s] /\ HeadProgress(d)'
           \/ run' = Idle("sleep")
    PROVE  Inductive'
<1>1. /\ mode' = mode /\ killed' = killed /\ decisions' = decisions /\ count' = count
      /\ halted' = halted /\ checks' = checks
  BY DEF outside
<1>2. /\ run.step \notin BatchSteps /\ run.step \notin {"down", "sleep", "fetch", "rows"}
      /\ OrderSteps \subseteq Steps
  BY DEF BatchSteps, OrderSteps, Steps
<1>3. PICK outs \in Seq(OutcomeRow) : outs = run.outcomes
  BY OutcomesAtHand
<1>4. /\ Len(outs) \in Nat /\ DOMAIN outs = 1..Len(outs) /\ 1 \in DOMAIN outs
      /\ \A i \in DOMAIN outs : outs[i].decision \in Ids
  BY <1>3, OutcomesAtHand
<1>5. /\ \A i, j \in DOMAIN outs : outs[i].decision = outs[j].decision => i = j
      /\ \A i \in DOMAIN outs : /\ Favourable(outs[i].decision)
                                /\ i > 1 => ~Ordered(outs[i].decision)
  BY <1>3 DEF Inductive, OutcomesAreDue
<1>6. Favourable(d) /\ d = outs[1].decision
  BY <1>3, <1>4, <1>5
<1>7. /\ TablesAreInOrder' /\ AtMostOneOrderPerDecision'
      /\ \A e \in Ids : Favourable(e)' <=> Favourable(e)
      /\ \A e \in Ids \ {d} : Ordered(e)' <=> Ordered(e)
  BY <1>1, <1>6, OrderTablesKept
<1>8. \A i \in DOMAIN outs : /\ Favourable(outs[i].decision)'
                             /\ i > 1 => ~Ordered(outs[i].decision)'
  <2> SUFFICES ASSUME NEW i \in DOMAIN outs
               PROVE  Favourable(outs[i].decision)' /\ (i > 1 => ~Ordered(outs[i].decision)')
    OBVIOUS
  <2>1. i > 1 => outs[i].decision \in Ids \ {d}
    <3>1. i > 1 => i # 1
      OBVIOUS
    <3>2. outs[i].decision = outs[1].decision => i = 1
      BY <1>4, <1>5
    <3> QED BY <1>4, <1>6, <3>1, <3>2
  <2> QED BY <1>4, <1>5, <1>7, <2>1
<1>9. \A e \in halted : ~Favourable(e)'
  BY <1>7, HaltedAreIds DEF Inductive, HaltedIsHeld
<1>10. run.mode \in Modes /\ run.batch \in Seq(1..count) /\ run.results \in Seq(CheckRow)
       /\ run.passed \in BOOLEAN /\ IsLocals(run)
  BY DEF Inductive, TypeOK, RunIsTyped
<1>11. ASSUME NEW s \in OrderSteps, run' = [run EXCEPT !.step = s], HeadProgress(d)'
       PROVE  Inductive'
  <2>1. /\ IsLocals(run') /\ run'.step = s /\ run'.batch = run.batch /\ run'.mode = run.mode
        /\ run'.ctx = run.ctx /\ run'.results = run.results /\ run'.passed = run.passed
        /\ run'.outcomes = outs
    BY <1>3, <1>10, <1>11 DEF IsLocals
  <2>2. s \in Steps /\ s \notin {"context", "kill_switch", "rows", "down", "sleep", "fetch"}
        /\ s \notin BatchSteps /\ outs # <<>>
    BY <1>4, ListFacts DEF OrderSteps, BatchSteps, Steps
  <2>3. TypeOK'
    BY <1>1, <1>10, <2>1, <2>2 DEF Inductive, TypeOK
  <2>4. RunIsTyped' /\ BatchIsFresh' /\ ResultsComplete'
    BY <2>1, <2>2 DEF Inductive, RunIsTyped, BatchIsFresh, ResultsComplete
  <2>5. HeadProgress(outs[1].decision)'
    BY <1>6, <1>11
  <2>6. OutcomesAreDue'
    <3> HIDE DEF Ids
    <3> QED BY <1>5, <1>8, <2>1, <2>2, <2>5 DEF OutcomesAreDue
  <2>7. HaltedIsHeld'
    BY <1>1, <1>9, <2>1, <2>2 DEF Inductive, HaltedIsHeld, Judging
  <2> QED BY <1>7, <2>3, <2>4, <2>6, <2>7 DEF Inductive
<1>12. CASE run' = Idle("sleep")
  <2>1. AtRest(run)'
    <3>1. AtRest(Idle("sleep"))
      BY DEF AtRest, Idle, IsLocals, NoContext
    <3> QED BY <1>12, <3>1
  <2>2. TypeOK'
    BY <1>1, <2>1, RestIsSafe DEF Inductive, TypeOK, AtRest, BatchSteps, OrderSteps
  <2>3. HaltedIsHeld'
    BY <1>1, <1>9, <2>1, RestIsSafe DEF Inductive, HaltedIsHeld
  <2> QED BY <1>7, <2>1, <2>2, <2>3, RestIsSafe DEF Inductive
<1>13. CASE run' = NextOutcome /\ Len(outs) > 1
  <2>1. /\ Tail(outs) \in Seq(OutcomeRow) /\ DOMAIN Tail(outs) = 1..(Len(outs) - 1)
        /\ Len(Tail(outs)) = Len(outs) - 1
        /\ \A i \in 1..(Len(outs) - 1) : Tail(outs)[i] = outs[i + 1]
    <3>1. outs # <<>>
      BY <1>4, ListFacts
    <3> QED BY <3>1, ListFacts
  <2>2. run' = [run EXCEPT !.step = "execute", !.outcomes = Tail(outs)]
    BY <1>3, <1>13 DEF NextOutcome
  <2>3. /\ IsLocals(run') /\ run'.step = "execute" /\ run'.batch = run.batch /\ run'.mode = run.mode
        /\ run'.ctx = run.ctx /\ run'.results = run.results /\ run'.passed = run.passed
        /\ run'.outcomes = Tail(outs)
    BY <1>10, <2>2 DEF IsLocals
  <2>4. Tail(outs) # <<>>
    <3>1. Len(Tail(outs)) > 0
      BY <1>4, <1>13, <2>1
    <3> QED BY <2>1, <3>1, ListFacts
  <2>5. TypeOK'
    BY <1>1, <1>10, <2>1, <2>3, <2>4 DEF Inductive, TypeOK, Steps
  <2>6. RunIsTyped' /\ BatchIsFresh' /\ ResultsComplete'
    BY <2>3 DEF Inductive, RunIsTyped, BatchIsFresh, ResultsComplete, BatchSteps
  <2>7. OutcomesAreDue'
    <3> DEFINE rest == Tail(outs)
    <3>1. \A i \in DOMAIN rest : i + 1 \in DOMAIN outs /\ i + 1 > 1 /\ rest[i] = outs[i + 1]
      BY <1>4, <2>1
    <3>2. \A i \in DOMAIN rest : Favourable(rest[i].decision)' /\ ~Ordered(rest[i].decision)'
      BY <1>8, <3>1
    <3>3. \A i, j \in DOMAIN rest : rest[i].decision = rest[j].decision => i = j
      <4> SUFFICES ASSUME NEW i \in DOMAIN rest, NEW j \in DOMAIN rest,
                          rest[i].decision = rest[j].decision
                   PROVE  i = j
        OBVIOUS
      <4>1. i + 1 = j + 1
        BY <1>5, <3>1
      <4> QED BY <2>1, <4>1
    <3>4. 1 \in DOMAIN rest
      BY <1>4, <1>13, <2>1
    <3>5. HeadProgress(rest[1].decision)'
      BY <2>3, <3>2, <3>4 DEF HeadProgress
    <3>6. run'.step \notin {"down", "sleep", "fetch"}
      BY <2>3
    <3> HIDE DEF rest
    <3>7. run'.outcomes = rest
      BY <2>3 DEF rest
    <3> QED BY <3>2, <3>3, <3>5, <3>6, <3>7 DEF OutcomesAreDue
  <2>8. HaltedIsHeld'
    BY <1>1, <1>9, <2>3 DEF Inductive, HaltedIsHeld, Judging
  <2> QED BY <1>7, <2>5, <2>6, <2>7, <2>8 DEF Inductive
<1>14. CASE run' = NextOutcome /\ ~(Len(outs) > 1)
  BY <1>3, <1>12, <1>14 DEF NextOutcome
<1> QED BY <1>11, <1>12, <1>13, <1>14

\* The outcome at hand, and how far it has come.
LEMMA AtHand ==
    ASSUME Inductive, run.step \in OrderSteps
    PROVE  \E d \in Ids : /\ d = run.outcomes[1].decision /\ d = Outcome.decision
                          /\ HeadProgress(d) /\ sent[d] \in Nat /\ Rows(d) \in Nat
                          /\ Rows(d) \in 0..1 /\ sent[d] \in 0..1
<1>1. PICK d \in Ids : d = run.outcomes[1].decision /\ d = Outcome.decision
  BY OutcomesAtHand
<1>2. HeadProgress(d)
  BY <1>1 DEF Inductive, OutcomesAreDue
<1>3. sent[d] \in Nat /\ orders[d] \in [Modes -> Nat]
  BY DEF Inductive, TypeOK
<1>4. Rows(d) \in Nat
  BY <1>3 DEF Rows
<1>5. Rows(d) <= 1 /\ sent[d] <= 1
  BY DEF Inductive, AtMostOneOrderPerDecision
<1> QED BY <1>1, <1>2, <1>3, <1>4, <1>5

\* What no step of an outcome touches keeps its type.
LEMMA EffectTypes ==
    ASSUME Inductive
    PROVE  /\ orders \in [Ids -> [Modes -> Nat]] /\ sent \in [Ids -> Nat]
           /\ book \in [Modes -> [Symbols -> [Markets -> Int]]]
           /\ interrupts \in 0..MaxInterrupts /\ run.mode \in Modes
BY DEF Inductive, TypeOK

\* A simulated execution writes its row first; paper then has its position to write.
LEMMA ExecuteSimulatedKept == Inductive /\ ExecuteSimulated => Inductive'
<1> SUFFICES ASSUME Inductive, ExecuteSimulated PROVE Inductive'
  OBVIOUS
<1>1. run.step = "execute" /\ run.step \in OrderSteps /\ "fill" \in OrderSteps
  BY DEF ExecuteSimulated, OrderSteps
<1>2. PICK d \in Ids : /\ d = run.outcomes[1].decision /\ d = Outcome.decision
                       /\ HeadProgress(d) /\ sent[d] \in Nat /\ Rows(d) \in Nat
  BY <1>1, AtHand
<1>3. Rows(d) = 0 /\ sent[d] = 0
  BY <1>1, <1>2 DEF HeadProgress, Ordered
<1>4. PICK m \in Modes : m = run.mode
  BY EffectTypes
<1>5. orders' = [orders EXCEPT ![d][m] = @ + 1]
  BY <1>2, <1>4 DEF ExecuteSimulated, RowInserted
<1>6. /\ orders' \in [Ids -> [Modes -> Nat]] /\ Rows(d)' = Rows(d) + 1
      /\ \A e \in Ids \ {d} : Rows(e)' = Rows(e)
  BY <1>5, RowAdded DEF Inductive
<1>7. UNCHANGED <<outside, checks>> /\ sent' = sent /\ book' = book /\ interrupts' = interrupts
  BY DEF ExecuteSimulated
<1>8. CASE run.mode = "paper"
  <2>1. run' = [run EXCEPT !.step = "fill"]
    BY <1>8 DEF ExecuteSimulated, GoTo
  <2>2. run'.step = "fill" /\ run'.mode = "paper"
    BY <1>8, <2>1 DEF Inductive, RunIsTyped, IsLocals
  <2>3. HeadProgress(d)'
    BY <1>3, <1>6, <1>7, <2>2 DEF HeadProgress
  <2>4. \E s \in OrderSteps : run' = [run EXCEPT !.step = s] /\ HeadProgress(d)'
    BY <1>1, <2>1, <2>3
  <2>5. Rows(d)' \in 0..1 /\ sent'[d] \in 0..1
    BY <1>3, <1>6, <1>7
  <2> QED BY <1>1, <1>2, <1>6, <1>7, <2>4, <2>5, EffectTypes, OutcomeStepKept
<1>9. CASE run.mode # "paper"
  <2>1. run' = NextOutcome
    BY <1>9 DEF ExecuteSimulated
  <2> QED BY <1>1, <1>2, <1>3, <1>6, <1>7, <2>1, EffectTypes, OutcomeStepKept
<1> QED BY <1>8, <1>9

\* The order of the real mode is sent, with no row yet.
LEMMA PlaceOrderKept == Inductive /\ PlaceOrder => Inductive'
<1> SUFFICES ASSUME Inductive, PlaceOrder PROVE Inductive'
  OBVIOUS
<1>1. /\ run.step = "execute" /\ run.step \in OrderSteps /\ "confirm" \in OrderSteps
      /\ run.mode = "real"
  BY DEF PlaceOrder, OrderSteps
<1>2. PICK d \in Ids : /\ d = run.outcomes[1].decision /\ d = Outcome.decision
                       /\ HeadProgress(d) /\ sent[d] \in Nat /\ Rows(d) \in Nat
  BY <1>1, AtHand
<1>3. Rows(d) = 0 /\ sent[d] = 0
  BY <1>1, <1>2 DEF HeadProgress, Ordered
<1>4. /\ sent' \in [Ids -> Nat] /\ sent'[d] = 1 /\ \A e \in Ids \ {d} : sent'[e] = sent[e]
  <2>1. sent' = [sent EXCEPT ![d] = @ + 1]
    BY <1>2 DEF PlaceOrder
  <2> HIDE DEF Ids
  <2> QED BY <1>3, <2>1, EffectTypes
<1>5. /\ UNCHANGED <<outside, checks>> /\ orders' = orders /\ book' = book
      /\ interrupts' = interrupts
  BY DEF PlaceOrder
<1>6. \A e \in Ids : Rows(e)' = Rows(e)
  BY <1>5 DEF Rows
<1>7. run' = [run EXCEPT !.step = "confirm"]
  BY DEF PlaceOrder, GoTo
<1>8. run'.step = "confirm" /\ run'.mode = "real"
  BY <1>1, <1>7 DEF Inductive, RunIsTyped, IsLocals
<1>9. HeadProgress(d)'
  BY <1>3, <1>4, <1>6, <1>8 DEF HeadProgress
<1>10. \E s \in OrderSteps : run' = [run EXCEPT !.step = s] /\ HeadProgress(d)'
  BY <1>1, <1>7, <1>9
<1>11. Rows(d)' \in 0..1 /\ sent'[d] \in 0..1
  BY <1>3, <1>4, <1>6
<1> QED BY <1>1, <1>2, <1>4, <1>5, <1>6, <1>10, <1>11, EffectTypes, OutcomeStepKept

\* The polling ends: filled, or straight to the row.
LEMMA ConfirmKept ==
    ASSUME Inductive, NEW filled \in BOOLEAN, Confirm(filled)
    PROVE  Inductive'
<1>1. run.step = "confirm" /\ run.step \in OrderSteps
  BY DEF Confirm, OrderSteps
<1>2. PICK d \in Ids : /\ d = run.outcomes[1].decision
                       /\ HeadProgress(d) /\ Rows(d) \in 0..1 /\ sent[d] \in 0..1
  BY <1>1, AtHand
<1>3. run.mode = "real" /\ Rows(d) = 0 /\ sent[d] = 1
  BY <1>1, <1>2 DEF HeadProgress
<1>4. /\ UNCHANGED <<outside, checks>> /\ orders' = orders /\ sent' = sent /\ book' = book
      /\ interrupts' = interrupts
  BY DEF Confirm, effects
<1>5. \A e \in Ids : Rows(e)' = Rows(e)
  BY <1>4 DEF Rows
<1>6. PICK s \in {"fill", "order_row"} : run' = [run EXCEPT !.step = s]
  BY DEF Confirm, GoTo
<1>7. run'.step = s /\ run'.mode = "real" /\ s \in OrderSteps
  BY <1>3, <1>6 DEF Inductive, RunIsTyped, IsLocals, OrderSteps
<1>8. HeadProgress(d)'
  BY <1>3, <1>4, <1>5, <1>7 DEF HeadProgress
<1> QED BY <1>1, <1>2, <1>4, <1>5, <1>6, <1>7, <1>8, EffectTypes, OutcomeStepKept

\* The position is written, before the row in the real mode and after it in paper.
LEMMA FillKept == Inductive /\ Fill => Inductive'
<1> SUFFICES ASSUME Inductive, Fill PROVE Inductive'
  OBVIOUS
<1>1. run.step = "fill" /\ run.step \in OrderSteps /\ "order_row" \in OrderSteps
  BY DEF Fill, OrderSteps
<1>2. PICK d \in Ids : /\ d = run.outcomes[1].decision /\ d = Outcome.decision
                       /\ HeadProgress(d) /\ Rows(d) \in 0..1 /\ sent[d] \in 0..1
  BY <1>1, AtHand
<1>3. book' \in [Modes -> [Symbols -> [Markets -> Int]]]
  <2>1. PICK m \in Modes : m = run.mode
    BY EffectTypes
  <2>2. PICK s \in Symbols : s = decisions[d].symbol
    BY DEF Inductive, TypeOK
  <2>3. PICK k \in Markets : k = Outcome.market
    BY <1>1, OutcomesAtHand
  <2>4. book' = [book EXCEPT ![m][s][k] = FilledPosition]
    BY <1>2, <2>1, <2>2, <2>3 DEF Fill
  <2>5. book[m][s][k] \in Int
    BY EffectTypes
  <2>6. SuggestedQuantity(d) \in Int
    BY DEF SuggestedQuantity, RiskReward, MaxRiskFraction
  <2>7. FilledPosition \in Int
    <3>1. FilledPosition = ApplyFill(k, book[m][s][k], decisions[d].side, SuggestedQuantity(d))
      BY <1>2, <2>1, <2>2, <2>3 DEF FilledPosition
    <3> QED BY <2>5, <2>6, <3>1
            DEF ApplyFill, FuturesFill, SpotFill, Signed
  <2> HIDE DEF Modes, Markets
  <2>8. [book[m][s] EXCEPT ![k] = FilledPosition] \in [Markets -> Int]
    BY <2>7, EffectTypes
  <2>9. [book[m] EXCEPT ![s] = [book[m][s] EXCEPT ![k] = FilledPosition]] \in [Symbols -> [Markets -> Int]]
    BY <2>8, EffectTypes
  <2> QED BY <2>4, <2>9, EffectTypes
<1>4. /\ UNCHANGED <<outside, checks>> /\ orders' = orders /\ sent' = sent
      /\ interrupts' = interrupts
  BY DEF Fill
<1>5. \A e \in Ids : Rows(e)' = Rows(e)
  BY <1>4 DEF Rows
<1>6. CASE run.mode = "real"
  <2>1. run' = [run EXCEPT !.step = "order_row"]
    BY <1>6 DEF Fill, GoTo
  <2>2. run'.step = "order_row" /\ run'.mode = "real"
    BY <1>6, <2>1 DEF Inductive, RunIsTyped, IsLocals
  <2>3. HeadProgress(d)'
    BY <1>1, <1>2, <1>4, <1>5, <1>6, <2>2 DEF HeadProgress
  <2> QED BY <1>1, <1>2, <1>3, <1>4, <1>5, <2>1, <2>3, EffectTypes, OutcomeStepKept
<1>7. CASE run.mode # "real"
  <2>1. run' = NextOutcome
    BY <1>7 DEF Fill
  <2> QED BY <1>1, <1>2, <1>3, <1>4, <1>5, <2>1, EffectTypes, OutcomeStepKept
<1> QED BY <1>6, <1>7

\* The row of a real order is inserted last.
LEMMA InsertOrderRowKept == Inductive /\ InsertOrderRow => Inductive'
<1> SUFFICES ASSUME Inductive, InsertOrderRow PROVE Inductive'
  OBVIOUS
<1>1. run.step = "order_row" /\ run.step \in OrderSteps
  BY DEF InsertOrderRow, OrderSteps
<1>2. PICK d \in Ids : /\ d = run.outcomes[1].decision /\ d = Outcome.decision
                       /\ HeadProgress(d) /\ Rows(d) \in Nat /\ sent[d] \in 0..1
  BY <1>1, AtHand
<1>3. Rows(d) = 0
  BY <1>1, <1>2 DEF HeadProgress
<1>4. PICK m \in Modes : m = run.mode
  BY EffectTypes
<1>5. orders' = [orders EXCEPT ![d][m] = @ + 1]
  BY <1>2, <1>4 DEF InsertOrderRow, RowInserted
<1>6. /\ orders' \in [Ids -> [Modes -> Nat]] /\ Rows(d)' = Rows(d) + 1
      /\ \A e \in Ids \ {d} : Rows(e)' = Rows(e)
  BY <1>5, RowAdded DEF Inductive
<1>7. /\ UNCHANGED <<outside, checks>> /\ sent' = sent /\ book' = book
      /\ interrupts' = interrupts /\ run' = NextOutcome
  BY DEF InsertOrderRow
<1> QED BY <1>1, <1>2, <1>3, <1>6, <1>7, EffectTypes, OutcomeStepKept

\* A real order that raised leaves a row and ends the iteration.
LEMMA RejectOrderKept == Inductive /\ RejectOrder => Inductive'
<1> SUFFICES ASSUME Inductive, RejectOrder PROVE Inductive'
  OBVIOUS
<1>1. run.step \in OrderSteps /\ run.mode = "real"
  BY DEF RejectOrder, OrderSteps
<1>2. PICK d \in Ids : /\ d = run.outcomes[1].decision /\ d = Outcome.decision
                       /\ HeadProgress(d) /\ Rows(d) \in Nat /\ sent[d] \in 0..1
  BY <1>1, AtHand
<1>3. Rows(d) = 0
  BY <1>1, <1>2 DEF HeadProgress, Ordered
<1>4. PICK m \in Modes : m = run.mode
  BY EffectTypes
<1>5. orders' = [orders EXCEPT ![d][m] = @ + 1]
  BY <1>2, <1>4 DEF RejectOrder, RowInserted
<1>6. /\ orders' \in [Ids -> [Modes -> Nat]] /\ Rows(d)' = Rows(d) + 1
      /\ \A e \in Ids \ {d} : Rows(e)' = Rows(e)
  BY <1>5, RowAdded DEF Inductive
<1>7. /\ UNCHANGED <<outside, checks>> /\ sent' = sent /\ book' = book
      /\ interrupts' \in 0..MaxInterrupts /\ run' = Idle("sleep")
  BY EffectTypes, MaxInterruptsAssumption DEF RejectOrder
<1>8. /\ Rows(d)' \in 0..1 /\ sent'[d] \in 0..1
      /\ \A e \in Ids \ {d} : Rows(e)' = Rows(e) /\ sent'[e] = sent[e]
  BY <1>2, <1>3, <1>6, <1>7
<1>9. sent' \in [Ids -> Nat] /\ book' \in [Modes -> [Symbols -> [Markets -> Int]]]
  BY <1>7, EffectTypes
<1>10. d = run.outcomes[1].decision /\ UNCHANGED <<outside, checks>>
  BY <1>2, <1>7
<1> HIDE DEF Ids
<1> QED BY <1>1, <1>6, <1>7, <1>8, <1>9, <1>10, OutcomeStepKept

-----------------------------------------------------------------------------
(* The invariant holds.                                                    *)

\* A step that changes nothing changes nothing.
LEMMA StutterKept == Inductive /\ UNCHANGED vars => Inductive'
<1> SUFFICES ASSUME Inductive, UNCHANGED vars PROVE Inductive'
  OBVIOUS
<1>1. /\ mode' = mode /\ killed' = killed /\ decisions' = decisions /\ count' = count
      /\ checks' = checks /\ orders' = orders /\ sent' = sent /\ book' = book /\ run' = run
      /\ interrupts' = interrupts /\ halted' = halted /\ TablesAlone
  BY DEF vars, TablesAlone
<1>2. TypeOK'
  BY <1>1 DEF Inductive, TypeOK
<1>3. HaltedIsHeld'
  BY <1>1, TablesKept, HaltedAreIds DEF Inductive, HaltedIsHeld, Judging
<1> QED BY <1>1, <1>2, <1>3, RunKept, TablesKept DEF Inductive

\* Every step of the processes around the loop, of the loop and of its failures keeps
\* the invariant.
LEMMA InductiveKept == Inductive /\ [Next]_vars => Inductive'
<1> SUFFICES ASSUME Inductive, [Next]_vars PROVE Inductive'
  OBVIOUS
<1>1. CASE Around
  <2>1. \A m \in DeclaredMarkets \union {"unset"} : m \in {"unset", "futures_perpetual"}
    BY DeclaredMarketsAssumption
  <2>2. ASSUME NEW s \in Symbols, NEW side \in Sides, NEW m \in DeclaredMarkets,
               InsertSignal(s, side, m)
        PROVE  Inductive'
    BY <2>1, <2>2, InsertKept DEF InsertSignal
  <2>3. ASSUME NEW s \in Symbols, NEW side \in Sides, InsertPairLeg(s, side) PROVE Inductive'
    BY <2>1, <2>3, InsertKept DEF InsertPairLeg
  <2> QED BY <1>1, <2>2, <2>3, KillSwitchKept, ChangeModeKept DEF Around
<1>2. CASE Loop
  BY <1>2, FetchModeKept, FetchBatchKept, ReadContextKept, ReadKillSwitchKept,
     InsertRuleRowKept, InsertFinalVerdictKept, BlockDecisionKept, ExecuteSimulatedKept,
     PlaceOrderKept, ConfirmKept, FillKept, InsertOrderRowKept, FailureKept DEF Loop
<1>3. CASE RejectOrder \/ LoopError \/ Crash
  BY <1>3, RejectOrderKept, FailureKept
<1>4. CASE UNCHANGED vars
  BY <1>4, StutterKept
<1> QED BY <1>1, <1>2, <1>3, <1>4 DEF Next

\* The invariant holds in every state the two engines can reach.
LEMMA InductiveHolds == Spec => []Inductive
BY InitInductive, InductiveKept, PTL DEF Spec

\* The types of the tables and of what the process carries.
THEOREM TypeCorrectness == Spec => []TypeOK
<1>1. Inductive => TypeOK
  BY DEF Inductive
<1> QED BY <1>1, InductiveHolds, PTL

\* One order at most per decision: nothing the process still carries has been ordered,
\* and nothing that was judged is fetched again.
THEOREM OneOrder == Spec => []AtMostOneOrderPerDecision
<1>1. Inductive => AtMostOneOrderPerDecision
  BY DEF Inductive
<1> QED BY <1>1, InductiveHolds, PTL

\* An order rests on a favourable row of every rule and on the final verdict.
THEOREM CompleteVerdict == Spec => []OrdersFollowACompleteVerdict
<1>1. Inductive => OrdersFollowACompleteVerdict
  <2> SUFFICES ASSUME Inductive, NEW d \in Ids, Ordered(d)
               PROVE  /\ {checks[d][k].rule : k \in DOMAIN checks[d]} = Verdicts
                      /\ \A k \in DOMAIN checks[d] : checks[d][k].passed
    BY DEF OrdersFollowACompleteVerdict
  <2>1. Favourable(d) /\ Closed(d)
    <3>1. Favourable(d) /\ (Opened(d) \/ Closed(d) \/ Blocked(d))
      BY DEF Inductive, TablesAreInOrder
    <3> QED BY <3>1 DEF Favourable, Opened, Blocked
  <2>2. DOMAIN checks[d] = 1..6
    BY <2>1, ListFacts DEF Favourable, Inductive, TypeOK
  <2>3. \A k \in 1..5 : checks[d][k].rule = RuleNames[k]
    BY <2>1, <2>2 DEF Closed, RulesInOrder
  <2>4. checks[d][6].rule = FinalVerdict
    BY <2>1 DEF Closed
  <2>5. DOMAIN RuleNames = 1..5
    BY DEF RuleNames
  <2>6. {checks[d][k].rule : k \in DOMAIN checks[d]} = Verdicts
    BY <2>2, <2>3, <2>4, <2>5 DEF Verdicts
  <2> QED BY <2>1, <2>2, <2>6 DEF Favourable
<1> QED BY <1>1, InductiveHolds, PTL

\* No rule writes twice about a decision, however its judgement was cut short.
THEOREM OneRowPerRule == Spec => []EachRuleJudgesADecisionOnce
<1>1. Inductive => EachRuleJudgesADecisionOnce
  <2> SUFFICES ASSUME Inductive, NEW d \in Ids, NEW j \in DOMAIN checks[d], NEW k \in DOMAIN checks[d],
                      checks[d][j].rule = checks[d][k].rule
               PROVE  j = k
    BY DEF EachRuleJudgesADecisionOnce
  <2>1. Len(checks[d]) \in Nat /\ DOMAIN checks[d] = 1..Len(checks[d])
    BY ListFacts DEF Inductive, TypeOK
  <2>2. \A a, b \in 1..5 : RuleNames[a] = RuleNames[b] => a = b
    BY DEF RuleNames
  <2>3. \A a \in 1..5 : RuleNames[a] # FinalVerdict
    BY DEF RuleNames, FinalVerdict
  <2>4. CASE Opened(d)
    <3>1. Len(checks[d]) <= 5 /\ RulesInOrder(d)
      BY <2>4 DEF Opened
    <3>2. \A i \in DOMAIN checks[d] : i \in 1..5
      BY <2>1, <3>1
    <3>3. \A i \in DOMAIN checks[d] : i \in 1..5 /\ checks[d][i].rule = RuleNames[i]
      BY <3>1, <3>2 DEF RulesInOrder
    <3>4. j \in 1..5 /\ k \in 1..5 /\ RuleNames[j] = RuleNames[k]
      BY <3>3
    <3> QED BY <2>2, <3>4
  <2>5. CASE Closed(d)
    <3>1. \A i \in DOMAIN checks[d] :
              \/ i \in 1..5 /\ checks[d][i].rule = RuleNames[i]
              \/ i = 6 /\ checks[d][i].rule = FinalVerdict
      <4> SUFFICES ASSUME NEW i \in DOMAIN checks[d]
                   PROVE  \/ i \in 1..5 /\ checks[d][i].rule = RuleNames[i]
                          \/ i = 6 /\ checks[d][i].rule = FinalVerdict
        OBVIOUS
      <4>1. i \in 1..5 \/ i = 6
        BY <2>1, <2>5 DEF Closed
      <4>2. \A a \in 1..5 : a \in DOMAIN checks[d] => checks[d][a].rule = RuleNames[a]
        BY <2>5 DEF Closed, RulesInOrder
      <4>3. checks[d][6].rule = FinalVerdict
        BY <2>5 DEF Closed
      <4> QED BY <4>1, <4>2, <4>3
    <3> QED BY <2>2, <2>3, <3>1
  <2>6. CASE Blocked(d)
    BY <2>1, <2>6 DEF Blocked
  <2> QED BY <2>4, <2>5, <2>6 DEF Inductive, TablesAreInOrder
<1> QED BY <1>1, InductiveHolds, PTL

\* A pair leg is judged like any decision and never ordered, whatever the bounds are.
THEOREM PairLegsRefused == Spec => []PairLegsAreNeverTraded
<1>1. Inductive => PairLegsAreNeverTraded
  BY DEF Inductive, TablesAreInOrder, PairLegsAreNeverTraded
<1> QED BY <1>1, InductiveHolds, PTL

\* No decision the kill switch covers is ordered.
THEOREM KillSwitchHolds == Spec => []KillSwitchStopsWhatIsNotJudged
<1>1. Inductive => KillSwitchStopsWhatIsNotJudged
  BY HaltedAreIds DEF Inductive, TablesAreInOrder, HaltedIsHeld, KillSwitchStopsWhatIsNotJudged
<1> QED BY <1>1, InductiveHolds, PTL

-----------------------------------------------------------------------------
(* The refinement.                                                         *)

\* The ledger's view of the tables and of the process.
AllStages == [d \in Ids |-> Stage(d)]

\* The stage of a decision, told from the shape of its rows.
ToldStage(d) ==
    IF decisions[d].kind = "absent" THEN "absent"
    ELSE IF Ordered(d) THEN "ordered"
    ELSE IF checks[d] = <<>> THEN "pending"
    ELSE IF Opened(d) THEN IF Judging(d) THEN "judging" ELSE "lost"
    ELSE IF ~Favourable(d) THEN "refused"
    ELSE IF InOutcomes(d) THEN "approved" ELSE "lost"

\* The rows of an unfinished judgement hold no final verdict, and the last row of a
\* finished one is favourable exactly when all the others are.
LEMMA StageTold ==
    ASSUME Inductive, NEW d \in Ids
    PROVE  Stage(d) = ToldStage(d)
<1>1. /\ Len(checks[d]) \in Nat /\ DOMAIN checks[d] = 1..Len(checks[d])
      /\ (checks[d] # <<>> => Len(checks[d]) > 0)
  BY ListFacts DEF Inductive, TypeOK
<1>2. Opened(d) \/ Closed(d) \/ Blocked(d)
  BY DEF Inductive, TablesAreInOrder
<1>3. \A a \in 1..5 : RuleNames[a] # FinalVerdict
  BY DEF RuleNames, FinalVerdict
<1>4. CASE Opened(d)
  <2>1. ~HasFinalRow(d)
    BY <1>1, <1>3, <1>4 DEF Opened, RulesInOrder, HasFinalRow
  <2> QED BY <1>4, <2>1 DEF Stage, ToldStage, Judging
<1>5. CASE Closed(d)
  <2>1. HasFinalRow(d) /\ ~Opened(d) /\ Len(checks[d]) = 6
    BY <1>1, <1>5 DEF Closed, Opened, HasFinalRow
  <2>2. checks[d][6].passed <=> Favourable(d)
    BY <1>5 DEF Closed, Favourable
  <2> QED BY <2>1, <2>2 DEF Stage, ToldStage
<1>6. CASE Blocked(d)
  <2>1. /\ Len(checks[d]) = 1 /\ checks[d][1].rule = FinalVerdict /\ ~checks[d][1].passed
        /\ checks[d] # <<>>
    BY <1>6 DEF Blocked
  <2>2. HasFinalRow(d) /\ ~Favourable(d)
    BY <1>1, <2>1 DEF HasFinalRow, Favourable
  <2>3. ~Opened(d)
    BY <1>1, <1>3, <2>1 DEF Opened, RulesInOrder
  <2> QED BY <2>1, <2>2, <2>3 DEF Stage, ToldStage
<1> QED BY <1>2, <1>4, <1>5, <1>6

\* A decision keeps its stage when its rows stay and the process still carries it, or
\* when its stage does not depend on the process.
LEMMA StageKept ==
    ASSUME Inductive, Inductive', NEW d \in Ids,
           decisions'[d].kind = decisions[d].kind, checks'[d] = checks[d],
           Ordered(d)' <=> Ordered(d),
           Ordered(d) \/ checks[d] = <<>> \/ (Judging(d)' <=> Judging(d)) \/ ~Opened(d),
           Ordered(d) \/ checks[d] = <<>> \/ (InOutcomes(d)' <=> InOutcomes(d)) \/ ~Favourable(d)
    PROVE  Stage(d)' = Stage(d)
<1>1. (Opened(d)' <=> Opened(d)) /\ (Favourable(d)' <=> Favourable(d))
  BY DEF Opened, RulesInOrder, Favourable
<1>2. Stage(d)' = ToldStage(d)'
  <2>1. (Inductive => Stage(d) = ToldStage(d))'
    BY StageTold, PTL
  <2> QED BY <2>1
<1>3. ToldStage(d)' = ToldStage(d)
  BY <1>1 DEF ToldStage
<1> QED BY <1>2, <1>3, StageTold

\* One decision changes stage.
LEMMA OneMoves ==
    ASSUME NEW d \in Ids, NEW from, NEW to, Stage(d) = from, Stage(d)' = to,
           \A e \in Ids \ {d} : Stage(e)' = Stage(e)
    PROVE  Ledger!Move(d, from, to)
<1> HIDE DEF Ids
<1>1. AllStages' = [AllStages EXCEPT ![d] = to]
  BY DEF AllStages
<1> QED BY <1>1 DEF Ledger!Move, AllStages

\* No decision does.
LEMMA NoneMoves ==
    ASSUME \A e \in Ids : Stage(e)' = Stage(e)
    PROVE  UNCHANGED AllStages
<1> HIDE DEF Ids
<1> QED BY DEF AllStages

\* Where the process carries nothing, nothing is being judged or waits to be ordered.
LEMMA RestCarriesNothing ==
    ASSUME run.step \in {"down", "sleep", "fetch"}, run.outcomes = <<>>
    PROVE  \A d : ~Judging(d) /\ ~InOutcomes(d)
BY DEF Judging, InOutcomes

\* What goes on around the engines is an insertion in the ledger, or nothing.
LEMMA AroundRefines ==
    ASSUME Inductive, Inductive', Around
    PROVE  [Ledger!Next]_AllStages
<1> DEFINE Unmoved(d) == /\ decisions'[d] = decisions[d] /\ checks'[d] = checks[d]
                         /\ orders'[d] = orders[d] /\ sent'[d] = sent[d] /\ run' = run
<1>1. \A d \in Ids : Unmoved(d) => Stage(d)' = Stage(d)
  <2> SUFFICES ASSUME NEW d \in Ids, Unmoved(d) PROVE Stage(d)' = Stage(d)
    OBVIOUS
  <2>1. /\ Ordered(d)' <=> Ordered(d)
        /\ Judging(d)' <=> Judging(d)
        /\ InOutcomes(d)' <=> InOutcomes(d)
    BY DEF Ordered, Rows, Judging, InOutcomes
  <2> QED BY <2>1, StageKept
<1>2. ASSUME NEW kind \in {"fused", "pair_leg"}, NEW symbol, NEW side, NEW market,
             Insert(kind, symbol, side, market)
      PROVE  [Ledger!Next]_AllStages
  <2>1. PICK new \in Ids : new = count + 1 /\ new > count
    BY <1>2, HaltedAreIds, MaxDecisionsAssumption DEF Insert
  <2>2. /\ decisions' = [decisions EXCEPT ![new] =
               [kind |-> kind, symbol |-> symbol, side |-> side, market |-> market]]
        /\ checks' = checks /\ orders' = orders /\ sent' = sent /\ run' = run
    BY <1>2, <2>1 DEF Insert, effects
  <2>3. \A e \in Ids \ {new} : Unmoved(e)
    BY <2>2 DEF Inductive, TypeOK
  <2>4. decisions[new].kind = "absent" /\ checks[new] = <<>> /\ ~Ordered(new)
    BY <2>1 DEF Inductive, TablesAreInOrder, Favourable
  <2>5. decisions'[new].kind = kind /\ checks'[new] = <<>> /\ ~Ordered(new)'
    BY <2>2, <2>4 DEF Inductive, TypeOK, Ordered, Rows
  <2>6. Stage(new) = "absent" /\ Stage(new)' = "pending"
    BY <2>4, <2>5 DEF Stage
  <2>7. Ledger!Move(new, "absent", "pending")
    BY <1>1, <2>3, <2>6, OneMoves
  <2> QED BY <2>7 DEF Ledger!Next, Ledger!Arrive
<1>3. ASSUME UNCHANGED <<decisions, checks, orders, sent, run>>
      PROVE  [Ledger!Next]_AllStages
  <2>1. \A d \in Ids : Unmoved(d)
    BY <1>3
  <2> HIDE DEF Unmoved
  <2> QED BY <1>1, <2>1, NoneMoves
<1>4. \A active : SetKillSwitch(active) => UNCHANGED <<decisions, checks, orders, sent, run>>
  BY DEF SetKillSwitch, effects
<1>5. \A target : ChangeMode(target) => UNCHANGED <<decisions, checks, orders, sent, run>>
  BY DEF ChangeMode, effects
<1> HIDE DEF Unmoved
<1> QED BY <1>2, <1>3, <1>4, <1>5 DEF Around, InsertSignal, InsertPairLeg

\* Reading changes no stage: a decision under judgement is still pending while none of its
\* rows is written.
LEMMA ReadingRefines ==
    ASSUME Inductive, Inductive', TablesAlone,
           FetchMode \/ FetchBatch \/ ReadContext \/ Restart
               \/ \E favourable \in BOOLEAN : ReadKillSwitch(favourable)
    PROVE  UNCHANGED AllStages
<1>1. \A d \in Ids : /\ decisions'[d] = decisions[d] /\ checks'[d] = checks[d]
                     /\ Ordered(d)' <=> Ordered(d)
  BY DEF TablesAlone, Ordered, Rows
<1>2. CASE FetchMode \/ FetchBatch \/ Restart
  <2>1. run.step \in {"down", "sleep", "fetch"} /\ run.outcomes = <<>>
    BY <1>2 DEF FetchMode, FetchBatch, Restart, Inductive, OutcomesAreDue
  <2>2. run'.outcomes = <<>> /\ run'.step # "rows"
    <3>1. CASE FetchMode
      BY <3>1 DEF FetchMode, Idle
    <3>2. CASE FetchBatch
      <4>1. IsLocals(run)
        BY DEF Inductive, RunIsTyped
      <4>2. \A batch : LET r == [run EXCEPT !.step = "context", !.batch = batch]
                      IN r.outcomes = run.outcomes /\ r.step = "context"
        BY <4>1 DEF IsLocals
      <4>3. Idle("sleep").outcomes = <<>> /\ Idle("sleep").step = "sleep"
        BY DEF Idle
      <4> QED BY <2>1, <3>2, <4>2, <4>3 DEF FetchBatch
    <3>3. CASE Restart
      BY <3>3 DEF Restart, Idle
    <3> QED BY <1>2, <3>1, <3>2, <3>3
  <2>3. \A d : ~Judging(d)' /\ ~InOutcomes(d)'
    BY <2>2 DEF Judging, InOutcomes
  <2> QED BY <1>1, <2>1, <2>3, RestCarriesNothing, StageKept, NoneMoves
<1>3. CASE ReadContext
  <2>1. run'.outcomes = run.outcomes /\ run.step # "rows" /\ run'.step # "rows"
    BY <1>3 DEF ReadContext, Inductive, RunIsTyped, IsLocals
  <2>2. \A d : (Judging(d)' <=> Judging(d)) /\ (InOutcomes(d)' <=> InOutcomes(d))
    BY <2>1 DEF Judging, InOutcomes
  <2> QED BY <1>1, <2>2, StageKept, NoneMoves
<1>4. ASSUME NEW favourable \in BOOLEAN, ReadKillSwitch(favourable)
      PROVE  UNCHANGED AllStages
  <2>1. /\ run'.outcomes = run.outcomes /\ run'.batch = run.batch /\ run.step = "kill_switch"
        /\ run.step \in BatchSteps
    <3>1. run.step = "kill_switch" /\ run.step \in BatchSteps
      BY <1>4 DEF ReadKillSwitch, BatchSteps
    <3>2. PICK results, all : run' = [run EXCEPT !.step = "rows", !.results = results, !.passed = all]
      BY <1>4 DEF ReadKillSwitch
    <3>3. IsLocals(run)
      BY DEF Inductive, RunIsTyped
    <3>4. run'.outcomes = run.outcomes /\ run'.batch = run.batch
      BY ONLY <3>2, <3>3 DEF IsLocals
    <3> QED BY <3>1, <3>4
  <2>2. checks[Head(run.batch)] = <<>>
    BY <2>1, BatchAtHand DEF Inductive, BatchIsFresh
  <2>3. \A d \in Ids : /\ checks[d] = <<>> \/ (Judging(d)' <=> Judging(d))
                       /\ InOutcomes(d)' <=> InOutcomes(d)
    BY <2>1, <2>2 DEF Judging, InOutcomes
  <2> QED BY <1>1, <2>3, StageKept, NoneMoves
<1> QED BY <1>2, <1>3, <1>4

\* The first rule row takes a decision from fresh to opened; the others change nothing.
LEMMA InsertRuleRowRefines ==
    ASSUME Inductive, Inductive', InsertRuleRow
    PROVE  [Ledger!Next]_AllStages
<1>1. run.step = "rows" /\ run.step \in BatchSteps /\ run.results # <<>>
  BY BatchAtHand DEF InsertRuleRow
<1>2. PICK d \in Ids : d = Head(run.batch) /\ d = run.batch[1] /\ d <= count
  BY <1>1, BatchAtHand, HaltedAreIds
<1>3. PICK row \in CheckRow : row = Head(run.results)
  <2>1. run.results \in Seq(CheckRow) /\ run.results # <<>>
    BY <1>1 DEF Inductive, TypeOK
  <2>2. Head(run.results) = run.results[1] /\ run.results[1] \in CheckRow
    BY <2>1, ListFacts
  <2> QED BY <2>2
<1>4. /\ checks' \in [Ids -> Seq(CheckRow)] /\ \A e \in Ids \ {d} : checks'[e] = checks[e]
      /\ Len(checks'[d]) = Len(checks[d]) + 1
  <2>1. d \in Ids /\ TypeOK /\ checks' = [checks EXCEPT ![d] = Append(@, row)]
    BY <1>2, <1>3 DEF InsertRuleRow, Inductive
  <2> HIDE DEF Ids
  <2> QED BY <2>1, CheckAdded
<1>5. /\ run'.step = "rows" /\ run'.batch = run.batch /\ run'.outcomes = run.outcomes
      /\ decisions' = decisions /\ orders' = orders /\ sent' = sent
  BY <1>1 DEF InsertRuleRow, Inductive, RunIsTyped, IsLocals, outside, effects
<1>6. \A e : /\ Judging(e)' <=> Judging(e)
             /\ InOutcomes(e)' <=> InOutcomes(e)
             /\ Ordered(e)' <=> Ordered(e)
  BY <1>1, <1>5 DEF Judging, InOutcomes, Ordered, Rows
<1>7. \A e \in Ids \ {d} : Stage(e)' = Stage(e)
  BY <1>4, <1>5, <1>6, StageKept
<1>8. /\ Opened(d) /\ Judging(d) /\ ~Ordered(d) /\ decisions[d].kind # "absent"
      /\ Len(checks[d]) \in Nat
  <2>1. Opened(d) /\ Judging(d)
    BY <1>1, <1>2 DEF Inductive, ResultsComplete, Judging
  <2>2. ~Favourable(d)
    BY <2>1 DEF Opened, Favourable
  <2>3. Len(checks[d]) \in Nat
    BY ListFacts DEF Inductive, TypeOK
  <2> QED BY <1>2, <2>1, <2>2, <2>3, HaltedAreIds DEF Inductive, TablesAreInOrder
<1>9. Opened(d)' /\ Judging(d)' /\ checks'[d] # <<>>
  <2>1. Judging(d)' /\ checks'[d] # <<>>
    BY <1>4, <1>6, <1>8, ListFacts
  <2>2. run'.batch[1] = d
    BY <1>2, <1>5
  <2>3. Opened(d)'
    BY <1>5, <2>2 DEF Inductive, ResultsComplete
  <2> QED BY <2>1, <2>3
<1>10. Stage(d)' = "judging"
  <2>1. (Inductive => Stage(d) = ToldStage(d))'
    BY StageTold, PTL
  <2> QED BY <1>5, <1>6, <1>8, <1>9, <2>1 DEF ToldStage
<1>11. CASE checks[d] = <<>>
  <2>1. Stage(d) = "pending"
    BY <1>8, <1>11 DEF Stage
  <2>2. Ledger!Open(d)
    BY <1>7, <1>10, <2>1, OneMoves DEF Ledger!Open
  <2> QED BY <2>2 DEF Ledger!Next
<1>12. CASE checks[d] # <<>>
  <2>1. Stage(d) = "judging"
    BY <1>8, <1>12, StageTold DEF ToldStage
  <2>2. \A e \in Ids : Stage(e)' = Stage(e)
    BY <1>7, <1>10, <2>1
  <2> QED BY <2>2, NoneMoves
<1> QED BY <1>11, <1>12

\* After a judgement the process carries the outcomes, and judges nothing yet.
LEMMA AfterJudgement ==
    ASSUME NEW outs, run' = NextDecision(outs)
    PROVE  run'.step # "rows" /\ run'.outcomes = outs
<1>1. CASE Len(run.batch) > 1
  BY <1>1 DEF NextDecision, Idle
<1>2. CASE ~(Len(run.batch) > 1) /\ outs # <<>>
  BY <1>2 DEF NextDecision, Idle
<1>3. CASE ~(Len(run.batch) > 1) /\ outs = <<>>
  BY <1>3 DEF NextDecision, Idle
<1> QED BY <1>1, <1>2, <1>3

\* A blocked decision is refused in the ledger.
LEMMA BlockDecisionRefines ==
    ASSUME Inductive, Inductive', BlockDecision
    PROVE  [Ledger!Next]_AllStages
<1> DEFINE row == [rule |-> FinalVerdict, passed |-> FALSE]
<1>1. run.step = "context" /\ run.step \in BatchSteps
  BY BatchAtHand DEF BlockDecision
<1>2. PICK d \in Ids : d = Head(run.batch) /\ d <= count /\ checks[d] = <<>>
  BY <1>1, BatchAtHand, HaltedAreIds DEF Inductive, BatchIsFresh
<1>3. PICK outs : outs = run.outcomes
  OBVIOUS
<1>4. run'.step # "rows" /\ run'.outcomes = run.outcomes
  BY <1>3, AfterJudgement DEF BlockDecision
<1>5. row \in CheckRow
  BY DEF CheckRow, Verdicts
<1>6. /\ \A e \in Ids \ {d} : checks'[e] = checks[e]
      /\ Len(checks'[d]) = Len(checks[d]) + 1 /\ checks'[d][Len(checks[d]) + 1] = row
      /\ checks' \in [Ids -> Seq(CheckRow)]
  BY <1>2, <1>5, CheckAdded DEF BlockDecision, Inductive
<1>7. Len(checks'[d]) = 1 /\ checks'[d][1] = row
  <2>1. Len(checks[d]) = 0
    BY <1>2
  <2> QED BY <1>6, <2>1
<1>8. decisions' = decisions /\ orders' = orders /\ sent' = sent
  BY DEF BlockDecision, outside, effects
<1>9. \A e : /\ ~Judging(e) /\ ~Judging(e)' /\ (InOutcomes(e)' <=> InOutcomes(e))
             /\ Ordered(e)' <=> Ordered(e)
  BY <1>1, <1>4, <1>8 DEF Judging, InOutcomes, Ordered, Rows
<1>10. \A e \in Ids \ {d} : Stage(e)' = Stage(e)
  BY <1>6, <1>8, <1>9, StageKept
<1>11. ~Ordered(d) /\ decisions[d].kind # "absent"
  <2>1. ~Favourable(d)
    BY <1>2 DEF Favourable
  <2> QED BY <1>2, <2>1, HaltedAreIds DEF Inductive, TablesAreInOrder
<1>12. Stage(d) = "pending"
  BY <1>2, <1>11 DEF Stage
<1>13. Stage(d)' = "refused"
  <2>1. DOMAIN checks'[d] = 1..1 /\ checks'[d] # <<>>
    <3>1. checks'[d] \in Seq(CheckRow)
      BY <1>6
    <3>2. DOMAIN checks'[d] = 1..Len(checks'[d]) /\ (checks'[d] # <<>> <=> Len(checks'[d]) > 0)
      BY <3>1, ListFacts
    <3> QED BY <1>7, <3>2
  <2>2. HasFinalRow(d)' /\ ~checks'[d][Len(checks'[d])].passed
    BY <1>7, <2>1 DEF HasFinalRow
  <2> QED BY <1>8, <1>9, <1>11, <2>1, <2>2 DEF Stage
<1>14. Ledger!Block(d)
  BY <1>10, <1>12, <1>13, OneMoves DEF Ledger!Block
<1> QED BY <1>14 DEF Ledger!Next

\* The final verdict approves or refuses, and nothing else moves.
LEMMA InsertFinalVerdictRefines ==
    ASSUME Inductive, Inductive', InsertFinalVerdict
    PROVE  [Ledger!Next]_AllStages
<1>1. run.step = "rows" /\ run.step \in BatchSteps /\ run.results = <<>>
  BY BatchAtHand DEF InsertFinalVerdict
<1>2. PICK d \in Ids : d = Head(run.batch) /\ d = run.batch[1] /\ d <= count
  BY <1>1, BatchAtHand, HaltedAreIds
<1>3. PICK passed \in BOOLEAN : passed = run.passed
  BY DEF Inductive, TypeOK
<1>4. PICK row \in CheckRow : row = [rule |-> FinalVerdict, passed |-> run.passed]
  BY <1>3 DEF CheckRow, Verdicts
<1>5. PICK outs : outs = PassedOutcomes
  OBVIOUS
<1>6. run'.step # "rows" /\ run'.outcomes = outs
  BY <1>5, AfterJudgement DEF InsertFinalVerdict
<1>7. /\ \A e \in Ids \ {d} : checks'[e] = checks[e]
      /\ Len(checks'[d]) = Len(checks[d]) + 1 /\ checks'[d][Len(checks[d]) + 1] = row
      /\ checks' \in [Ids -> Seq(CheckRow)]
  <2>1. d \in Ids /\ TypeOK /\ checks' = [checks EXCEPT ![d] = Append(@, row)]
    BY <1>2, <1>4 DEF InsertFinalVerdict, Inductive
  <2> HIDE DEF Ids
  <2> QED BY <2>1, CheckAdded
<1>8. decisions' = decisions /\ orders' = orders /\ sent' = sent
  BY DEF InsertFinalVerdict, outside, effects
<1>9. Opened(d) /\ Len(checks[d]) = 5
  <2>1. Len(run.results) = 0 /\ Len(checks[d]) \in Nat
    BY <1>1, ListFacts DEF Inductive, TypeOK
  <2> QED BY <1>1, <1>2, <2>1 DEF Inductive, ResultsComplete
<1>10. ~Ordered(d) /\ decisions[d].kind # "absent" /\ checks[d] # <<>> /\ Judging(d)
  <2>1. ~Favourable(d)
    BY <1>9 DEF Favourable
  <2>2. ~Ordered(d)
    BY <2>1 DEF Inductive, TablesAreInOrder
  <2>3. decisions[d].kind # "absent"
    BY <1>2, HaltedAreIds DEF Inductive, TablesAreInOrder
  <2>4. checks[d] # <<>>
    <3>1. Len(<<>>) # 5
      OBVIOUS
    <3> QED BY <1>9, <3>1
  <2> QED BY <1>1, <1>2, <2>2, <2>3, <2>4 DEF Judging
<1>11. Stage(d) = "judging"
  BY <1>9, <1>10, StageTold DEF ToldStage
<1>12. \A e \in Ids \ {d} : InOutcomes(e)' <=> InOutcomes(e)
  <2> SUFFICES ASSUME NEW e \in Ids \ {d} PROVE InOutcomes(e)' <=> InOutcomes(e)
    OBVIOUS
  <2>1. CASE ~passed
    <3>1. outs = run.outcomes
      BY <1>3, <1>5, <2>1 DEF PassedOutcomes
    <3> QED BY <1>6, <3>1 DEF InOutcomes
  <2>2. CASE passed
    <3>1. PICK outcome \in OutcomeRow :
              outcome = [decision |-> d, mode |-> run.ctx.mode, market |-> run.ctx.market]
      BY DEF OutcomeRow, Inductive, RunIsTyped
    <3>2. outs = Append(run.outcomes, outcome) /\ run.outcomes \in Seq(OutcomeRow)
      BY <1>2, <1>3, <1>5, <2>2, <3>1 DEF PassedOutcomes, Inductive, TypeOK
    <3>3. /\ DOMAIN outs = 1..(Len(run.outcomes) + 1) /\ Len(run.outcomes) \in Nat
          /\ DOMAIN run.outcomes = 1..Len(run.outcomes)
          /\ \A i \in 1..Len(run.outcomes) : outs[i] = run.outcomes[i]
          /\ outs[Len(run.outcomes) + 1] = outcome
      BY <3>2, AppendFacts, ListFacts
    <3>4. outcome.decision # e
      BY <3>1
    <3>5. \A i \in DOMAIN outs : i \in DOMAIN run.outcomes \/ i = Len(run.outcomes) + 1
      BY <3>3
    <3>6. (\E k \in DOMAIN outs : outs[k].decision = e) <=>
              (\E k \in DOMAIN run.outcomes : run.outcomes[k].decision = e)
      BY <3>3, <3>4, <3>5
    <3> QED BY <1>6, <3>6 DEF InOutcomes
  <2> QED BY <2>1, <2>2
<1>13. \A e \in Ids \ {d} : /\ ~Judging(e) /\ ~Judging(e)'
                            /\ Ordered(e)' <=> Ordered(e)
  BY <1>2, <1>6, <1>8 DEF Judging, Ordered, Rows
<1>14. \A e \in Ids \ {d} : Stage(e)' = Stage(e)
  BY <1>7, <1>8, <1>12, <1>13, StageKept
<1>15. ~Ordered(d)' /\ decisions'[d].kind # "absent"
  BY <1>8, <1>10 DEF Ordered, Rows
<1>16. Len(checks'[d]) = 6 /\ checks'[d][6] = row /\ DOMAIN checks'[d] = 1..6 /\ checks'[d] # <<>>
  <2>1. Len(checks[d]) + 1 = 6
    BY <1>9
  <2> QED BY <1>7, <2>1, ListFacts
<1>17. HasFinalRow(d)' /\ checks'[d][Len(checks'[d])].passed = passed
  BY <1>3, <1>4, <1>16 DEF HasFinalRow
<1>18. CASE passed
  <2>1. InOutcomes(d)'
    <3>1. PICK outcome \in OutcomeRow :
              outcome = [decision |-> d, mode |-> run.ctx.mode, market |-> run.ctx.market]
      BY DEF OutcomeRow, Inductive, RunIsTyped
    <3>2. outs = Append(run.outcomes, outcome) /\ run.outcomes \in Seq(OutcomeRow)
      BY <1>2, <1>3, <1>5, <1>18, <3>1 DEF PassedOutcomes, Inductive, TypeOK
    <3>3. Len(run.outcomes) + 1 \in DOMAIN outs /\ outs[Len(run.outcomes) + 1] = outcome
      BY <3>2, AppendFacts, ListFacts
    <3> QED BY <1>6, <3>1, <3>3 DEF InOutcomes
  <2>2. Stage(d)' = "approved"
    BY <1>15, <1>16, <1>17, <1>18, <2>1 DEF Stage
  <2>3. Ledger!Approve(d)
    BY <1>11, <1>14, <2>2, OneMoves DEF Ledger!Approve
  <2> QED BY <2>3 DEF Ledger!Next
<1>19. CASE ~passed
  <2>1. Stage(d)' = "refused"
    BY <1>15, <1>16, <1>17, <1>19 DEF Stage
  <2>2. Ledger!Refuse(d)
    BY <1>11, <1>14, <2>1, OneMoves DEF Ledger!Refuse
  <2> QED BY <2>2 DEF Ledger!Next
<1> QED BY <1>18, <1>19

\* While outcomes are executed nothing is being judged, and the outcome at hand is
\* approved until it is ordered.
LEMMA HeadStage ==
    ASSUME Inductive, run.step \in OrderSteps
    PROVE  \E d \in Ids : /\ d = run.outcomes[1].decision /\ d = Outcome.decision
                          /\ HeadProgress(d) /\ InOutcomes(d)
                          /\ Stage(d) = IF Ordered(d) THEN "ordered" ELSE "approved"
                          /\ \A e : ~Judging(e)
                          /\ decisions[d].kind # "absent"
<1>1. PICK d \in Ids : d = run.outcomes[1].decision /\ d = Outcome.decision /\ HeadProgress(d)
  BY AtHand
<1>2. InOutcomes(d) /\ Favourable(d)
  BY <1>1, OutcomesAtHand DEF InOutcomes, Inductive, OutcomesAreDue
<1>3. ~Opened(d) /\ checks[d] # <<>>
  <2>1. Len(checks[d]) = 6
    BY <1>2 DEF Favourable
  <2>2. ~Opened(d)
    BY <2>1 DEF Opened
  <2>3. CASE checks[d] = <<>>
    <3>1. Len(checks[d]) = Len(<<>>)
      BY ONLY <2>3
    <3> QED BY <2>1, <3>1
  <2> QED BY <2>2, <2>3
<1>4. decisions[d].kind # "absent"
  BY <1>3 DEF Inductive, TablesAreInOrder
<1>5. Stage(d) = IF Ordered(d) THEN "ordered" ELSE "approved"
  BY <1>2, <1>3, <1>4, StageTold DEF ToldStage
<1>6. \A e : ~Judging(e)
  BY DEF Judging, OrderSteps
<1> QED BY <1>1, <1>2, <1>4, <1>5, <1>6

\* An outcome that is done with leaves the list; the others stay on it.
LEMMA OthersStayListed ==
    ASSUME Inductive, run.step \in OrderSteps, NEW d, d = run.outcomes[1].decision,
           run' = NextOutcome \/ \E s \in OrderSteps : run' = [run EXCEPT !.step = s]
    PROVE  /\ \A e \in Ids \ {d} : InOutcomes(e)' <=> InOutcomes(e)
           /\ \A e : ~Judging(e)'
<1>1. /\ run.outcomes \in Seq(OutcomeRow) /\ run.outcomes # <<>> /\ Len(run.outcomes) \in Nat
      /\ DOMAIN run.outcomes = 1..Len(run.outcomes)
  BY OutcomesAtHand
<1>2. /\ Len(run.outcomes) > 0 /\ DOMAIN Tail(run.outcomes) = 1..(Len(run.outcomes) - 1)
      /\ \A i \in 1..(Len(run.outcomes) - 1) : Tail(run.outcomes)[i] = run.outcomes[i + 1]
  BY <1>1, ListFacts
<1>3. IsLocals(run)
  BY DEF Inductive, RunIsTyped
<1>4. CASE \E s \in OrderSteps : run' = [run EXCEPT !.step = s]
  <2>1. run'.outcomes = run.outcomes /\ run'.step \in OrderSteps
    BY <1>3, <1>4 DEF IsLocals
  <2> QED BY <2>1 DEF InOutcomes, Judging, OrderSteps
<1>5. CASE run' = NextOutcome /\ Len(run.outcomes) > 1
  <2>1. run'.outcomes = Tail(run.outcomes) /\ run'.step = "execute"
    BY <1>3, <1>5 DEF NextOutcome, IsLocals
  <2>2. ASSUME NEW e \in Ids \ {d}
        PROVE  (\E k \in DOMAIN Tail(run.outcomes) : Tail(run.outcomes)[k].decision = e) <=>
                   (\E k \in DOMAIN run.outcomes : run.outcomes[k].decision = e)
    <3>1. \A k \in DOMAIN Tail(run.outcomes) :
              k + 1 \in DOMAIN run.outcomes /\ Tail(run.outcomes)[k] = run.outcomes[k + 1]
      BY <1>1, <1>2
    <3>2. \A k \in DOMAIN run.outcomes :
              k = 1 \/ (k - 1 \in DOMAIN Tail(run.outcomes) /\ Tail(run.outcomes)[k - 1] = run.outcomes[k])
      BY <1>1, <1>2
    <3>3. ASSUME NEW k \in DOMAIN Tail(run.outcomes), Tail(run.outcomes)[k].decision = e
          PROVE  \E i \in DOMAIN run.outcomes : run.outcomes[i].decision = e
      BY <3>1, <3>3
    <3>4. ASSUME NEW k \in DOMAIN run.outcomes, run.outcomes[k].decision = e
          PROVE  \E i \in DOMAIN Tail(run.outcomes) : Tail(run.outcomes)[i].decision = e
      <4>1. k # 1
        BY <3>4
      <4>2. k - 1 \in DOMAIN Tail(run.outcomes) /\ Tail(run.outcomes)[k - 1] = run.outcomes[k]
        BY <3>2, <4>1
      <4> QED BY <3>4, <4>2
    <3> QED BY <3>3, <3>4
  <2> QED BY <2>1, <2>2 DEF InOutcomes, Judging
<1>6. CASE run' = NextOutcome /\ ~(Len(run.outcomes) > 1)
  <2>1. run'.outcomes = <<>> /\ run'.step = "sleep"
    BY <1>6 DEF NextOutcome, Idle
  <2>2. \A k \in DOMAIN run.outcomes : k = 1
    BY <1>1, <1>6
  <2> QED BY <2>1, <2>2 DEF InOutcomes, Judging
<1> QED BY <1>4, <1>5, <1>6

\* An order is placed, or the step is about a decision that was ordered already.
LEMMA OutcomeStepRefines ==
    ASSUME Inductive, Inductive', run.step \in OrderSteps, NEW d \in Ids, d = run.outcomes[1].decision,
           UNCHANGED <<decisions, checks>>, Ordered(d)',
           \A e \in Ids \ {d} : Ordered(e)' <=> Ordered(e),
           run' = NextOutcome \/ \E s \in OrderSteps : run' = [run EXCEPT !.step = s]
    PROVE  [Ledger!Next]_AllStages
<1>1. /\ Stage(d) = IF Ordered(d) THEN "ordered" ELSE "approved"
      /\ \A e : ~Judging(e)
      /\ decisions[d].kind # "absent"
  BY HeadStage
<1>2. /\ \A e \in Ids \ {d} : InOutcomes(e)' <=> InOutcomes(e)
      /\ \A e : ~Judging(e)'
  BY OthersStayListed
<1>3. \A e \in Ids \ {d} : Stage(e)' = Stage(e)
  BY <1>1, <1>2, StageKept
<1>4. Stage(d)' = "ordered"
  BY <1>1 DEF Stage
<1>5. CASE Ordered(d)
  <2>1. \A e \in Ids : Stage(e)' = Stage(e)
    BY <1>1, <1>3, <1>4, <1>5
  <2> QED BY <2>1, NoneMoves
<1>6. CASE ~Ordered(d)
  <2>1. Ledger!Order(d)
    BY <1>1, <1>3, <1>4, <1>6, OneMoves DEF Ledger!Order
  <2> QED BY <2>1 DEF Ledger!Next
<1> QED BY <1>5, <1>6

\* The steps of an outcome order the decision it carries, or change nothing.
LEMMA OrderStepsRefine ==
    ASSUME Inductive, Inductive',
           \/ ExecuteSimulated \/ PlaceOrder \/ Fill \/ InsertOrderRow
           \/ \E filled \in BOOLEAN : Confirm(filled)
    PROVE  [Ledger!Next]_AllStages
<1>1. run.step \in OrderSteps
  BY DEF ExecuteSimulated, PlaceOrder, Fill, InsertOrderRow, Confirm, OrderSteps
<1>2. PICK d \in Ids : /\ d = run.outcomes[1].decision /\ d = Outcome.decision
                       /\ HeadProgress(d) /\ sent[d] \in Nat /\ Rows(d) \in Nat
  BY <1>1, AtHand
<1>3. UNCHANGED <<decisions, checks>>
  BY DEF ExecuteSimulated, PlaceOrder, Fill, InsertOrderRow, Confirm, outside
<1>4. PICK m \in Modes : m = run.mode
  BY EffectTypes
<1>5. CASE ExecuteSimulated \/ InsertOrderRow
  <2>1. orders' = [orders EXCEPT ![d][m] = @ + 1] /\ sent' = sent
    BY <1>2, <1>4, <1>5 DEF ExecuteSimulated, InsertOrderRow, RowInserted
  <2>2. Rows(d)' = Rows(d) + 1 /\ \A e \in Ids \ {d} : Rows(e)' = Rows(e)
    BY <2>1, RowAdded DEF Inductive
  <2>3. Ordered(d)' /\ \A e \in Ids \ {d} : Ordered(e)' <=> Ordered(e)
    BY <1>2, <2>1, <2>2 DEF Ordered
  <2>4. run' = NextOutcome \/ \E s \in OrderSteps : run' = [run EXCEPT !.step = s]
    BY <1>5 DEF ExecuteSimulated, InsertOrderRow, GoTo, OrderSteps
  <2> QED BY <1>1, <1>2, <1>3, <2>3, <2>4, OutcomeStepRefines
<1>6. CASE PlaceOrder
  <2>1. /\ sent' = [sent EXCEPT ![d] = @ + 1] /\ orders' = orders
        /\ run' = [run EXCEPT !.step = "confirm"]
    BY <1>2, <1>6 DEF PlaceOrder, GoTo
  <2>2. sent'[d] = sent[d] + 1 /\ \A e \in Ids \ {d} : sent'[e] = sent[e]
    <3> HIDE DEF Ids
    <3> QED BY <2>1, EffectTypes
  <2>3. Ordered(d)' /\ \A e \in Ids \ {d} : Ordered(e)' <=> Ordered(e)
    BY <1>2, <2>1, <2>2 DEF Ordered, Rows
  <2> QED BY <1>1, <1>2, <1>3, <2>1, <2>3, OutcomeStepRefines DEF OrderSteps
<1>7. CASE Fill \/ \E filled \in BOOLEAN : Confirm(filled)
  <2>1. orders' = orders /\ sent' = sent /\ run.step \in {"fill", "confirm"}
    BY <1>7 DEF Fill, Confirm, effects
  <2>2. \A e \in Ids : Ordered(e)' <=> Ordered(e)
    BY <2>1 DEF Ordered, Rows
  <2>3. Ordered(d)
    BY <1>2, <2>1 DEF HeadProgress, Ordered
  <2>4. run' = NextOutcome \/ \E s \in OrderSteps : run' = [run EXCEPT !.step = s]
    BY <1>7 DEF Fill, Confirm, GoTo, OrderSteps
  <2> QED BY <1>1, <1>2, <1>3, <2>2, <2>3, <2>4, OutcomeStepRefines
<1> QED BY <1>5, <1>6, <1>7

\* An interruption drops whatever the process carried; the decision whose order it leaves
\* behind, if there is one, was approved.
LEMMA InterruptionRefines ==
    ASSUME Inductive, Inductive', AtRest(run)', UNCHANGED <<decisions, checks>>,
           NEW placed \in SUBSET Ids, \A d, e \in placed : d = e,
           \A d \in placed : Stage(d) = "approved" /\ Ordered(d)',
           \A d \in Ids \ placed : Ordered(d)' <=> Ordered(d)
    PROVE  [Ledger!Next]_AllStages
<1>1. \A d : ~Judging(d)' /\ ~InOutcomes(d)'
  BY DEF AtRest, Judging, InOutcomes
<1>2. ASSUME NEW d \in Ids
      PROVE  Stage(d)' = IF d \in placed THEN "ordered"
                         ELSE IF Stage(d) \in {"judging", "approved"} THEN "lost"
                         ELSE Stage(d)
  <2>1. (Inductive => Stage(d) = ToldStage(d))'
    BY StageTold, PTL
  <2>2. Stage(d)' = ToldStage(d)' /\ Stage(d) = ToldStage(d)
    BY <2>1, StageTold
  <2>3. (Opened(d)' <=> Opened(d)) /\ (Favourable(d)' <=> Favourable(d))
    BY DEF Opened, RulesInOrder, Favourable
  <2>4. CASE d \in placed
    <3>1. decisions[d].kind # "absent"
      BY <2>4 DEF Stage
    <3> QED BY <2>2, <2>4, <3>1 DEF ToldStage
  <2>5. CASE d \notin placed
    BY <1>1, <2>2, <2>3, <2>5 DEF ToldStage
  <2> QED BY <2>4, <2>5
<1>3. Ledger!Interrupt(placed)
  <2>1. placed \subseteq {d \in Ids : AllStages[d] = "approved"}
    BY DEF AllStages
  <2>2. AllStages' = [d \in Ids |-> IF d \in placed THEN "ordered"
                                   ELSE IF AllStages[d] \in {"judging", "approved"} THEN "lost"
                                   ELSE AllStages[d]]
    <3> HIDE DEF Ids
    <3> QED BY <1>2 DEF AllStages
  <2> QED BY <2>1, <2>2 DEF Ledger!Interrupt, AllStages
<1> QED BY <1>3 DEF Ledger!Next

\* Whatever the process loses, the ledger either abandons a decision or stays.
LEMMA FailuresRefine ==
    ASSUME Inductive, Inductive', LoopError \/ Crash \/ RejectOrder
    PROVE  [Ledger!Next]_AllStages
<1>1. AtRest(run)'
  <2>1. AtRest(Idle("sleep")) /\ AtRest(Idle("down"))
    BY DEF AtRest, Idle, IsLocals, NoContext
  <2> QED BY <2>1 DEF LoopError, Crash, RejectOrder
<1>2. UNCHANGED <<decisions, checks>>
  BY DEF LoopError, Crash, RejectOrder, outside
<1>3. CASE LoopError \/ Crash
  <2>1. \A d \in Ids : Ordered(d)' <=> Ordered(d)
    BY <1>3 DEF LoopError, Crash, effects, Ordered, Rows
  <2> QED BY <1>1, <1>2, <2>1, {} \in SUBSET Ids, InterruptionRefines
<1>4. CASE RejectOrder
  <2>1. run.step \in OrderSteps
    BY <1>4 DEF RejectOrder, OrderSteps
  <2>2. PICK d \in Ids : /\ d = Outcome.decision
                         /\ Stage(d) = IF Ordered(d) THEN "ordered" ELSE "approved"
    BY <2>1, HeadStage
  <2>3. PICK m \in Modes : m = run.mode
    BY EffectTypes
  <2>4. orders' = [orders EXCEPT ![d][m] = @ + 1] /\ sent' = sent
    BY <1>4, <2>2, <2>3 DEF RejectOrder, RowInserted
  <2>5. Rows(d) \in Nat /\ Rows(d)' = Rows(d) + 1 /\ \A e \in Ids \ {d} : Rows(e)' = Rows(e)
    BY <2>4, RowAdded DEF Inductive
  <2>6. Ordered(d)' /\ \A e \in Ids \ {d} : Ordered(e)' <=> Ordered(e)
    BY <2>4, <2>5 DEF Ordered
  <2>7. CASE Ordered(d)
    BY <1>1, <1>2, <2>6, <2>7, {} \in SUBSET Ids, InterruptionRefines
  <2>8. CASE ~Ordered(d)
    <3>1. {d} \in SUBSET Ids /\ \A e, f \in {d} : e = f
      OBVIOUS
    <3> QED BY <1>1, <1>2, <2>2, <2>6, <2>8, <3>1, InterruptionRefines
  <2> QED BY <2>7, <2>8
<1> QED BY <1>3, <1>4

\* Nothing is decided at first, in the ledger as in the tables.
LEMMA InitRefines == Init => Ledger!Init
<1> SUFFICES ASSUME Init PROVE Ledger!Init
  OBVIOUS
<1>1. \A d \in Ids : Stage(d) = "absent"
  BY DEF Init, Stage, AbsentDecision
<1> QED BY <1>1 DEF Ledger!Init

\* Every step of the orchestrator is a step of the ledger or leaves the stages alone.
LEMMA StepRefines ==
    ASSUME Inductive, Inductive', [Next]_vars
    PROVE  [Ledger!Next]_AllStages
<1>1. CASE Around
  BY <1>1, AroundRefines
<1>2. CASE FetchMode \/ FetchBatch \/ ReadContext \/ Restart
               \/ \E favourable \in BOOLEAN : ReadKillSwitch(favourable)
  <2>1. TablesAlone
    BY <1>2 DEF FetchMode, FetchBatch, ReadContext, Restart, ReadKillSwitch, outside, effects, TablesAlone
  <2> QED BY <1>2, <2>1, ReadingRefines
<1>3. CASE InsertRuleRow \/ InsertFinalVerdict \/ BlockDecision
  BY <1>3, InsertRuleRowRefines, InsertFinalVerdictRefines, BlockDecisionRefines
<1>4. CASE \/ ExecuteSimulated \/ PlaceOrder \/ Fill \/ InsertOrderRow
           \/ \E filled \in BOOLEAN : Confirm(filled)
  BY <1>4, OrderStepsRefine
<1>5. CASE LoopError \/ Crash \/ RejectOrder
  BY <1>5, FailuresRefine
<1>6. CASE UNCHANGED vars
  <2>1. \A d \in Ids : Stage(d)' = Stage(d)
    BY <1>6 DEF vars, Stage, Ordered, Rows, HasFinalRow, InOutcomes
  <2> QED BY <2>1, NoneMoves
<1> QED BY <1>1, <1>2, <1>3, <1>4, <1>5, <1>6 DEF Next, Loop

\* The orchestrator and the risk engine implement the ledger of decisions.
THEOREM LedgerRefinement == Spec => ImplementsLedger
<1>1. Inductive /\ Inductive' /\ [Next]_vars => [Ledger!Next]_AllStages
  BY StepRefines
<1>2. Init => Ledger!Init
  BY InitRefines
<1> QED BY <1>1, <1>2, InductiveHolds, PTL DEF Spec, ImplementsLedger, Ledger!Spec, AllStages
=============================================================================
