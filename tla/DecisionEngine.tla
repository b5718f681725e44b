--------------------------- MODULE DecisionEngine ---------------------------
(***************************************************************************)
(* decision_engine/main.py: every minute, for each symbol, the engines     *)
(* give their opinions, those of each market are fused and the fusion      *)
(* becomes a decision. The statuses are read once per cycle, the mode once *)
(* per symbol, the calibration once per fusion; all three change           *)
(* meanwhile, as LearningContract lets them and as the operator pleases.   *)
(*                                                                         *)
(* The orchestrator, another process, executes the signals in the mode of  *)
(* the moment: neither its risk engine nor its execution looks at the mode *)
(* or the maturity a signal was decided under.                             *)
(***************************************************************************)
EXTENDS MetaEngine

CONSTANTS
    Strategies,
    Inherited,     \* statuses the table may hold when the process first starts
    MarketOf,      \* market_type of each engine
    Opinions,      \* opinions an engine may give
    Symbols,       \* number of symbols a cycle goes through
    MaxChanges     \* bound on changes of mode, statuses and calibration, and on crashes

ASSUME MarketsAssumption == MarketOf \in [Strategies -> Markets]
ASSUME OpinionsAssumption ==
    Opinions \subseteq [side : Sides, score : 0..100, confidence : 0..100]
ASSUME SymbolsAssumption == Symbols \in Nat \ {0} /\ MaxChanges \in Nat

VARIABLES
    status,     \* strategy_lifecycle_state.status
    active,     \* maturity of the active calibration, "collecting" when there is none
    mode,       \* current execution mode
    engine,     \* the process: its step and the locals it carries
    pending,    \* the signal that waits for the orchestrator, if any
    changes,    \* changes and crashes so far
    moved,      \* history: strategies whose status changed since the cycle read them
    switched    \* history: the mode changed since the symbol at hand read it

L == INSTANCE LearningContract

ASSUME InheritedAssumption ==
    Inherited \subseteq [Strategies -> L!Statuses \union {L!Unknown}]

learned == <<status, active>>
vars    == <<status, active, mode, engine, pending, changes, moved, switched>>

EngineSteps == {"down", "cycle", "symbol", "opinions", "fuse", "verdict", "persist"}

NoOne    == [s \in {} |-> Undecided]
NoSignal == [by |-> {}, mode |-> Paper, maturity |-> "collecting", switched |-> FALSE]
Unread   == [s \in Strategies |-> L!Unknown]

\* Between two symbols, nothing but the statuses of the cycle.
AtSymbol(known, left) ==
    [at |-> "symbol", known |-> known, left |-> left, mode |-> Paper, opinions |-> NoOne,
     market |-> Spot, fusion |-> Undecided, maturity |-> "collecting", verdict |-> "no_signal"]

Waiting(step) == [AtSymbol(Unread, 0) EXCEPT !.at = step]

NextSymbol == IF engine.left = 1 THEN Waiting("cycle") ELSE AtSymbol(engine.known, engine.left - 1)

-----------------------------------------------------------------------------

\* The registries are verified, and every strategy gets its row.
Start ==
    /\ engine.at = "down"
    /\ status' = [s \in Strategies |-> IF status[s] = L!Unknown THEN "experimental" ELSE status[s]]
    /\ engine' = Waiting("cycle")
    /\ moved' = moved \union {s \in Strategies : status[s] = L!Unknown}
    /\ UNCHANGED <<active, mode, pending, changes, switched>>

FetchStatuses ==
    /\ engine.at = "cycle"
    /\ engine' = AtSymbol(status, Symbols)
    /\ moved' = {}
    /\ UNCHANGED <<learned, mode, pending, changes, switched>>

\* No features, or a stale one, or an error: the symbol is left for this cycle.
SkipSymbol ==
    /\ engine.at \notin {"down", "cycle"}
    /\ engine' = NextSymbol
    /\ UNCHANGED <<learned, mode, pending, changes, moved, switched>>

ReadMode ==
    /\ engine.at = "symbol"
    /\ engine' = [engine EXCEPT !.at = "opinions", !.mode = mode]
    /\ switched' = FALSE
    /\ UNCHANGED <<learned, mode, pending, changes, moved>>

\* Mutant: an opinion is excluded by the mode of the moment, not by the one the decision is
\* recorded under.
CollectOpinionsInCurrentMode ==
    /\ engine.at = "opinions"
    /\ \E speakers \in SUBSET Strategies :
          LET fused == {s \in speakers : ~IsExcluded(engine.known[s], mode)}
          IN /\ fused # {}
             /\ \E given \in [fused -> Opinions] :
                   engine' = [engine EXCEPT !.at = "fuse", !.opinions = given]
    /\ UNCHANGED <<learned, mode, pending, changes, moved, switched>>

\* An engine the regime does not allow, or without a view, gives no opinion; the opinion of
\* an excluded one is stored and not fused.
CollectOpinions ==
    /\ engine.at = "opinions"
    /\ \E speakers \in SUBSET Strategies :
          LET fused == {s \in speakers : ~IsExcluded(engine.known[s], engine.mode)}
          IN /\ fused # {}
             /\ \E given \in [fused -> Opinions] :
                   engine' = [engine EXCEPT !.at = "fuse", !.opinions = given]
    /\ UNCHANGED <<learned, mode, pending, changes, moved, switched>>

NoOpinion ==
    /\ engine.at = "opinions"
    /\ engine' = NextSymbol
    /\ UNCHANGED <<learned, mode, pending, changes, moved, switched>>

\* Mutant: opinions are not grouped by market.
GroupOfAllMarkets(market) == DOMAIN engine.opinions

\* One market of those with an opinion; the others come after it.
Group(market) == {s \in DOMAIN engine.opinions : MarketOf[s] = market}

FuseMarket(market) ==
    /\ engine.at = "fuse"
    /\ Group(market) # {}
    /\ LET fusion == Fuse([s \in Group(market) |-> engine.opinions[s]])
       IN engine' = [engine EXCEPT !.market = market, !.fusion = fusion,
                                   !.at = IF fusion = Undecided THEN "persist" ELSE "verdict",
                                   !.verdict = "no_signal"]
    /\ UNCHANGED <<learned, mode, pending, changes, moved, switched>>

\* The active calibration is read; costs, probability and value are free.
DeriveTheVerdict ==
    /\ engine.at = "verdict"
    /\ \E costed, probable, worthwhile \in BOOLEAN :
          engine' = [engine EXCEPT !.at = "persist", !.maturity = active,
                        !.verdict = DeriveVerdict(engine.mode, active, costed,
                                        probable /\ worthwhile,
                                        StrongScore(engine.fusion) /\ worthwhile)]
    /\ UNCHANGED <<learned, mode, pending, changes, moved, switched>>

\* Every opinion of the group contributes, those of the side that lost included.
Signal == [by |-> Group(engine.market), mode |-> engine.mode, maturity |-> engine.maturity,
           switched |-> switched]

Persist ==
    /\ engine.at = "persist"
    /\ engine.verdict = "signal" => pending = NoSignal        \* bound: one signal waits
    /\ pending' = IF engine.verdict = "signal" THEN Signal ELSE pending
    /\ LET rest == [s \in DOMAIN engine.opinions \ Group(engine.market) |-> engine.opinions[s]]
       IN engine' = IF DOMAIN rest = {} THEN NextSymbol
                    ELSE [engine EXCEPT !.at = "fuse", !.opinions = rest]
    /\ UNCHANGED <<learned, mode, changes, moved, switched>>

-----------------------------------------------------------------------------
(* Around it.                                                              *)

Change ==
    /\ changes < MaxChanges                                   \* bound
    /\ changes' = changes + 1

ChangeMode ==
    /\ Change
    /\ mode' \in Modes \ {mode}
    /\ switched' = TRUE
    /\ pending' = IF pending = NoSignal THEN pending ELSE [pending EXCEPT !.switched = TRUE]
    /\ UNCHANGED <<learned, engine, moved>>

Learn ==
    /\ Change
    /\ L!Activate \/ \E s \in Strategies : L!Register(s) \/ L!Transition(s)
    /\ moved' = moved \union {s \in Strategies : status'[s] # status[s]}
    /\ UNCHANGED <<mode, engine, pending, switched>>

\* An error outside the evaluation of a symbol, the statuses' query first, ends the process.
Crash ==
    /\ Change
    /\ engine.at # "down"
    /\ engine' = Waiting("down")
    /\ UNCHANGED <<learned, mode, pending, moved, switched>>

\* run_once fetches the pending decisions by their verdict alone, and executes or rejects them.
TakeSignal ==
    /\ pending # NoSignal
    /\ pending' = NoSignal
    /\ UNCHANGED <<learned, mode, engine, changes, moved, switched>>

-----------------------------------------------------------------------------

Init ==
    /\ status \in Inherited
    /\ active \in L!Maturities
    /\ mode \in Modes
    /\ engine = Waiting("down")
    /\ pending = NoSignal
    /\ changes = 0
    /\ moved = {}
    /\ switched = FALSE

Next ==
    \/ Start \/ FetchStatuses \/ SkipSymbol \/ ReadMode \/ CollectOpinions \/ NoOpinion
    \/ DeriveTheVerdict \/ Persist
    \/ \E market \in Markets : FuseMarket(market)
    \/ ChangeMode \/ Learn \/ Crash \/ TakeSignal

Spec == Init /\ [][Next]_vars

-----------------------------------------------------------------------------
(* Properties                                                              *)

\* Every variable stays in its domain; opinions of two markets are never fused, a fusion is
\* decided or undecided as a whole, and nobody is left to fuse without an opinion.
TypeOK ==
    /\ status \in [Strategies -> L!Statuses \union {L!Unknown}]
    /\ active \in L!Maturities
    /\ {mode, engine.mode, pending.mode} \subseteq Modes
    /\ engine.at \in EngineSteps
    /\ engine.known \in [Strategies -> L!Statuses \union {L!Unknown}]
    /\ engine.left \in 0..Symbols
    /\ DOMAIN engine.opinions \subseteq Strategies
    /\ engine.at \in {"fuse", "verdict", "persist"} => DOMAIN engine.opinions # {}
    /\ engine.at \in {"verdict", "persist"} => Group(engine.market) # {}
    /\ engine.at = "verdict" => engine.fusion.side \in Sides
    /\ pending.by \subseteq Strategies
    /\ Cardinality({MarketOf[s] : s \in pending.by}) <= 1
    /\ pending.maturity \in L!Maturities
    /\ changes \in 0..MaxChanges
    /\ moved \subseteq Strategies

\* A signal decided in real mode rests on a validated calibration and on strategies that
\* are validated, in production or under review; a signal of any mode on none that is
\* registered, collecting, suspended or deprecated. A status may be stale by what moved
\* since the cycle began (the one read of the statuses), and by no more: a strategy the
\* batch degraded before this cycle has no part in it, however many symbols and crashes.
SignalsAreGoverned ==
    [][pending' \notin {pending, NoSignal} /\ pending = NoSignal =>
          /\ pending'.mode = Real => pending'.maturity = "validated"
          /\ \A s \in pending'.by \ moved :
                IF pending'.mode = Real THEN status[s] \in L!LiveEligible
                ELSE status[s] \notin L!AlwaysExcluded]_vars

\* The orchestrator takes a bootstrap signal, or one of a preliminary calibration, for real
\* money only when the mode has changed between the moment the engine read it for the
\* symbol and that one, the wait of the signal included: nobody compares the two modes.
UnprovenMoneyNeedsAModeChange ==
    [][pending # NoSignal /\ pending' = NoSignal /\ mode = Real
          => pending.maturity = "validated" \/ pending.switched]_vars
=============================================================================
