------------------------------ MODULE Learning ------------------------------
(***************************************************************************)
(* The two services that learn from the closed trades, side by side:       *)
(* strategy_lifecycle every hour, calibration every six, each alone in its *)
(* process. Trades close and the first portfolio snapshot is taken at any  *)
(* time.                                                                   *)
(***************************************************************************)
EXTENDS StrategyLifecycle, Calibration

CONSTANTS
    Inherited,     \* statuses the operator may have left in the table
    MaxFaults      \* bound on failed queries and restarts

ASSUME FaultsAssumption == MaxFaults \in Nat

VARIABLES
    faults,        \* failed queries and restarts so far
    entered        \* history: trades closed when each strategy took its present status

Contract == INSTANCE LearningContract WITH
    active <- IF activeRun = NoRun THEN "collecting" ELSE activeRun

\* The table checks the status (0021_strategy_lifecycle); a strategy may have no row.
ASSUME InheritedAssumption ==
    Inherited \subseteq [Strategies -> Contract!Statuses \union {Contract!Unknown}]

vars == <<trades, lifecycle, capitalKnown, calibration, faults, entered>>

Init ==
    /\ trades = <<>>
    /\ status \in Inherited
    /\ since = [s \in Strategies |-> 0]
    /\ capitalKnown = FALSE
    /\ batch = Resting
    /\ activeRun = NoRun
    /\ calibrator = [at |-> "idle", run |-> NoRun]
    /\ activated = FALSE
    /\ interrupted = FALSE
    /\ faults = 0
    /\ entered = [s \in Strategies |-> 0]

Fault ==
    /\ faults < MaxFaults                                     \* bound
    /\ faults' = faults + 1
    /\ \/ (FailEvaluation \/ RestartBatch) /\ UNCHANGED calibration
       \/ InterruptCalibration /\ UNCHANGED lifecycle
    /\ UNCHANGED <<trades, capitalKnown>>

Evaluate == TakeBatchStep /\ UNCHANGED <<trades, capitalKnown, calibration, faults>>
Fit      == TakeCalibrationStep /\ UNCHANGED <<trades, capitalKnown, lifecycle, faults>>

Close ==
    /\ \E t \in Closings : CloseTrade(t)
    /\ UNCHANGED <<lifecycle, capitalKnown, calibration, faults>>

Snapshot == SnapshotTaken /\ UNCHANGED <<trades, lifecycle, calibration, faults>>

Remember ==
    entered' = [s \in Strategies |->
                   IF status'[s] = status[s] THEN entered[s] ELSE Len(trades)]

Next == (Evaluate \/ Fit \/ Close \/ Snapshot \/ Fault) /\ Remember

\* asyncio.sleep ends and each batch runs again; a query that does not fail answers.
Spec ==
    /\ Init /\ [][Next]_vars
    /\ WF_vars(Evaluate /\ Remember)
    /\ WF_vars(Fit /\ Remember)

-----------------------------------------------------------------------------
(* Properties                                                              *)

\* Every variable stays in its domain; a step that acts on a verdict carries one
\* (_apply_and_publish is only reached with a transition).
TypeOK ==
    /\ trades \in Seq(Closings)
    /\ status \in [Strategies -> Contract!Statuses \union {Contract!Unknown}]
    /\ since \in [Strategies -> 0..Len(trades)]
    /\ entered \in [Strategies -> 0..Len(trades)]
    /\ batch.at \in BatchSteps
    /\ batch.todo \subseteq Strategies
    /\ batch.at \in {"evict", "quarantine", "apply"} => status[batch.s] = batch.read
    /\ batch.at = "apply" <=> batch.new \in DOMAIN Contract!Evictions
    /\ activeRun \in Maturities \union {NoRun}
    /\ calibrator.run \in Maturities \union {NoRun}
    /\ calibrator.at \in {"idle", "deactivate", "insert"}
    /\ calibrator.at # "idle" <=> calibrator.run \in {"preliminary", "validated"}
    /\ faults \in 0..MaxFaults

\* However the batch is interleaved with closings, faults and restarts, a strategy moves
\* only along the transitions decision_engine may count upon, and never into a live status
\* but "under_review" (states.py): no batch promotes.
ImplementsContract == Contract!Spec

\* A strategy comes back from "degraded" or "suspended" only over QuarantineSample trades
\* of its own, closed since it fell (eviction_rules.py, "STRICTEMENT DEPUIS la dernière
\* transition"), of which one at least beat the edge asked for: the trades that condemned
\* it do not count, nor those before a restart count twice.
ResurrectionCostsNewTrades ==
    [][\A s \in Strategies :
          status[s] \in Contract!ResurrectionEligible /\ status'[s] = "experimental"
          => /\ Cardinality(Attributed(s, entered[s])) >= QuarantineSample
             /\ \E i \in Attributed(s, entered[s]) : trades[i].bps > MinEdge]_vars

\* Once a calibration has been active, there is none only between the two statements of
\* a replacement, or after an interruption fell exactly there and until the next cycle
\* (calibration/main.py: a later attempt never brings the system back to no active
\* calibration). A replacement left to itself leaves no gap, whatever trades close.
CalibrationGapNeedsInterruption ==
    activated /\ activeRun = NoRun
    => calibrator.at = "insert" \/ interrupted

\* A strategy whose last trades lost 5% of the capital ends degraded, or recovers first,
\* although cycles fail, restart and read while trades close; provided a snapshot gives
\* the capital.
InTrouble(s) ==
    /\ capitalKnown
    /\ status[s] \in Contract!EvictionEligible
    /\ Cardinality(WindowOf(s)) >= EvictionWindow
    /\ Ruined(WindowOf(s))

RuinIsActedUpon ==
    \A s \in Strategies : InTrouble(s) ~> status[s] = "degraded" \/ ~Ruined(WindowOf(s))
=============================================================================
