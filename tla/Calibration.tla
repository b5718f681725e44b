---------------------------- MODULE Calibration -----------------------------
(***************************************************************************)
(* The service that calibrates scores on the closed trades                 *)
(* (calibration/main.py, bayesian_provider.py,                             *)
(* shared/confidence_lifecycle.py). A run with something to say replaces   *)
(* the active one by two statements that no transaction holds together: an *)
(* UPDATE that deactivates, an INSERT that activates.                      *)
(*                                                                         *)
(* The fitted parameters are left out; the Brier score of a fit on the     *)
(* validation set is free.                                                 *)
(***************************************************************************)
EXTENDS ClosedTrades

CONSTANTS
    MinPreliminary,      \* MIN_SAMPLE_PRELIMINARY
    MinValidated         \* MIN_SAMPLE_VALIDATED

ASSUME SamplesAssumption == MinPreliminary \in Nat \ {0} /\ MinValidated \in Nat

VARIABLES
    activeRun,      \* maturity of the row of calibration_runs with is_active, if any
    calibrator,     \* the process: its step and the run it has computed
    activated,      \* history: some run has been active
    interrupted     \* history: the last replacement was cut between its two statements

calibration == <<activeRun, calibrator, activated, interrupted>>

NoRun      == "none"
Maturities == {"collecting", "preliminary", "validated"}

\* classify_calibration_maturity, of a run over `size` trades.
Maturity(size, validated) ==
    IF validated THEN "validated"
    ELSE IF size >= MinPreliminary THEN "preliminary" ELSE "collecting"

\* Four trades in five train the model, the later ones validate it. Training trades that
\* all won or all lost leave the prior, without a Brier score.
TrainingSet == 1..((Len(trades) * 4) \div 5)
CanBeScored ==
    /\ TrainingSet # DOMAIN trades
    /\ {trades[i].pnl > 0 : i \in TrainingSet} = BOOLEAN

\* The maturity the provider may find for the trades gathered.
Calibrations ==
    {Maturity(Len(trades), validated) :
        validated \in {FALSE, CanBeScored /\ Len(trades) >= MinValidated}}

-----------------------------------------------------------------------------

\* A run that stays "collecting" is inserted inactive and changes nothing here.
Calibrate(r) ==
    /\ calibrator.at = "idle"
    /\ r \in Calibrations
    /\ r # "collecting"
    /\ calibrator' = [at |-> "deactivate", run |-> r]
    /\ UNCHANGED <<activeRun, activated, interrupted>>

Deactivate ==
    /\ calibrator.at = "deactivate"
    /\ activeRun' = NoRun
    /\ calibrator' = [calibrator EXCEPT !.at = "insert"]
    /\ UNCHANGED <<activated, interrupted>>

\* Mutant: only a validated run is inserted active, as before preliminary runs existed,
\* while any exploitable run deactivates the one before.
InsertRunIfValidated ==
    /\ calibrator.at = "insert"
    /\ activeRun' = IF calibrator.run = "validated" THEN calibrator.run ELSE NoRun
    /\ calibrator' = [at |-> "idle", run |-> NoRun]
    /\ activated' = TRUE
    /\ interrupted' = FALSE

InsertRun ==
    /\ calibrator.at = "insert"
    /\ activeRun' = calibrator.run
    /\ calibrator' = [at |-> "idle", run |-> NoRun]
    /\ activated' = TRUE
    /\ interrupted' = FALSE

\* The second statement fails, or the process is restarted before it: the next cycle is
\* six hours away.
InterruptCalibration ==
    /\ calibrator.at # "idle"
    /\ calibrator' = [at |-> "idle", run |-> NoRun]
    /\ interrupted' = (interrupted \/ calibrator.at = "insert")
    /\ UNCHANGED <<activeRun, activated>>

TakeCalibrationStep == Deactivate \/ InsertRun \/ \E r \in Maturities : Calibrate(r)
=============================================================================
