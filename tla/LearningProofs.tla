--------------------------- MODULE LearningProofs ----------------------------
(***************************************************************************)
(* What the services that learn promise, proved for any strategies, any    *)
(* trades, windows and samples. The lifecycle batch writes on a verdict it *)
(* reached some awaits before, while trades go on closing; the invariant   *)
(* ties what it carries to the status it read, and the clock it judges by  *)
(* to the moment the strategy took that status.                            *)
(***************************************************************************)
EXTENDS Learning, ProofFacts

-----------------------------------------------------------------------------
(* The inductive invariant.                                                *)

IsBatch(b) ==
    b \in [at : {b.at}, s : {b.s}, read : {b.read}, new : {b.new}, todo : {b.todo}]

IsCalibrator(c) == c \in [at : {c.at}, run : {c.run}]

\* A strategy at hand is one of the strategies, and the verdict to apply is a
\* transition of the contract from the status that was read.
VerdictIsATransition ==
    /\ batch.at \in {"evict", "quarantine", "apply"} => batch.s \in Strategies
    /\ batch.at = "apply" => batch.read \in Contract!Evictions[batch.new]

Inductive ==
    /\ TypeOK
    /\ IsBatch(batch) /\ IsCalibrator(calibrator)
    /\ since = entered
    /\ VerdictIsATransition
    /\ CalibrationGapNeedsInterruption

-----------------------------------------------------------------------------
(* The rules and the contract.                                             *)

USE DEF Contract!Unknown, C!Unknown, NoStatus, NoRun

\* The contract read by the batch is the contract.
LEMMA SameContract ==
    /\ C!EvictionEligible = Contract!EvictionEligible
    /\ C!ResurrectionEligible = Contract!ResurrectionEligible
BY DEF C!EvictionEligible, Contract!EvictionEligible, C!ResurrectionEligible,
       Contract!ResurrectionEligible

\* A transition changes the status, and only a fallen strategy comes back.
LEMMA TransitionsMove ==
    /\ DOMAIN Contract!Evictions = {"under_review", "degraded", "experimental"}
    /\ \A new \in DOMAIN Contract!Evictions :
           /\ new \notin Contract!Evictions[new] /\ new \in Contract!Statuses
           /\ Contract!Evictions[new] \subseteq Contract!Statuses
    /\ Contract!Evictions["experimental"] = Contract!ResurrectionEligible
BY DEF Contract!Evictions, Contract!ResurrectionEligible, Contract!Statuses

\* eviction_rules.evaluate_eviction only answers a transition down.
LEMMA EvictionIsATransition ==
    ASSUME NEW current, NEW I
    PROVE  \/ EvictionVerdict(current, I) = NoStatus
           \/ /\ EvictionVerdict(current, I) \in {"under_review", "degraded"}
              /\ current \in Contract!Evictions[EvictionVerdict(current, I)]
BY DEF EvictionVerdict, C!EvictionEligible, Contract!Evictions

\* evaluate_resurrection only answers "experimental", to a fallen strategy, and asks
\* for the sample.
LEMMA ResurrectionIsATransition ==
    ASSUME NEW current, NEW I
    PROVE  \/ ResurrectionVerdict(current, I) = NoStatus
           \/ /\ ResurrectionVerdict(current, I) = "experimental"
              /\ current \in Contract!Evictions["experimental"]
              /\ Cardinality(I) >= QuarantineSample
BY DEF ResurrectionVerdict, C!ResurrectionEligible, Contract!Evictions,
       Contract!ResurrectionEligible

\* Trades since a date are finite in number; the newest of them are among them.
LEMMA AttributedIsFinite ==
    ASSUME TypeOK, NEW s, NEW from \in Nat, NEW limit
    PROVE  /\ IsFiniteSet(Attributed(s, from)) /\ Cardinality(Attributed(s, from)) \in Nat
           /\ Cardinality(Newest(Attributed(s, from), limit)) \in Nat
           /\ Cardinality(Newest(Attributed(s, from), limit)) <= Cardinality(Attributed(s, from))
<1>1. from + 1 \in Int /\ Len(trades) \in Int
  BY ListFacts DEF TypeOK
<1>2. IsFiniteSet((from + 1)..Len(trades))
  BY <1>1, FS_Interval
<1>3. Attributed(s, from) \in SUBSET ((from + 1)..Len(trades))
  BY DEF Attributed
<1>4. IsFiniteSet(Attributed(s, from))
  BY <1>2, <1>3, FS_Subset
<1>5. Newest(Attributed(s, from), limit) \in SUBSET Attributed(s, from)
  BY DEF Newest
<1>6. IsFiniteSet(Newest(Attributed(s, from), limit))
  BY <1>4, <1>5, FS_Subset
<1> QED BY <1>4, <1>5, <1>6, FS_Subset, FS_CardinalityType

-----------------------------------------------------------------------------
(* What a step leaves alone.                                               *)

\* The state at the start: nothing at hand, no clock started.
LEMMA InitInductive == Init => Inductive
<1> SUFFICES ASSUME Init PROVE Inductive
  OBVIOUS
<1>1. trades \in Seq(Closings) /\ Len(trades) = 0 /\ 0 \in 0..Len(trades)
  BY EmptySeq DEF Init
<1>2. IsBatch(batch) /\ IsCalibrator(calibrator) /\ batch.at = "idle" /\ batch.todo = {}
      /\ batch.new = NoStatus
  BY DEF Init, IsBatch, IsCalibrator, Resting
<1>3. status \in [Strategies -> Contract!Statuses \union {Contract!Unknown}]
  BY InheritedAssumption DEF Init
<1>4. batch.new \notin DOMAIN Contract!Evictions
  BY <1>2, TransitionsMove
<1>5. TypeOK
  BY <1>1, <1>2, <1>3, <1>4, FaultsAssumption DEF Init, TypeOK, BatchSteps
<1> QED BY <1>2, <1>5 DEF Init, Inductive, VerdictIsATransition, CalibrationGapNeedsInterruption

\* When no status changes, no clock moves.
LEMMA ClocksStay ==
    ASSUME Inductive, Remember, status' = status, since' = since
    PROVE  since' = entered' /\ entered' = entered
<1>1. entered \in [Strategies -> 0..Len(trades)] /\ since = entered
  BY DEF Inductive, TypeOK
<1>2. entered' = [s \in Strategies |-> entered[s]]
  BY DEF Remember
<1> QED BY <1>1, <1>2

\* When one status changes, its clock restarts, and no other.
LEMMA ClockRestarts ==
    ASSUME Inductive, Remember, trades' = trades, NEW s \in Strategies, NEW new \in Contract!Statuses,
           new # status[s], status' = [status EXCEPT ![s] = new],
           since' = [since EXCEPT ![s] = Len(trades)]
    PROVE  /\ since' = entered' /\ since' \in [Strategies -> 0..Len(trades)]
           /\ status' \in [Strategies -> Contract!Statuses \union {Contract!Unknown}]
<1>1. /\ entered \in [Strategies -> 0..Len(trades)] /\ since = entered
      /\ status \in [Strategies -> Contract!Statuses \union {Contract!Unknown}]
  BY DEF Inductive, TypeOK
<1>2. \A t \in Strategies : status'[t] = status[t] <=> t # s
  BY <1>1
<1>3. entered' = [t \in Strategies |-> IF t = s THEN Len(trades) ELSE entered[t]]
  BY <1>2 DEF Remember
<1>4. since' = [t \in Strategies |-> IF t = s THEN Len(trades) ELSE entered[t]]
  BY <1>1
<1>5. Len(trades) \in 0..Len(trades)
  BY ListFacts DEF Inductive, TypeOK
<1> QED BY <1>1, <1>3, <1>4, <1>5

\* The batch goes on while no status changes.
LEMMA BatchMoves ==
    ASSUME Inductive, Remember, status' = status, since' = since, trades' = trades,
           UNCHANGED calibration, faults' \in 0..MaxFaults,
           IsBatch(batch'), batch'.at \in BatchSteps, batch'.todo \subseteq Strategies,
           batch'.at \in {"evict", "quarantine", "apply"} =>
               batch'.s \in Strategies /\ status[batch'.s] = batch'.read,
           batch'.at = "apply" <=> batch'.new \in DOMAIN Contract!Evictions,
           batch'.at = "apply" => batch'.read \in Contract!Evictions[batch'.new]
    PROVE  Inductive'
<1>1. since' = entered' /\ entered' = entered
  BY ClocksStay
<1>2. /\ activeRun' = activeRun /\ calibrator' = calibrator /\ activated' = activated
      /\ interrupted' = interrupted
  BY DEF calibration
<1>3. TypeOK'
  BY <1>1, <1>2 DEF Inductive, TypeOK
<1>4. VerdictIsATransition'
  BY DEF VerdictIsATransition
<1>5. CalibrationGapNeedsInterruption' /\ IsCalibrator(calibrator')
  BY <1>2 DEF Inductive, CalibrationGapNeedsInterruption
<1> QED BY <1>1, <1>3, <1>4, <1>5 DEF Inductive

\* Between two strategies, and between two cycles, the batch carries nothing.
LEMMA BatchRests ==
    ASSUME Inductive
    PROVE  /\ IsBatch(NextStrategy) /\ NextStrategy.at = "next" /\ NextStrategy.new = NoStatus
           /\ NextStrategy.todo \subseteq Strategies
           /\ IsBatch(Resting) /\ Resting.at = "idle" /\ Resting.new = NoStatus
           /\ Resting.todo = {}
           /\ NoStatus \notin DOMAIN Contract!Evictions
<1>1. IsBatch(NextStrategy) /\ NextStrategy.at = "next" /\ NextStrategy.new = NoStatus
      /\ NextStrategy.todo = batch.todo
  BY DEF Inductive, IsBatch, NextStrategy
<1>2. IsBatch(Resting) /\ Resting.at = "idle" /\ Resting.new = NoStatus /\ Resting.todo = {}
  BY DEF IsBatch, Resting
<1> QED BY <1>1, <1>2, TransitionsMove DEF Inductive, TypeOK

-----------------------------------------------------------------------------
(* The batch.                                                              *)

\* A step of the batch that leaves the tables.
BatchAlone == UNCHANGED <<trades, calibration, status, since>> /\ faults' \in 0..MaxFaults

\* A cycle starts or ends, a query fails, the process is restarted.
LEMMA RestingKept ==
    ASSUME Inductive, Remember, BatchAlone,
           StartBatch \/ EndBatch \/ FailEvaluation \/ RestartBatch
    PROVE  Inductive'
<1>1. /\ IsBatch(batch') /\ batch'.todo \subseteq Strategies
      /\ batch'.at \in {"idle", "next"} /\ batch'.new \notin DOMAIN Contract!Evictions
  <2>1. CASE StartBatch
    <3>1. /\ IsBatch(batch) /\ batch.at = "idle"
          /\ batch' = [batch EXCEPT !.at = "next", !.todo = Strategies]
      BY <2>1 DEF StartBatch, Inductive
    <3>2. IsBatch(batch') /\ batch'.at = "next" /\ batch'.todo = Strategies /\ batch'.new = batch.new
      BY <3>1 DEF IsBatch
    <3>3. batch.new \notin DOMAIN Contract!Evictions
      BY <3>1 DEF Inductive, TypeOK
    <3> QED BY <3>2, <3>3
  <2>2. CASE EndBatch \/ FailEvaluation \/ RestartBatch
    BY <2>2, BatchRests DEF EndBatch, FailEvaluation, RestartBatch
  <2> QED BY <2>1, <2>2
<1> QED BY <1>1, BatchMoves DEF BatchAlone, BatchSteps

\* The row is created if need be, then the status is read.
LEMMA ReadStatusKept ==
    ASSUME Inductive, Remember, UNCHANGED <<trades, calibration, faults>>,
           NEW s \in Strategies, ReadStatus(s)
    PROVE  /\ Inductive'
           /\ IF status[s] = Contract!Unknown
              THEN status' = [status EXCEPT ![s] = "experimental"]
              ELSE status' = status
<1>1. batch' = [at |-> "evict", s |-> s, read |-> status'[s], new |-> NoStatus,
                todo |-> batch.todo \ {s}]
  BY DEF ReadStatus
<1>2. /\ IsBatch(batch') /\ batch'.at = "evict" /\ batch'.s = s /\ batch'.read = status'[s]
      /\ batch'.new = NoStatus /\ batch'.todo \subseteq Strategies
  <2>1. batch'.todo = batch.todo \ {s}
    BY <1>1
  <2> QED BY <1>1, <2>1 DEF IsBatch, Inductive, TypeOK
<1>3. batch'.new \notin DOMAIN Contract!Evictions
  BY <1>2, TransitionsMove
<1>4. CASE status[s] = Contract!Unknown
  <2>1. status' = [status EXCEPT ![s] = "experimental"] /\ since' = [since EXCEPT ![s] = Len(trades)]
    BY <1>4 DEF ReadStatus
  <2>2. "experimental" \in Contract!Statuses /\ "experimental" # status[s]
    BY <1>4 DEF Contract!Statuses
  <2>3. /\ since' = entered' /\ since' \in [Strategies -> 0..Len(trades)]
        /\ status' \in [Strategies -> Contract!Statuses \union {Contract!Unknown}]
    BY <2>1, <2>2, ClockRestarts
  <2>4. TypeOK'
    BY <1>2, <1>3, <2>3 DEF Inductive, TypeOK, BatchSteps, calibration
  <2>5. VerdictIsATransition'
    BY <1>2 DEF VerdictIsATransition
  <2>6. CalibrationGapNeedsInterruption' /\ IsCalibrator(calibrator')
    BY DEF Inductive, CalibrationGapNeedsInterruption, calibration
  <2> QED BY <1>2, <1>4, <2>1, <2>3, <2>4, <2>5, <2>6 DEF Inductive
<1>5. CASE status[s] # Contract!Unknown
  <2>1. status' = status /\ since' = since
    BY <1>5 DEF ReadStatus
  <2>2. faults' \in 0..MaxFaults
    BY DEF Inductive, TypeOK
  <2> QED BY <1>2, <1>3, <1>5, <2>1, <2>2, BatchMoves DEF BatchSteps
<1> QED BY <1>4, <1>5

\* The strategy at hand has the status that was read.
LEMMA StrategyAtHand ==
    ASSUME Inductive, batch.at \in {"evict", "quarantine", "apply"}
    PROVE  batch.s \in Strategies /\ status[batch.s] = batch.read
BY DEF Inductive, TypeOK, VerdictIsATransition

\* A verdict of eviction is to be applied; without one the quarantine is looked at.
LEMMA JudgeEvictionKept ==
    ASSUME Inductive, Remember, BatchAlone, JudgeEviction
    PROVE  Inductive'
<1>1. batch.at = "evict" /\ batch.s \in Strategies /\ status[batch.s] = batch.read
  BY StrategyAtHand DEF JudgeEviction
<1>2. PICK new : new = IF capitalKnown THEN EvictionVerdict(batch.read, WindowOf(batch.s)) ELSE NoStatus
  OBVIOUS
<1>3. batch' = [batch EXCEPT !.at = IF new = NoStatus THEN "quarantine" ELSE "apply", !.new = new]
  BY <1>2 DEF JudgeEviction
<1>4. /\ IsBatch(batch') /\ batch'.s = batch.s /\ batch'.read = batch.read /\ batch'.new = new
      /\ batch'.todo = batch.todo /\ batch'.at = IF new = NoStatus THEN "quarantine" ELSE "apply"
  BY <1>3 DEF Inductive, IsBatch
<1>5. \/ new = NoStatus
      \/ new \in {"under_review", "degraded"} /\ batch.read \in Contract!Evictions[new]
  BY <1>2, EvictionIsATransition
<1>6. batch'.at = "apply" <=> batch'.new \in DOMAIN Contract!Evictions
  BY <1>4, <1>5, TransitionsMove
<1>7. batch'.at = "apply" => batch'.read \in Contract!Evictions[batch'.new]
  BY <1>4, <1>5
<1>8. batch'.todo \subseteq Strategies
  BY <1>4 DEF Inductive, TypeOK
<1> QED BY <1>1, <1>4, <1>6, <1>7, <1>8, BatchMoves DEF BatchAlone, BatchSteps

\* A verdict of resurrection is to be applied; without one the next strategy is taken.
LEMMA JudgeResurrectionKept ==
    ASSUME Inductive, Remember, BatchAlone, JudgeResurrection
    PROVE  Inductive'
<1>1. batch.at = "quarantine" /\ batch.s \in Strategies /\ status[batch.s] = batch.read
  BY StrategyAtHand DEF JudgeResurrection
<1>2. PICK new : new = ResurrectionVerdict(batch.read, QuarantineOf(batch.s))
  OBVIOUS
<1>3. CASE new = NoStatus
  BY <1>2, <1>3, BatchRests, BatchMoves DEF JudgeResurrection, BatchAlone, BatchSteps
<1>4. CASE new # NoStatus
  <2>1. new = "experimental" /\ batch.read \in Contract!Evictions["experimental"]
    BY <1>2, <1>4, ResurrectionIsATransition
  <2>2. batch' = [batch EXCEPT !.at = "apply", !.new = new]
    BY <1>2, <1>4 DEF JudgeResurrection
  <2>3. /\ IsBatch(batch') /\ batch'.s = batch.s /\ batch'.read = batch.read /\ batch'.new = new
        /\ batch'.todo = batch.todo /\ batch'.at = "apply"
    BY <2>2 DEF Inductive, IsBatch
  <2>4. batch'.todo \subseteq Strategies /\ "experimental" \in DOMAIN Contract!Evictions
    BY <2>3, TransitionsMove DEF Inductive, TypeOK
  <2> QED BY <1>1, <2>1, <2>3, <2>4, BatchMoves DEF BatchAlone, BatchSteps
<1> QED BY <1>3, <1>4

\* The verdict is written: the status changes and its clock restarts.
LEMMA ApplyTransitionKept ==
    ASSUME Inductive, Remember, UNCHANGED <<trades, calibration, faults>>, ApplyTransition
    PROVE  /\ Inductive'
           /\ \E s \in Strategies, new \in DOMAIN Contract!Evictions :
                  /\ s = batch.s /\ new = batch.new
                  /\ status[s] \in Contract!Evictions[new]
                  /\ status' = [status EXCEPT ![s] = new]
<1>1. batch.at = "apply" /\ batch.s \in Strategies /\ status[batch.s] = batch.read
  BY StrategyAtHand DEF ApplyTransition
<1>2. PICK s \in Strategies : s = batch.s
  BY <1>1
<1>3. PICK new \in DOMAIN Contract!Evictions : new = batch.new /\ status[s] \in Contract!Evictions[new]
  BY <1>1, <1>2 DEF Inductive, TypeOK, VerdictIsATransition
<1>4. /\ status' = [status EXCEPT ![s] = new] /\ since' = [since EXCEPT ![s] = Len(trades)]
      /\ batch' = NextStrategy
  BY <1>2, <1>3 DEF ApplyTransition
<1>5. new \in Contract!Statuses /\ new # status[s]
  BY <1>3, TransitionsMove
<1>6. /\ since' = entered' /\ since' \in [Strategies -> 0..Len(trades)]
      /\ status' \in [Strategies -> Contract!Statuses \union {Contract!Unknown}]
  BY <1>4, <1>5, ClockRestarts
<1>7. /\ IsBatch(batch') /\ batch'.at = "next" /\ batch'.new \notin DOMAIN Contract!Evictions
      /\ batch'.todo \subseteq Strategies
  BY <1>4, BatchRests
<1>8. TypeOK'
  BY <1>6, <1>7 DEF Inductive, TypeOK, BatchSteps, calibration
<1>9. VerdictIsATransition'
  BY <1>7 DEF VerdictIsATransition
<1>10. CalibrationGapNeedsInterruption' /\ IsCalibrator(calibrator')
  BY DEF Inductive, CalibrationGapNeedsInterruption, calibration
<1> QED BY <1>2, <1>3, <1>4, <1>6, <1>7, <1>8, <1>9, <1>10 DEF Inductive

-----------------------------------------------------------------------------
(* The calibration, the trades and the first snapshot.                     *)

\* A step that leaves the lifecycle and the trades alone.
LEMMA LifecycleStays ==
    ASSUME Inductive, Remember, UNCHANGED <<trades, lifecycle>>
    PROVE  /\ since' = entered' /\ entered' = entered
           /\ IsBatch(batch') /\ VerdictIsATransition'
<1>1. status' = status /\ since' = since /\ batch' = batch
  BY DEF lifecycle
<1> QED BY <1>1, ClocksStay DEF Inductive, VerdictIsATransition

\* The two statements of a replacement, the run before them and the interruption.
LEMMA CalibrationKept ==
    ASSUME Inductive, Remember, UNCHANGED <<trades, lifecycle>>, faults' \in 0..MaxFaults,
           TakeCalibrationStep \/ InterruptCalibration
    PROVE  Inductive'
<1>1. /\ status' = status /\ since' = since /\ batch' = batch /\ trades' = trades
      /\ since' = entered' /\ entered' = entered
      /\ IsBatch(batch') /\ VerdictIsATransition'
  BY LifecycleStays DEF lifecycle
<1>2. PICK c : c = calibrator /\ IsCalibrator(c)
  BY DEF Inductive
<1>3. /\ activeRun \in Maturities \union {NoRun} /\ c.run \in Maturities \union {NoRun}
      /\ c.at \in {"idle", "deactivate", "insert"}
      /\ c.at # "idle" <=> c.run \in {"preliminary", "validated"}
      /\ activated /\ activeRun = NoRun => c.at = "insert" \/ interrupted
  BY <1>2 DEF Inductive, TypeOK, CalibrationGapNeedsInterruption
<1>4. /\ IsCalibrator(calibrator')
      /\ activeRun' \in Maturities \union {NoRun} /\ calibrator'.run \in Maturities \union {NoRun}
      /\ calibrator'.at \in {"idle", "deactivate", "insert"}
      /\ calibrator'.at # "idle" <=> calibrator'.run \in {"preliminary", "validated"}
      /\ activated' /\ activeRun' = NoRun => calibrator'.at = "insert" \/ interrupted'
  <2>1. ASSUME NEW r \in Maturities, Calibrate(r)
        PROVE  /\ calibrator' = [at |-> "deactivate", run |-> r] /\ r # "collecting"
               /\ activeRun' = activeRun /\ activated' = activated /\ interrupted' = interrupted
    BY <2>1 DEF Calibrate
  <2>2. CASE \E r \in Maturities : Calibrate(r)
    <3>1. PICK r \in Maturities : Calibrate(r)
      BY <2>2
    <3>2. c.at = "idle"
      BY <1>2, <3>1 DEF Calibrate
    <3> QED BY <1>3, <2>1, <3>1, <3>2 DEF IsCalibrator, Maturities
  <2>3. CASE Deactivate
    <3>1. /\ calibrator' = [c EXCEPT !.at = "insert"] /\ c.at = "deactivate" /\ activeRun' = NoRun
      BY <1>2, <2>3 DEF Deactivate
    <3>2. IsCalibrator(calibrator') /\ calibrator'.at = "insert" /\ calibrator'.run = c.run
      BY <1>2, <3>1 DEF IsCalibrator
    <3> QED BY <1>3, <3>1, <3>2
  <2>4. CASE InsertRun
    <3>1. /\ calibrator' = [at |-> "idle", run |-> NoRun] /\ c.at = "insert" /\ activeRun' = c.run
      BY <1>2, <2>4 DEF InsertRun
    <3> QED BY <1>3, <3>1 DEF IsCalibrator
  <2>5. CASE InterruptCalibration
    <3>1. /\ calibrator' = [at |-> "idle", run |-> NoRun] /\ activeRun' = activeRun
          /\ activated' = activated
          /\ interrupted \/ c.at = "insert" => interrupted'
      BY <1>2, <2>5 DEF InterruptCalibration
    <3> QED BY <1>3, <3>1 DEF IsCalibrator
  <2> QED BY <2>2, <2>3, <2>4, <2>5 DEF TakeCalibrationStep
<1>5. TypeOK'
  BY <1>1, <1>4 DEF Inductive, TypeOK
<1>6. CalibrationGapNeedsInterruption'
  BY <1>4 DEF CalibrationGapNeedsInterruption
<1> QED BY <1>1, <1>4, <1>5, <1>6 DEF Inductive

\* A trade closes: no clock moves, and the batch goes on with what it carries.
LEMMA CloseKept ==
    ASSUME Inductive, Remember, Close
    PROVE  Inductive'
<1>1. PICK t \in Closings : CloseTrade(t)
  BY DEF Close
<1>2. /\ trades \in Seq(Closings) /\ Len(trades) \in Nat
      /\ trades' \in Seq(Closings) /\ Len(trades') = Len(trades) + 1
      /\ \A i \in 1..Len(trades) : trades'[i] = trades[i]
  BY <1>1, ListFacts, AppendFacts DEF CloseTrade, Inductive, TypeOK
<1>3. /\ status' = status /\ since' = since /\ batch' = batch /\ faults' = faults
      /\ activeRun' = activeRun /\ calibrator' = calibrator /\ activated' = activated
      /\ interrupted' = interrupted
  BY DEF Close, lifecycle, calibration
<1>4. since' = entered' /\ entered' = entered
  BY <1>3, ClocksStay
<1>5. 0..Len(trades) \subseteq 0..Len(trades')
  BY <1>2
<1>6. since' \in [Strategies -> 0..Len(trades')] /\ entered' \in [Strategies -> 0..Len(trades')]
  BY <1>3, <1>4, <1>5 DEF Inductive, TypeOK
<1>7. TypeOK'
  BY <1>2, <1>3, <1>6 DEF Inductive, TypeOK
<1>8. VerdictIsATransition' /\ CalibrationGapNeedsInterruption'
  BY <1>3 DEF Inductive, VerdictIsATransition, CalibrationGapNeedsInterruption
<1> QED BY <1>3, <1>4, <1>7, <1>8 DEF Inductive

\* The first snapshot, or nothing at all.
LEMMA NothingMoves ==
    ASSUME Inductive, UNCHANGED <<trades, lifecycle, calibration, faults>>,
           Remember \/ entered' = entered
    PROVE  Inductive'
<1>1. /\ status' = status /\ since' = since /\ batch' = batch /\ trades' = trades
      /\ activeRun' = activeRun /\ calibrator' = calibrator /\ activated' = activated
      /\ interrupted' = interrupted /\ faults' = faults
  BY DEF lifecycle, calibration
<1>2. since' = entered' /\ entered' = entered
  BY <1>1, ClocksStay DEF Inductive
<1>3. TypeOK'
  BY <1>1, <1>2 DEF Inductive, TypeOK
<1>4. VerdictIsATransition' /\ CalibrationGapNeedsInterruption'
  BY <1>1 DEF Inductive, VerdictIsATransition, CalibrationGapNeedsInterruption
<1> QED BY <1>1, <1>2, <1>3, <1>4 DEF Inductive

-----------------------------------------------------------------------------
(* Every step, and the theorems.                                           *)

\* The steps of a cycle and the faults that cut it.
LEMMA BatchStepKept ==
    ASSUME Inductive, Remember, UNCHANGED <<trades, calibration>>, faults' \in 0..MaxFaults,
           \/ TakeBatchStep /\ UNCHANGED faults
           \/ FailEvaluation \/ RestartBatch
    PROVE  Inductive'
<1>1. CASE StartBatch \/ EndBatch \/ FailEvaluation \/ RestartBatch
  <2>1. BatchAlone
    BY <1>1 DEF StartBatch, EndBatch, FailEvaluation, RestartBatch, BatchAlone
  <2> QED BY <1>1, <2>1, RestingKept
<1>2. CASE JudgeEviction
  BY <1>2, JudgeEvictionKept DEF JudgeEviction, BatchAlone
<1>3. CASE JudgeResurrection
  BY <1>3, JudgeResurrectionKept DEF JudgeResurrection, BatchAlone
<1>4. CASE ApplyTransition /\ UNCHANGED faults
  BY <1>4, ApplyTransitionKept
<1>5. ASSUME NEW s \in Strategies, ReadStatus(s), UNCHANGED faults PROVE Inductive'
  BY <1>5, ReadStatusKept
<1> QED BY <1>1, <1>2, <1>3, <1>4, <1>5 DEF TakeBatchStep

\* Every step preserves the invariant.
LEMMA InductiveKept == Inductive /\ [Next]_vars => Inductive'
<1> SUFFICES ASSUME Inductive, [Next]_vars PROVE Inductive'
  OBVIOUS
<1>1. faults \in 0..MaxFaults
  BY DEF Inductive, TypeOK
<1>2. CASE Evaluate /\ Remember
  BY <1>1, <1>2, BatchStepKept DEF Evaluate
<1>3. CASE Fit /\ Remember
  BY <1>1, <1>3, CalibrationKept DEF Fit
<1>4. CASE Close /\ Remember
  BY <1>4, CloseKept
<1>5. CASE Snapshot /\ Remember
  BY <1>5, NothingMoves DEF Snapshot
<1>6. CASE Fault /\ Remember
  <2>1. faults' \in 0..MaxFaults
    BY <1>1, <1>6, FaultsAssumption DEF Fault
  <2> QED BY <1>6, <2>1, BatchStepKept, CalibrationKept DEF Fault
<1>7. CASE UNCHANGED vars
  BY <1>7, NothingMoves DEF vars
<1> QED BY <1>2, <1>3, <1>4, <1>5, <1>6, <1>7 DEF Next

\* The invariant holds in every state.
LEMMA InductiveHolds == Spec => []Inductive
BY InitInductive, InductiveKept, PTL DEF Spec

\* The types of the tables and of what the two processes carry.
THEOREM TypeCorrectness == Spec => []TypeOK
<1>1. Inductive => TypeOK
  BY DEF Inductive
<1> QED BY <1>1, InductiveHolds, PTL

\* No calibration is active only between the two statements of a replacement, or after
\* one was cut there.
THEOREM GapsAreInterruptions == Spec => []CalibrationGapNeedsInterruption
<1>1. Inductive => CalibrationGapNeedsInterruption
  BY DEF Inductive
<1> QED BY <1>1, InductiveHolds, PTL

\* Which step changes a status, and how.
LEMMA StatusSteps ==
    ASSUME Inductive, [Next]_vars
    PROVE  \/ status' = status
           \/ /\ UNCHANGED calibration
              /\ \E s \in Strategies :
                     /\ status[s] = Contract!Unknown
                     /\ status' = [status EXCEPT ![s] = "experimental"]
           \/ /\ UNCHANGED calibration /\ batch.at = "apply"
              /\ \E s \in Strategies, new \in DOMAIN Contract!Evictions :
                     /\ s = batch.s /\ new = batch.new
                     /\ status[s] \in Contract!Evictions[new]
                     /\ status' = [status EXCEPT ![s] = new]
<1>1. CASE Evaluate /\ Remember
  <2>1. CASE ApplyTransition
    BY <1>1, <2>1, ApplyTransitionKept DEF Evaluate, ApplyTransition
  <2>2. CASE \E s \in Strategies : ReadStatus(s)
    BY <1>1, <2>2, ReadStatusKept DEF Evaluate
  <2> QED BY <1>1, <2>1, <2>2
          DEF Evaluate, TakeBatchStep, StartBatch, EndBatch, JudgeEviction, JudgeResurrection
<1>2. CASE Fit \/ Close \/ Snapshot \/ Fault \/ UNCHANGED vars
  BY <1>2 DEF Fit, Close, Snapshot, Fault, FailEvaluation, RestartBatch, vars, lifecycle
<1> QED BY <1>1, <1>2 DEF Next

\* Every step of the services is one the contract allows, or changes neither table.
LEMMA StepRefines ==
    ASSUME Inductive, Inductive', [Next]_vars
    PROVE  [Contract!Next]_<<status, IF activeRun = NoRun THEN "collecting" ELSE activeRun>>
<1>1. activeRun' \in Contract!Maturities \union {NoRun}
  BY DEF Inductive, TypeOK, Maturities, Contract!Maturities
<1>2. (IF activeRun = NoRun THEN "collecting" ELSE activeRun)' \in Contract!Maturities
  BY <1>1 DEF Contract!Maturities
<1>3. CASE status' = status
  BY <1>2, <1>3 DEF Contract!Next, Contract!Activate
<1>4. CASE UNCHANGED calibration /\ \E s \in Strategies :
               /\ status[s] = Contract!Unknown
               /\ status' = [status EXCEPT ![s] = "experimental"]
  BY <1>4 DEF Contract!Next, Contract!Register, calibration
<1>5. CASE UNCHANGED calibration /\ \E s \in Strategies, new \in DOMAIN Contract!Evictions :
               /\ status[s] \in Contract!Evictions[new]
               /\ status' = [status EXCEPT ![s] = new]
  BY <1>5 DEF Contract!Next, Contract!Transition, calibration
<1> QED BY <1>3, <1>4, <1>5, StatusSteps

\* The services implement the contract decision_engine rests on.
THEOREM ContractRefinement == Spec => ImplementsContract
<1>1. Init => Contract!Init
  BY InheritedAssumption DEF Init, Contract!Init, Contract!Maturities
<1>2. Inductive /\ Inductive' /\ [Next]_vars
      => [Contract!Next]_<<status, IF activeRun = NoRun THEN "collecting" ELSE activeRun>>
  BY StepRefines
<1>3. Spec => Contract!Spec
  BY <1>1, <1>2, InductiveHolds, PTL DEF Spec, Contract!Spec
<1> QED BY <1>3 DEF ImplementsContract
-----------------------------------------------------------------------------
(* The verdicts: what the rules ask of the trades, whatever the trades.    *)

\* Some closed trades.
IsTrades(I) == IsFiniteSet(I) /\ I \subseteq DOMAIN trades

\* The metrics of some trades are integers, and a metric has its sign from a trade.
LEMMA MetricsHaveWitnesses ==
    ASSUME trades \in Seq(Closings), NEW I, IsTrades(I)
    PROVE  /\ Pnl(I) \in Int /\ Bps(I) \in Int /\ Losses(I) \in Int
           /\ Pnl(I) < 0 => \E i \in I : trades[i].pnl < 0
           /\ Losses(I) > 0 => \E i \in I : trades[i].pnl < 0
           /\ Bps(I) < 0 => \E i \in I : trades[i].bps < 0
           /\ \A edge \in Int : ExpectancyAbove(I, edge) => \E i \in I : trades[i].bps > edge
<1>1. \A i \in DOMAIN trades : trades[i].pnl \in Int /\ trades[i].bps \in Int
  BY ListFacts, ClosingsAssumption
<1>2. PICK gain : gain = [i \in DOMAIN trades |-> trades[i].pnl]
  OBVIOUS
<1>3. PICK edges : edges = [i \in DOMAIN trades |-> trades[i].bps]
  OBVIOUS
<1>4. /\ \A i \in I : gain[i] = trades[i].pnl /\ gain[i] \in Int
      /\ \A i \in I : edges[i] = trades[i].bps /\ edges[i] \in Int
      /\ IsFiniteSet(I)
  BY <1>1, <1>2, <1>3 DEF IsTrades
<1>5. Pnl(I) = SumFunctionOnSet(gain, I) /\ Bps(I) = SumFunctionOnSet(edges, I)
  BY <1>2, <1>3 DEF Pnl, Bps
<1>6. PICK lost \in SUBSET I : lost = {i \in I : trades[i].pnl < 0}
  OBVIOUS
<1>7. IsFiniteSet(lost) /\ \A i \in lost : gain[i] \in Int
  BY <1>4, FS_Subset
<1>8. Losses(I) = -SumFunctionOnSet(gain, lost)
  BY <1>2, <1>6 DEF Pnl, Losses
<1>9. SumFunctionOnSet(gain, lost) \in Int /\ (lost = {} => SumFunctionOnSet(gain, lost) = 0)
  BY <1>7, SumIsInt, SumEquation
<1>10. /\ SumFunctionOnSet(gain, I) \in Int
       /\ SumFunctionOnSet(gain, I) < 0 => \E i \in I : gain[i] < 0
  BY <1>4, SumHasAWitness
<1>11. /\ SumFunctionOnSet(edges, I) \in Int
       /\ SumFunctionOnSet(edges, I) < 0 => \E i \in I : edges[i] < 0
       /\ \A edge \in Int : SumFunctionOnSet(edges, I) > edge * Cardinality(I)
                            => \E i \in I : edges[i] > edge
  BY <1>4, SumHasAWitness
<1>12. \A edge \in Int : ExpectancyAbove(I, edge) => \E i \in I : trades[i].bps > edge
  BY <1>4, <1>5, <1>11 DEF ExpectancyAbove
<1>13. Losses(I) > 0 => \E i \in I : trades[i].pnl < 0
  BY <1>6, <1>8, <1>9
<1>14. Losses(I) \in Int
  BY <1>8, <1>9
<1> QED BY <1>4, <1>5, <1>10, <1>11, <1>12, <1>13, <1>14

\* evaluate_eviction condemns no strategy whose trades lost neither money nor basis
\* points: the ratio of the gains to the losses, the mean and the drawdown are each
\* harmless without a loss, and a short window condemns nobody.
THEOREM NoEvictionWithoutALoss ==
    ASSUME trades \in Seq(Closings), NEW current, NEW I, IsTrades(I),
           EvictionVerdict(current, I) # NoStatus
    PROVE  /\ current \in Contract!EvictionEligible
           /\ Cardinality(I) >= EvictionWindow
           /\ \E i \in I : trades[i].pnl < 0 \/ trades[i].bps < 0
<1>1. current \in Contract!EvictionEligible /\ ~ (Cardinality(I) < EvictionWindow)
  BY SameContract DEF EvictionVerdict
<1>2. Cardinality(I) \in Nat
  BY FS_CardinalityType DEF IsTrades
<1>3. Ruined(I) \/ Unhealthy(I)
  BY DEF EvictionVerdict
<1>4. Pnl(I) < 0 \/ Losses(I) > 0 \/ Bps(I) < 0
  BY <1>3 DEF Ruined, Unhealthy, ExpectancyNegative, ProfitFactorBelow
<1>5. \E i \in I : trades[i].pnl < 0 \/ trades[i].bps < 0
  BY <1>4, MetricsHaveWitnesses
<1> QED BY <1>1, <1>2, <1>5, WindowsAssumption

\* evaluate_resurrection answers only to a sample in which a trade beat the edge asked for.
THEOREM NoResurrectionWithoutAWin ==
    ASSUME trades \in Seq(Closings), NEW current, NEW I, IsTrades(I),
           ResurrectionVerdict(current, I) # NoStatus
    PROVE  /\ current \in Contract!ResurrectionEligible
           /\ Cardinality(I) >= QuarantineSample
           /\ \E i \in I : trades[i].bps > MinEdge
<1>1. /\ current \in Contract!ResurrectionEligible /\ Cardinality(I) >= QuarantineSample
      /\ ExpectancyAbove(I, MinEdge)
  BY SameContract DEF ResurrectionVerdict
<1> QED BY <1>1, MetricsHaveWitnesses, CapitalAssumption

\* ORDER BY closed_at DESC LIMIT n: a window of the newest trades is full when there are
\* enough of them and holds all of them when there are not, and every trade it leaves out
\* is older than every trade it holds.
THEOREM NewestFillTheWindow ==
    ASSUME NEW I \in SUBSET Int, IsFiniteSet(I), NEW limit \in Nat
    PROVE  /\ Cardinality(Newest(I, limit)) = IF Cardinality(I) < limit THEN Cardinality(I) ELSE limit
           /\ \A i \in Newest(I, limit), j \in I \ Newest(I, limit) : j < i
<1> DEFINE Full(T) == Cardinality(Newest(T, limit))
                      = IF Cardinality(T) < limit THEN Cardinality(T) ELSE limit
           F == {T \in SUBSET I : ~ Full(T)}
<1>1. ASSUME F # {} PROVE FALSE
  <2>1. PICK T \in F : \A x \in T : T \ {x} \notin F
    <3>1. F \in SUBSET SUBSET I
      OBVIOUS
    <3> HIDE DEF F
    <3> QED BY <1>1, <3>1, SmallestSubset
  <2>2. T \in SUBSET I /\ IsFiniteSet(T) /\ T \in SUBSET Int /\ ~ Full(T)
    <3>1. T \in SUBSET I /\ ~ Full(T)
      BY <2>1
    <3> HIDE DEF Full
    <3> QED BY <3>1, FS_Subset
  <2>3. T # {}
    <3>1. ASSUME T = {} PROVE Full(T)
      <4>1. Newest({}, limit) = {} /\ Cardinality({}) = 0
        BY FS_EmptySet DEF Newest
      <4> QED BY <3>1, <4>1
    <3> QED BY <2>2, <3>1
  <2>4. PICK m \in T : \A x \in T : m <= x
    BY <2>2, <2>3, LeastOfFinite
  <2>5. PICK rest \in SUBSET I : rest = T \ {m} /\ IsFiniteSet(rest)
    <3>1. T \ {m} \in SUBSET I
      BY <2>2
    <3>2. IsFiniteSet(T \ {m})
      BY <3>1, FS_Subset
    <3> QED BY <3>1, <3>2
  <2>6. Full(rest)
    BY <2>1, <2>4, <2>5
  <2>7. /\ Cardinality(rest) \in Nat /\ Cardinality(T) = Cardinality(rest) + 1
    BY <2>2, <2>4, <2>5, FS_RemoveElement, FS_CardinalityType
  <2>8. ASSUME NEW i \in rest PROVE {j \in T : j > i} = {j \in rest : j > i} /\ i \in T
    <3>1. i \in T /\ i \in Int /\ m \in Int /\ m <= i
      BY <2>2, <2>4, <2>5
    <3>2. ~ (m > i)
      BY <3>1
    <3> QED BY <2>5, <3>1, <3>2
  <2>9. {j \in T : j > m} = rest
    <3>1. \A j \in T : j \in Int /\ m \in Int /\ m <= j
      BY <2>2, <2>4
    <3>2. \A j \in T : j > m <=> j # m
      BY <3>1
    <3> QED BY <2>5, <3>2
  <2>10. Newest(T, limit) = Newest(rest, limit) \union (IF Cardinality(rest) < limit THEN {m} ELSE {})
    <3>1. T = rest \union {m} /\ m \notin rest
      BY <2>4, <2>5
    <3>2. Newest(T, limit) = {i \in T : Cardinality({j \in T : j > i}) < limit}
      BY DEF Newest
    <3>3. Newest(rest, limit) = {i \in rest : Cardinality({j \in rest : j > i}) < limit}
      BY DEF Newest
    <3>4. \A i \in rest : i \in Newest(T, limit) <=> i \in Newest(rest, limit)
      BY <2>8, <3>2, <3>3
    <3>5. m \in Newest(T, limit) <=> Cardinality(rest) < limit
      BY <2>4, <2>9, <3>2
    <3>6. Newest(T, limit) \subseteq T /\ Newest(rest, limit) \subseteq rest
      BY <3>2, <3>3
    <3> QED BY <3>1, <3>4, <3>5, <3>6
  <2>11. IsFiniteSet(Newest(rest, limit)) /\ m \notin Newest(rest, limit)
    <3>1. Newest(rest, limit) \in SUBSET rest
      BY DEF Newest
    <3> QED BY <2>5, <3>1, FS_Subset
  <2>12. Cardinality(Newest(rest, limit) \union {m}) = Cardinality(Newest(rest, limit)) + 1
    BY <2>11, FS_AddElement
  <2> HIDE DEF F
  <2>13. Full(T)
    BY <2>6, <2>7, <2>10, <2>12
  <2> QED BY <2>2, <2>13
<1>2. Full(I)
  BY <1>1
<1>3. ASSUME NEW i \in Newest(I, limit), NEW j \in I \ Newest(I, limit) PROVE j < i
  <2>1. PICK above \in SUBSET I : above = {k \in I : k > i} /\ Cardinality(above) < limit
    BY DEF Newest
  <2>2. PICK beyond \in SUBSET I : beyond = {k \in I : k > j} /\ ~ (Cardinality(beyond) < limit)
    BY DEF Newest
  <2>3. /\ IsFiniteSet(above) /\ Cardinality(above) \in Nat
        /\ IsFiniteSet(beyond) /\ Cardinality(beyond) \in Nat
    BY FS_Subset, FS_CardinalityType
  <2>4. i \in Int /\ j \in Int /\ i # j
    BY DEF Newest
  <2>5. j > i => beyond \in SUBSET above
    <3>1. \A k \in beyond : k \in I /\ k \in Int /\ k > j
      BY <2>2
    <3>2. \A k \in beyond : j > i => k > i
      BY <2>4, <3>1
    <3> QED BY <2>1, <3>1, <3>2
  <2>6. j > i => Cardinality(beyond) <= Cardinality(above)
    BY <2>3, <2>5, FS_Subset
  <2> QED BY <2>1, <2>2, <2>3, <2>4, <2>6
<1> QED BY <1>2, <1>3

-----------------------------------------------------------------------------
(* The verdicts the batch writes: each was the answer of the rules to the  *)
(* newest trades of a moment since the status was taken.                   *)

\* The newest trades of a strategy, when the first n had closed.
AsOf(s, from, n, limit) == Newest({i \in Attributed(s, from) : i <= n}, limit)

\* The verdict to apply is the one the rules gave when it was reached.
VerdictIsJudged ==
    batch.at = "apply" =>
        \E n \in 0..Len(trades) :
            \/ /\ batch.new # "experimental"
               /\ EvictionVerdict(batch.read, AsOf(batch.s, 0, n, EvictionWindow)) = batch.new
            \/ /\ batch.new = "experimental"
               /\ ResurrectionVerdict(batch.read,
                      AsOf(batch.s, since[batch.s], n, QuarantineSample)) = batch.new

\* The rules look at the trades themselves, so that a later one changes no earlier verdict.
LEMMA RulesForgetLaterTrades ==
    ASSUME NEW I, IsFiniteSet(I), I \subseteq DOMAIN trades, I \subseteq DOMAIN trades',
           \A i \in I : trades'[i] = trades[i]
    PROVE  /\ \A current : EvictionVerdict(current, I)' = EvictionVerdict(current, I)
           /\ \A current : ResurrectionVerdict(current, I)' = ResurrectionVerdict(current, I)
<1>1. ASSUME NEW J \in SUBSET I
      PROVE  Pnl(J)' = Pnl(J) /\ Bps(J)' = Bps(J)
  <2>1. IsFiniteSet(J)
    BY FS_Subset
  <2>2. PICK f, g : /\ f = [i \in DOMAIN trades |-> trades[i].pnl]
                    /\ g = [i \in DOMAIN trades' |-> trades'[i].pnl]
    OBVIOUS
  <2>3. \A i \in J : f[i] = g[i]
    BY <2>2
  <2>4. PICK h, k : /\ h = [i \in DOMAIN trades |-> trades[i].bps]
                    /\ k = [i \in DOMAIN trades' |-> trades'[i].bps]
    OBVIOUS
  <2>5. \A i \in J : h[i] = k[i]
    BY <2>4
  <2>6. SumFunctionOnSet(f, J) = SumFunctionOnSet(g, J) /\ SumFunctionOnSet(h, J) = SumFunctionOnSet(k, J)
    BY <2>1, <2>3, <2>5, SumOfSame
  <2> QED BY <2>2, <2>4, <2>6 DEF Pnl, Bps
<1>2. {i \in I : trades'[i].pnl > 0} = {i \in I : trades[i].pnl > 0}
  OBVIOUS
<1>3. {i \in I : trades'[i].pnl < 0} = {i \in I : trades[i].pnl < 0}
  OBVIOUS
<1>4. Pnl(I)' = Pnl(I) /\ Bps(I)' = Bps(I)
  BY <1>1
<1>5. Wins(I)' = Wins(I)
  BY <1>1, <1>2 DEF Wins
<1>6. Losses(I)' = Losses(I)
  BY <1>1, <1>3 DEF Losses
<1>7. Ruined(I)' = Ruined(I) /\ Unhealthy(I)' = Unhealthy(I)
  BY <1>4, <1>5, <1>6 DEF Ruined, Unhealthy, ExpectancyNegative, ProfitFactorBelow
<1>8. ExpectancyAbove(I, MinEdge)' = ExpectancyAbove(I, MinEdge)
  BY <1>4 DEF ExpectancyAbove
<1> QED BY <1>7, <1>8 DEF EvictionVerdict, ResurrectionVerdict

\* The trades as of a moment are trades of the strategy, and later ones are not among them.
LEMMA AsOfIsPast ==
    ASSUME TypeOK, NEW s, NEW from \in Nat, NEW n \in 0..Len(trades), NEW limit
    PROVE  /\ AsOf(s, from, n, limit) \in SUBSET Attributed(s, from)
           /\ IsTrades(AsOf(s, from, n, limit))
           /\ Cardinality(AsOf(s, from, n, limit)) <= Cardinality(Attributed(s, from))
           /\ Cardinality(AsOf(s, from, n, limit)) \in Nat
           /\ Cardinality(Attributed(s, from)) \in Nat
<1>1. AsOf(s, from, n, limit) \in SUBSET Attributed(s, from)
  BY DEF AsOf, Newest
<1>2. IsFiniteSet(Attributed(s, from)) /\ Cardinality(Attributed(s, from)) \in Nat
  BY AttributedIsFinite
<1>3. Attributed(s, from) \subseteq DOMAIN trades
  <2>1. DOMAIN trades = 1..Len(trades) /\ Len(trades) \in Nat
    BY ListFacts DEF TypeOK
  <2> QED BY <2>1 DEF Attributed
<1>4. /\ IsFiniteSet(AsOf(s, from, n, limit))
      /\ Cardinality(AsOf(s, from, n, limit)) <= Cardinality(Attributed(s, from))
  BY <1>1, <1>2, FS_Subset
<1> QED BY <1>1, <1>2, <1>3, <1>4, FS_CardinalityType DEF IsTrades

\* The trades as of now are all of them.
LEMMA AsOfNow ==
    ASSUME TypeOK, NEW s, NEW from, NEW limit
    PROVE  /\ Len(trades) \in 0..Len(trades)
           /\ AsOf(s, from, Len(trades), limit) = Newest(Attributed(s, from), limit)
<1>1. Len(trades) \in Nat
  BY ListFacts DEF TypeOK
<1>2. {i \in Attributed(s, from) : i <= Len(trades)} = Attributed(s, from)
  BY <1>1 DEF Attributed
<1> QED BY <1>1, <1>2 DEF AsOf

\* What had closed by a moment does not change.
LEMMA ThePastStays ==
    ASSUME TypeOK, NEW s, NEW from \in Nat, NEW n \in 0..Len(trades), NEW limit,
           Len(trades') \in Nat, Len(trades') >= Len(trades),
           \A i \in 1..Len(trades) : trades'[i] = trades[i]
    PROVE  AsOf(s, from, n, limit)' = AsOf(s, from, n, limit)
<1>1. Len(trades) \in Nat
  BY ListFacts DEF TypeOK
<1>2. {i \in Attributed(s, from)' : i <= n} = {i \in Attributed(s, from) : i <= n}
  BY <1>1 DEF Attributed
<1> QED BY <1>2 DEF AsOf, Newest

\* A trade closes: the verdict in hand is the one that was given.
LEMMA CloseKeepsTheVerdict ==
    ASSUME Inductive, VerdictIsJudged, Close
    PROVE  VerdictIsJudged'
<1>1. PICK t \in Closings : CloseTrade(t)
  BY DEF Close
<1>2. /\ trades \in Seq(Closings) /\ Len(trades) \in Nat /\ DOMAIN trades = 1..Len(trades)
      /\ trades' \in Seq(Closings) /\ Len(trades') = Len(trades) + 1
      /\ DOMAIN trades' = 1..Len(trades')
      /\ \A i \in 1..Len(trades) : trades'[i] = trades[i]
  BY <1>1, ListFacts, AppendFacts DEF CloseTrade, Inductive, TypeOK
<1>3. batch' = batch /\ since' = since
  BY DEF Close, lifecycle
<1> SUFFICES ASSUME batch.at = "apply" PROVE VerdictIsJudged'
  BY <1>3 DEF VerdictIsJudged
<1>4. PICK n \in 0..Len(trades) :
          \/ /\ batch.new # "experimental"
             /\ EvictionVerdict(batch.read, AsOf(batch.s, 0, n, EvictionWindow)) = batch.new
          \/ /\ batch.new = "experimental"
             /\ ResurrectionVerdict(batch.read,
                    AsOf(batch.s, since[batch.s], n, QuarantineSample)) = batch.new
  BY DEF VerdictIsJudged
<1>5. TypeOK /\ n \in 0..Len(trades') /\ 0 \in Nat /\ since[batch.s] \in Nat
  <2>1. since[batch.s] \in 0..Len(trades)
    BY DEF Inductive, TypeOK, VerdictIsATransition
  <2> QED BY <1>2, <2>1 DEF Inductive
<1>6. ASSUME NEW from \in Nat, NEW limit, NEW current
      PROVE  /\ EvictionVerdict(current, AsOf(batch.s, from, n, limit))'
                = EvictionVerdict(current, AsOf(batch.s, from, n, limit))
             /\ ResurrectionVerdict(current, AsOf(batch.s, from, n, limit))'
                = ResurrectionVerdict(current, AsOf(batch.s, from, n, limit))
  <2>1. PICK I : I = AsOf(batch.s, from, n, limit) /\ IsTrades(I)
    BY <1>5, AsOfIsPast
  <2>2. PICK s : s = batch.s
    OBVIOUS
  <2>3. AsOf(s, from, n, limit)' = AsOf(s, from, n, limit)
    BY <1>2, <1>5, ThePastStays
  <2>4. \A i \in I : trades'[i] = trades[i]
    BY <1>2, <2>1 DEF IsTrades
  <2>5. I \subseteq DOMAIN trades /\ I \subseteq DOMAIN trades' /\ IsFiniteSet(I)
    BY <1>2, <2>1 DEF IsTrades
  <2>6. /\ EvictionVerdict(current, I)' = EvictionVerdict(current, I)
        /\ ResurrectionVerdict(current, I)' = ResurrectionVerdict(current, I)
    BY <2>4, <2>5, RulesForgetLaterTrades
  <2> QED BY <1>3, <2>1, <2>2, <2>3, <2>6
<1> QED BY <1>3, <1>4, <1>5, <1>6 DEF VerdictIsJudged

\* A verdict is reached on the trades of the moment, and then only carried.
LEMMA JudgedKept ==
    ASSUME Inductive, VerdictIsJudged, [Next]_vars
    PROVE  VerdictIsJudged'
<1>1. TypeOK
  BY DEF Inductive
<1>2. CASE batch'.at # "apply"
  BY <1>2 DEF VerdictIsJudged
<1>3. CASE UNCHANGED <<trades, since, batch>>
  <2>1. UNCHANGED <<trades, since, batch>>
    BY <1>3
  <2>2. \A s, from, n, limit : AsOf(s, from, n, limit)' = AsOf(s, from, n, limit)
    BY <2>1 DEF AsOf, Newest, Attributed
  <2>3. \A I : Pnl(I)' = Pnl(I) /\ Bps(I)' = Bps(I)
    BY <2>1 DEF Pnl, Bps
  <2>4. \A I : Wins(I)' = Wins(I) /\ Losses(I)' = Losses(I)
    BY <2>1 DEF Wins, Losses, Pnl
  <2>5. \A current, I : /\ EvictionVerdict(current, I)' = EvictionVerdict(current, I)
                        /\ ResurrectionVerdict(current, I)' = ResurrectionVerdict(current, I)
    BY <2>3, <2>4 DEF EvictionVerdict, ResurrectionVerdict, Ruined, Unhealthy,
                      ExpectancyNegative, ExpectancyAbove, ProfitFactorBelow
  <2> QED BY <2>1, <2>2, <2>5 DEF VerdictIsJudged
<1>4. CASE Close
  BY <1>4, CloseKeepsTheVerdict
<1>5. CASE JudgeEviction /\ UNCHANGED trades /\ batch'.at = "apply"
  <2>1. PICK new : new = IF capitalKnown THEN EvictionVerdict(batch.read, WindowOf(batch.s)) ELSE NoStatus
    OBVIOUS
  <2>2. batch' = [batch EXCEPT !.at = IF new = NoStatus THEN "quarantine" ELSE "apply", !.new = new]
    BY <1>5, <2>1 DEF JudgeEviction
  <2>3. /\ batch'.s = batch.s /\ batch'.read = batch.read /\ batch'.new = new /\ new # NoStatus
    BY <1>5, <2>2 DEF Inductive, IsBatch
  <2>4. /\ EvictionVerdict(batch.read, AsOf(batch.s, 0, Len(trades), EvictionWindow)) = new
        /\ Len(trades) \in 0..Len(trades)
    BY <1>1, <2>1, <2>3, AsOfNow DEF WindowOf
  <2>5. new # "experimental"
    BY <2>3, <2>4, EvictionIsATransition
  <2>6. EvictionVerdict(batch'.read, AsOf(batch'.s, 0, Len(trades), EvictionWindow)) = batch'.new
    BY <2>3, <2>4
  <2>7. EvictionVerdict(batch.read, AsOf(batch.s, 0, Len(trades), EvictionWindow))' = batch'.new
    BY <1>5, <2>6 DEF AsOf, Newest, Attributed, EvictionVerdict, Ruined, Unhealthy,
                      ExpectancyNegative, ProfitFactorBelow, Pnl, Bps, Wins, Losses
  <2>8. Len(trades') \in 0..Len(trades')
    BY <1>5, <2>4
  <2> QED BY <1>5, <2>3, <2>5, <2>7, <2>8 DEF VerdictIsJudged
<1>6. CASE JudgeResurrection /\ UNCHANGED trades /\ batch'.at = "apply"
  <2>1. PICK new : new = ResurrectionVerdict(batch.read, QuarantineOf(batch.s))
    OBVIOUS
  <2>2. new # NoStatus /\ batch' = [batch EXCEPT !.at = "apply", !.new = new]
    BY <1>6, <2>1, BatchRests DEF JudgeResurrection
  <2>3. batch'.s = batch.s /\ batch'.read = batch.read /\ batch'.new = new
    BY <2>2 DEF Inductive, IsBatch
  <2>4. /\ ResurrectionVerdict(batch.read,
               AsOf(batch.s, since[batch.s], Len(trades), QuarantineSample)) = new
        /\ Len(trades) \in 0..Len(trades)
    BY <1>1, <2>1, AsOfNow DEF QuarantineOf
  <2>5. new = "experimental" /\ since' = since
    BY <1>6, <2>1, <2>2, ResurrectionIsATransition DEF JudgeResurrection
  <2>6. ResurrectionVerdict(batch'.read,
            AsOf(batch'.s, since'[batch'.s], Len(trades), QuarantineSample)) = batch'.new
    BY <2>3, <2>4, <2>5
  <2>7. ResurrectionVerdict(batch.read,
            AsOf(batch.s, since[batch.s], Len(trades), QuarantineSample))' = batch'.new
    BY <1>6, <2>6 DEF AsOf, Newest, Attributed, ResurrectionVerdict, ExpectancyAbove, Bps
  <2>8. Len(trades') \in 0..Len(trades')
    BY <1>6, <2>4
  <2> QED BY <1>6, <2>3, <2>5, <2>7, <2>8 DEF VerdictIsJudged
<1>7. CASE Evaluate
  <2>1. ASSUME StartBatch \/ EndBatch \/ ApplyTransition PROVE batch'.at # "apply"
    <3>1. StartBatch => batch'.at = "next"
      BY DEF StartBatch, Inductive, IsBatch
    <3> QED BY <2>1, <3>1, BatchRests DEF EndBatch, ApplyTransition
  <2>2. ASSUME NEW s \in Strategies, ReadStatus(s) PROVE batch'.at # "apply"
    BY <2>2 DEF ReadStatus
  <2> QED BY <1>2, <1>5, <1>6, <1>7, <2>1, <2>2 DEF Evaluate, TakeBatchStep
<1>8. CASE Fault
  <2>1. FailEvaluation \/ RestartBatch => batch'.at # "apply"
    BY BatchRests DEF FailEvaluation, RestartBatch
  <2> QED BY <1>2, <1>3, <1>8, <2>1 DEF Fault, lifecycle
<1>9. CASE Fit \/ Snapshot \/ UNCHANGED vars
  BY <1>3, <1>9 DEF Fit, Snapshot, vars, lifecycle
<1> QED BY <1>4, <1>7, <1>8, <1>9 DEF Next

\* So it is in every state.
LEMMA JudgedHolds == Spec => []VerdictIsJudged
<1>1. Init => VerdictIsJudged
  BY DEF Init, VerdictIsJudged, Resting
<1> QED BY <1>1, JudgedKept, InductiveHolds, PTL DEF Spec

\* Whatever closes, fails or restarts between the reading and the writing, a strategy
\* falls only by the answer of the rules to its newest trades of some moment, over a full
\* window of its own trades of which one lost; and rises only by their answer to trades
\* closed since it fell, of which one beat the edge.
FallIsJudged(s, new) ==
    /\ \E n \in 0..Len(trades) :
           EvictionVerdict(status[s], AsOf(s, 0, n, EvictionWindow)) = new
    /\ Cardinality(Attributed(s, 0)) >= EvictionWindow
    /\ \E i \in Attributed(s, 0) : trades[i].pnl < 0 \/ trades[i].bps < 0

RiseIsJudged(s) ==
    /\ \E n \in 0..Len(trades) :
           ResurrectionVerdict(status[s], AsOf(s, entered[s], n, QuarantineSample)) = "experimental"
    /\ Cardinality(Attributed(s, entered[s])) >= QuarantineSample
    /\ \E i \in Attributed(s, entered[s]) : trades[i].bps > MinEdge

TransitionIsJudged(s) ==
    \/ status'[s] = status[s]
    \/ status[s] = Contract!Unknown /\ status'[s] = "experimental"
    \/ status'[s] \in {"under_review", "degraded"} /\ FallIsJudged(s, status'[s])
    \/ status'[s] = "experimental" /\ RiseIsJudged(s)

TransitionsAreJudged == [][\A s \in Strategies : TransitionIsJudged(s)]_vars

\* What a fall rests on.
LEMMA FallRestsOn ==
    ASSUME Inductive, VerdictIsJudged, batch.at = "apply", batch.new # "experimental",
           NEW s \in Strategies, s = batch.s
    PROVE  FallIsJudged(s, batch.new)
<1>1. TypeOK /\ status[s] = batch.read /\ trades \in Seq(Closings)
  BY StrategyAtHand DEF Inductive, TypeOK
<1>2. PICK n \in 0..Len(trades) :
          EvictionVerdict(batch.read, AsOf(s, 0, n, EvictionWindow)) = batch.new
  BY DEF VerdictIsJudged
<1>3. batch.new # NoStatus
  BY BatchRests DEF Inductive, TypeOK
<1>4. PICK I : /\ I = AsOf(s, 0, n, EvictionWindow) /\ IsTrades(I) /\ I \in SUBSET Attributed(s, 0)
               /\ Cardinality(I) <= Cardinality(Attributed(s, 0)) /\ Cardinality(I) \in Nat
               /\ Cardinality(Attributed(s, 0)) \in Nat
  BY <1>1, AsOfIsPast
<1>5. Cardinality(I) >= EvictionWindow /\ \E i \in I : trades[i].pnl < 0 \/ trades[i].bps < 0
  BY <1>1, <1>2, <1>3, <1>4, NoEvictionWithoutALoss
<1> QED BY <1>1, <1>2, <1>4, <1>5, WindowsAssumption DEF FallIsJudged

\* What a resurrection rests on.
LEMMA RiseRestsOn ==
    ASSUME Inductive, VerdictIsJudged, batch.at = "apply", batch.new = "experimental",
           NEW s \in Strategies, s = batch.s
    PROVE  RiseIsJudged(s)
<1>1. TypeOK /\ status[s] = batch.read /\ trades \in Seq(Closings)
  BY StrategyAtHand DEF Inductive, TypeOK
<1>2. PICK from \in Nat : from = entered[s] /\ from = since[s]
  <2>1. entered[s] \in 0..Len(trades) /\ entered[s] = since[s] /\ Len(trades) \in Nat
    BY ListFacts DEF Inductive, TypeOK
  <2> QED BY <2>1
<1>3. PICK n \in 0..Len(trades) :
          ResurrectionVerdict(batch.read, AsOf(s, from, n, QuarantineSample)) = "experimental"
  BY <1>2 DEF VerdictIsJudged
<1>4. PICK I : /\ I = AsOf(s, from, n, QuarantineSample) /\ IsTrades(I)
               /\ I \in SUBSET Attributed(s, from)
               /\ Cardinality(I) <= Cardinality(Attributed(s, from)) /\ Cardinality(I) \in Nat
               /\ Cardinality(Attributed(s, from)) \in Nat
  BY <1>1, AsOfIsPast
<1>5. Cardinality(I) >= QuarantineSample /\ \E i \in I : trades[i].bps > MinEdge
  BY <1>1, <1>3, <1>4, NoResurrectionWithoutAWin
<1> QED BY <1>1, <1>2, <1>3, <1>4, <1>5, WindowsAssumption DEF RiseIsJudged

\* Every transition of the lifecycle is a verdict of the rules on past trades, over a full
\* window with a loss or a full quarantine with a win.
THEOREM VerdictsAreTheRules == Spec => TransitionsAreJudged
<1>1. ASSUME Inductive, VerdictIsJudged, [Next]_vars, NEW s \in Strategies
      PROVE  TransitionIsJudged(s)
  <2>1. status \in [Strategies -> Contract!Statuses \union {Contract!Unknown}]
    BY <1>1 DEF Inductive, TypeOK
  <2>2. \/ status'[s] = status[s]
        \/ status[s] = Contract!Unknown /\ status'[s] = "experimental"
        \/ /\ batch.at = "apply" /\ s = batch.s /\ status'[s] = batch.new
           /\ batch.new \in DOMAIN Contract!Evictions
    BY <1>1, <2>1, StatusSteps
  <2> QED BY <1>1, <2>2, TransitionsMove, FallRestsOn, RiseRestsOn DEF TransitionIsJudged
<1>2. Inductive /\ VerdictIsJudged /\ [Next]_vars
      => [\A s \in Strategies : TransitionIsJudged(s)]_vars
  BY <1>1
<1>3. Spec => [][\A s \in Strategies : TransitionIsJudged(s)]_vars
  BY <1>2, InductiveHolds, JudgedHolds, PTL DEF Spec
<1> QED BY <1>3 DEF TransitionsAreJudged

\* A strategy comes back only over a sample of trades closed since it fell, one of which
\* beat the edge: the batch counts from the clock of the status, which restarts with every
\* transition.
THEOREM ResurrectionIsPaidFor == Spec => ResurrectionCostsNewTrades
<1> DEFINE Costs == \A s \in Strategies :
                        status[s] \in Contract!ResurrectionEligible /\ status'[s] = "experimental"
                        => /\ Cardinality(Attributed(s, entered[s])) >= QuarantineSample
                           /\ \E i \in Attributed(s, entered[s]) : trades[i].bps > MinEdge
<1>1. ASSUME \A s \in Strategies : TransitionIsJudged(s) PROVE Costs
  <2> SUFFICES ASSUME NEW s \in Strategies,
                      status[s] \in Contract!ResurrectionEligible, status'[s] = "experimental"
               PROVE  /\ Cardinality(Attributed(s, entered[s])) >= QuarantineSample
                      /\ \E i \in Attributed(s, entered[s]) : trades[i].bps > MinEdge
    OBVIOUS
  <2>1. status[s] # "experimental" /\ status[s] # Contract!Unknown
    BY DEF Contract!ResurrectionEligible
  <2> QED BY <1>1, <2>1 DEF TransitionIsJudged, RiseIsJudged
<1>2. [\A s \in Strategies : TransitionIsJudged(s)]_vars => [Costs]_vars
  BY <1>1
<1>3. TransitionsAreJudged => [][Costs]_vars
  BY <1>2, PTL DEF TransitionsAreJudged
<1> QED BY <1>3, VerdictsAreTheRules DEF ResurrectionCostsNewTrades
=============================================================================
