------------------------- MODULE StrategyLifecycle --------------------------
(***************************************************************************)
(* The hourly batch that evicts and resurrects strategies                  *)
(* (strategy_lifecycle/main.py, repository.py, eviction_rules.py,          *)
(* states.py). One process; every query is an await, so trades may close   *)
(* between what it reads and the transition it writes.                     *)
(*                                                                         *)
(* Only this batch, the registration of a strategy and an operator working *)
(* by hand in the database write a status; the last is the initial state.  *)
(***************************************************************************)
EXTENDS ClosedTrades

CONSTANTS
    EvictionWindow,      \* MIN_SAMPLE_FOR_EVICTION = EVICTION_WINDOW_SIZE
    QuarantineSample,    \* MIN_QUARANTINE_SAMPLE
    MinEdge,             \* MIN_RESURRECTION_EV_BPS
    Capital              \* total value of the latest portfolio snapshot

ASSUME WindowsAssumption == EvictionWindow \in Nat \ {0} /\ QuarantineSample \in Nat \ {0}
ASSUME CapitalAssumption == Capital \in Nat /\ MinEdge \in Nat

VARIABLES
    status,         \* strategy_lifecycle_state.status
    since,          \* .transitioned_at, as the number of trades closed by then
    capitalKnown,   \* a snapshot of the reference exchange exists
    batch           \* the process: its step, the strategy at hand and what it read

C == INSTANCE LearningContract WITH active <- "collecting"

lifecycle == <<status, since, batch>>

NoStatus   == "none"
BatchSteps == {"idle", "next", "evict", "quarantine", "apply"}
Resting    == [at |-> "idle", s |-> CHOOSE s \in Strategies : TRUE, read |-> NoStatus,
               new |-> NoStatus, todo |-> {}]
NextStrategy == [batch EXCEPT !.at = "next", !.read = NoStatus, !.new = NoStatus]

-----------------------------------------------------------------------------
(* eviction_rules.py                                                       *)

Unhealthy(I) == ExpectancyNegative(I) \/ ProfitFactorBelow(I, 11)

\* A loss of 5% of the capital or more; no capital, no drawdown.
Ruined(I) == Capital > 0 /\ Pnl(I) < 0 /\ -20 * Pnl(I) >= Capital

\* Mutant: the edge is judged before the loss, and a strategy under review falls no more.
EvictionVerdictOnEdgeFirst(current, I) ==
    IF current \notin C!EvictionEligible \/ Cardinality(I) < EvictionWindow THEN NoStatus
    ELSE IF Unhealthy(I)
         THEN IF current \in {"under_review", "degraded"} THEN NoStatus ELSE "under_review"
    ELSE IF Ruined(I) /\ current # "degraded" THEN "degraded"
    ELSE NoStatus

EvictionVerdict(current, I) ==
    IF current \notin C!EvictionEligible \/ Cardinality(I) < EvictionWindow THEN NoStatus
    ELSE IF Ruined(I) THEN IF current = "degraded" THEN NoStatus ELSE "degraded"
    ELSE IF Unhealthy(I) /\ current \notin {"under_review", "degraded"} THEN "under_review"
    ELSE NoStatus

ResurrectionVerdict(current, I) ==
    IF /\ current \in C!ResurrectionEligible
       /\ Cardinality(I) >= QuarantineSample
       /\ ExpectancyAbove(I, MinEdge)
    THEN "experimental" ELSE NoStatus

\* The window looks back over transitions, the quarantine does not.
WindowOf(s) == Newest(Attributed(s, 0), EvictionWindow)

\* Mutant: the query of the quarantine is called without `since`.
QuarantineOfAnyTrade(s) == Newest(Attributed(s, 0), QuarantineSample)

QuarantineOf(s) == Newest(Attributed(s, since[s]), QuarantineSample)

-----------------------------------------------------------------------------
(* One cycle. An error on a strategy is caught around it alone.            *)

StartBatch ==
    /\ batch.at = "idle"
    /\ batch' = [batch EXCEPT !.at = "next", !.todo = Strategies]
    /\ UNCHANGED <<status, since>>

\* Mutant: the status is read before the missing row is created.
ReadStatusBeforeTheRow(s) ==
    /\ batch.at = "next"
    /\ s \in batch.todo
    /\ status' = IF status[s] = C!Unknown THEN [status EXCEPT ![s] = "experimental"] ELSE status
    /\ since'  = IF status[s] = C!Unknown THEN [since EXCEPT ![s] = Len(trades)] ELSE since
    /\ batch' = [at |-> "evict", s |-> s, read |-> status[s], new |-> NoStatus,
                 todo |-> batch.todo \ {s}]

\* ensure_lifecycle_row, then the status.
ReadStatus(s) ==
    /\ batch.at = "next"
    /\ s \in batch.todo
    /\ status' = IF status[s] = C!Unknown THEN [status EXCEPT ![s] = "experimental"] ELSE status
    /\ since'  = IF status[s] = C!Unknown THEN [since EXCEPT ![s] = Len(trades)] ELSE since
    /\ batch' = [at |-> "evict", s |-> s, read |-> status'[s], new |-> NoStatus,
                 todo |-> batch.todo \ {s}]

\* Without a snapshot there is no verdict, and a degraded strategy may still be resurrected.
JudgeEviction ==
    /\ batch.at = "evict"
    /\ LET new == IF capitalKnown THEN EvictionVerdict(batch.read, WindowOf(batch.s))
                                  ELSE NoStatus
       IN batch' = [batch EXCEPT !.at = IF new = NoStatus THEN "quarantine" ELSE "apply",
                                 !.new = new]
    /\ UNCHANGED <<status, since>>

JudgeResurrection ==
    /\ batch.at = "quarantine"
    /\ LET new == ResurrectionVerdict(batch.read, QuarantineOf(batch.s))
       IN batch' = IF new = NoStatus THEN NextStrategy
                   ELSE [batch EXCEPT !.at = "apply", !.new = new]
    /\ UNCHANGED <<status, since>>

\* Mutant: a strategy that goes back to trading is promoted past "experimental".
ApplyTransitionToValidated ==
    /\ batch.at = "apply"
    /\ status' = [status EXCEPT ![batch.s] =
                     IF batch.new = "experimental" THEN "validated" ELSE batch.new]
    /\ since' = [since EXCEPT ![batch.s] = Len(trades)]
    /\ batch' = NextStrategy

\* The row and its history line, in one transaction.
ApplyTransition ==
    /\ batch.at = "apply"
    /\ status' = [status EXCEPT ![batch.s] = batch.new]
    /\ since' = [since EXCEPT ![batch.s] = Len(trades)]
    /\ batch' = NextStrategy

EndBatch ==
    /\ batch.at = "next"
    /\ batch.todo = {}
    /\ batch' = Resting
    /\ UNCHANGED <<status, since>>

\* A query fails, or the process is restarted: nothing of the cycle is kept.
FailEvaluation ==
    /\ batch.at \notin {"idle", "next"}
    /\ batch' = NextStrategy
    /\ UNCHANGED <<status, since>>

RestartBatch ==
    /\ batch.at # "idle"
    /\ batch' = Resting
    /\ UNCHANGED <<status, since>>

TakeBatchStep ==
    \/ StartBatch \/ JudgeEviction \/ JudgeResurrection \/ ApplyTransition \/ EndBatch
    \/ \E s \in Strategies : ReadStatus(s)

SnapshotTaken ==
    /\ ~capitalKnown
    /\ capitalKnown' = TRUE
=============================================================================
