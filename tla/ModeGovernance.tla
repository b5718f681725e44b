--------------------------- MODULE ModeGovernance ----------------------------
(***************************************************************************)
(* Who decides which mode the platform trades in                           *)
(* (execution_mode_governance/main.py and its checks).                     *)
(*                                                                         *)
(* The mode is the newest row of execution_mode_state, a table that only   *)
(* grows. Requests to change it are coroutines of the API process: each    *)
(* reads the mode, and for the real mode evaluates the prerequisites table *)
(* by table, then inserts a row. There is no lock and no transaction: every*)
(* `await` is a step at which other requests, closing positions and new    *)
(* allocations come in between.                                            *)
(*                                                                         *)
(* History variable, read by no action: evidence.                          *)
(***************************************************************************)
EXTENDS Integers, Sequences, FiniteSets

CONSTANTS
    Requests,          \* slots for requests in progress
    TargetModes,       \* modes requests ask for
    Exchanges,         \* ACTIVE_EXCHANGES
    MinimumDuration,   \* DEFAULT_MINIMUM_DURATION_SECONDS, in ticks
    MinimumTrades,     \* DEFAULT_MINIMUM_TRADE_COUNT
    MaxRows,           \* bound on the rows of execution_mode_state
    MaxTrades,         \* bound on the closed positions
    MaxTime            \* bound on the clock

ASSUME RequestsAssumption        == Requests # {}
ASSUME TargetModesAssumption     == TargetModes \subseteq {"backtest", "paper", "real"}
ASSUME ExchangesAssumption       == IsFiniteSet(Exchanges)
ASSUME MinimumDurationAssumption == MinimumDuration \in Nat
ASSUME MinimumTradesAssumption   == MinimumTrades \in Nat \ {0}
ASSUME BoundsAssumption          == MaxRows \in Nat \ {0} /\ MaxTrades \in Nat /\ MaxTime \in Nat

VARIABLES
    history,     \* rows of execution_mode_state, oldest first
    trades,      \* closed positions: their mode, and the newest row when they closed
    allocated,   \* exchanges with a row in capital_allocation_config
    now,         \* the clock
    requests,    \* each request: its next step and the locals it carries
    evidence     \* history: what each row of the real mode was granted on

vars == <<history, trades, allocated, now, requests, evidence>>

Modes == {"backtest", "paper", "real"}

None == 0

-----------------------------------------------------------------------------
(* What the queries return.                                                *)

CurrentMode == history[Len(history)].mode

RowsOf(m)    == {k \in DOMAIN history : history[k].mode = m}
RowsNotOf(m) == DOMAIN history \ RowsOf(m)

Newest(rows) == IF rows = {} THEN None ELSE CHOOSE k \in rows : \A j \in rows : j <= k
Oldest(rows) == IF rows = {} THEN None ELSE CHOOSE k \in rows : \A j \in rows : k <= j

\* Mutant: the segment starts at the first row of the mode, interrupted or not.
FirstOfMode(m, last) == Oldest(RowsOf(m))

\* First row of the mode after the last row of another mode, if there was one.
SegmentStart(m, last) == Oldest({k \in RowsOf(m) : k > last})

\* Mutant: a missing segment is taken for one that starts now.
StartsNow(start) == TRUE

\* segment_start_row is None when the mode changed since it was read.
SegmentFound(start) == start # None

\* Mutant: closed positions of every mode count.
TradesOfAnyMode(m, start) == {t \in DOMAIN trades : trades[t].row >= start}

TradesSince(m, start) == {t \in DOMAIN trades : trades[t].mode = m /\ trades[t].row >= start}

\* Mutant: the loop over the exchanges forgets to clear its flag.
FlagNeverCleared == TRUE

AllocationConfigured == allocated = Exchanges

-----------------------------------------------------------------------------
(* A request.                                                              *)

Steps == {"idle", "read_mode", "context_mode", "last_different", "segment", "trades",
          "allocation", "other_facts", "insert", "accepted", "refused", "failed"}

Answers == {"accepted", "refused", "failed"}

\* From the moment the segment is known to the insertion of the row.
Evaluating == {"trades", "allocation", "other_facts"}

\* Mutant: the prerequisites apply to every mode.
EveryMode == Modes

GatedModes == {"real"}

NoRequest == [step |-> "idle", target |-> "paper", mode |-> "paper", last |-> None,
              start |-> None, at |-> 0, ok |-> TRUE, began |-> 1]

NoEvidence == [mode |-> "paper", start |-> None, at |-> 0, began |-> 1]

Init ==
    /\ history = <<[mode |-> "paper", at |-> 0]>>             \* the migration's seed
    /\ trades = <<>>
    /\ allocated \in SUBSET Exchanges
    /\ now = 0
    /\ requests = [r \in Requests |-> NoRequest]
    /\ evidence = <<NoEvidence>>

tables == <<history, trades, allocated, now, evidence>>

At(r, step) == requests[r].step = step

\* The request moves on, with the locals later steps read.
Keep(r, locals) == requests' = [requests EXCEPT ![r] = locals]

Accept(r) == Keep(r, [NoRequest EXCEPT !.step = "accepted"])

Refuse(r) == Keep(r, [NoRequest EXCEPT !.step = "refused"])

Raise(r) == Keep(r, [NoRequest EXCEPT !.step = "failed"])

\* POST /execution-mode. An invalid target is answered at once.
Ask(r, target) ==
    /\ requests[r].step \in Answers \union {"idle"}
    /\ Keep(r, [NoRequest EXCEPT !.step = "read_mode", !.target = target,
                                 !.began = Len(history)])
    /\ UNCHANGED tables

\* Nothing to do, or a wrong confirmation phrase, or on to the prerequisites; a mode
\* that adds no risk goes straight to its row.
ReadMode(r, phrase) ==
    /\ At(r, "read_mode")
    /\ LET q == requests[r] IN
       IF CurrentMode = q.target THEN Accept(r)
       ELSE IF q.target \in GatedModes /\ ~phrase THEN Refuse(r)
       ELSE Keep(r, [q EXCEPT !.step = IF q.target \in GatedModes THEN "context_mode"
                                      ELSE "insert"])
    /\ UNCHANGED tables

\* _build_governance_context reads the mode again.
ReadContextMode(r) ==
    /\ At(r, "context_mode")
    /\ Keep(r, [requests[r] EXCEPT !.step = "last_different", !.mode = CurrentMode])
    /\ UNCHANGED tables

ReadLastDifferent(r) ==
    /\ At(r, "last_different")
    /\ Keep(r, [requests[r] EXCEPT !.step = "segment", !.last = Newest(RowsNotOf(requests[r].mode))])
    /\ UNCHANGED tables

\* No such row: the subscript of None raises.
ReadSegment(r) ==
    /\ At(r, "segment")
    /\ LET start == SegmentStart(requests[r].mode, requests[r].last) IN
       IF SegmentFound(start)
       THEN Keep(r, [requests[r] EXCEPT !.step = "trades", !.start = start, !.at = now,
                                           !.last = None])
       ELSE Raise(r)
    /\ UNCHANGED tables

\* Minimum duration and minimum trade count.
ReadTrades(r) ==
    /\ At(r, "trades")
    /\ LET q == requests[r] IN
       Keep(r, [q EXCEPT !.step = "allocation",
                         !.ok = /\ q.at - history[q.start].at >= MinimumDuration
                                /\ Cardinality(TradesSince(q.mode, q.start)) >= MinimumTrades])
    /\ UNCHANGED tables

ReadAllocation(r) ==
    /\ At(r, "allocation")
    /\ Keep(r, [requests[r] EXCEPT !.step = "other_facts", !.ok = @ /\ AllocationConfigured])
    /\ UNCHANGED tables

\* Performance, age and balance of the portfolio snapshots, live-eligible strategy,
\* attestations and, last, the kill switch: favourable or not.
ReadOtherFacts(r, favourable) ==
    /\ At(r, "other_facts")
    /\ IF requests[r].ok /\ favourable
       THEN Keep(r, [requests[r] EXCEPT !.step = "insert"])
       ELSE Refuse(r)
    /\ UNCHANGED tables

InsertRow(r) ==
    /\ At(r, "insert")
    /\ Len(history) < MaxRows                                 \* bound
    /\ LET q == requests[r] IN
       /\ history' = Append(history, [mode |-> q.target, at |-> now])
       /\ evidence' = Append(evidence,
                             IF q.target = "real"
                             THEN [mode |-> q.mode, start |-> q.start, at |-> q.at, began |-> q.began]
                             ELSE NoEvidence)
       /\ Accept(r)
    /\ UNCHANGED <<trades, allocated, now>>

\* An await raised: the API answers an error.
Fail(r) ==
    /\ requests[r].step \notin Answers \union {"idle"}
    /\ Raise(r)
    /\ UNCHANGED tables

-----------------------------------------------------------------------------
(* What goes on around the requests.                                       *)

\* A position closes, in the mode it was opened in. Backtest mode opens none.
CloseTrade(mode) ==
    /\ Len(trades) < MaxTrades                                \* bound
    /\ trades' = Append(trades, [mode |-> mode, row |-> Len(history)])
    /\ UNCHANGED <<history, allocated, now, requests, evidence>>

\* POST /capital-allocation only inserts.
Allocate(exchange) ==
    /\ allocated' = allocated \union {exchange}
    /\ UNCHANGED <<history, trades, now, requests, evidence>>

Tick ==
    /\ now < MaxTime                                          \* bound
    /\ now' = now + 1
    /\ UNCHANGED <<history, trades, allocated, requests, evidence>>

Progress(r) ==
    \/ \E phrase \in BOOLEAN : ReadMode(r, phrase)
    \/ ReadContextMode(r)
    \/ ReadLastDifferent(r)
    \/ ReadSegment(r)
    \/ ReadTrades(r)
    \/ ReadAllocation(r)
    \/ \E favourable \in BOOLEAN : ReadOtherFacts(r, favourable)
    \/ InsertRow(r)

Next ==
    \/ \E r \in Requests : Progress(r) \/ Fail(r)
    \/ \E r \in Requests, target \in TargetModes : Ask(r, target)
    \/ \E mode \in {"paper", "real"} : CloseTrade(mode)
    \/ \E exchange \in Exchanges : Allocate(exchange)
    \/ Tick

\* The event loop resumes every coroutine whose await has returned.
Spec == Init /\ [][Next]_vars /\ \A r \in Requests : WF_vars(Progress(r))

-----------------------------------------------------------------------------
(* Properties.                                                             *)

Rows == 1..Len(history)

Request == [step : Steps, target : Modes, mode : Modes,
            last : Nat, start : Nat, at : 0..MaxTime, ok : BOOLEAN, began : Rows]

TypeOK ==
    /\ history \in Seq([mode : Modes, at : 0..MaxTime]) /\ Len(history) \in 1..MaxRows
    /\ trades \in Seq([mode : Modes, row : Rows]) /\ Len(trades) <= MaxTrades
    /\ allocated \subseteq Exchanges
    /\ now \in 0..MaxTime
    /\ requests \in [Requests -> Request]
    /\ \A r \in Requests : requests[r].step \in Evaluating => requests[r].start \in Rows
    /\ evidence \in Seq([mode : Modes, start : Nat, at : 0..MaxTime, began : Rows])
    /\ Len(evidence) = Len(history)

RealRows == RowsOf("real")

\* Every passage to the real mode rests on a segment of one mode that lasted the
\* minimum duration without interruption, save for what happened during the request
\* itself, and in which enough positions of that mode closed. Time or trades earned
\* before an interruption never count.
RealRowsRestOnASegment ==
    \A k \in RealRows :
        LET e == evidence[k] IN
        /\ \A j \in e.start..e.began : history[j].mode = e.mode
        /\ e.at - history[e.start].at >= MinimumDuration
        /\ Cardinality(TradesSince(e.mode, e.start)) >= MinimumTrades

\* No time spent in backtest mode opens the way to real money: the prerequisites
\* say nothing about which mode is left, but only positions of the mode count and
\* backtest opens none.
BacktestEarnsNothing == \A k \in RealRows : evidence[k].mode # "backtest"

\* In real mode every active exchange has its allocation, so that the risk engine
\* never blocks a real decision for the lack of one.
RealModeNeverLacksAnAllocation == CurrentMode = "real" => allocated = Exchanges

\* A request for a mode that adds no risk is never refused: it ends accepted, unless
\* the database fails it (main.py:12, "il doit toujours etre possible de reduire le
\* risque sans delai"). The bound on the rows is the model's.
ReducingRiskIsNeverDenied ==
    \A r \in Requests :
        At(r, "read_mode") /\ requests[r].target # "real"
            ~> At(r, "accepted") \/ At(r, "failed") \/ Len(history) = MaxRows
=============================================================================
