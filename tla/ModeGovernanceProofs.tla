------------------------ MODULE ModeGovernanceProofs -------------------------
(***************************************************************************)
(* The passage to the real mode, proved for any number of requests at once,*)
(* any set of exchanges and any prerequisites. A request reads the tables  *)
(* one after the other while they change under it; what makes its reading  *)
(* worth something in the end is that the tables only grow. The inductive  *)
(* invariant says, for each step of a request, which of its facts hold.    *)
(***************************************************************************)
EXTENDS ModeGovernance, ProofFacts

-----------------------------------------------------------------------------
(* The inductive invariant.                                                *)

\* The segment a request or a row rests on: rows of one mode, from its start to the
\* newest row when the request began.
Uninterrupted(q) == q.start \in Rows /\ \A j \in q.start..q.began : history[j].mode = q.mode

\* The minimum duration and the minimum number of trades, earned in that segment.
Earned(q) ==
    /\ q.at - history[q.start].at >= MinimumDuration
    /\ Cardinality(TradesSince(q.mode, q.start)) >= MinimumTrades

\* What a request knows at each of its steps.
Rests(q) ==
    /\ q.step = "segment" => \A j \in (q.last + 1)..q.began : history[j].mode = q.mode
    /\ q.step \in Evaluating => Uninterrupted(q)
    /\ q.step \in {"allocation", "other_facts"} /\ q.ok => Earned(q)
    /\ q.step = "other_facts" /\ q.ok => allocated = Exchanges
    /\ q.step = "insert" /\ q.target = "real" =>
           Uninterrupted(q) /\ Earned(q) /\ allocated = Exchanges

Inductive ==
    /\ TypeOK
    /\ \A t \in DOMAIN trades : trades[t].mode # "backtest"
    /\ \A r \in Requests : Rests(requests[r])
    /\ \A k \in RealRows : Uninterrupted(evidence[k]) /\ Earned(evidence[k])
    /\ RealModeNeverLacksAnAllocation

USE DEF Modes, None

-----------------------------------------------------------------------------
(* What the tables hold, and that they only grow.                          *)

\* The rows of the three tables, numbered from one.
LEMMA TableFacts ==
    ASSUME TypeOK
    PROVE  /\ Len(history) \in Nat \ {0} /\ DOMAIN history = Rows /\ Rows \subseteq Nat
           /\ \A k \in Rows : history[k].mode \in Modes /\ history[k].at \in 0..MaxTime
           /\ Len(trades) \in Nat /\ DOMAIN trades = 1..Len(trades)
           /\ \A t \in DOMAIN trades : trades[t].mode \in Modes /\ trades[t].row \in Rows
           /\ DOMAIN evidence = Rows
           /\ \A k \in Rows : evidence[k] \in [mode : Modes, start : Nat, at : 0..MaxTime, began : Rows]
<1>1. /\ history \in Seq([mode : Modes, at : 0..MaxTime]) /\ Len(history) \in 1..MaxRows
      /\ trades \in Seq([mode : Modes, row : Rows])
      /\ evidence \in Seq([mode : Modes, start : Nat, at : 0..MaxTime, began : Rows])
      /\ Len(evidence) = Len(history)
  BY DEF TypeOK
<1>2. Len(history) \in Nat \ {0} /\ Rows \subseteq Nat
  BY <1>1, BoundsAssumption DEF Rows
<1>3. /\ DOMAIN history = Rows
      /\ \A k \in Rows : history[k].mode \in Modes /\ history[k].at \in 0..MaxTime
  <2>1. DOMAIN history = Rows /\ \A k \in Rows : history[k] \in [mode : Modes, at : 0..MaxTime]
    BY <1>1, ListFacts DEF Rows
  <2> QED BY <2>1
<1>4. /\ Len(trades) \in Nat /\ DOMAIN trades = 1..Len(trades)
      /\ \A t \in DOMAIN trades : trades[t].mode \in Modes /\ trades[t].row \in Rows
  <2>1. PICK S : S = [mode : Modes, row : Rows]
    OBVIOUS
  <2>2. trades \in Seq(S)
    BY <1>1, <2>1
  <2>3. Len(trades) \in Nat /\ DOMAIN trades = 1..Len(trades) /\ \A t \in DOMAIN trades : trades[t] \in S
    BY <2>2, ListFacts
  <2> QED BY <2>1, <2>3
<1>5. /\ DOMAIN evidence = Rows
      /\ \A k \in Rows : evidence[k] \in [mode : Modes, start : Nat, at : 0..MaxTime, began : Rows]
  BY <1>1, ListFacts DEF Rows
<1> QED BY <1>2, <1>3, <1>4, <1>5

\* Trades since a row are finite in number.
LEMMA TradesAreFinite ==
    ASSUME TypeOK, NEW m, NEW start
    PROVE  /\ IsFiniteSet(TradesSince(m, start))
           /\ Cardinality(TradesSince(m, start)) \in Nat
<1>1. Len(trades) \in Nat /\ DOMAIN trades = 1..Len(trades)
  BY TableFacts
<1>2. TradesSince(m, start) \in SUBSET (1..Len(trades))
  BY <1>1 DEF TradesSince
<1>3. IsFiniteSet(1..Len(trades))
  <2>1. 1 \in Int /\ Len(trades) \in Int
    BY <1>1
  <2> QED BY <2>1, FS_Interval
<1> QED BY <1>2, <1>3, FS_Subset, FS_CardinalityType

\* No table loses or changes a row.
Grown ==
    /\ \A k \in Rows : k \in Rows' /\ history'[k] = history[k]
    /\ \A t \in DOMAIN trades : t \in DOMAIN trades' /\ trades'[t] = trades[t]
    /\ allocated \subseteq allocated'

\* The trades of a segment stay in it.
LEMMA TradesSinceGrow ==
    ASSUME TypeOK, TypeOK', Grown, NEW m, NEW start
    PROVE  /\ Cardinality(TradesSince(m, start)) \in Nat
           /\ Cardinality(TradesSince(m, start))' \in Nat
           /\ Cardinality(TradesSince(m, start)) <= Cardinality(TradesSince(m, start))'
<1>1. IsFiniteSet(TradesSince(m, start)) /\ Cardinality(TradesSince(m, start)) \in Nat
  BY TradesAreFinite
<1>2. (TypeOK => /\ IsFiniteSet(TradesSince(m, start))
                 /\ Cardinality(TradesSince(m, start)) \in Nat)'
  BY TradesAreFinite, PTL
<1>3. TradesSince(m, start) \in SUBSET TradesSince(m, start)'
  BY DEF TradesSince, Grown
<1> QED BY <1>1, <1>2, <1>3, FS_Subset

\* What a request or a row rests on stays true while the tables grow.
LEMMA FactsStay ==
    ASSUME TypeOK, TypeOK', Grown, NEW q, q.began \in Rows
    PROVE  /\ Uninterrupted(q) => Uninterrupted(q)'
           /\ Uninterrupted(q) /\ Earned(q) => Earned(q)'
           /\ q.last \in Nat /\ (\A j \in (q.last + 1)..q.began : history[j].mode = q.mode)
                => \A j \in (q.last + 1)..q.began : history'[j].mode = q.mode
<1>1. Rows \subseteq Nat /\ \A k \in Rows : 1..k \subseteq Rows
  BY TableFacts DEF Rows
<1>2. ASSUME Uninterrupted(q) PROVE Uninterrupted(q)'
  <2>1. q.start \in Rows' /\ q.start \in Rows
    BY <1>2 DEF Uninterrupted, Grown
  <2>2. \A j \in q.start..q.began : j \in Rows
    BY <1>1, <2>1 DEF Rows
  <2> QED BY <1>2, <2>1, <2>2 DEF Uninterrupted, Grown
<1>3. ASSUME Uninterrupted(q), Earned(q) PROVE Earned(q)'
  <2>1. history'[q.start] = history[q.start]
    BY <1>3 DEF Uninterrupted, Grown
  <2>2. Cardinality(TradesSince(q.mode, q.start))' >= MinimumTrades
    BY <1>3, TradesSinceGrow, MinimumTradesAssumption DEF Earned
  <2> QED BY <1>3, <2>1, <2>2 DEF Earned
<1>4. ASSUME q.last \in Nat, \A j \in (q.last + 1)..q.began : history[j].mode = q.mode
      PROVE  \A j \in (q.last + 1)..q.began : history'[j].mode = q.mode
  <2>1. \A j \in (q.last + 1)..q.began : j \in Rows
    BY <1>1, <1>4 DEF Rows
  <2> QED BY <1>4, <2>1 DEF Grown
<1> QED BY <1>2, <1>3, <1>4

\* A request that does not move keeps its facts.
LEMMA RestsStays ==
    ASSUME TypeOK, TypeOK', Grown, NEW q \in Request, Rests(q),
           q.step \in Evaluating => q.start \in Rows
    PROVE  Rests(q)'
<1>1. q.began \in Rows /\ q.last \in Nat
  BY DEF Request
<1>2. allocated = Exchanges => allocated' = Exchanges
  BY DEF Grown, TypeOK
<1>3. q.step \in {"allocation", "other_facts"} => q.step \in Evaluating
  BY DEF Evaluating
<1> QED BY <1>1, <1>2, <1>3, FactsStay DEF Rests

-----------------------------------------------------------------------------
(* The invariant holds at first.                                           *)

\* The migration's row, nothing closed, nothing asked.
LEMMA InitInductive == Init => Inductive
<1> SUFFICES ASSUME Init PROVE Inductive
  OBVIOUS
<1>1. /\ 0 \in 0..MaxTime /\ 1 \in 1..MaxRows
  BY BoundsAssumption
<1>2. /\ history = <<[mode |-> "paper", at |-> 0]>> /\ Len(history) = 1 /\ Rows = {1}
      /\ history[1].mode = "paper" /\ history[1].at = 0
  BY DEF Init, Rows
<1>3. /\ Len(trades) = 0 /\ trades \in Seq([mode : Modes, row : Rows])
      /\ DOMAIN trades = {}
  BY EmptySeq DEF Init
<1>4. /\ evidence = <<NoEvidence>> /\ Len(evidence) = 1
      /\ evidence \in Seq([mode : Modes, start : Nat, at : 0..MaxTime, began : Rows])
  <2>1. NoEvidence \in [mode : Modes, start : Nat, at : 0..MaxTime, began : Rows]
    BY <1>1, <1>2 DEF NoEvidence
  <2> QED BY <2>1 DEF Init
<1>5. NoRequest \in Request /\ NoRequest.step = "idle"
  BY <1>1, <1>2 DEF NoRequest, Request, Steps
<1>6. TypeOK
  <2>1. history \in Seq([mode : Modes, at : 0..MaxTime])
    BY <1>1, <1>2
  <2>2. requests \in [Requests -> Request] /\ \A r \in Requests : requests[r].step = "idle"
    BY <1>5 DEF Init
  <2>3. \A r \in Requests : requests[r].step \in Evaluating => requests[r].start \in Rows
    BY <2>2 DEF Evaluating
  <2>4. Len(history) \in 1..MaxRows /\ Len(trades) <= MaxTrades /\ Len(evidence) = Len(history)
    BY <1>1, <1>2, <1>3, <1>4, BoundsAssumption
  <2>5. allocated \subseteq Exchanges /\ now \in 0..MaxTime
    BY <1>1 DEF Init
  <2> QED BY <1>3, <1>4, <2>1, <2>2, <2>3, <2>4, <2>5 DEF TypeOK
<1>7. \A r \in Requests : Rests(requests[r])
  BY <1>5 DEF Init, Rests, Evaluating
<1>8. RealRows = {} /\ RealModeNeverLacksAnAllocation
  BY <1>2 DEF RealRows, RowsOf, RealModeNeverLacksAnAllocation, CurrentMode
<1> QED BY <1>3, <1>6, <1>7, <1>8 DEF Inductive

-----------------------------------------------------------------------------
(* The steps of a request that read.                                       *)

\* A request moves on with locals that rest on the tables, and the tables stay.
LEMMA RequestMoves ==
    ASSUME Inductive, NEW r \in Requests, NEW q, Keep(r, q), UNCHANGED tables,
           q \in Request, Rests(q), q.step \in Evaluating => q.start \in Rows
    PROVE  Inductive'
<1>1. /\ history' = history /\ trades' = trades /\ allocated' = allocated /\ now' = now
      /\ evidence' = evidence
  BY DEF tables
<1>2. Rows' = Rows /\ Request' = Request /\ RealRows' = RealRows
  BY <1>1 DEF Rows, Request, RealRows, RowsOf
<1>3. requests \in [Requests -> Request]
  BY DEF Inductive, TypeOK
<1>4. /\ requests' \in [Requests -> Request]
      /\ requests'[r] = q /\ \A s \in Requests \ {r} : requests'[s] = requests[s]
  BY <1>3 DEF Keep
<1>5. \A s \in Requests : requests'[s].step \in Evaluating => requests'[s].start \in Rows
  BY <1>4 DEF Inductive, TypeOK
<1>6. TypeOK'
  BY <1>1, <1>2, <1>4, <1>5 DEF Inductive, TypeOK
<1>7. \A p : /\ Uninterrupted(p)' <=> Uninterrupted(p)
             /\ Earned(p)' <=> Earned(p)
  BY <1>1, <1>2 DEF Uninterrupted, Earned, TradesSince
<1>8. \A p : Rests(p)' <=> Rests(p)
  BY <1>1, <1>7 DEF Rests
<1>9. \A s \in Requests : Rests(requests[s])'
  <2>1. SUFFICES ASSUME NEW s \in Requests, NEW p, p = requests'[s] PROVE Rests(p)'
    BY DEF Rests, Uninterrupted, Earned
  <2>2. Rests(p)
    BY <1>4, <2>1 DEF Inductive
  <2> QED BY <1>8, <2>2
<1>10. \A k \in RealRows' : Uninterrupted(evidence[k])' /\ Earned(evidence[k])'
  BY <1>1, <1>2, <1>7 DEF Inductive, Uninterrupted, Earned, TradesSince
<1>11. RealModeNeverLacksAnAllocation'
  BY <1>1 DEF Inductive, RealModeNeverLacksAnAllocation, CurrentMode
<1> QED BY <1>1, <1>6, <1>9, <1>10, <1>11 DEF Inductive

\* The request as it stands: typed, and resting on what it has read.
LEMMA RequestAtHand ==
    ASSUME Inductive, NEW r \in Requests
    PROVE  /\ requests[r] \in Request /\ Rests(requests[r])
           /\ requests[r].step \in Evaluating => requests[r].start \in Rows
BY DEF Inductive, TypeOK

\* An answer, or a new request, carries nothing that could be wrong.
LEMMA AnswerKept ==
    ASSUME Inductive, NEW r \in Requests, UNCHANGED tables,
           Accept(r) \/ Refuse(r) \/ Raise(r)
    PROVE  Inductive'
<1>1. 0 \in 0..MaxTime /\ 1 \in Rows
  BY TableFacts, BoundsAssumption DEF Inductive, Rows
<1>2. ASSUME NEW s \in Answers, Keep(r, [NoRequest EXCEPT !.step = s]) PROVE Inductive'
  <2>1. PICK q : q = [NoRequest EXCEPT !.step = s]
    OBVIOUS
  <2>2. q \in Request /\ q.step = s
    BY <1>1, <2>1 DEF NoRequest, Request, Answers, Steps
  <2>3. Rests(q) /\ q.step \notin Evaluating
    BY <2>2 DEF Rests, Answers, Evaluating
  <2> QED BY <1>2, <2>1, <2>2, <2>3, RequestMoves
<1> QED BY <1>2 DEF Accept, Refuse, Raise, Answers

\* A request begins: the rows of the table are counted from here.
LEMMA AskKept ==
    ASSUME Inductive, NEW r \in Requests, NEW target \in TargetModes, Ask(r, target)
    PROVE  Inductive'
<1>1. 0 \in 0..MaxTime /\ Len(history) \in Rows
  BY TableFacts, BoundsAssumption DEF Inductive, Rows
<1>2. PICK q : q = [NoRequest EXCEPT !.step = "read_mode", !.target = target, !.began = Len(history)]
  OBVIOUS
<1>3. q \in Request /\ q.step = "read_mode"
  BY <1>1, <1>2, TargetModesAssumption DEF NoRequest, Request, Steps
<1>4. Rests(q) /\ q.step \notin Evaluating
  BY <1>3 DEF Rests, Evaluating
<1> QED BY <1>2, <1>3, <1>4, RequestMoves DEF Ask

\* The mode of the moment is compared with the one asked for.
LEMMA ReadModeKept ==
    ASSUME Inductive, NEW r \in Requests, NEW phrase \in BOOLEAN, ReadMode(r, phrase)
    PROVE  Inductive'
<1>1. PICK q \in Request : q = requests[r]
  BY RequestAtHand
<1>2. CASE Accept(r) \/ Refuse(r)
  BY <1>2, AnswerKept DEF ReadMode
<1>3. CASE Keep(r, [q EXCEPT !.step = IF q.target \in GatedModes THEN "context_mode" ELSE "insert"])
  <2>1. PICK s \in {"context_mode", "insert"} :
            s = IF q.target \in GatedModes THEN "context_mode" ELSE "insert"
    OBVIOUS
  <2>2. PICK p : p = [q EXCEPT !.step = s]
    OBVIOUS
  <2>3. p \in Request /\ p.step = s /\ p.target = q.target
    BY <2>2 DEF Request, Steps
  <2>4. Rests(p) /\ p.step \notin Evaluating
    BY <2>1, <2>3 DEF Rests, Evaluating, GatedModes
  <2> QED BY <1>3, <2>1, <2>2, <2>3, <2>4, RequestMoves DEF ReadMode
<1> QED BY <1>1, <1>2, <1>3 DEF ReadMode

\* The context is built for the mode read a second time.
LEMMA ReadContextModeKept ==
    ASSUME Inductive, NEW r \in Requests, ReadContextMode(r)
    PROVE  Inductive'
<1>1. PICK q \in Request : q = requests[r]
  BY RequestAtHand
<1>2. CurrentMode \in Modes
  BY TableFacts DEF Inductive, CurrentMode, Rows
<1>3. PICK p : p = [q EXCEPT !.step = "last_different", !.mode = CurrentMode]
  OBVIOUS
<1>4. p \in Request /\ p.step = "last_different"
  BY <1>2, <1>3 DEF Request, Steps
<1>5. Rests(p) /\ p.step \notin Evaluating
  BY <1>4 DEF Rests, Evaluating
<1> QED BY <1>1, <1>3, <1>4, <1>5, RequestMoves DEF ReadContextMode

\* The newest row of a set is the greatest, the oldest the least, and none is none.
LEMMA NewestAndOldest ==
    ASSUME TypeOK, NEW rows \in SUBSET Rows
    PROVE  /\ Newest(rows) \in Nat /\ Oldest(rows) \in Nat
           /\ \A k \in rows : k <= Newest(rows)
           /\ Oldest(rows) # None => Oldest(rows) \in rows
<1>1. Len(history) \in Nat /\ rows \in SUBSET (0..Len(history)) /\ rows \subseteq Nat
  BY TableFacts DEF Rows
<1>2. CASE rows = {}
  BY <1>2 DEF Newest, Oldest
<1>3. CASE rows # {}
  <2>1. \E k \in rows : \A j \in rows : j <= k
    BY <1>1, <1>3, GreatestNumber
  <2>2. \E k \in rows : \A j \in rows : k <= j
    BY <1>1, <1>3, LeastNumber
  <2>3. Newest(rows) \in rows /\ \A j \in rows : j <= Newest(rows)
    BY <1>3, <2>1 DEF Newest
  <2>4. Oldest(rows) \in rows
    BY <1>3, <2>2 DEF Oldest
  <2> QED BY <1>1, <2>3, <2>4
<1> QED BY <1>2, <1>3

\* After the last row of another mode, every row is of the mode.
LEMMA ReadLastDifferentKept ==
    ASSUME Inductive, NEW r \in Requests, ReadLastDifferent(r)
    PROVE  Inductive'
<1>1. PICK q \in Request : q = requests[r]
  BY RequestAtHand
<1>2. PICK last : last = Newest(RowsNotOf(q.mode))
  OBVIOUS
<1>3. RowsNotOf(q.mode) \in SUBSET Rows /\ \A k \in Rows \ RowsNotOf(q.mode) : history[k].mode = q.mode
  BY TableFacts DEF Inductive, RowsNotOf, RowsOf
<1>4. last \in Nat /\ \A k \in RowsNotOf(q.mode) : k <= last
  BY <1>2, <1>3, NewestAndOldest DEF Inductive
<1>5. PICK p : p = [q EXCEPT !.step = "segment", !.last = last]
  OBVIOUS
<1>6. p \in Request /\ p.step = "segment" /\ p.last = last /\ p.mode = q.mode /\ p.began \in Rows
  BY <1>4, <1>5 DEF Request, Steps
<1>7. \A j \in (p.last + 1)..p.began : history[j].mode = p.mode
  <2> SUFFICES ASSUME NEW j \in (p.last + 1)..p.began PROVE history[j].mode = p.mode
    OBVIOUS
  <2>1. p.began \in Nat /\ p.began <= Len(history) /\ Len(history) \in Nat
    BY <1>6, TableFacts DEF Inductive, Rows
  <2>2. j \in Rows /\ ~(j <= last)
    BY <1>4, <1>6, <2>1 DEF Rows
  <2> QED BY <1>3, <1>4, <1>6, <2>2
<1>8. Rests(p) /\ p.step \notin Evaluating
  BY <1>6, <1>7 DEF Rests, Evaluating
<1> QED BY <1>1, <1>2, <1>5, <1>6, <1>8, RequestMoves DEF ReadLastDifferent

\* The segment starts after that row, so no row of another mode is in it.
LEMMA ReadSegmentKept ==
    ASSUME Inductive, NEW r \in Requests, ReadSegment(r)
    PROVE  Inductive'
<1>1. PICK q \in Request : q = requests[r] /\ Rests(q) /\ q.step = "segment"
  BY RequestAtHand DEF ReadSegment, At
<1>2. PICK start : start = SegmentStart(q.mode, q.last)
  OBVIOUS
<1>3. CASE ~SegmentFound(start)
  BY <1>1, <1>2, <1>3, AnswerKept DEF ReadSegment
<1>4. CASE SegmentFound(start)
  <2>1. {k \in RowsOf(q.mode) : k > q.last} \in SUBSET Rows
    BY TableFacts DEF Inductive, RowsOf
  <2>2. start \in Rows /\ start > q.last
    BY <1>2, <1>4, <2>1, NewestAndOldest DEF Inductive, SegmentStart, SegmentFound
  <2>3. now \in 0..MaxTime
    BY DEF Inductive, TypeOK
  <2>4. PICK p : p = [q EXCEPT !.step = "trades", !.start = start, !.at = now, !.last = None]
    OBVIOUS
  <2>5. /\ p \in Request /\ p.step = "trades" /\ p.start = start /\ p.mode = q.mode
        /\ p.began = q.began
    BY <2>2, <2>3, <2>4, TableFacts DEF Inductive, Request, Steps
  <2>6. Uninterrupted(p)
    <3>1. q.last \in Nat /\ start \in Nat /\ q.began \in Nat
      BY <2>2, TableFacts DEF Inductive, Request
    <3>2. start..q.began \subseteq (q.last + 1)..q.began
      BY <2>2, <3>1
    <3>3. \A j \in (q.last + 1)..q.began : history[j].mode = q.mode
      BY <1>1 DEF Rests
    <3> QED BY <2>2, <2>5, <3>2, <3>3 DEF Uninterrupted
  <2>7. Rests(p)
    BY <2>5, <2>6 DEF Rests, Evaluating
  <2> QED BY <1>1, <1>2, <1>4, <2>2, <2>4, <2>5, <2>7, RequestMoves DEF ReadSegment
<1> QED BY <1>3, <1>4

\* What a request read stays with it whatever else it reads.
LEMMA SegmentAtHand ==
    ASSUME Inductive, NEW q, Rests(q), q.step \in Evaluating
    PROVE  Uninterrupted(q)
BY DEF Rests

\* Duration and trades are judged on the segment.
LEMMA ReadTradesKept ==
    ASSUME Inductive, NEW r \in Requests, ReadTrades(r)
    PROVE  Inductive'
<1>1. PICK q \in Request : q = requests[r] /\ Rests(q) /\ q.step = "trades"
  BY RequestAtHand DEF ReadTrades, At
<1>2. PICK ok \in BOOLEAN : ok <=> Earned(q)
  OBVIOUS
<1>3. PICK p : p = [q EXCEPT !.step = "allocation", !.ok = ok]
  OBVIOUS
<1>4. /\ p \in Request /\ p.step = "allocation" /\ p.ok = ok
      /\ p.mode = q.mode /\ p.start = q.start /\ p.at = q.at /\ p.began = q.began
  BY <1>3 DEF Request, Steps
<1>5. Keep(r, p)
  <2>1. ok = (/\ q.at - history[q.start].at >= MinimumDuration
              /\ Cardinality(TradesSince(q.mode, q.start)) >= MinimumTrades)
    BY <1>2 DEF Earned
  <2> QED BY <1>1, <1>3, <2>1 DEF ReadTrades
<1>6. Uninterrupted(q)
  BY <1>1, SegmentAtHand DEF Evaluating
<1>7. Uninterrupted(p)
  BY <1>4, <1>6 DEF Uninterrupted
<1>8. p.ok => Earned(p)
  BY <1>2, <1>4 DEF Earned
<1>9. Rests(p)
  BY <1>4, <1>7, <1>8 DEF Rests, Evaluating
<1> QED BY <1>4, <1>5, <1>7, <1>9, RequestMoves DEF ReadTrades, Uninterrupted

\* Then the allocations of the exchanges.
LEMMA ReadAllocationKept ==
    ASSUME Inductive, NEW r \in Requests, ReadAllocation(r)
    PROVE  Inductive'
<1>1. PICK q \in Request : q = requests[r] /\ Rests(q) /\ q.step = "allocation"
  BY RequestAtHand DEF ReadAllocation, At
<1>2. PICK ok \in BOOLEAN : ok = (q.ok /\ AllocationConfigured)
  BY DEF Request
<1>3. PICK p : p = [q EXCEPT !.step = "other_facts", !.ok = ok]
  OBVIOUS
<1>4. /\ p \in Request /\ p.step = "other_facts" /\ p.ok = ok
      /\ p.mode = q.mode /\ p.start = q.start /\ p.at = q.at /\ p.began = q.began
  BY <1>3 DEF Request, Steps
<1>5. Keep(r, p)
  BY <1>1, <1>2, <1>3 DEF ReadAllocation
<1>6. Uninterrupted(q)
  BY <1>1, SegmentAtHand DEF Evaluating
<1>7. Uninterrupted(p)
  BY <1>4, <1>6 DEF Uninterrupted
<1>8. p.ok => Earned(p) /\ allocated = Exchanges
  BY <1>1, <1>2, <1>4 DEF Rests, Earned, AllocationConfigured
<1>9. Rests(p)
  BY <1>4, <1>7, <1>8 DEF Rests, Evaluating
<1> QED BY <1>4, <1>5, <1>7, <1>9, RequestMoves DEF ReadAllocation, Uninterrupted

\* The last prerequisites refuse the request, or let it insert its row.
LEMMA ReadOtherFactsKept ==
    ASSUME Inductive, NEW r \in Requests, NEW favourable \in BOOLEAN, ReadOtherFacts(r, favourable)
    PROVE  Inductive'
<1>1. PICK q \in Request : q = requests[r] /\ Rests(q) /\ q.step = "other_facts"
  BY RequestAtHand DEF ReadOtherFacts, At
<1>2. CASE Refuse(r)
  BY <1>2, AnswerKept DEF ReadOtherFacts
<1>3. CASE q.ok /\ Keep(r, [q EXCEPT !.step = "insert"])
  <2>1. PICK p : p = [q EXCEPT !.step = "insert"]
    OBVIOUS
  <2>2. /\ p \in Request /\ p.step = "insert"
        /\ p.mode = q.mode /\ p.start = q.start /\ p.at = q.at /\ p.began = q.began
    BY <2>1 DEF Request, Steps
  <2>3. Uninterrupted(q) /\ Earned(q) /\ allocated = Exchanges
    BY <1>1, <1>3, SegmentAtHand DEF Rests, Evaluating
  <2>4. Uninterrupted(p) /\ Earned(p)
    BY <2>2, <2>3 DEF Uninterrupted, Earned
  <2>5. Rests(p) /\ p.step \notin Evaluating
    BY <2>2, <2>3, <2>4 DEF Rests, Evaluating
  <2> QED BY <1>3, <2>1, <2>2, <2>5, RequestMoves DEF ReadOtherFacts
<1> QED BY <1>1, <1>2, <1>3 DEF ReadOtherFacts

-----------------------------------------------------------------------------
(* The steps that change the tables.                                       *)

\* The tables grow; whatever row of the real mode they gain rests on a segment, and
\* no request moves except to its answer.
LEMMA GrownKept ==
    ASSUME Inductive, TypeOK', Grown,
           \A t \in DOMAIN trades' : trades'[t].mode # "backtest",
           RealModeNeverLacksAnAllocation',
           \A s \in Requests : requests'[s] = requests[s] \/ requests'[s].step \in Answers,
           \A k \in RealRows' : \E e : /\ e = evidence'[k] /\ e.began \in Rows
                                       /\ Uninterrupted(e) /\ Earned(e)
    PROVE  Inductive'
<1>1. \A s \in Requests : Rests(requests[s])'
  <2> SUFFICES ASSUME NEW s \in Requests, NEW p, p = requests'[s] PROVE Rests(p)'
    BY DEF Rests, Uninterrupted, Earned
  <2>1. CASE requests'[s] = requests[s]
    <3>1. p \in Request /\ Rests(p) /\ (p.step \in Evaluating => p.start \in Rows)
      BY <2>1, RequestAtHand
    <3> QED BY <3>1, RestsStays DEF Inductive
  <2>2. CASE p.step \in Answers
    BY <2>2 DEF Rests, Answers, Evaluating
  <2> QED BY <2>1, <2>2
<1>2. \A k \in RealRows' : Uninterrupted(evidence[k])' /\ Earned(evidence[k])'
  <2> SUFFICES ASSUME NEW k \in RealRows' PROVE Uninterrupted(evidence[k])' /\ Earned(evidence[k])'
    OBVIOUS
  <2>1. PICK e : e = evidence'[k] /\ e.began \in Rows /\ Uninterrupted(e) /\ Earned(e)
    OBVIOUS
  <2>2. Uninterrupted(e)' /\ Earned(e)'
    BY <2>1, FactsStay DEF Inductive
  <2> QED BY <2>1, <2>2 DEF Uninterrupted, Earned
<1> QED BY <1>1, <1>2 DEF Inductive

\* The newest row is inserted: for the real mode, on what its request has verified.
LEMMA InsertRowKept ==
    ASSUME Inductive, NEW r \in Requests, InsertRow(r)
    PROVE  Inductive'
<1>1. PICK q \in Request : q = requests[r] /\ Rests(q) /\ q.step = "insert"
  BY RequestAtHand DEF InsertRow, At
<1>2. PICK row \in [mode : Modes, at : 0..MaxTime] : row = [mode |-> q.target, at |-> now]
  BY DEF Inductive, TypeOK, Request
<1>3. PICK e \in [mode : Modes, start : Nat, at : 0..MaxTime, began : Rows] :
          e = IF q.target = "real"
              THEN [mode |-> q.mode, start |-> q.start, at |-> q.at, began |-> q.began]
              ELSE NoEvidence
  <2>1. NoEvidence \in [mode : Modes, start : Nat, at : 0..MaxTime, began : Rows]
    BY TableFacts, BoundsAssumption DEF Inductive, NoEvidence, Rows
  <2>2. [mode |-> q.mode, start |-> q.start, at |-> q.at, began |-> q.began]
            \in [mode : Modes, start : Nat, at : 0..MaxTime, began : Rows]
    BY DEF Request
  <2> QED BY <2>1, <2>2
<1>4. /\ history' = Append(history, row) /\ evidence' = Append(evidence, e)
      /\ trades' = trades /\ allocated' = allocated /\ now' = now
      /\ Len(history) < MaxRows /\ Accept(r)
  BY <1>1, <1>2, <1>3 DEF InsertRow
<1>5. /\ history' \in Seq([mode : Modes, at : 0..MaxTime]) /\ Len(history') = Len(history) + 1
      /\ \A k \in Rows : history'[k] = history[k]
      /\ history'[Len(history) + 1] = row
  BY <1>2, <1>4, AppendFacts DEF Inductive, TypeOK, Rows
<1>6. Rows \subseteq Rows' /\ Rows' = Rows \union {Len(history) + 1} /\ Len(history') \in 1..MaxRows
  <2>1. PICK n \in Nat \ {0} : n = Len(history) /\ n < MaxRows /\ Len(history') = n + 1
    BY <1>4, <1>5, TableFacts DEF Inductive
  <2>2. 1..n \subseteq 1..(n + 1) /\ 1..(n + 1) = 1..n \union {n + 1} /\ n + 1 \in 1..MaxRows
    BY <2>1, BoundsAssumption
  <2> QED BY <2>1, <2>2 DEF Rows
<1>7. /\ evidence' \in Seq([mode : Modes, start : Nat, at : 0..MaxTime, began : Rows])
      /\ Len(evidence') = Len(history') /\ evidence'[Len(history) + 1] = e
      /\ \A k \in Rows : evidence'[k] = evidence[k]
  <2>1. PICK S : S = [mode : Modes, start : Nat, at : 0..MaxTime, began : Rows]
    OBVIOUS
  <2>2. evidence \in Seq(S) /\ e \in S /\ Len(evidence) = Len(history)
    BY <2>1 DEF Inductive, TypeOK
  <2>3. /\ Append(evidence, e) \in Seq(S) /\ Len(Append(evidence, e)) = Len(history) + 1
        /\ \A k \in 1..Len(history) : Append(evidence, e)[k] = evidence[k]
        /\ Append(evidence, e)[Len(history) + 1] = e
    BY <2>2, AppendFacts
  <2> QED BY <1>4, <1>5, <2>1, <2>3 DEF Rows
<1>8. /\ [mode : Modes, row : Rows] \subseteq [mode : Modes, row : Rows']
      /\ Request \subseteq Request'
      /\ [mode : Modes, start : Nat, at : 0..MaxTime, began : Rows]
             \subseteq [mode : Modes, start : Nat, at : 0..MaxTime, began : Rows']
  BY <1>6 DEF Request
<1>9. PICK p \in Request : p = [NoRequest EXCEPT !.step = "accepted"] /\ p.step = "accepted"
  <2>1. 0 \in 0..MaxTime /\ 1 \in Rows
    BY TableFacts, BoundsAssumption DEF Inductive, Rows
  <2>2. PICK p : p = [NoRequest EXCEPT !.step = "accepted"]
    OBVIOUS
  <2>3. p \in Request /\ p.step = "accepted"
    BY <2>1, <2>2 DEF NoRequest, Request, Steps
  <2> QED BY <2>2, <2>3
<1>10. /\ requests' \in [Requests -> Request]
       /\ requests'[r] = p /\ \A s \in Requests \ {r} : requests'[s] = requests[s]
  BY <1>4, <1>9 DEF Accept, Keep, Inductive, TypeOK
<1>11. TypeOK'
  <2>1. evidence' \in Seq([mode : Modes, start : Nat, at : 0..MaxTime, began : Rows'])
    BY <1>7, <1>8, SeqMonotonic
  <2>2. trades' \in Seq([mode : Modes, row : Rows'])
    BY <1>4, <1>8, SeqMonotonic DEF Inductive, TypeOK
  <2>3. requests' \in [Requests -> Request']
    BY <1>8, <1>10
  <2>4. \A s \in Requests : requests'[s].step \in Evaluating => requests'[s].start \in Rows'
    BY <1>6, <1>9, <1>10 DEF Evaluating, Inductive, TypeOK
  <2> QED BY <1>4, <1>5, <1>6, <1>7, <2>1, <2>2, <2>3, <2>4 DEF Inductive, TypeOK
<1>12. Grown
  BY <1>4, <1>5, <1>6 DEF Grown
<1>13. q.target = "real" => /\ Uninterrupted(e) /\ Earned(e) /\ allocated = Exchanges
  <2> SUFFICES ASSUME q.target = "real"
               PROVE  Uninterrupted(e) /\ Earned(e) /\ allocated = Exchanges
    OBVIOUS
  <2>1. Uninterrupted(q) /\ Earned(q) /\ allocated = Exchanges
    BY <1>1 DEF Rests
  <2>2. e.mode = q.mode /\ e.start = q.start /\ e.at = q.at /\ e.began = q.began
    BY <1>3
  <2> QED BY <2>1, <2>2 DEF Uninterrupted, Earned
<1>14. RealModeNeverLacksAnAllocation'
  <2>1. CurrentMode' = q.target
    BY <1>2, <1>5 DEF CurrentMode
  <2> QED BY <1>4, <1>13, <2>1 DEF RealModeNeverLacksAnAllocation
<1>15. ASSUME NEW k \in RealRows'
       PROVE  \E f : f = evidence'[k] /\ f.began \in Rows /\ Uninterrupted(f) /\ Earned(f)
  <2>1. k \in Rows' /\ history'[k].mode = "real"
    BY <1>11, TableFacts, <1>5 DEF RealRows, RowsOf, Rows
  <2>2. CASE k \in Rows
    <3>1. k \in RealRows
      BY <1>5, <2>1, <2>2, TableFacts DEF Inductive, RealRows, RowsOf
    <3>2. evidence[k].began \in Rows
      BY <2>2, TableFacts DEF Inductive
    <3> QED BY <1>7, <2>2, <3>1, <3>2 DEF Inductive
  <2>3. CASE k = Len(history) + 1
    BY <1>2, <1>5, <1>7, <1>13, <2>1, <2>3
  <2> QED BY <1>6, <2>1, <2>2, <2>3
<1>16. \A s \in Requests : requests'[s] = requests[s] \/ requests'[s].step \in Answers
  BY <1>9, <1>10 DEF Answers
<1> QED BY <1>4, <1>11, <1>12, <1>14, <1>15, <1>16, GrownKept DEF Inductive

\* A position closes: one more trade, of a mode that trades.
LEMMA CloseTradeKept ==
    ASSUME Inductive, NEW m \in {"paper", "real"}, CloseTrade(m)
    PROVE  Inductive'
<1>1. /\ history' = history /\ allocated' = allocated /\ now' = now /\ requests' = requests
      /\ evidence' = evidence /\ Len(trades) < MaxTrades
  BY DEF CloseTrade
<1>2. Rows' = Rows /\ Request' = Request /\ RealRows' = RealRows
  BY <1>1 DEF Rows, Request, RealRows, RowsOf
<1>3. PICK row \in [mode : Modes, row : Rows] : row = [mode |-> m, row |-> Len(history)]
  <2>1. Len(history) \in Rows
    BY TableFacts DEF Inductive, Rows
  <2> QED BY <2>1
<1>4. /\ trades' \in Seq([mode : Modes, row : Rows]) /\ Len(trades') = Len(trades) + 1
      /\ DOMAIN trades' = 1..(Len(trades) + 1) /\ DOMAIN trades = 1..Len(trades)
      /\ Len(trades) \in Nat
      /\ \A t \in DOMAIN trades : trades'[t] = trades[t]
      /\ trades'[Len(trades) + 1] = row
  <2>1. PICK S : S = [mode : Modes, row : Rows]
    OBVIOUS
  <2>2. trades \in Seq(S) /\ row \in S /\ trades' = Append(trades, row)
    BY <1>3, <2>1 DEF Inductive, TypeOK, CloseTrade
  <2>3. DOMAIN trades = 1..Len(trades) /\ Len(trades) \in Nat
    BY TableFacts DEF Inductive
  <2> QED BY <2>1, <2>2, <2>3, AppendFacts
<1>5. TypeOK'
  <2>1. Len(trades') <= MaxTrades
    BY <1>1, <1>4, BoundsAssumption
  <2> QED BY <1>1, <1>2, <1>4, <2>1 DEF Inductive, TypeOK
<1>6. Grown
  BY <1>1, <1>2, <1>4 DEF Grown
<1>7. \A t \in DOMAIN trades' : trades'[t].mode # "backtest"
  BY <1>3, <1>4 DEF Inductive
<1>8. RealModeNeverLacksAnAllocation'
  BY <1>1 DEF Inductive, RealModeNeverLacksAnAllocation, CurrentMode
<1>9. \A k \in RealRows' : \E e : e = evidence'[k] /\ e.began \in Rows /\ Uninterrupted(e) /\ Earned(e)
  BY <1>1, <1>2, TableFacts DEF Inductive, RealRows, RowsOf
<1> QED BY <1>1, <1>5, <1>6, <1>7, <1>8, <1>9, GrownKept

\* An allocation is added, or time passes.
LEMMA AroundKept ==
    ASSUME Inductive, Tick \/ \E exchange \in Exchanges : Allocate(exchange)
    PROVE  Inductive'
<1>1. /\ history' = history /\ trades' = trades /\ requests' = requests /\ evidence' = evidence
      /\ allocated \subseteq allocated'
      /\ allocated' \subseteq Exchanges
  BY DEF Tick, Allocate, Inductive, TypeOK
<1>2. now' \in 0..MaxTime
  BY BoundsAssumption DEF Tick, Allocate, Inductive, TypeOK
<1>3. Rows' = Rows /\ Request' = Request /\ RealRows' = RealRows
  BY <1>1 DEF Rows, Request, RealRows, RowsOf
<1>4. TypeOK'
  BY <1>1, <1>2, <1>3 DEF Inductive, TypeOK
<1>5. Grown
  BY <1>1, <1>3 DEF Grown
<1>6. RealModeNeverLacksAnAllocation'
  BY <1>1 DEF Inductive, RealModeNeverLacksAnAllocation, CurrentMode
<1>7. \A k \in RealRows' : \E e : e = evidence'[k] /\ e.began \in Rows /\ Uninterrupted(e) /\ Earned(e)
  BY <1>1, <1>3, TableFacts DEF Inductive, RealRows, RowsOf
<1> QED BY <1>1, <1>4, <1>5, <1>6, <1>7, GrownKept DEF Inductive

\* A step that changes nothing changes nothing.
LEMMA StutterKept == Inductive /\ UNCHANGED vars => Inductive'
<1> SUFFICES ASSUME Inductive, UNCHANGED vars PROVE Inductive'
  OBVIOUS
<1>1. /\ history' = history /\ trades' = trades /\ requests' = requests /\ evidence' = evidence
      /\ allocated' = allocated /\ now' = now
  BY DEF vars
<1>2. Rows' = Rows /\ Request' = Request /\ RealRows' = RealRows
  BY <1>1 DEF Rows, Request, RealRows, RowsOf
<1>3. TypeOK'
  BY <1>1, <1>2 DEF Inductive, TypeOK
<1>4. Grown
  BY <1>1, <1>2 DEF Grown
<1>5. RealModeNeverLacksAnAllocation'
  BY <1>1 DEF Inductive, RealModeNeverLacksAnAllocation, CurrentMode
<1>6. \A k \in RealRows' : \E e : e = evidence'[k] /\ e.began \in Rows /\ Uninterrupted(e) /\ Earned(e)
  BY <1>1, <1>2, TableFacts DEF Inductive, RealRows, RowsOf
<1> QED BY <1>1, <1>3, <1>4, <1>5, <1>6, GrownKept DEF Inductive

\* Every step preserves the invariant.
LEMMA InductiveKept == Inductive /\ [Next]_vars => Inductive'
<1> SUFFICES ASSUME Inductive, [Next]_vars PROVE Inductive'
  OBVIOUS
<1>1. ASSUME NEW r \in Requests, Progress(r) PROVE Inductive'
  BY <1>1, ReadModeKept, ReadContextModeKept, ReadLastDifferentKept, ReadSegmentKept,
     ReadTradesKept, ReadAllocationKept, ReadOtherFactsKept, InsertRowKept DEF Progress
<1>2. ASSUME NEW r \in Requests, Fail(r) PROVE Inductive'
  BY <1>2, AnswerKept DEF Fail
<1> QED BY <1>1, <1>2, AskKept, CloseTradeKept, AroundKept, StutterKept DEF Next

\* The invariant holds in every state, however the requests interleave.
LEMMA InductiveHolds == Spec => []Inductive
BY InitInductive, InductiveKept, PTL DEF Spec

-----------------------------------------------------------------------------
(* The theorems.                                                           *)

\* The types of the tables and of what each request carries.
THEOREM TypeCorrectness == Spec => []TypeOK
<1>1. Inductive => TypeOK
  BY DEF Inductive
<1> QED BY <1>1, InductiveHolds, PTL

\* Every row of the real mode rests on one uninterrupted segment that earned it, save
\* for what happened during the request itself.
THEOREM RealRowsAreEarned == Spec => []RealRowsRestOnASegment
<1>1. Inductive => RealRowsRestOnASegment
  BY DEF Inductive, RealRowsRestOnASegment, Uninterrupted, Earned
<1> QED BY <1>1, InductiveHolds, PTL

\* No row of the real mode was granted on time spent in backtest: at least one trade
\* is asked for, and backtest closes none.
THEOREM NothingEarnedInBacktest == Spec => []BacktestEarnsNothing
<1>1. Inductive => BacktestEarnsNothing
  <2> SUFFICES ASSUME Inductive, NEW k \in RealRows PROVE evidence[k].mode # "backtest"
    BY DEF BacktestEarnsNothing
  <2>1. PICK e : e = evidence[k]
    OBVIOUS
  <2>2. Cardinality(TradesSince(e.mode, e.start)) >= MinimumTrades
    BY <2>1 DEF Inductive, Earned
  <2>3. TradesSince(e.mode, e.start) # {}
    BY <2>2, MinimumTradesAssumption, FS_EmptySet
  <2>4. PICK t \in DOMAIN trades : trades[t].mode = e.mode
    BY <2>3 DEF TradesSince
  <2> QED BY <2>1, <2>4 DEF Inductive
<1> QED BY <1>1, InductiveHolds, PTL

\* The real mode never lacks the allocation of an exchange.
THEOREM AllocationsPrecedeRealMode == Spec => []RealModeNeverLacksAnAllocation
<1>1. Inductive => RealModeNeverLacksAnAllocation
  BY DEF Inductive
<1> QED BY <1>1, InductiveHolds, PTL
-----------------------------------------------------------------------------
(* Reducing risk: which requests the prerequisites are for.                *)

\* The steps at which a request is being judged.
Judging == {"context_mode", "last_different", "segment"} \union Evaluating

OnlyRealIsJudged ==
    \A r \in Requests : requests[r].step \in Judging => requests[r].target = "real"

\* A request is only ever refused, and only ever asked for the prerequisites, when it
\* targets the real mode, whatever the mode becomes while it is judged: one that reduces
\* risk meets no refusal, which leaves its end to the database alone (main.py:12).
OnlyRealIsRefused ==
    [][\A r \in Requests : requests'[r].step = "refused"
                           => requests[r].step = "refused" \/ requests[r].target = "real"]_vars

\* What a step makes of its request: an answer, or a next step with the same target.
LEMMA OneStep ==
    ASSUME Inductive, OnlyRealIsJudged, NEW r \in Requests,
           Progress(r) \/ Fail(r) \/ \E target \in TargetModes : Ask(r, target)
    PROVE  \E q : /\ requests' = [requests EXCEPT ![r] = q]
                  /\ q.step \in Judging => q.target = "real"
                  /\ q.step = "refused" => requests[r].target = "real"
<1>1. PICK p : p = requests[r] /\ p \in Request /\ (p.step \in Judging => p.target = "real")
  BY RequestAtHand DEF OnlyRealIsJudged
<1>2. ASSUME NEW answer \in {"accepted", "failed"}, Keep(r, [NoRequest EXCEPT !.step = answer])
      PROVE  \E q : /\ requests' = [requests EXCEPT ![r] = q]
                    /\ q.step \in Judging => q.target = "real"
                    /\ q.step = "refused" => requests[r].target = "real"
  <2>1. PICK q : q = [NoRequest EXCEPT !.step = answer]
    OBVIOUS
  <2>2. q.step \notin Judging /\ q.step # "refused"
    BY <2>1 DEF NoRequest, Judging, Evaluating
  <2> QED BY <1>2, <2>1, <2>2 DEF Keep
<1>3. ASSUME Refuse(r), p.target = "real"
      PROVE  \E q : /\ requests' = [requests EXCEPT ![r] = q]
                    /\ q.step \in Judging => q.target = "real"
                    /\ q.step = "refused" => requests[r].target = "real"
  <2>1. PICK q : q = [NoRequest EXCEPT !.step = "refused"]
    OBVIOUS
  <2>2. q.step \notin Judging
    BY <2>1 DEF NoRequest, Judging, Evaluating
  <2> QED BY <1>1, <1>3, <2>1, <2>2 DEF Keep, Refuse
<1>4. ASSUME NEW q, Keep(r, q), q.target = p.target, q.step # "refused",
             q.step \in Judging => p.target = "real"
      PROVE  \E u : /\ requests' = [requests EXCEPT ![r] = u]
                    /\ u.step \in Judging => u.target = "real"
                    /\ u.step = "refused" => requests[r].target = "real"
  BY <1>4 DEF Keep
<1>5. CASE Accept(r) \/ Raise(r)
  BY <1>2, <1>5 DEF Accept, Raise
<1>6. CASE \E target \in TargetModes : Ask(r, target)
  <2>1. PICK target \in TargetModes : Ask(r, target)
    BY <1>6
  <2>2. PICK q : q = [NoRequest EXCEPT !.step = "read_mode", !.target = target,
                                      !.began = Len(history)]
    OBVIOUS
  <2>3. q.step \notin Judging /\ q.step # "refused"
    BY <2>2 DEF NoRequest, Judging, Evaluating
  <2> QED BY <2>1, <2>2, <2>3 DEF Ask, Keep
<1>7. CASE \E phrase \in BOOLEAN : ReadMode(r, phrase)
  <2>1. CASE Refuse(r) /\ p.target \in GatedModes
    BY <1>3, <2>1 DEF GatedModes
  <2>2. CASE Keep(r, [p EXCEPT !.step = IF p.target \in GatedModes THEN "context_mode" ELSE "insert"])
    <3>1. PICK s : s = IF p.target \in GatedModes THEN "context_mode" ELSE "insert"
      OBVIOUS
    <3>2. PICK q : q = [p EXCEPT !.step = s]
      OBVIOUS
    <3>3. q.step = s /\ q.target = p.target
      BY <1>1, <3>2 DEF Request
    <3>4. s # "refused" /\ (s \in Judging => p.target = "real")
      BY <3>1 DEF GatedModes, Judging, Evaluating
    <3> QED BY <1>4, <2>2, <3>1, <3>2, <3>3, <3>4
  <2> QED BY <1>1, <1>5, <1>7, <2>1, <2>2 DEF ReadMode
<1>8. CASE ReadContextMode(r) \/ ReadLastDifferent(r) \/ ReadSegment(r) \/ ReadTrades(r)
           \/ ReadAllocation(r)
  <2>1. p.step \in Judging
    BY <1>1, <1>8 DEF ReadContextMode, ReadLastDifferent, ReadSegment, ReadTrades, ReadAllocation,
                      At, Judging, Evaluating
  <2>2. CASE ReadSegment(r) /\ Raise(r)
    BY <1>5, <2>2
  <2>3. \/ ReadSegment(r) /\ Raise(r)
        \/ \E q : Keep(r, q) /\ q.target = p.target /\ q.step # "refused"
    <3>1. CASE ReadContextMode(r)
      <4>1. PICK q : q = [p EXCEPT !.step = "last_different", !.mode = CurrentMode]
        OBVIOUS
      <4>2. q.step = "last_different" /\ q.target = p.target
        BY <1>1, <4>1 DEF Request
      <4> QED BY <1>1, <3>1, <4>1, <4>2 DEF ReadContextMode
    <3>2. CASE ReadLastDifferent(r)
      <4>1. PICK q : q = [p EXCEPT !.step = "segment", !.last = Newest(RowsNotOf(p.mode))]
        OBVIOUS
      <4>2. q.step = "segment" /\ q.target = p.target
        BY <1>1, <4>1 DEF Request
      <4> QED BY <1>1, <3>2, <4>1, <4>2 DEF ReadLastDifferent
    <3>3. CASE ReadSegment(r)
      <4>1. PICK start : start = SegmentStart(p.mode, p.last)
        OBVIOUS
      <4>2. PICK q : q = [p EXCEPT !.step = "trades", !.start = start, !.at = now, !.last = None]
        OBVIOUS
      <4>3. q.step = "trades" /\ q.target = p.target
        BY <1>1, <4>2 DEF Request
      <4>4. Raise(r) \/ Keep(r, q)
        BY <1>1, <3>3, <4>1, <4>2 DEF ReadSegment
      <4> QED BY <3>3, <4>3, <4>4
    <3>4. CASE ReadTrades(r)
      <4>1. PICK ok : ok = (/\ p.at - history[p.start].at >= MinimumDuration
                            /\ Cardinality(TradesSince(p.mode, p.start)) >= MinimumTrades)
        OBVIOUS
      <4>2. PICK q : q = [p EXCEPT !.step = "allocation", !.ok = ok]
        OBVIOUS
      <4>3. q.step = "allocation" /\ q.target = p.target
        BY <1>1, <4>2 DEF Request
      <4>4. Keep(r, [p EXCEPT !.step = "allocation",
                              !.ok = /\ p.at - history[p.start].at >= MinimumDuration
                                     /\ Cardinality(TradesSince(p.mode, p.start)) >= MinimumTrades])
        BY <1>1, <3>4 DEF ReadTrades
      <4>5. Keep(r, q)
        BY <4>1, <4>2, <4>4
      <4> QED BY <4>3, <4>5
    <3>5. CASE ReadAllocation(r)
      <4>1. PICK ok : ok = (p.ok /\ AllocationConfigured)
        OBVIOUS
      <4>2. PICK q : q = [p EXCEPT !.step = "other_facts", !.ok = ok]
        OBVIOUS
      <4>3. q.step = "other_facts" /\ q.target = p.target
        BY <1>1, <4>2 DEF Request
      <4>4. Keep(r, [p EXCEPT !.step = "other_facts", !.ok = p.ok /\ AllocationConfigured])
        BY <1>1, <3>5 DEF ReadAllocation
      <4>5. Keep(r, q)
        BY <4>1, <4>2, <4>4
      <4> QED BY <4>3, <4>5
    <3> QED BY <1>8, <3>1, <3>2, <3>3, <3>4, <3>5
  <2> QED BY <1>1, <1>4, <2>1, <2>2, <2>3
<1>9. CASE \E favourable \in BOOLEAN : ReadOtherFacts(r, favourable)
  <2>1. p.step \in Judging /\ p.target = "real"
    BY <1>1, <1>9 DEF ReadOtherFacts, At, Judging, Evaluating
  <2>2. CASE Keep(r, [p EXCEPT !.step = "insert"])
    <3>1. PICK q : q = [p EXCEPT !.step = "insert"]
      OBVIOUS
    <3>2. q.step = "insert" /\ q.target = p.target
      BY <1>1, <3>1 DEF Request
    <3> QED BY <1>4, <2>1, <2>2, <3>1, <3>2
  <2> QED BY <1>1, <1>3, <1>9, <2>1, <2>2 DEF ReadOtherFacts
<1> QED BY <1>5, <1>6, <1>7, <1>8, <1>9 DEF Progress, Fail, InsertRow

\* Requests move one at a time, and only the one at hand.
LEMMA JudgedStep ==
    ASSUME Inductive, OnlyRealIsJudged, [Next]_vars
    PROVE  /\ OnlyRealIsJudged'
           /\ \A r \in Requests : requests'[r].step = "refused"
                                  => requests[r].step = "refused" \/ requests[r].target = "real"
<1>1. requests \in [Requests -> Request]
  BY DEF Inductive, TypeOK
<1>2. CASE requests' = requests
  BY <1>2 DEF OnlyRealIsJudged
<1>3. CASE \E r \in Requests : Progress(r) \/ Fail(r) \/ \E target \in TargetModes : Ask(r, target)
  <2>1. PICK r \in Requests : Progress(r) \/ Fail(r) \/ \E target \in TargetModes : Ask(r, target)
    BY <1>3
  <2>2. PICK q : /\ requests' = [requests EXCEPT ![r] = q]
                 /\ q.step \in Judging => q.target = "real"
                 /\ q.step = "refused" => requests[r].target = "real"
    BY <2>1, OneStep
  <2>3. \A s \in Requests : requests'[s] = IF s = r THEN q ELSE requests[s]
    BY <1>1, <2>2
  <2> QED BY <2>2, <2>3 DEF OnlyRealIsJudged
<1> QED BY <1>2, <1>3 DEF Next, CloseTrade, Allocate, Tick, vars

\* No request but one for the real mode is judged.
THEOREM ReducingRiskIsNotJudged == Spec => []OnlyRealIsJudged
<1>1. Init => OnlyRealIsJudged
  BY DEF Init, NoRequest, OnlyRealIsJudged, Judging, Evaluating
<1>2. Inductive /\ OnlyRealIsJudged /\ [Next]_vars => OnlyRealIsJudged'
  BY JudgedStep
<1> QED BY <1>1, <1>2, InductiveHolds, PTL DEF Spec

\* And none but one for the real mode is refused.
THEOREM ReducingRiskIsNotRefused == Spec => OnlyRealIsRefused
<1> DEFINE Real == \A r \in Requests : requests'[r].step = "refused"
                                       => requests[r].step = "refused" \/ requests[r].target = "real"
<1>1. Inductive /\ OnlyRealIsJudged /\ [Next]_vars => [Real]_vars
  BY JudgedStep
<1>2. Spec => [][Real]_vars
  BY <1>1, InductiveHolds, ReducingRiskIsNotJudged, PTL DEF Spec
<1> QED BY <1>2 DEF OnlyRealIsRefused
=============================================================================
