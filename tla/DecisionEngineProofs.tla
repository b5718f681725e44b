------------------------ MODULE DecisionEngineProofs -------------------------
(***************************************************************************)
(* What a signal rests on, proved for any strategies, markets, opinions,   *)
(* symbols and number of changes: the decision is a chain of reads of      *)
(* tables that others write, and each link remembers what it must. Then    *)
(* what the pure functions it goes through compute (MetaEngine).           *)
(***************************************************************************)
EXTENDS DecisionEngine, ProofFacts

-----------------------------------------------------------------------------
(* The inductive invariant.                                                *)

Beyond == {"symbol", "opinions", "fuse", "verdict", "persist"}
Spoken == {"fuse", "verdict", "persist"}

\* What TypeOK leaves open: the records have all their fields, a symbol is left while the
\* cycle works on one, and the verdict is one of three.
Shapes ==
    /\ DOMAIN engine = {"at", "known", "left", "mode", "opinions", "market", "fusion",
                        "maturity", "verdict"}
    /\ DOMAIN pending = {"by", "mode", "maturity", "switched"}
    /\ engine.at \in Beyond => engine.left # 0
    /\ engine.maturity \in L!Maturities

\* The statuses of the cycle are those of the table, but for what moved since.
KnownIsFresh ==
    engine.at \in Beyond => \A s \in Strategies \ moved : engine.known[s] = status[s]

\* Nobody excluded by these statuses and the mode of the symbol is fused.
SpeakersAreEligible ==
    engine.at \in Spoken =>
        \A s \in DOMAIN engine.opinions : ~IsExcluded(engine.known[s], engine.mode)

\* In real mode, a signal was derived from a validated calibration.
VerdictIsProven ==
    engine.at = "persist" /\ engine.verdict = "signal" /\ engine.mode = Real
        => engine.maturity = "validated"

\* The mode of the symbol is the current one, or it has changed since.
ModeIsCurrent ==
    engine.at \in Spoken \union {"opinions"} => engine.mode = mode \/ switched

\* So for the signal that waits.
PendingIsProven ==
    pending # NoSignal =>
        /\ pending.mode = mode \/ pending.switched
        /\ pending.mode = Real => pending.maturity = "validated"

Inductive ==
    /\ TypeOK /\ Shapes
    /\ KnownIsFresh /\ SpeakersAreEligible /\ VerdictIsProven
    /\ ModeIsCurrent /\ PendingIsProven
-----------------------------------------------------------------------------
(* The types, part by part.                                                *)

EngineTyped(e) ==
    /\ DOMAIN e = {"at", "known", "left", "mode", "opinions", "market", "fusion",
                   "maturity", "verdict"}
    /\ e.at \in EngineSteps
    /\ e.known \in [Strategies -> L!Statuses \union {L!Unknown}]
    /\ e.left \in 0..Symbols
    /\ e.mode \in Modes
    /\ DOMAIN e.opinions \subseteq Strategies
    /\ e.at \in Spoken => DOMAIN e.opinions # {}
    /\ e.at \in {"verdict", "persist"} => \E s \in DOMAIN e.opinions : MarketOf[s] = e.market
    /\ e.at = "verdict" => e.fusion.side \in Sides
    /\ e.at \in Beyond => e.left # 0
    /\ e.maturity \in L!Maturities

SignalTyped(p) ==
    /\ DOMAIN p = {"by", "mode", "maturity", "switched"}
    /\ p.mode \in Modes
    /\ p.by \subseteq Strategies
    /\ Cardinality({MarketOf[s] : s \in p.by}) <= 1
    /\ p.maturity \in L!Maturities

TablesTyped ==
    /\ status \in [Strategies -> L!Statuses \union {L!Unknown}]
    /\ active \in L!Maturities
    /\ mode \in Modes
    /\ changes \in 0..MaxChanges
    /\ moved \subseteq Strategies

\* The parts are the whole.
LEMMA TypesByPart == TypeOK /\ Shapes <=> EngineTyped(engine) /\ SignalTyped(pending) /\ TablesTyped
<1>1. ASSUME TypeOK, Shapes PROVE EngineTyped(engine)
  BY <1>1 DEF TypeOK, Shapes, EngineTyped, Group, Spoken
<1>2. ASSUME TypeOK, Shapes PROVE SignalTyped(pending) /\ TablesTyped
  BY <1>2 DEF TypeOK, Shapes, SignalTyped, TablesTyped
<1>3. ASSUME EngineTyped(engine), SignalTyped(pending), TablesTyped PROVE TypeOK
  <2>1. engine.at \in {"verdict", "persist"} => Group(engine.market) # {}
    BY <1>3 DEF EngineTyped, Group
  <2> QED BY <1>3, <2>1 DEF TypeOK, EngineTyped, SignalTyped, TablesTyped, Spoken
<1>4. ASSUME EngineTyped(engine), SignalTyped(pending), TablesTyped PROVE Shapes
  BY <1>4 DEF Shapes, EngineTyped, SignalTyped
<1> QED BY <1>1, <1>2, <1>3, <1>4

\* The statuses and steps that the model names are among their sets.
LEMMA Names ==
    /\ L!Unknown = "unknown" /\ "experimental" \in L!Statuses /\ "collecting" \in L!Maturities
    /\ L!AlwaysExcluded = AlwaysExcludedStatuses /\ L!LiveEligible = LiveEligibleStatuses
    /\ Paper \in Modes /\ Real \in Modes /\ Paper # Real
    /\ {"down", "cycle"} \union Beyond = EngineSteps /\ Spoken \subseteq Beyond
    /\ "down" \notin Beyond /\ "cycle" \notin Beyond /\ "symbol" \notin Spoken
    /\ Symbols \in Nat /\ Symbols # 0 /\ MaxChanges \in Nat
BY SymbolsAssumption
   DEF L!Unknown, L!Statuses, L!Maturities, L!AlwaysExcluded, L!LiveEligible, Paper, Real, Modes,
       AlwaysExcludedStatuses, LiveEligibleStatuses, Beyond, Spoken, EngineSteps

\* Between two symbols, and between two cycles, the process carries nothing.
LEMMA AtSymbolTyped ==
    ASSUME NEW known \in [Strategies -> L!Statuses \union {L!Unknown}], NEW left \in 1..Symbols
    PROVE  /\ EngineTyped(AtSymbol(known, left))
           /\ AtSymbol(known, left).at = "symbol" /\ AtSymbol(known, left).known = known
<1>1. PICK e : e = AtSymbol(known, left)
  OBVIOUS
<1>2. /\ DOMAIN e = {"at", "known", "left", "mode", "opinions", "market", "fusion",
                     "maturity", "verdict"}
      /\ e.at = "symbol" /\ e.known = known /\ e.left = left /\ e.mode = Paper
      /\ e.opinions = NoOne /\ e.maturity = "collecting"
  BY <1>1 DEF AtSymbol
<1>3. DOMAIN e.opinions = {}
  BY <1>2 DEF NoOne
<1>4. left \in 0..Symbols /\ left # 0
  BY Names
<1>5. "symbol" \in EngineSteps
  BY DEF EngineSteps
<1> QED BY <1>1, <1>2, <1>3, <1>4, <1>5, Names DEF EngineTyped

\* While it waits for the next cycle, or is down.
LEMMA WaitingTyped ==
    ASSUME NEW step \in {"down", "cycle"}
    PROVE  EngineTyped(Waiting(step)) /\ Waiting(step).at = step
<1>1. PICK e : e = Waiting(step)
  OBVIOUS
<1>2. /\ DOMAIN e = {"at", "known", "left", "mode", "opinions", "market", "fusion",
                     "maturity", "verdict"}
      /\ e.at = step /\ e.known = Unread /\ e.left = 0 /\ e.mode = Paper
      /\ e.opinions = NoOne /\ e.maturity = "collecting"
  BY <1>1 DEF Waiting, AtSymbol
<1>3. DOMAIN e.opinions = {}
  BY <1>2 DEF NoOne
<1>4. Unread \in [Strategies -> L!Statuses \union {L!Unknown}]
  BY DEF Unread
<1>5. step \in EngineSteps /\ step \notin Beyond /\ step \notin Spoken /\ 0 \in 0..Symbols
  BY Names
<1>6. step # "verdict" /\ step # "persist"
  OBVIOUS
<1> QED BY <1>1, <1>2, <1>3, <1>4, <1>5, <1>6, Names DEF EngineTyped

\* The signal that is none.
LEMMA NoSignalTyped == SignalTyped(NoSignal) /\ NoSignal.mode = Paper /\ NoSignal.by = {}
<1>1. /\ DOMAIN NoSignal = {"by", "mode", "maturity", "switched"}
      /\ NoSignal.by = {} /\ NoSignal.mode = Paper /\ NoSignal.maturity = "collecting"
  BY DEF NoSignal
<1>2. {MarketOf[s] : s \in {}} = {}
  OBVIOUS
<1>3. Cardinality({}) = 0
  BY FS_EmptySet
<1> QED BY <1>1, <1>2, <1>3, Names DEF SignalTyped

\* What the invariant says of the engine, of the signal and of the tables.
EngineRight ==
    EngineTyped(engine) /\ KnownIsFresh /\ SpeakersAreEligible /\ VerdictIsProven /\ ModeIsCurrent

\* The invariant, part by part.
LEMMA ByPart == Inductive <=> EngineRight /\ SignalTyped(pending) /\ PendingIsProven /\ TablesTyped
BY TypesByPart DEF Inductive, EngineRight

\* At rest, the engine owes nothing.
LEMMA RestIsRight ==
    ASSUME EngineTyped(engine), engine.at \notin Beyond
    PROVE  EngineRight
BY Names DEF EngineRight, KnownIsFresh, SpeakersAreEligible, VerdictIsProven, ModeIsCurrent,
             Spoken, Beyond

\* The first state.
LEMMA InitInductive == Init => Inductive
<1> SUFFICES ASSUME Init PROVE Inductive
  OBVIOUS
<1>1. EngineTyped(engine) /\ engine.at = "down"
  BY WaitingTyped DEF Init
<1>2. EngineRight
  BY <1>1, RestIsRight, Names
<1>3. SignalTyped(pending) /\ PendingIsProven
  BY NoSignalTyped DEF Init, PendingIsProven
<1>4. TablesTyped
  BY InheritedAssumption, Names DEF Init, TablesTyped
<1> QED BY <1>2, <1>3, <1>4, ByPart

-----------------------------------------------------------------------------
(* The steps of the engine.                                                *)

\* What a step of the engine that inserts nothing leaves alone.
Quiet == UNCHANGED <<status, active, mode, changes, pending>>

\* Then only the engine is in question.
LEMMA QuietKept ==
    ASSUME Inductive, Quiet, moved' \subseteq Strategies, EngineRight'
    PROVE  Inductive'
<1>1. SignalTyped(pending) /\ PendingIsProven /\ TablesTyped
  BY ByPart
<1>2. /\ status' = status /\ active' = active /\ mode' = mode /\ changes' = changes
      /\ pending' = pending
  BY DEF Quiet
<1>3. SignalTyped(pending)' /\ PendingIsProven' /\ TablesTyped'
  BY <1>1, <1>2 DEF PendingIsProven, TablesTyped, L!Statuses, L!Unknown, L!Maturities
<1>4. (EngineRight /\ SignalTyped(pending) /\ PendingIsProven /\ TablesTyped => Inductive)'
  BY ByPart, PTL
<1> QED BY <1>3, <1>4

\* From one symbol to the next, or to the next cycle.
LEMMA BackToSymbol ==
    ASSUME EngineRight, engine.at \in Beyond, engine' = NextSymbol,
           UNCHANGED <<status, moved>>
    PROVE  EngineRight'
<1>1. EngineTyped(engine) /\ engine.left \in Nat /\ engine.left # 0 /\ engine.left <= Symbols
  BY Names DEF EngineRight, EngineTyped
<1>2. CASE engine.left = 1
  <2>1. engine' = Waiting("cycle")
    BY <1>2 DEF NextSymbol
  <2>2. EngineTyped(engine)' /\ engine'.at = "cycle"
    BY <2>1, WaitingTyped
  <2>3. (EngineTyped(engine) /\ engine.at \notin Beyond => EngineRight)'
    BY RestIsRight, PTL
  <2>4. engine'.at \notin Beyond
    BY <2>2 DEF Beyond
  <2> QED BY <2>2, <2>3, <2>4 DEF Beyond
<1>3. CASE engine.left # 1
  <2>1. engine' = AtSymbol(engine.known, engine.left - 1)
    BY <1>3 DEF NextSymbol
  <2>2. engine.left - 1 \in 1..Symbols
    BY <1>1, <1>3, Names
  <2>3. engine.known \in [Strategies -> L!Statuses \union {L!Unknown}]
    BY <1>1 DEF EngineTyped
  <2>4. EngineTyped(engine)' /\ engine'.at = "symbol" /\ engine'.known = engine.known
    BY <2>1, <2>2, <2>3, AtSymbolTyped
  <2>5. KnownIsFresh'
    BY <2>4 DEF EngineRight, KnownIsFresh
  <2> QED BY <2>4, <2>5
          DEF EngineRight, SpeakersAreEligible, VerdictIsProven, ModeIsCurrent, Spoken
<1> QED BY <1>2, <1>3

\* The rows of the strategies are created.
LEMMA StartKept ==
    ASSUME Inductive, Start
    PROVE  Inductive'
<1>1. EngineTyped(engine)' /\ engine'.at = "cycle"
  BY WaitingTyped DEF Start
<1>2. engine'.at \notin Beyond
  BY <1>1 DEF Beyond
<1>3. (EngineTyped(engine) /\ engine.at \notin Beyond => EngineRight)'
  BY RestIsRight, PTL
<1>4. EngineRight'
  BY <1>1, <1>2, <1>3 DEF Beyond
<1>5. TablesTyped /\ SignalTyped(pending) /\ PendingIsProven
  BY ByPart
<1>6. TablesTyped'
  <2>1. status' \in [Strategies -> L!Statuses \union {L!Unknown}]
    BY <1>5, Names DEF Start, TablesTyped
  <2> QED BY <1>5, <2>1 DEF Start, TablesTyped
<1>7. SignalTyped(pending)' /\ PendingIsProven'
  BY <1>5 DEF Start, PendingIsProven
<1>8. (EngineRight /\ SignalTyped(pending) /\ PendingIsProven /\ TablesTyped => Inductive)'
  BY ByPart, PTL
<1> QED BY <1>4, <1>6, <1>7, <1>8

\* The statuses are read.
LEMMA FetchKept ==
    ASSUME Inductive, FetchStatuses
    PROVE  Inductive'
<1>1. TablesTyped
  BY ByPart
<1>2. Symbols \in 1..Symbols
  BY Names
<1>3. engine' = AtSymbol(status, Symbols) /\ moved' = {} /\ status' = status
  BY DEF FetchStatuses, learned
<1>4. EngineTyped(engine)' /\ engine'.at = "symbol" /\ engine'.known = status
  BY <1>1, <1>2, <1>3, AtSymbolTyped DEF TablesTyped
<1>5. EngineRight'
  BY <1>3, <1>4
     DEF EngineRight, KnownIsFresh, SpeakersAreEligible, VerdictIsProven, ModeIsCurrent, Spoken
<1>6. Quiet /\ moved' \subseteq Strategies
  BY <1>3 DEF FetchStatuses, learned, Quiet
<1> QED BY <1>5, <1>6, QuietKept

\* A symbol is left for this cycle.
LEMMA SkipKept ==
    ASSUME Inductive, SkipSymbol \/ NoOpinion
    PROVE  Inductive'
<1>1. EngineRight /\ TablesTyped
  BY ByPart
<1>2. engine.at \in Beyond
  BY <1>1, Names DEF SkipSymbol, NoOpinion, EngineRight, EngineTyped, Beyond
<1>3. engine' = NextSymbol /\ Quiet /\ UNCHANGED <<status, moved>>
  BY DEF SkipSymbol, NoOpinion, learned, Quiet
<1>4. EngineRight'
  BY <1>1, <1>2, <1>3, BackToSymbol
<1>5. moved' \subseteq Strategies
  BY <1>1, <1>3 DEF TablesTyped
<1> QED BY <1>3, <1>4, <1>5, QuietKept

\* The mode is read.
LEMMA ReadModeKept ==
    ASSUME Inductive, ReadMode
    PROVE  Inductive'
<1>1. EngineRight /\ TablesTyped
  BY ByPart
<1>2. PICK e : e = [engine EXCEPT !.at = "opinions", !.mode = mode]
  OBVIOUS
<1>3. /\ DOMAIN e = DOMAIN engine /\ e.at = "opinions" /\ e.mode = mode /\ e.known = engine.known
      /\ e.left = engine.left /\ e.opinions = engine.opinions /\ e.maturity = engine.maturity
  BY <1>1, <1>2 DEF EngineRight, EngineTyped
<1>4. engine' = e /\ Quiet /\ moved' = moved /\ engine.at = "symbol"
  BY <1>2 DEF ReadMode, learned, Quiet
<1>5. EngineTyped(e)
  <2>1. e.mode \in Modes
    BY <1>1, <1>3 DEF TablesTyped
  <2>2. e.at \in EngineSteps /\ e.at \notin Spoken /\ e.at \notin {"verdict", "persist"}
    BY <1>3 DEF EngineSteps, Spoken
  <2>3. e.left # 0
    BY <1>1, <1>3, <1>4 DEF EngineRight, EngineTyped, Beyond
  <2>4. EngineTyped(engine)
    BY <1>1 DEF EngineRight
  <2> QED BY <1>3, <2>1, <2>2, <2>3, <2>4 DEF EngineTyped
<1>6. KnownIsFresh'
  BY <1>1, <1>3, <1>4 DEF EngineRight, KnownIsFresh, Quiet, Beyond
<1>7. ModeIsCurrent'
  BY <1>3, <1>4 DEF ModeIsCurrent, Quiet
<1>8. SpeakersAreEligible' /\ VerdictIsProven'
  BY <1>3, <1>4 DEF SpeakersAreEligible, VerdictIsProven, Spoken
<1>9. EngineRight'
  BY <1>4, <1>5, <1>6, <1>7, <1>8 DEF EngineRight
<1>10. moved' \subseteq Strategies
  BY <1>1, <1>4 DEF TablesTyped
<1> QED BY <1>4, <1>9, <1>10, QuietKept

\* The opinions are collected.
LEMMA OpinionsKept ==
    ASSUME Inductive, CollectOpinions
    PROVE  Inductive'
<1>1. EngineRight /\ TablesTyped
  BY ByPart
<1>2. PICK speakers \in SUBSET Strategies :
          LET fused == {s \in speakers : ~IsExcluded(engine.known[s], engine.mode)}
          IN /\ fused # {}
             /\ \E given \in [fused -> Opinions] :
                   engine' = [engine EXCEPT !.at = "fuse", !.opinions = given]
  BY DEF CollectOpinions
<1>3. PICK fused : /\ fused = {s \in speakers : ~IsExcluded(engine.known[s], engine.mode)}
                   /\ fused # {}
                   /\ \E given \in [fused -> Opinions] :
                         engine' = [engine EXCEPT !.at = "fuse", !.opinions = given]
  BY <1>2
<1>4. PICK given \in [fused -> Opinions] :
          engine' = [engine EXCEPT !.at = "fuse", !.opinions = given]
  BY <1>3
<1>5. PICK e : e = [engine EXCEPT !.at = "fuse", !.opinions = given]
  OBVIOUS
<1>6. /\ DOMAIN e = DOMAIN engine /\ e.at = "fuse" /\ e.mode = engine.mode /\ e.known = engine.known
      /\ e.left = engine.left /\ e.opinions = given /\ e.maturity = engine.maturity
  BY <1>1, <1>5 DEF EngineRight, EngineTyped
<1>7. DOMAIN e.opinions = fused
  BY <1>6
<1>8. engine' = e /\ Quiet /\ moved' = moved /\ engine.at = "opinions" /\ switched' = switched
  BY <1>4, <1>5 DEF CollectOpinions, learned, Quiet
<1>9. EngineTyped(e)
  <2>1. fused \subseteq Strategies
    BY <1>3
  <2>2. e.at \in EngineSteps /\ e.at \notin {"verdict", "persist"}
    BY <1>6 DEF EngineSteps
  <2>3. e.left # 0
    BY <1>1, <1>6, <1>8 DEF EngineRight, EngineTyped, Beyond
  <2>4. EngineTyped(engine)
    BY <1>1 DEF EngineRight
  <2> QED BY <1>3, <1>6, <1>7, <2>1, <2>2, <2>3, <2>4 DEF EngineTyped
<1>10. KnownIsFresh'
  BY <1>1, <1>6, <1>8 DEF EngineRight, KnownIsFresh, Quiet, Beyond
<1>11. ModeIsCurrent'
  BY <1>1, <1>6, <1>8 DEF EngineRight, ModeIsCurrent, Quiet
<1>12. SpeakersAreEligible'
  BY <1>3, <1>6, <1>7, <1>8 DEF SpeakersAreEligible
<1>13. VerdictIsProven'
  BY <1>6, <1>8 DEF VerdictIsProven
<1>14. EngineRight'
  BY <1>8, <1>9, <1>10, <1>11, <1>12, <1>13 DEF EngineRight
<1>15. moved' \subseteq Strategies
  BY <1>1, <1>8 DEF TablesTyped
<1> QED BY <1>8, <1>14, <1>15, QuietKept

\* A fusion has a side, or is undecided.
LEMMA FusionHasASide ==
    ASSUME NEW opinions, Fuse(opinions) # Undecided
    PROVE  Fuse(opinions).side \in Sides
<1>1. Winners(opinions) # {} /\ Winners(opinions) \subseteq Sides
  BY DEF Fuse, Winners, Heard
<1>2. PICK w : w = CHOOSE v \in Winners(opinions) : TRUE
  OBVIOUS
<1>3. w \in Winners(opinions)
  BY <1>1, <1>2
<1>4. Fuse(opinions).side = w
  BY <1>1, <1>2 DEF Fuse
<1> QED BY <1>1, <1>3, <1>4

\* One market is fused.
LEMMA FuseKept ==
    ASSUME Inductive, NEW market \in Markets, FuseMarket(market)
    PROVE  Inductive'
<1>1. EngineRight /\ TablesTyped
  BY ByPart
<1>2. PICK fusion : fusion = Fuse([s \in Group(market) |-> engine.opinions[s]])
  OBVIOUS
<1>3. PICK step : step = IF fusion = Undecided THEN "persist" ELSE "verdict"
  OBVIOUS
<1>4. PICK e : e = [engine EXCEPT !.market = market, !.fusion = fusion, !.at = step,
                                  !.verdict = "no_signal"]
  OBVIOUS
<1>5. /\ DOMAIN e = DOMAIN engine /\ e.at = step /\ e.mode = engine.mode /\ e.known = engine.known
      /\ e.left = engine.left /\ e.opinions = engine.opinions /\ e.maturity = engine.maturity
      /\ e.market = market /\ e.fusion = fusion /\ e.verdict = "no_signal"
  BY <1>1, <1>4 DEF EngineRight, EngineTyped
<1>6. /\ engine' = e /\ Quiet /\ moved' = moved /\ engine.at = "fuse" /\ switched' = switched
      /\ Group(market) # {}
  BY <1>2, <1>3, <1>4 DEF FuseMarket, learned, Quiet
<1>7. step \in {"persist", "verdict"} /\ step \in EngineSteps /\ (step = "verdict" => fusion.side \in Sides)
  BY <1>2, <1>3, FusionHasASide DEF EngineSteps
<1>8. EngineTyped(e)
  <2>1. \E s \in DOMAIN e.opinions : MarketOf[s] = e.market
    BY <1>5, <1>6 DEF Group
  <2>2. e.left # 0
    BY <1>1, <1>5, <1>6 DEF EngineRight, EngineTyped, Beyond
  <2>3. EngineTyped(engine)
    BY <1>1 DEF EngineRight
  <2> QED BY <1>5, <1>7, <2>1, <2>2, <2>3 DEF EngineTyped
<1>9. KnownIsFresh'
  BY <1>1, <1>5, <1>6 DEF EngineRight, KnownIsFresh, Quiet, Beyond
<1>10. ModeIsCurrent'
  BY <1>1, <1>5, <1>6 DEF EngineRight, ModeIsCurrent, Quiet, Spoken
<1>11. SpeakersAreEligible'
  BY <1>1, <1>5, <1>6 DEF EngineRight, SpeakersAreEligible, Spoken
<1>12. VerdictIsProven'
  BY <1>5, <1>6 DEF VerdictIsProven
<1>13. EngineRight'
  BY <1>6, <1>8, <1>9, <1>10, <1>11, <1>12 DEF EngineRight
<1>14. moved' \subseteq Strategies
  BY <1>1, <1>6 DEF TablesTyped
<1> QED BY <1>6, <1>13, <1>14, QuietKept

\* Nothing but a validated calibration makes a signal in real mode.
LEMMA RealSignalsAreValidated ==
    ASSUME NEW maturity, NEW costed \in BOOLEAN, NEW probable \in BOOLEAN, NEW strong \in BOOLEAN,
           DeriveVerdict(Real, maturity, costed, probable, strong) = "signal"
    PROVE  maturity = "validated"
BY DEF DeriveVerdict

\* The calibration is read and the verdict derived.
LEMMA VerdictKept ==
    ASSUME Inductive, DeriveTheVerdict
    PROVE  Inductive'
<1>1. EngineRight /\ TablesTyped
  BY ByPart
<1>2. PICK costed, probable, worthwhile \in BOOLEAN :
          engine' = [engine EXCEPT !.at = "persist", !.maturity = active,
                        !.verdict = DeriveVerdict(engine.mode, active, costed,
                                        probable /\ worthwhile,
                                        StrongScore(engine.fusion) /\ worthwhile)]
  BY DEF DeriveTheVerdict
<1>3. PICK verdict : verdict = DeriveVerdict(engine.mode, active, costed, probable /\ worthwhile,
                                             StrongScore(engine.fusion) /\ worthwhile)
  OBVIOUS
<1>4. PICK e : e = [engine EXCEPT !.at = "persist", !.maturity = active, !.verdict = verdict]
  OBVIOUS
<1>5. /\ DOMAIN e = DOMAIN engine /\ e.at = "persist" /\ e.mode = engine.mode /\ e.known = engine.known
      /\ e.left = engine.left /\ e.opinions = engine.opinions /\ e.maturity = active
      /\ e.market = engine.market /\ e.verdict = verdict
  BY <1>1, <1>4 DEF EngineRight, EngineTyped
<1>6. engine' = e /\ Quiet /\ moved' = moved /\ engine.at = "verdict" /\ switched' = switched
  BY <1>2, <1>3, <1>4 DEF DeriveTheVerdict, learned, Quiet
<1>7. EngineTyped(e)
  <2>1. "persist" \in EngineSteps /\ active \in L!Maturities
    BY <1>1 DEF EngineSteps, TablesTyped
  <2>2. e.left # 0 /\ DOMAIN e.opinions # {} /\ \E s \in DOMAIN e.opinions : MarketOf[s] = e.market
    BY <1>1, <1>5, <1>6 DEF EngineRight, EngineTyped, Beyond, Spoken
  <2>3. EngineTyped(engine)
    BY <1>1 DEF EngineRight
  <2> QED BY <1>5, <2>1, <2>2, <2>3 DEF EngineTyped
<1>8. KnownIsFresh'
  BY <1>1, <1>5, <1>6 DEF EngineRight, KnownIsFresh, Quiet, Beyond
<1>9. ModeIsCurrent'
  BY <1>1, <1>5, <1>6 DEF EngineRight, ModeIsCurrent, Quiet, Spoken
<1>10. SpeakersAreEligible'
  BY <1>1, <1>5, <1>6 DEF EngineRight, SpeakersAreEligible, Spoken
<1>11. VerdictIsProven'
  <2>1. verdict = "signal" /\ engine.mode = Real => active = "validated"
    <3> SUFFICES ASSUME verdict = "signal", engine.mode = Real PROVE active = "validated"
      OBVIOUS
    <3>1. DeriveVerdict(Real, active, costed, probable /\ worthwhile,
                        StrongScore(engine.fusion) /\ worthwhile) = "signal"
      BY <1>3
    <3> QED BY <3>1 DEF DeriveVerdict
  <2> QED BY <1>5, <1>6, <2>1 DEF VerdictIsProven
<1>12. EngineRight'
  BY <1>6, <1>7, <1>8, <1>9, <1>10, <1>11 DEF EngineRight
<1>13. moved' \subseteq Strategies
  BY <1>1, <1>6 DEF TablesTyped
<1> QED BY <1>6, <1>12, <1>13, QuietKept

\* What the signal says of itself is what the engine knew.
LEMMA SignalIsRight ==
    ASSUME EngineRight, TablesTyped, engine.at = "persist", engine.verdict = "signal"
    PROVE  /\ SignalTyped(Signal)
           /\ Signal.mode = mode \/ Signal.switched
           /\ Signal.mode = Real => Signal.maturity = "validated"
           /\ Signal.mode = engine.mode
           /\ \A s \in Signal.by \ moved : ~IsExcluded(status[s], engine.mode)
<1>1. /\ DOMAIN Signal = {"by", "mode", "maturity", "switched"}
      /\ Signal.by = Group(engine.market) /\ Signal.mode = engine.mode
      /\ Signal.maturity = engine.maturity /\ Signal.switched = switched
  BY DEF Signal
<1>2. Group(engine.market) \subseteq Strategies
  BY DEF Group, EngineRight, EngineTyped
<1>3. Cardinality({MarketOf[s] : s \in Group(engine.market)}) <= 1
  <2>1. {MarketOf[s] : s \in Group(engine.market)} \subseteq {engine.market}
    BY DEF Group
  <2>2. \/ {MarketOf[s] : s \in Group(engine.market)} = {}
        \/ {MarketOf[s] : s \in Group(engine.market)} = {engine.market}
    BY <2>1
  <2>3. Cardinality({}) = 0 /\ Cardinality({engine.market}) = 1
    BY FS_EmptySet, FS_Singleton
  <2> QED BY <2>2, <2>3
<1>4. SignalTyped(Signal)
  BY <1>1, <1>2, <1>3 DEF SignalTyped, EngineRight, EngineTyped
<1>5. Signal.mode = mode \/ Signal.switched
  BY <1>1 DEF EngineRight, ModeIsCurrent, Spoken
<1>6. Signal.mode = Real => Signal.maturity = "validated"
  BY <1>1 DEF EngineRight, VerdictIsProven
<1>7. ASSUME NEW s \in Group(engine.market) \ moved PROVE ~IsExcluded(status[s], engine.mode)
  <2>1. s \in DOMAIN engine.opinions
    BY DEF Group
  <2>2. ~IsExcluded(engine.known[s], engine.mode)
    BY <2>1 DEF EngineRight, SpeakersAreEligible, Spoken
  <2>3. engine.known[s] = status[s]
    BY <1>2 DEF EngineRight, KnownIsFresh, Beyond
  <2> QED BY <2>2, <2>3
<1> QED BY <1>1, <1>4, <1>5, <1>6, <1>7

\* The decision is inserted, and the next market or symbol begins.
LEMMA PersistKept ==
    ASSUME Inductive, Persist
    PROVE  Inductive'
<1>1. EngineRight /\ TablesTyped /\ SignalTyped(pending) /\ PendingIsProven
  BY ByPart
<1>2. /\ engine.at = "persist" /\ UNCHANGED <<status, active, mode, changes, moved, switched>>
      /\ pending' = IF engine.verdict = "signal" THEN Signal ELSE pending
  BY DEF Persist, learned
<1>3. TablesTyped'
  BY <1>1, <1>2 DEF TablesTyped, L!Statuses, L!Unknown, L!Maturities
<1>4. SignalTyped(pending)' /\ PendingIsProven'
  <2>1. CASE engine.verdict = "signal"
    <3>1. pending' = Signal
      BY <1>2, <2>1
    <3>2. SignalTyped(pending')
      BY <1>1, <1>2, <2>1, <3>1, SignalIsRight
    <3>3. /\ pending'.mode = mode \/ pending'.switched
          /\ pending'.mode = Real => pending'.maturity = "validated"
      BY <1>1, <1>2, <2>1, <3>1, SignalIsRight
    <3> QED BY <1>2, <3>2, <3>3 DEF PendingIsProven
  <2>2. CASE engine.verdict # "signal"
    <3>1. pending' = pending
      BY <1>2, <2>2
    <3> QED BY <1>1, <1>2, <3>1 DEF PendingIsProven
  <2> QED BY <2>1, <2>2
<1>5. PICK rest : rest = [s \in DOMAIN engine.opinions \ Group(engine.market) |-> engine.opinions[s]]
  OBVIOUS
<1>6. engine' = IF DOMAIN rest = {} THEN NextSymbol ELSE [engine EXCEPT !.at = "fuse", !.opinions = rest]
  BY <1>5 DEF Persist
<1>7. EngineRight'
  <2>1. CASE DOMAIN rest = {}
    <3>1. engine.at \in Beyond /\ UNCHANGED <<status, moved>> /\ engine' = NextSymbol
      BY <1>2, <1>6, <2>1 DEF Beyond
    <3> QED BY <1>1, <3>1, BackToSymbol
  <2>2. CASE DOMAIN rest # {}
    <3>1. PICK e : e = [engine EXCEPT !.at = "fuse", !.opinions = rest]
      OBVIOUS
    <3>2. /\ DOMAIN e = DOMAIN engine /\ e.at = "fuse" /\ e.mode = engine.mode
          /\ e.known = engine.known /\ e.left = engine.left /\ e.opinions = rest
          /\ e.maturity = engine.maturity
      BY <1>1, <3>1 DEF EngineRight, EngineTyped
    <3>3. engine' = e
      BY <1>6, <2>2, <3>1
    <3>4. DOMAIN rest \subseteq DOMAIN engine.opinions
      BY <1>5
    <3>5. EngineTyped(e)
      <4>1. e.at \in EngineSteps /\ e.at \notin {"verdict", "persist"}
        BY <3>2 DEF EngineSteps
      <4>2. e.left # 0
        BY <1>1, <1>2, <3>2 DEF EngineRight, EngineTyped, Beyond
      <4>3. EngineTyped(engine)
        BY <1>1 DEF EngineRight
      <4>4. DOMAIN e.opinions \subseteq Strategies /\ DOMAIN e.opinions # {}
        BY <2>2, <3>2, <3>4, <4>3 DEF EngineTyped
      <4> QED BY <3>2, <4>1, <4>2, <4>3, <4>4 DEF EngineTyped
    <3>6. KnownIsFresh'
      BY <1>1, <1>2, <3>2, <3>3 DEF EngineRight, KnownIsFresh, Beyond
    <3>7. ModeIsCurrent'
      BY <1>1, <1>2, <3>2, <3>3 DEF EngineRight, ModeIsCurrent, Spoken
    <3>8. SpeakersAreEligible'
      BY <1>1, <1>2, <3>2, <3>3, <3>4 DEF EngineRight, SpeakersAreEligible, Spoken
    <3>9. VerdictIsProven'
      BY <3>2, <3>3 DEF VerdictIsProven
    <3> QED BY <3>3, <3>5, <3>6, <3>7, <3>8, <3>9 DEF EngineRight
  <2> QED BY <2>1, <2>2
<1>8. (EngineRight /\ SignalTyped(pending) /\ PendingIsProven /\ TablesTyped => Inductive)'
  BY ByPart, PTL
<1> QED BY <1>3, <1>4, <1>7, <1>8

-----------------------------------------------------------------------------
(* The steps around it.                                                    *)

\* A bounded change is counted.
LEMMA ChangeCounts ==
    ASSUME TablesTyped, Change
    PROVE  changes' \in 0..MaxChanges
BY Names DEF TablesTyped, Change

\* The tables change while the engine works: what it remembers stays right.
LEMMA EngineStays ==
    ASSUME EngineRight, engine' = engine,
           \A s \in Strategies : s \notin moved' => s \notin moved /\ status'[s] = status[s],
           (mode' = mode /\ switched' = switched) \/ switched' = TRUE
    PROVE  EngineRight'
<1>1. EngineTyped(engine)' /\ SpeakersAreEligible' /\ VerdictIsProven'
  BY DEF EngineRight, SpeakersAreEligible, VerdictIsProven
<1>2. KnownIsFresh'
  BY DEF EngineRight, KnownIsFresh
<1>3. ModeIsCurrent'
  BY DEF EngineRight, ModeIsCurrent
<1> QED BY <1>1, <1>2, <1>3 DEF EngineRight

\* The operator changes the mode.
LEMMA ChangeModeKept ==
    ASSUME Inductive, ChangeMode
    PROVE  Inductive'
<1>1. EngineRight /\ TablesTyped /\ SignalTyped(pending) /\ PendingIsProven
  BY ByPart
<1>2. /\ UNCHANGED <<status, active, engine, moved>> /\ mode' \in Modes /\ switched' = TRUE
      /\ pending' = IF pending = NoSignal THEN pending ELSE [pending EXCEPT !.switched = TRUE]
  BY DEF ChangeMode, learned
<1>3. EngineRight'
  BY <1>1, <1>2, EngineStays
<1>4. TablesTyped'
  BY <1>1, <1>2, ChangeCounts DEF TablesTyped, ChangeMode, L!Statuses, L!Unknown, L!Maturities
<1>5. ASSUME pending # NoSignal
      PROVE  /\ DOMAIN pending' = DOMAIN pending /\ pending'.by = pending.by
             /\ pending'.mode = pending.mode /\ pending'.maturity = pending.maturity
             /\ pending'.switched = TRUE
  BY <1>1, <1>2, <1>5 DEF SignalTyped
<1>6. SignalTyped(pending)'
  BY <1>1, <1>2, <1>5 DEF SignalTyped
<1>7. pending = NoSignal => pending' = NoSignal
  BY <1>2
<1>8. PendingIsProven'
  BY <1>1, <1>5, <1>7 DEF PendingIsProven
<1>9. (EngineRight /\ SignalTyped(pending) /\ PendingIsProven /\ TablesTyped => Inductive)'
  BY ByPart, PTL
<1> QED BY <1>3, <1>4, <1>6, <1>8, <1>9

\* The learning services write.
LEMMA LearnKept ==
    ASSUME Inductive, Learn
    PROVE  Inductive'
<1>1. EngineRight /\ TablesTyped /\ SignalTyped(pending) /\ PendingIsProven
  BY ByPart
<1>2. /\ UNCHANGED <<mode, engine, pending, switched>>
      /\ moved' = moved \union {s \in Strategies : status'[s] # status[s]}
  BY DEF Learn
<1>3. status' \in [Strategies -> L!Statuses \union {L!Unknown}] /\ active' \in L!Maturities
  <2>1. status \in [Strategies -> L!Statuses \union {L!Unknown}] /\ active \in L!Maturities
    BY <1>1 DEF TablesTyped
  <2>2. CASE L!Activate
    BY <2>1, <2>2 DEF L!Activate
  <2>3. ASSUME NEW s \in Strategies, L!Register(s)
        PROVE  status' \in [Strategies -> L!Statuses \union {L!Unknown}] /\ active' \in L!Maturities
    BY <2>1, <2>3, Names DEF L!Register
  <2>4. ASSUME NEW s \in Strategies, L!Transition(s)
        PROVE  status' \in [Strategies -> L!Statuses \union {L!Unknown}] /\ active' \in L!Maturities
    <3>1. PICK new \in DOMAIN L!Evictions : status' = [status EXCEPT ![s] = new] /\ active' = active
      BY <2>4 DEF L!Transition
    <3>2. new \in L!Statuses
      BY DEF L!Evictions, L!Statuses
    <3> QED BY <2>1, <3>1, <3>2
  <2> QED BY <2>2, <2>3, <2>4 DEF Learn
<1>4. EngineRight'
  BY <1>1, <1>2, EngineStays
<1>5. TablesTyped'
  BY <1>1, <1>2, <1>3, ChangeCounts DEF TablesTyped, Learn, L!Statuses, L!Unknown, L!Maturities
<1>6. SignalTyped(pending)' /\ PendingIsProven'
  BY <1>1, <1>2 DEF PendingIsProven
<1>7. (EngineRight /\ SignalTyped(pending) /\ PendingIsProven /\ TablesTyped => Inductive)'
  BY ByPart, PTL
<1> QED BY <1>4, <1>5, <1>6, <1>7

\* The process dies.
LEMMA CrashKept ==
    ASSUME Inductive, Crash
    PROVE  Inductive'
<1>1. TablesTyped /\ SignalTyped(pending) /\ PendingIsProven
  BY ByPart
<1>2. UNCHANGED <<status, active, mode, pending, moved, switched>> /\ engine' = Waiting("down")
  BY DEF Crash, learned
<1>3. EngineTyped(engine)' /\ engine'.at = "down"
  BY <1>2, WaitingTyped
<1>4. engine'.at \notin Beyond
  BY <1>3 DEF Beyond
<1>5. (EngineTyped(engine) /\ engine.at \notin Beyond => EngineRight)'
  BY RestIsRight, PTL
<1>6. EngineRight'
  BY <1>3, <1>4, <1>5 DEF Beyond
<1>7. TablesTyped'
  BY <1>1, <1>2, ChangeCounts DEF TablesTyped, Crash, L!Statuses, L!Unknown, L!Maturities
<1>8. SignalTyped(pending)' /\ PendingIsProven'
  BY <1>1, <1>2 DEF PendingIsProven
<1>9. (EngineRight /\ SignalTyped(pending) /\ PendingIsProven /\ TablesTyped => Inductive)'
  BY ByPart, PTL
<1> QED BY <1>6, <1>7, <1>8, <1>9

\* The orchestrator takes the signal, or nothing happens.
LEMMA TakeKept ==
    ASSUME Inductive, TakeSignal \/ UNCHANGED vars
    PROVE  Inductive'
<1>1. EngineRight /\ TablesTyped /\ SignalTyped(pending) /\ PendingIsProven
  BY ByPart
<1>2. /\ UNCHANGED <<status, active, mode, engine, changes, moved, switched>>
      /\ pending' = NoSignal \/ pending' = pending
  BY DEF TakeSignal, vars, learned
<1>3. EngineRight'
  BY <1>1, <1>2, EngineStays
<1>4. TablesTyped'
  BY <1>1, <1>2 DEF TablesTyped, L!Statuses, L!Unknown, L!Maturities
<1>5. SignalTyped(pending)'
  <2>1. SignalTyped(pending')
    BY <1>1, <1>2, NoSignalTyped
  <2> QED BY <2>1 DEF SignalTyped, Modes, L!Maturities, Paper, Real, Backtest
<1>6. PendingIsProven'
  BY <1>1, <1>2 DEF PendingIsProven, NoSignal
<1>7. (EngineRight /\ SignalTyped(pending) /\ PendingIsProven /\ TablesTyped => Inductive)'
  BY ByPart, PTL
<1> QED BY <1>3, <1>4, <1>5, <1>6, <1>7

-----------------------------------------------------------------------------
(* The theorems.                                                           *)

\* Every step, and every step that leaves all of this alone.
LEMMA InductiveKept ==
    ASSUME Inductive, [Next]_vars
    PROVE  Inductive'
<1>1. CASE Start \/ FetchStatuses \/ SkipSymbol \/ ReadMode \/ CollectOpinions \/ NoOpinion
  BY <1>1, StartKept, FetchKept, SkipKept, ReadModeKept, OpinionsKept
<1>2. CASE DeriveTheVerdict \/ Persist \/ \E market \in Markets : FuseMarket(market)
  BY <1>2, VerdictKept, PersistKept, FuseKept
<1>3. CASE ChangeMode \/ Learn \/ Crash
  BY <1>3, ChangeModeKept, LearnKept, CrashKept
<1>4. CASE TakeSignal \/ UNCHANGED vars
  BY <1>4, TakeKept
<1> QED BY <1>1, <1>2, <1>3, <1>4 DEF Next

\* The inductive invariant holds in every state of every behaviour.
THEOREM InductiveHolds == Spec => []Inductive
BY InitInductive, InductiveKept, PTL DEF Spec

\* Every variable stays in its domain, and no signal mixes two markets.
THEOREM TypeCorrectness == Spec => []TypeOK
<1>1. Inductive => TypeOK
  BY DEF Inductive
<1> QED BY <1>1, InductiveHolds, PTL

\* Whatever the learning services do meanwhile: a signal of the real mode is decided on a
\* validated calibration and eligible strategies, those of any mode on none that is
\* excluded, but for the statuses that moved within the cycle.
THEOREM SignalsGoverned == Spec => SignalsAreGoverned
<1>1. ASSUME Inductive, [Next]_vars, pending' \notin {pending, NoSignal}, pending = NoSignal
      PROVE  /\ pending'.mode = Real => pending'.maturity = "validated"
             /\ \A s \in pending'.by \ moved :
                   IF pending'.mode = Real THEN status[s] \in L!LiveEligible
                   ELSE status[s] \notin L!AlwaysExcluded
  <2>1. EngineRight /\ TablesTyped
    BY <1>1, ByPart
  <2>2. CASE Persist
    <3>1. engine.at = "persist" /\ engine.verdict = "signal" /\ pending' = Signal
      BY <1>1, <2>2 DEF Persist
    <3>2. /\ pending'.mode = Real => pending'.maturity = "validated"
          /\ pending'.mode = engine.mode
          /\ \A s \in pending'.by \ moved : ~IsExcluded(status[s], engine.mode)
      BY <2>1, <3>1, SignalIsRight
    <3>3. ASSUME NEW s \in pending'.by \ moved
          PROVE  IF pending'.mode = Real THEN status[s] \in L!LiveEligible
                 ELSE status[s] \notin L!AlwaysExcluded
      <4>1. ~IsExcluded(status[s], engine.mode) /\ pending'.mode = engine.mode
        BY <3>2
      <4>2. CASE status[s] = "unknown"
        <5>1. engine.mode # Real
          BY <4>1, <4>2 DEF IsExcluded
        <5>2. status[s] \notin L!AlwaysExcluded
          BY <4>2 DEF L!AlwaysExcluded
        <5> QED BY <4>1, <5>1, <5>2
      <4>3. CASE status[s] # "unknown"
        <5>1. /\ status[s] \notin AlwaysExcludedStatuses
              /\ engine.mode = Real => status[s] \in LiveEligibleStatuses
          BY <4>1, <4>3 DEF IsExcluded
        <5> QED BY <4>1, <5>1, Names
      <4> QED BY <4>2, <4>3
    <3> QED BY <3>2, <3>3
  <2>3. CASE ChangeMode
    <3>1. pending' = NoSignal
      BY <1>1, <2>3 DEF ChangeMode, NoSignal
    <3> QED BY <1>1, <3>1
  <2>4. \/ Persist \/ ChangeMode \/ pending' = pending \/ pending' = NoSignal
    BY <1>1 DEF Next, Start, FetchStatuses, SkipSymbol, ReadMode, CollectOpinions, NoOpinion,
                DeriveTheVerdict, FuseMarket, Learn, Crash, TakeSignal, vars
  <2> QED BY <1>1, <2>2, <2>3, <2>4
<1> QED BY <1>1, InductiveHolds, PTL DEF Spec, SignalsAreGoverned

\* Whatever waits and whoever changes: a signal that no validated calibration backs is taken
\* for real money only after a change of mode.
THEOREM UnprovenMoneyWaited == Spec => UnprovenMoneyNeedsAModeChange
<1>1. ASSUME Inductive, pending # NoSignal, mode = Real
      PROVE  pending.maturity = "validated" \/ pending.switched
  BY <1>1 DEF Inductive, PendingIsProven
<1> QED BY <1>1, InductiveHolds, PTL DEF Spec, UnprovenMoneyNeedsAModeChange

-----------------------------------------------------------------------------
(* Fusion (MetaEngine), for any engines.                                   *)

Percentage == 0..100
Ballot     == [side : Sides, score : Percentage, confidence : Percentage]

\* What a side weighs is a number, and no more than its confidence at the best of its scores.
LEMMA Weighing ==
    ASSUME NEW E, IsFiniteSet(E), NEW o \in [E -> Ballot], NEW side \in Sides
    PROVE  /\ Backers(o, side) \in SUBSET E /\ IsFiniteSet(Backers(o, side))
           /\ Confidence(o, side) \in Nat /\ Weight(o, side) \in Nat
           /\ \A k \in Nat : (\A e \in Backers(o, side) : o[e].score <= k)
                             => Weight(o, side) <= k * Confidence(o, side)
<1> DEFINE B == Backers(o, side)
           c == [e \in DOMAIN o |-> o[e].confidence]
           w == [e \in DOMAIN o |-> o[e].confidence * o[e].score]
<1>1. B \in SUBSET E /\ IsFiniteSet(B) /\ DOMAIN o = E
  <2>1. B \in SUBSET E
    BY DEF Backers
  <2> QED BY <2>1, FS_Subset
<1>2. \A e \in E : o[e].confidence \in Nat /\ o[e].score \in Nat
  BY DEF Ballot, Percentage
<1>3. \A x, y \in Nat : x * y \in Nat
  BY SMT
<1>4. \A e \in B : /\ c[e] = o[e].confidence /\ c[e] \in Nat
                   /\ w[e] = c[e] * o[e].score /\ w[e] \in Nat
  BY <1>1, <1>2, <1>3
<1>5. Confidence(o, side) = SumFunctionOnSet(c, B) /\ Weight(o, side) = SumFunctionOnSet(w, B)
  BY DEF Confidence, Weight
<1>6. Confidence(o, side) \in Nat /\ Weight(o, side) \in Nat
  <2> HIDE DEF B, c, w
  <2> QED BY <1>1, <1>4, <1>5, SumIsNat
<1>7. ASSUME NEW k \in Nat, \A e \in B : o[e].score <= k
      PROVE  Weight(o, side) <= k * Confidence(o, side)
  <2>1. \A e \in B : w[e] <= k * c[e]
    <3> SUFFICES ASSUME NEW e \in B PROVE w[e] <= k * c[e]
      OBVIOUS
    <3>1. PICK s \in Nat : s = o[e].score /\ s <= k
      BY <1>1, <1>2, <1>7
    <3>2. \A a \in Nat : a * s <= k * a
      BY <3>1, SMT
    <3> HIDE DEF B, c, w
    <3> QED BY <1>4, <3>1, <3>2
  <2> HIDE DEF B, c, w
  <2>2. \A e \in B : w[e] \in Int /\ c[e] \in Int /\ w[e] <= k * c[e]
    BY <1>4, <2>1
  <2> QED BY <1>1, <1>5, <2>2, SumIsBounded
<1> QED BY <1>1, <1>6, <1>7

\* A side wins if it is heard and outscores the other, if that is heard too.
Wins(opinions, side) ==
    /\ Confidence(opinions, side) > 0
    /\ Confidence(opinions, Opposite(side)) > 0 => Outscores(opinions, side, Opposite(side))

Fused(opinions, side) ==
    [side |-> side, weight |-> Weight(opinions, side), confidence |-> Confidence(opinions, side)]

\* The winner of a fusion is one side, the other, or none (fusion.py: a tie elects nobody):
\* never both, so that the choice is no choice.
THEOREM FusionElectsAtMostOne ==
    ASSUME NEW E, IsFiniteSet(E), NEW o \in [E -> Ballot]
    PROVE  /\ \A side \in Sides : ~(Wins(o, side) /\ Wins(o, Opposite(side)))
           /\ \A side \in Sides : Wins(o, side) => Fuse(o) = Fused(o, side)
           /\ (\A side \in Sides : ~Wins(o, side)) => Fuse(o) = Undecided
<1> USE DEF Sides, Buy, Sell, Opposite
<1>1. \A side \in Sides : Confidence(o, side) \in Nat /\ Weight(o, side) \in Nat
  BY Weighing
<1>2. \A a, b \in Nat : a * b \in Nat
  BY SMT
<1>3. ~(Outscores(o, Buy, Sell) /\ Outscores(o, Sell, Buy))
  BY <1>1, <1>2 DEF Outscores
<1>4. \A side \in Sides : ~(Wins(o, side) /\ Wins(o, Opposite(side)))
  BY <1>3 DEF Wins
<1>5. \A side \in Sides : side \in Winners(o) <=> Wins(o, side)
  BY DEF Winners, Heard, Wins
<1>6. Winners(o) \subseteq Sides
  BY DEF Winners, Heard
<1>7. ASSUME NEW side \in Sides, Wins(o, side) PROVE Fuse(o) = Fused(o, side)
  <2>1. Winners(o) = {side}
    BY <1>4, <1>5, <1>6, <1>7
  <2>2. (CHOOSE w \in Winners(o) : TRUE) = side /\ Winners(o) # {}
    BY <2>1
  <2> QED BY <2>2 DEF Fuse, Fused
<1>8. (\A side \in Sides : ~Wins(o, side)) => Fuse(o) = Undecided
  BY <1>5, <1>6 DEF Fuse
<1> QED BY <1>4, <1>7, <1>8

\* The same opinions, each turned around.
Mirror(opinions) == [e \in DOMAIN opinions |-> [opinions[e] EXCEPT !.side = Opposite(@)]]

\* Two ballots that weigh the same, side by side, are fused alike: `turned` says which side
\* of the one stands for which of the other.
LEMMA FusionDependsOnWeights ==
    ASSUME NEW E, IsFiniteSet(E), NEW o \in [E -> Ballot],
           NEW D, IsFiniteSet(D), NEW p \in [D -> Ballot],
           NEW turned \in BOOLEAN,
           \A side \in Sides :
               LET that == IF turned THEN Opposite(side) ELSE side
               IN Confidence(p, side) = Confidence(o, that) /\ Weight(p, side) = Weight(o, that)
    PROVE  Fuse(p) = IF Fuse(o) = Undecided THEN Undecided
                     ELSE [Fuse(o) EXCEPT !.side = IF turned THEN Opposite(@) ELSE @]
<1> DEFINE That(side) == IF turned THEN Opposite(side) ELSE side
<1>0. \A side \in Sides : /\ Opposite(side) \in Sides /\ Opposite(Opposite(side)) = side
                          /\ side # "none"
  BY DEF Sides, Opposite, Buy, Sell
<1>1. \A side \in Sides : /\ That(side) \in Sides /\ That(That(side)) = side
                          /\ That(Opposite(side)) = Opposite(That(side))
  BY <1>0
<1>2. \A side \in Sides : /\ Confidence(p, side) = Confidence(o, That(side))
                          /\ Weight(p, side) = Weight(o, That(side))
  OBVIOUS
<1> HIDE DEF That
<1>3. \A side \in Sides : Wins(p, side) <=> Wins(o, That(side))
  BY <1>0, <1>1, <1>2 DEF Wins, Outscores
<1>4. CASE \E side \in Sides : Wins(o, side)
  <2>1. PICK side \in Sides : Wins(o, side)
    BY <1>4
  <2>2. Fuse(o) = Fused(o, side)
    BY <2>1, FusionElectsAtMostOne
  <2>3. Wins(p, That(side)) /\ That(side) \in Sides
    BY <1>1, <1>3, <2>1
  <2>4. Fuse(p) = Fused(p, That(side))
    BY <2>3, FusionElectsAtMostOne
  <2>5. Fused(p, That(side)) = [Fused(o, side) EXCEPT !.side = That(side)]
    BY <1>1, <1>2 DEF Fused
  <2>6. Fuse(o) # Undecided /\ Fuse(o).side = side
    BY <1>0, <2>2 DEF Fused, Undecided
  <2> QED BY <2>2, <2>4, <2>5, <2>6 DEF That
<1>5. CASE \A side \in Sides : ~Wins(o, side)
  <2>1. \A side \in Sides : ~Wins(p, side)
    BY <1>1, <1>3, <1>5
  <2> QED BY <1>5, <2>1, FusionElectsAtMostOne
<1> QED BY <1>4, <1>5

\* Fusion has no preference: when every opinion is turned around, so is the winner, with the
\* same weight and confidence.
THEOREM FusionHasNoSide ==
    ASSUME NEW E, IsFiniteSet(E), NEW o \in [E -> Ballot]
    PROVE  Fuse(Mirror(o)) = IF Fuse(o) = Undecided THEN Undecided
                             ELSE [Fuse(o) EXCEPT !.side = Opposite(@)]
<1> DEFINE p == Mirror(o)
<1>0. \A side \in Sides : Opposite(side) \in Sides /\ Opposite(Opposite(side)) = side
  BY DEF Sides, Opposite, Buy, Sell
<1>1. /\ DOMAIN o = E /\ DOMAIN p = E /\ p \in [E -> Ballot]
      /\ \A e \in E : /\ p[e].side = Opposite(o[e].side) /\ o[e].side \in Sides
                      /\ p[e].score = o[e].score /\ p[e].confidence = o[e].confidence
  BY <1>0 DEF Mirror, Ballot
<1>2. \A side \in Sides : Backers(p, side) = Backers(o, Opposite(side))
  BY <1>0, <1>1 DEF Backers
<1>3. ASSUME NEW side \in Sides
      PROVE  /\ Confidence(p, side) = Confidence(o, Opposite(side))
             /\ Weight(p, side) = Weight(o, Opposite(side))
  <2>1. [e \in DOMAIN p |-> p[e].confidence] = [e \in DOMAIN o |-> o[e].confidence]
    BY <1>1
  <2>2. [e \in DOMAIN p |-> p[e].confidence * p[e].score]
            = [e \in DOMAIN o |-> o[e].confidence * o[e].score]
    BY <1>1
  <2> QED BY <1>2, <2>1, <2>2 DEF Confidence, Weight
<1> HIDE DEF p
<1>4. PICK turned \in BOOLEAN : turned = TRUE
  OBVIOUS
<1>5. \A side \in Sides :
          LET that == IF turned THEN Opposite(side) ELSE side
          IN Confidence(p, side) = Confidence(o, that) /\ Weight(p, side) = Weight(o, that)
  BY <1>3, <1>4
<1>6. Fuse(p) = IF Fuse(o) = Undecided THEN Undecided
                ELSE [Fuse(o) EXCEPT !.side = IF turned THEN Opposite(@) ELSE @]
  BY <1>1, <1>5, FusionDependsOnWeights
<1> QED BY <1>4, <1>6 DEF p

\* An engine without confidence has no vote (fusion.py weighs scores by confidence): leaving
\* such engines out changes nothing.
THEOREM SilenceIsNoVote ==
    ASSUME NEW E, IsFiniteSet(E), NEW o \in [E -> Ballot], NEW D \in SUBSET E,
           \A e \in E \ D : o[e].confidence = 0
    PROVE  Fuse([e \in D |-> o[e]]) = Fuse(o)
<1> DEFINE p == [e \in D |-> o[e]]
<1>1. IsFiniteSet(D) /\ p \in [D -> Ballot] /\ DOMAIN o = E /\ DOMAIN p = D
  BY FS_Subset
<1>2. ASSUME NEW side \in Sides
      PROVE  Confidence(p, side) = Confidence(o, side) /\ Weight(p, side) = Weight(o, side)
  <2> DEFINE B == Backers(o, side)
             A == Backers(p, side)
             c == [e \in DOMAIN o |-> o[e].confidence]
             w == [e \in DOMAIN o |-> o[e].confidence * o[e].score]
             d == [e \in DOMAIN p |-> p[e].confidence]
             v == [e \in DOMAIN p |-> p[e].confidence * p[e].score]
  <2>1. B \in SUBSET E /\ IsFiniteSet(B) /\ A \in SUBSET B /\ IsFiniteSet(A)
    <3>1. B \in SUBSET E /\ A \in SUBSET B
      BY <1>1 DEF Backers
    <3> QED BY <3>1, FS_Subset
  <2>2. \A x, y \in Nat : x * y \in Nat /\ 0 * y = 0
    BY SMT
  <2>3. \A e \in E : o[e].confidence \in Nat /\ o[e].score \in Nat
    BY DEF Ballot, Percentage
  <2>4. \A e \in B : c[e] \in Int /\ w[e] \in Int
    BY <1>1, <2>1, <2>2, <2>3
  <2>5. \A e \in B \ A : c[e] = 0 /\ w[e] = 0
    <3>1. \A e \in B \ A : e \in E \ D
      BY <1>1 DEF Backers
    <3> QED BY <1>1, <2>1, <2>2, <2>3, <3>1
  <2>6. \A e \in A : c[e] = d[e] /\ w[e] = v[e]
    <3>1. \A e \in A : e \in D /\ e \in E
      BY <1>1 DEF Backers
    <3> QED BY <1>1, <3>1
  <2>7. /\ Confidence(o, side) = SumFunctionOnSet(c, B) /\ Weight(o, side) = SumFunctionOnSet(w, B)
        /\ Confidence(p, side) = SumFunctionOnSet(d, A) /\ Weight(p, side) = SumFunctionOnSet(v, A)
    BY DEF Confidence, Weight
  <2> HIDE DEF A, B, c, w, d, v, p
  <2>8. /\ SumFunctionOnSet(c, B) = SumFunctionOnSet(c, A)
        /\ SumFunctionOnSet(w, B) = SumFunctionOnSet(w, A)
    BY <2>1, <2>4, <2>5, SumWithoutZeros
  <2>9. /\ SumFunctionOnSet(c, A) = SumFunctionOnSet(d, A)
        /\ SumFunctionOnSet(w, A) = SumFunctionOnSet(v, A)
    BY <2>1, <2>6, SumOfSame
  <2> QED BY <2>7, <2>8, <2>9
<1> HIDE DEF p
<1>3. PICK turned \in BOOLEAN : turned = FALSE
  OBVIOUS
<1>4. Fuse(p) = IF Fuse(o) = Undecided THEN Undecided
                ELSE [Fuse(o) EXCEPT !.side = IF turned THEN Opposite(@) ELSE @]
  BY <1>1, <1>2, <1>3, FusionDependsOnWeights
<1>5. Fuse(o) # Undecided => Fuse(o) = [Fuse(o) EXCEPT !.side = Fuse(o).side]
  BY FusionElectsAtMostOne DEF Fused
<1> QED BY <1>3, <1>4, <1>5 DEF p

\* Unanimity wins: when all the confidence is on one side, that side is elected. And whoever
\* is elected has at least one engine with some confidence behind it.
THEOREM FusionFollowsItsBackers ==
    ASSUME NEW E, IsFiniteSet(E), NEW o \in [E -> Ballot], NEW side \in Sides
    PROVE  /\ Fuse(o).side = side => \E e \in E : o[e].side = side /\ o[e].confidence > 0
           /\ (\E e \in E : o[e].side = side /\ o[e].confidence > 0)
              /\ (\A e \in E : o[e].side # side => o[e].confidence = 0)
              => Fuse(o).side = side
<1>0. /\ Opposite(side) \in Sides /\ Opposite(side) # side /\ side # "none"
      /\ \A x \in Sides : x = side \/ x = Opposite(side)
  BY DEF Sides, Opposite, Buy, Sell
<1>1. ASSUME NEW x \in Sides
      PROVE  /\ Confidence(o, x) \in Nat
             /\ Confidence(o, x) > 0 <=> \E e \in E : o[e].side = x /\ o[e].confidence > 0
  <2> DEFINE B == Backers(o, x)
             c == [e \in DOMAIN o |-> o[e].confidence]
  <2>1. B \in SUBSET E /\ IsFiniteSet(B) /\ Confidence(o, x) \in Nat
    BY Weighing
  <2>2. \A e \in B : c[e] = o[e].confidence /\ c[e] \in Nat /\ e \in E /\ o[e].side = x
    BY <2>1 DEF Backers, Ballot, Percentage
  <2>3. \A e \in E : o[e].side = x => e \in B
    BY DEF Backers
  <2>4. Confidence(o, x) = SumFunctionOnSet(c, B)
    BY DEF Confidence
  <2> HIDE DEF B, c
  <2>5. ASSUME \A e \in B : c[e] = 0 PROVE Confidence(o, x) = 0
    <3>1. {} \in SUBSET B /\ \A e \in B : c[e] \in Int
      BY <2>2
    <3>2. SumFunctionOnSet(c, B) = SumFunctionOnSet(c, {})
      BY <2>1, <2>5, <3>1, SumWithoutZeros
    <3> QED BY <2>4, <3>2, FS_EmptySet, SumEquation
  <2>6. ASSUME NEW e \in B, c[e] > 0 PROVE Confidence(o, x) > 0
    <3>1. \A y \in B : c[y] \in Int
      BY <2>2
    <3>2. SumFunctionOnSet(c, B) = c[e] + SumFunctionOnSet(c, B \ {e})
      BY <2>1, <3>1, SumTakesOut
    <3>3. SumFunctionOnSet(c, B \ {e}) \in Nat
      <4>1. IsFiniteSet(B \ {e}) /\ \A y \in B \ {e} : c[y] \in Nat
        BY <2>1, <2>2, FS_Subset
      <4> QED BY <4>1, SumIsNat
    <3> QED BY <2>2, <2>4, <2>6, <3>2, <3>3
  <2> QED BY <2>1, <2>2, <2>3, <2>5, <2>6
<1>2. ASSUME Fuse(o).side = side PROVE Wins(o, side)
  <2>1. Fuse(o) # Undecided
    BY <1>0, <1>2 DEF Undecided
  <2>2. PICK x \in Sides : Wins(o, x) /\ Fuse(o) = Fused(o, x)
    BY <2>1, FusionElectsAtMostOne
  <2> QED BY <1>2, <2>2 DEF Fused
<1>3. Wins(o, side) => Fuse(o).side = side
  BY FusionElectsAtMostOne DEF Fused
<1>4. ASSUME \E e \in E : o[e].side = side /\ o[e].confidence > 0,
             \A e \in E : o[e].side # side => o[e].confidence = 0
      PROVE  Wins(o, side)
  <2>1. ~ (Confidence(o, Opposite(side)) > 0)
    BY <1>0, <1>1, <1>4
  <2> QED BY <1>1, <1>4, <2>1 DEF Wins
<1> QED BY <1>1, <1>2, <1>3, <1>4 DEF Wins

\* A fused score is a mean: it is at most the best score of the engines behind it. So a
\* bootstrap, which wants 75 % of it (thresholds.py), wants an engine that says as much.
THEOREM StrongFusionHasAStrongEngine ==
    ASSUME NEW E, IsFiniteSet(E), NEW o \in [E -> Ballot],
           Fuse(o) # Undecided, StrongScore(Fuse(o))
    PROVE  /\ Fuse(o).weight <= 100 * Fuse(o).confidence
           /\ \E e \in E : o[e].side = Fuse(o).side /\ o[e].score >= 75
<1>1. PICK side \in Sides : Wins(o, side) /\ Fuse(o) = Fused(o, side)
  BY FusionElectsAtMostOne
<1>2. /\ Fuse(o).side = side /\ Fuse(o).weight = Weight(o, side)
      /\ Fuse(o).confidence = Confidence(o, side)
  BY <1>1 DEF Fused
<1>3. Confidence(o, side) \in Nat /\ Confidence(o, side) > 0 /\ Weight(o, side) \in Nat
  BY <1>1, Weighing DEF Wins
<1>4. Weight(o, side) >= 75 * Confidence(o, side)
  BY <1>2 DEF StrongScore
<1>5. \A e \in E : o[e].score \in Percentage
  BY DEF Ballot
<1>6. Backers(o, side) \subseteq E /\ \A e \in Backers(o, side) : o[e].side = side
  BY DEF Backers
<1>7. Weight(o, side) <= 100 * Confidence(o, side)
  <2>1. 100 \in Nat /\ \A e \in Backers(o, side) : o[e].score <= 100
    BY <1>5, <1>6 DEF Percentage
  <2> QED BY <2>1, Weighing
<1>8. \E e \in E : o[e].side = side /\ o[e].score >= 75
  <2> SUFFICES ASSUME \A e \in E : o[e].side = side => ~ (o[e].score >= 75) PROVE FALSE
    OBVIOUS
  <2>1. 74 \in Nat /\ \A e \in Backers(o, side) : o[e].score <= 74
    BY <1>5, <1>6 DEF Percentage
  <2>2. Weight(o, side) <= 74 * Confidence(o, side)
    BY <2>1, Weighing
  <2> QED BY <1>3, <1>4, <2>2
<1> QED BY <1>2, <1>7, <1>8

-----------------------------------------------------------------------------
(* Ranks (MetaEngine), for any symbols.                                    *)

\* A symbol of the list whose momentum, times a sign, is greatest: the first one, at least
\* when all are equal.
IsExtreme(x, n, order, sign, m) ==
    /\ \E i \in 1..n : x = order[i]
    /\ \A j \in 1..n : sign * m[order[j]] <= sign * m[x]
    /\ (\A j \in 1..n : m[order[j]] = m[order[1]]) => x = order[1]

\* Among the symbols of a list there is one whose momentum, times a sign, is greatest,
\* and Extremum finds it.
LEMMA ExtremumIsExtreme ==
    ASSUME NEW n \in Nat \ {0}, NEW S, NEW order \in [1..n -> S], NEW m \in [S -> Int],
           NEW sign \in {-1, 1}
    PROVE  IsExtreme(Extremum(order, sign, m), n, order, sign, m)
<1> DEFINE best == {i \in DOMAIN order :
                       \A j \in DOMAIN order : sign * m[order[j]] <= sign * m[order[i]]}
           first == CHOOSE i \in best : \A j \in best : i <= j
           V == {-(sign * m[order[i]]) : i \in 1..n}
<1>1. DOMAIN order = 1..n /\ IsFiniteSet(1..n) /\ 1 \in 1..n
  BY FS_Interval
<1>2. \A i \in 1..n : m[order[i]] \in Int /\ sign * m[order[i]] \in Int
  <2>1. \A i \in 1..n : m[order[i]] \in Int
    OBVIOUS
  <2>2. \A x \in Int : sign * x \in Int
    OBVIOUS
  <2> QED BY <2>1, <2>2
<1>3. IsFiniteSet(V) /\ V # {} /\ \A x \in V : x \in Int
  <2>1. IsFiniteSet(V)
    <3> DEFINE f == [i \in 1..n |-> -(sign * m[order[i]])]
    <3>1. V = {f[i] : i \in 1..n}
      OBVIOUS
    <3> HIDE DEF f, V
    <3>2. f \in Surjection(1..n, V)
      BY <3>1 DEF f, Surjection, V
    <3> QED BY <1>1, <3>2, FS_Surjection
  <2>2. V # {}
    BY <1>1
  <2>3. \A x \in V : x \in Int
    <3> SUFFICES ASSUME NEW i \in 1..n PROVE -(sign * m[order[i]]) \in Int
      OBVIOUS
    <3> QED BY <1>2
  <2> QED BY <2>1, <2>2, <2>3
<1>4. best # {}
  <2>1. PICK x \in V : \A y \in V : x <= y
    <3> HIDE DEF V
    <3> QED BY <1>3, LeastOfFinite
  <2>2. PICK i \in 1..n : x = -(sign * m[order[i]])
    BY <2>1
  <2>3. ASSUME NEW j \in 1..n PROVE sign * m[order[j]] <= sign * m[order[i]]
    <3>1. -(sign * m[order[i]]) <= -(sign * m[order[j]])
      BY <2>1, <2>2
    <3>2. \A a, b \in Int : -a <= -b => b <= a
      OBVIOUS
    <3> QED BY <1>2, <3>1, <3>2
  <2> QED BY <1>1, <2>3
<1>5. first \in best /\ \A j \in best : first <= j
  <2>1. best \in SUBSET (0..n)
    BY <1>1
  <2>2. \E i \in best : \A j \in best : i <= j
    <3> HIDE DEF best
    <3> QED BY <1>4, <2>1, LeastNumber
  <2> QED BY <2>2
<1>6. Extremum(order, sign, m) = order[first]
  BY DEF Extremum
<1> HIDE DEF first
<1>7. (\A j \in 1..n : m[order[j]] = m[order[1]]) => first = 1
  <2> SUFFICES ASSUME \A j \in 1..n : m[order[j]] = m[order[1]] PROVE first = 1
    OBVIOUS
  <2>1. 1 \in best
    BY <1>1, <1>2
  <2> QED BY <1>1, <1>5, <2>1
<1> QED BY <1>1, <1>5, <1>6, <1>7 DEF IsExtreme

\* Ranks follow momenta (cross_sectional.py): a symbol ranked above another has the greater
\* momentum, one symbol leads and another lags, and none is ranked exactly when all momenta
\* are equal.
THEOREM RanksFollowMomentum ==
    ASSUME NEW n \in Nat \ {0}, NEW S, NEW order \in [1..n -> S], NEW m \in [S -> Int]
    PROVE  LET symbols == {order[i] : i \in 1..n}
           IN /\ \A s, t \in symbols :
                     Rank(order, m, s) > Rank(order, m, t) => m[s] >= m[t]
              /\ (\A s, t \in symbols : m[s] = m[t])
                     => \A s \in symbols : Rank(order, m, s) = 0
              /\ (\E s, t \in symbols : m[s] # m[t])
                     => \E s, t \in symbols :
                            /\ m[s] > m[t]
                            /\ \A x \in symbols : /\ Rank(order, m, x) = 1 <=> x = s
                                                  /\ Rank(order, m, x) = -1 <=> x = t
<1> DEFINE symbols == {order[i] : i \in 1..n}
           up   == Leader(order, m)
           down == Laggard(order, m)
<1>1. DOMAIN order = 1..n /\ order[1] \in symbols /\ \A s \in symbols : m[s] \in Int
  BY DEF symbols
<1>2. /\ up \in symbols /\ down \in symbols
      /\ \A s \in symbols : m[s] <= m[up] /\ m[down] <= m[s]
      /\ (\A s \in symbols : m[s] = m[order[1]]) => up = down
  <2>1. /\ \E i \in 1..n : up = order[i]
        /\ \A j \in 1..n : 1 * m[order[j]] <= 1 * m[up]
        /\ (\A j \in 1..n : m[order[j]] = m[order[1]]) => up = order[1]
    <3>1. PICK sign \in {-1, 1} : sign = 1
      OBVIOUS
    <3>2. up = Extremum(order, sign, m)
      BY <3>1 DEF Leader
    <3> HIDE DEF up, symbols
    <3>3. IsExtreme(Extremum(order, sign, m), n, order, sign, m)
      BY <3>1, ExtremumIsExtreme
    <3> QED BY <3>1, <3>2, <3>3 DEF IsExtreme
  <2>2. /\ \E i \in 1..n : down = order[i]
        /\ \A j \in 1..n : (-1) * m[order[j]] <= (-1) * m[down]
        /\ (\A j \in 1..n : m[order[j]] = m[order[1]]) => down = order[1]
    <3>1. PICK sign \in {-1, 1} : sign = -1
      OBVIOUS
    <3>2. down = Extremum(order, sign, m)
      BY <3>1 DEF Laggard
    <3> HIDE DEF down, symbols
    <3>3. IsExtreme(Extremum(order, sign, m), n, order, sign, m)
      BY <3>1, ExtremumIsExtreme
    <3> QED BY <3>1, <3>2, <3>3 DEF IsExtreme
  <2>3. up \in symbols /\ down \in symbols
    BY <2>1, <2>2
  <2>4. \A a, b \in Int : (1 * a <= 1 * b => a <= b) /\ ((-1) * a <= (-1) * b => b <= a)
    OBVIOUS
  <2> HIDE DEF up, down
  <2>5. \A s \in symbols : m[s] <= m[up] /\ m[down] <= m[s]
    BY <1>1, <2>1, <2>2, <2>3, <2>4
  <2>6. \A j \in 1..n : order[j] \in symbols
    OBVIOUS
  <2> HIDE DEF symbols
  <2> QED BY <2>1, <2>2, <2>3, <2>5, <2>6
<1>3. \A x : Rank(order, m, x) = IF 1..n \subseteq {1} \/ up = down THEN 0
                                 ELSE IF x = up THEN 1 ELSE IF x = down THEN -1 ELSE 0
  BY <1>1 DEF Rank
<1>4. 1..n \subseteq {1} => symbols = {order[1]}
  BY <1>1
<1> HIDE DEF up, down, symbols
<1>5. ASSUME NEW s \in symbols, NEW t \in symbols, Rank(order, m, s) > Rank(order, m, t)
      PROVE  m[s] >= m[t]
  <2>1. s = up \/ t = down
    BY <1>3, <1>5
  <2> QED BY <1>1, <1>2, <2>1
<1>6. (\A s, t \in symbols : m[s] = m[t]) => \A s \in symbols : Rank(order, m, s) = 0
  BY <1>1, <1>2, <1>3
<1>7. ASSUME NEW s \in symbols, NEW t \in symbols, m[s] # m[t]
      PROVE  /\ m[up] > m[down]
             /\ \A x \in symbols : /\ Rank(order, m, x) = 1 <=> x = up
                                   /\ Rank(order, m, x) = -1 <=> x = down
  <2>1. ~ (1..n \subseteq {1})
    BY <1>4, <1>7
  <2>2. m[up] > m[down]
    BY <1>1, <1>2, <1>7
  <2>3. up # down
    BY <1>1, <1>2, <2>2
  <2>4. \A x \in symbols :
            Rank(order, m, x) = IF x = up THEN 1 ELSE IF x = down THEN -1 ELSE 0
    BY <1>3, <2>1, <2>3
  <2>5. ASSUME NEW x \in symbols
        PROVE  /\ Rank(order, m, x) = 1 <=> x = up
               /\ Rank(order, m, x) = -1 <=> x = down
    BY <2>3, <2>4
  <2> QED BY <2>2, <2>5
<1> QED BY <1>2, <1>5, <1>6, <1>7 DEF symbols

-----------------------------------------------------------------------------
(* Regimes and verdicts (MetaEngine).                                      *)

\* A market is judged against its own history (detector.py): the greatest move is never
\* sideways, a market turned around keeps its regime with the other sign, and a greater
\* volatility is never called a lower one.
THEOREM RegimesAreRelative ==
    ASSUME NEW n \in Nat, NEW h \in [1..n -> Int], NEW x \in Int, NEW y \in Int
    PROVE  /\ (\A i \in 1..n : Magnitude(h[i]) <= Magnitude(x)) => Trend(x, h) # "sideways"
           /\ x # 0 => (Trend(x, h) = "bullish" <=> Trend(-x, h) = "bearish")
           /\ x <= y /\ VolatilityLevel(x, h) = "high" => VolatilityLevel(y, h) = "high"
           /\ x <= y /\ VolatilityLevel(y, h) = "low" => VolatilityLevel(x, h) = "low"
<1> DEFINE below(v, k) == {i \in DOMAIN k : k[i] <= v}
<1>1. DOMAIN h = 1..n /\ IsFiniteSet(1..n) /\ Cardinality(1..n) = n
  <2>1. 1 \in Int /\ n \in Int
    OBVIOUS
  <2>2. IsFiniteSet(1..n) /\ Cardinality(1..n) = IF 1 > n THEN 0 ELSE n - 1 + 1
    BY <2>1, FS_Interval
  <2> QED BY <2>2
<1>2. Magnitude(x) \in Int /\ Magnitude(-x) = Magnitude(x)
  BY DEF Magnitude
<1>3. (\A i \in 1..n : Magnitude(h[i]) <= Magnitude(x)) => Trend(x, h) # "sideways"
  <2> SUFFICES ASSUME \A i \in 1..n : Magnitude(h[i]) <= Magnitude(x)
               PROVE  Trend(x, h) # "sideways"
    OBVIOUS
  <2> DEFINE k == [i \in DOMAIN h |-> Magnitude(h[i])]
  <2>1. below(Magnitude(x), k) = 1..n
    BY <1>1
  <2>2. Share(Magnitude(x), k) = 100 * n
    BY <1>1, <2>1 DEF Share
  <2>3. Percent(h, 40) = 40 * n
    BY <1>1 DEF Percent
  <2>4. ~ (Share(Magnitude(x), k) < Percent(h, 40))
    BY <2>2, <2>3
  <2> HIDE DEF k
  <2>5. k = [i \in DOMAIN h |-> Magnitude(h[i])]
    BY DEF k
  <2> QED BY <2>4, <2>5 DEF Trend
<1>4. x # 0 => (Trend(x, h) = "bullish" <=> Trend(-x, h) = "bearish")
  BY <1>2 DEF Trend
<1>5. x <= y => /\ Share(x, h) \in Int /\ Share(y, h) \in Int
                /\ Share(x, h) <= Share(y, h) /\ Share(y, h) <= 100 * n
  <2> SUFFICES ASSUME x <= y
               PROVE  /\ Share(x, h) \in Int /\ Share(y, h) \in Int
                      /\ Share(x, h) <= Share(y, h) /\ Share(y, h) <= 100 * n
    OBVIOUS
  <2>1. below(x, h) \subseteq below(y, h) /\ below(y, h) \subseteq 1..n
    BY <1>1
  <2>2. IsFiniteSet(below(y, h)) /\ Cardinality(below(y, h)) <= n
    <3> HIDE DEF below
    <3> QED BY <1>1, <2>1, FS_Subset
  <2>3. IsFiniteSet(below(x, h)) /\ Cardinality(below(x, h)) <= Cardinality(below(y, h))
    <3> HIDE DEF below
    <3> QED BY <2>1, <2>2, FS_Subset
  <2>4. Cardinality(below(x, h)) \in Nat /\ Cardinality(below(y, h)) \in Nat
    <3> HIDE DEF below
    <3> QED BY <2>2, <2>3, FS_CardinalityType
  <2>5. Share(x, h) = 100 * Cardinality(below(x, h)) /\ Share(y, h) = 100 * Cardinality(below(y, h))
    BY DEF Share
  <2> HIDE DEF below
  <2> QED BY <2>2, <2>3, <2>4, <2>5
<1>6. Percent(h, 75) = 75 * n /\ Percent(h, 25) = 25 * n
  BY <1>1 DEF Percent
<1> HIDE DEF below
<1>7. ASSUME x <= y
      PROVE  /\ VolatilityLevel(x, h) = "high" => VolatilityLevel(y, h) = "high"
             /\ VolatilityLevel(y, h) = "low" => VolatilityLevel(x, h) = "low"
  BY <1>5, <1>6, <1>7 DEF VolatilityLevel
<1> QED BY <1>3, <1>4, <1>7

\* A bootstrap is at least as demanding as a calibrated verdict would be on its raw score:
\* what it lets pass on a score, `probability` being no less, passes calibrated.
THEOREM BootstrapIsStricter ==
    ASSUME NEW weight \in Nat, NEW confidence \in Nat \ {0}, NEW probability \in Nat,
           weight <= probability * confidence,
           NEW value \in Int, NEW reward \in Int, NEW risk \in Int,
           EvaluateBootstrapVerdict([side |-> Buy, weight |-> weight, confidence |-> confidence],
                                    value, reward, risk) = "signal"
    PROVE  EvaluateVerdict(probability, value, reward, risk) = "signal"
<1>1. weight >= 75 * confidence /\ value > 0 /\ 2 * reward >= 3 * risk
  BY DEF EvaluateBootstrapVerdict, StrongScore, SignalIf
<1>2. probability >= 75
  <2> SUFFICES ASSUME probability < 75 PROVE FALSE
    OBVIOUS
  <2>1. probability * confidence <= 74 * confidence
    BY SMT
  <2>2. probability * confidence \in Nat
    BY SMT
  <2> QED BY <1>1, <2>1, <2>2
<1> QED BY <1>1, <1>2 DEF EvaluateVerdict, SignalIf

\* The cost estimate of a decision and the expected value that decided it agree on what
\* covers the costs, whatever the features: the first is published, the second judged. A
\* position that receives funding has no smaller net edge than one that pays it, a dearer
\* spread or fee never raises either, and an unknown feature leaves nothing to judge.
THEOREM CostsAgree ==
    ASSUME NEW m \in Int, NEW spread \in Int, NEW fee \in Int, NEW dearer \in Int, dearer >= fee,
           NEW rate \in Nat, NEW hours \in Nat
    PROVE  /\ \A v \in ExpectedValue([momentum |-> m, spread |-> spread], fee) :
                 v > 0 <=> NetEdgeTimesEight(Magnitude(m), spread, fee, 0, 0, 0) > 0
           /\ NetEdgeTimesEight(m, spread, fee, rate, hours, 1)
                  >= NetEdgeTimesEight(m, spread, fee, rate, hours, -1)
           /\ \A direction \in {-1, 0, 1} :
                 NetEdgeTimesEight(m, spread, fee, rate, hours, direction)
                     >= NetEdgeTimesEight(m, spread, dearer, rate, hours, direction)
           /\ ExpectedValue([momentum |-> m], fee) = {}
<1>1. PICK paid \in Nat : paid = rate * hours
  OBVIOUS
<1>2. Magnitude(m) \in Int
  BY DEF Magnitude
<1>3. \A v \in ExpectedValue([momentum |-> m, spread |-> spread], fee) :
         v > 0 <=> NetEdgeTimesEight(Magnitude(m), spread, fee, 0, 0, 0) > 0
  <2>1. \A v \in ExpectedValue([momentum |-> m, spread |-> spread], fee) :
           v = Magnitude(m) - spread - fee
    BY DEF ExpectedValue
  <2>2. NetEdgeTimesEight(Magnitude(m), spread, fee, 0, 0, 0) = 8 * (Magnitude(m) - spread - fee)
    BY <1>2 DEF NetEdgeTimesEight
  <2> QED BY <1>2, <2>1, <2>2
<1>4. /\ FundingImpactTimesEight(rate, hours, 1) = paid
      /\ FundingImpactTimesEight(rate, hours, 0) = 0
      /\ FundingImpactTimesEight(rate, hours, -1) = -paid
  BY <1>1 DEF FundingImpactTimesEight
<1>5. NetEdgeTimesEight(m, spread, fee, rate, hours, 1)
          >= NetEdgeTimesEight(m, spread, fee, rate, hours, -1)
  BY <1>4 DEF NetEdgeTimesEight
<1>6. \A direction \in {-1, 0, 1} :
         NetEdgeTimesEight(m, spread, fee, rate, hours, direction)
             >= NetEdgeTimesEight(m, spread, dearer, rate, hours, direction)
  BY <1>4 DEF NetEdgeTimesEight
<1>7. ExpectedValue([momentum |-> m], fee) = {}
  BY DEF ExpectedValue
<1> QED BY <1>3, <1>5, <1>6, <1>7
=============================================================================
