-------------------------- MODULE CollectorProofs ----------------------------
(***************************************************************************)
(* What becomes of what data_collector publishes. Of its trades: their     *)
(* conservation and the telling of gaps, proved for any feeds, any size of *)
(* cache, batch and threshold. Counting is the heart of it: how often a    *)
(* trade occurs in a list adds up when lists are joined, and a cache that  *)
(* never holds a trade twice forgets it as often as it lets it in again.   *)
(* Of its events: the bounded queue through which Alerts tells them.       *)
(***************************************************************************)
EXTENDS MarketData, ProofFacts

-----------------------------------------------------------------------------
(* The inductive invariant.                                                *)

Remembered(t) == IF IsDuplicate(t) THEN 1 ELSE 0

Held(t) == Occurrences(buffer)[t] + Occurrences(batch["loop"])[t] + Occurrences(batch["task"])[t]

\* What TypeOK leaves open: the tables and the memory are functions.
MoreTypes ==
    /\ seen \in [Feeds -> Seq(Numbers)]
    /\ batch \in [Writers -> Seq(Trades)]
    /\ rewound \in [Feeds -> BOOLEAN]
    /\ {stored, accepted, lost, forgotten} \subseteq [Trades -> Nat]

\* The cache holds no trade twice.
CacheIsASet == \A f \in Feeds : \A i, j \in DOMAIN seen[f] : seen[f][i] = seen[f][j] => i = j

\* A trade was let in once more than it was forgotten if it is remembered, as often if not.
LetInOrForgotten == \A t \in Trades : accepted[t] = forgotten[t] + Remembered(t)

Conserved == \A t \in Trades : accepted[t] = stored[t] + lost[t] + Held(t)

\* The time of the last trade is that of the newest, unless an older one was accepted.
ClockIsRight ==
    \A f \in Feeds :
        /\ last[f] <= newest[f]
        /\ last[f] = 0 <=> newest[f] = 0
        /\ ~rewound[f] => last[f] = newest[f]

Inductive ==
    /\ TypeOK /\ MoreTypes
    /\ CacheIsASet /\ LetInOrForgotten /\ Conserved
    /\ ClockIsRight

-----------------------------------------------------------------------------
(* Counting.                                                               *)

\* The places of a trade in a list, and their number.
Places(seq, t) == {i \in DOMAIN seq : seq[i] = t}

LEMMA PlacesAreFinite ==
    ASSUME NEW seq \in Seq(Trades), NEW t \in Trades
    PROVE  /\ IsFiniteSet(Places(seq, t)) /\ Cardinality(Places(seq, t)) \in Nat
           /\ Occurrences(seq)[t] = Cardinality(Places(seq, t))
<1>1. Len(seq) \in Nat /\ DOMAIN seq = 1..Len(seq)
  BY ListFacts
<1>2. IsFiniteSet(1..Len(seq))
  <2>1. 1 \in Int /\ Len(seq) \in Int
    BY <1>1
  <2> QED BY <2>1, FS_Interval
<1>3. Places(seq, t) \in SUBSET (1..Len(seq))
  BY <1>1 DEF Places
<1>4. IsFiniteSet(Places(seq, t)) /\ Cardinality(Places(seq, t)) \in Nat
  BY <1>2, <1>3, FS_Subset, FS_CardinalityType
<1> QED BY <1>4 DEF Occurrences, Places

\* A trade occurs in two lists joined as often as in the one and the other.
LEMMA OccurrencesJoin ==
    ASSUME NEW a \in Seq(Trades), NEW b \in Seq(Trades), NEW t \in Trades
    PROVE  /\ a \o b \in Seq(Trades)
           /\ Occurrences(a)[t] \in Nat /\ Occurrences(b)[t] \in Nat
           /\ Occurrences(a \o b)[t] = Occurrences(a)[t] + Occurrences(b)[t]
<1> DEFINE Moved == {k \in (Len(a) + 1)..(Len(a) + Len(b)) : b[k - Len(a)] = t}
           shift == [j \in Places(b, t) |-> j + Len(a)]
<1>1. /\ Len(a) \in Nat /\ DOMAIN a = 1..Len(a)
      /\ Len(b) \in Nat /\ DOMAIN b = 1..Len(b)
  BY ListFacts
<1>2. /\ a \o b \in Seq(Trades) /\ Len(a \o b) = Len(a) + Len(b)
      /\ \A i \in 1..(Len(a) + Len(b)) : (a \o b)[i] = IF i <= Len(a) THEN a[i] ELSE b[i - Len(a)]
  BY ConcatProperties
<1>3. DOMAIN (a \o b) = 1..(Len(a) + Len(b))
  BY <1>2, ListFacts
<1>4. Places(a \o b, t) = Places(a, t) \union Moved
  BY <1>1, <1>2, <1>3 DEF Places
<1>5. Places(a, t) \intersect Moved = {}
  BY <1>1 DEF Places
<1>6. shift \in Bijection(Places(b, t), Moved)
  <2>1. shift \in [Places(b, t) -> Moved]
    BY <1>1 DEF Places
  <2>2. \A i, j \in Places(b, t) : shift[i] = shift[j] => i = j
    BY <1>1 DEF Places
  <2>3. \A k \in Moved : \E j \in Places(b, t) : shift[j] = k
    <3> SUFFICES ASSUME NEW k \in Moved PROVE \E j \in Places(b, t) : shift[j] = k
      OBVIOUS
    <3>1. k - Len(a) \in Places(b, t) /\ (k - Len(a)) + Len(a) = k
      BY <1>1 DEF Places
    <3>2. shift[k - Len(a)] = k
      BY <3>1
    <3> QED BY <3>1, <3>2
  <2> QED BY <2>1, <2>2, <2>3 DEF Bijection, Injection, Surjection, IsInjective
<1>7. IsFiniteSet(Moved) /\ Cardinality(Moved) = Cardinality(Places(b, t))
  <2>1. ExistsBijection(Places(b, t), Moved)
    BY <1>6 DEF ExistsBijection
  <2> QED BY <2>1, PlacesAreFinite, FS_Bijection
<1>8. Cardinality(Places(a \o b, t)) = Cardinality(Places(a, t)) + Cardinality(Places(b, t))
  <2>1. IsFiniteSet(Places(a, t)) /\ Cardinality(Places(a, t)) \in Nat
        /\ Cardinality(Places(b, t)) \in Nat
    BY PlacesAreFinite
  <2>2. Cardinality(Places(a, t) \union Moved)
            = Cardinality(Places(a, t)) + Cardinality(Moved) - Cardinality({})
    BY <1>5, <1>7, <2>1, FS_Union
  <2>3. Cardinality({}) = 0
    BY FS_EmptySet
  <2> QED BY <1>4, <1>7, <2>1, <2>2, <2>3
<1> QED BY <1>2, <1>8, PlacesAreFinite

\* A trade occurs in no empty list, and once in the list of itself.
LEMMA OccurrencesFew ==
    ASSUME NEW t \in Trades, NEW u \in Trades
    PROVE  /\ <<>> \in Seq(Trades) /\ Occurrences(<<>>)[t] = 0
           /\ <<u>> \in Seq(Trades) /\ Occurrences(<<u>>)[t] = IF u = t THEN 1 ELSE 0
<1>1. <<>> \in Seq(Trades) /\ Places(<<>>, t) = {}
  BY EmptySeq DEF Places
<1>2. <<u>> \in Seq(Trades) /\ Places(<<u>>, t) = IF u = t THEN {1} ELSE {}
  BY DEF Places
<1>3. Cardinality({}) = 0 /\ Cardinality({1}) = 1
  BY FS_EmptySet, FS_Singleton
<1>4. Occurrences(<<>>)[t] = 0
  BY <1>1, <1>3, PlacesAreFinite
<1>5. Occurrences(<<u>>)[t] = Cardinality(Places(<<u>>, t))
  BY <1>2, PlacesAreFinite
<1> QED BY <1>1, <1>2, <1>3, <1>4, <1>5

\* One more trade in a list.
LEMMA OccurrencesAppend ==
    ASSUME NEW s \in Seq(Trades), NEW u \in Trades, NEW t \in Trades
    PROVE  /\ Append(s, u) \in Seq(Trades) /\ Occurrences(s)[t] \in Nat
           /\ Occurrences(Append(s, u))[t] = Occurrences(s)[t] + IF u = t THEN 1 ELSE 0
<1>1. Append(s, u) \in Seq(Trades)
  BY AppendFacts
<1>2. Append(s, u) = s \o <<u>>
  OBVIOUS
<1>3. <<u>> \in Seq(Trades) /\ Occurrences(<<u>>)[t] = IF u = t THEN 1 ELSE 0
  BY OccurrencesFew
<1>4. /\ Occurrences(s)[t] \in Nat
      /\ Occurrences(s \o <<u>>)[t] = Occurrences(s)[t] + Occurrences(<<u>>)[t]
  BY <1>3, OccurrencesJoin
<1> QED BY <1>1, <1>2, <1>3, <1>4

\* What an insertion or a loss adds to a table.
LEMMA PlusFacts ==
    ASSUME NEW bag \in [Trades -> Nat], NEW seq \in Seq(Trades)
    PROVE  /\ Plus(bag, seq) \in [Trades -> Nat]
           /\ \A t \in Trades : Plus(bag, seq)[t] = bag[t] + Occurrences(seq)[t]
<1>1. \A t \in Trades : Occurrences(seq)[t] \in Nat
  BY PlacesAreFinite
<1> QED BY <1>1 DEF Plus

-----------------------------------------------------------------------------
(* The invariant holds at first, and where the memory is left alone.       *)

\* The bounds, one by one.
LEMMA Bounds ==
    /\ MaxTrades \in Nat \ {0} /\ MaxWire \in Nat \ {0} /\ MaxAccepted \in Nat \ {0}
    /\ CacheSize \in Nat \ {0} /\ BatchSize \in Nat \ {0} /\ MaxMessage \in Nat \ {0}
    /\ GapThreshold \in Nat /\ MaxFaults \in Nat
    /\ MaxBatch = BatchSize - 1 + MaxMessage /\ MaxBatch \in Nat /\ BatchSize <= MaxBatch
BY BoundsAssumption DEF MaxBatch

\* The empty list is a message, and what is left of a message is one.
LEMMA MessageFacts ==
    /\ <<>> \in Messages
    /\ \A trades \in Messages :
           /\ trades \in Seq(Trades) /\ Len(trades) \in Nat /\ Len(trades) <= MaxMessage
           /\ trades # <<>> => /\ Head(trades) \in Trades
                               /\ Tail(trades) \in Messages /\ Len(Tail(trades)) = Len(trades) - 1
<1>1. <<>> \in Seq(Trades) /\ Len(<<>>) = 0
  BY EmptySeq
<1>2. <<>> \in Messages
  BY <1>1, Bounds DEF Messages
<1>3. ASSUME NEW trades \in Messages
      PROVE  /\ trades \in Seq(Trades) /\ Len(trades) \in Nat /\ Len(trades) <= MaxMessage
             /\ trades # <<>> => /\ Head(trades) \in Trades
                                 /\ Tail(trades) \in Messages /\ Len(Tail(trades)) = Len(trades) - 1
  <2>1. trades \in Seq(Trades) /\ Len(trades) \in Nat /\ Len(trades) <= MaxMessage
    BY ListFacts DEF Messages
  <2>2. ASSUME trades # <<>>
        PROVE  /\ Head(trades) \in Trades
               /\ Tail(trades) \in Messages /\ Len(Tail(trades)) = Len(trades) - 1
    <3>1. Head(trades) \in Trades /\ Tail(trades) \in Seq(Trades) /\ Len(Tail(trades)) = Len(trades) - 1
      BY <2>1, <2>2, ListFacts
    <3>2. Len(Tail(trades)) <= MaxMessage
      BY <2>1, <3>1, Bounds
    <3> QED BY <3>1, <3>2 DEF Messages
  <2> QED BY <2>1, <2>2
<1> QED BY <1>2, <1>3

\* Nothing is held, remembered or counted.
LEMMA InitInductive == Init => Inductive
<1> SUFFICES ASSUME Init PROVE Inductive
  OBVIOUS
<1>1. <<>> \in Seq(Trades) /\ <<>> \in Seq(Numbers) /\ Len(<<>>) = 0 /\ DOMAIN <<>> = {}
  BY EmptySeq
<1>2. /\ batch \in [Writers -> Seq(Trades)] /\ \A w \in Writers : batch[w] = <<>>
      /\ buffer = <<>> /\ wire = <<>> /\ message = <<>>
  BY <1>1 DEF Init, Empty
<1>3. /\ seen \in [Feeds -> Seq(Numbers)] /\ \A f \in Feeds : seen[f] = <<>>
      /\ rewound \in [Feeds -> BOOLEAN]
  BY <1>1 DEF Init
<1>4. /\ {stored, accepted, lost, forgotten} \subseteq [Trades -> Nat]
      /\ \A t \in Trades : stored[t] = 0 /\ accepted[t] = 0 /\ lost[t] = 0 /\ forgotten[t] = 0
  BY DEF Init
<1>5. /\ 0 \in 0..MaxTrades /\ 0 \in 0..MaxFaults /\ 0 <= MaxWire /\ 0 <= CacheSize
      /\ 0 < BatchSize /\ 0 <= MaxBatch
  BY Bounds
<1>6. TypeOK
  <2>1. link \in [Feeds -> Links]
    BY DEF Init, LinkInit, Links
  <2>2. /\ made \in [Feeds -> 0..MaxTrades] /\ last \in [Feeds -> 0..MaxTrades]
        /\ newest \in [Feeds -> 0..MaxTrades] /\ faults \in 0..MaxFaults
    BY <1>5 DEF Init
  <2>3. /\ wire \in Seq(Messages) /\ Len(wire) <= MaxWire /\ message \in Messages
        /\ buffer \in Seq(Trades) /\ Len(buffer) < BatchSize /\ Len(buffer) + Len(message) <= MaxBatch
    <3>1. <<>> \in Seq(Messages) /\ 0 + 0 <= MaxBatch
      BY <1>5, EmptySeq
    <3> QED BY <1>1, <1>2, <1>5, <3>1, MessageFacts
  <2>4. \A f \in Feeds : seen[f] \in Seq(Numbers) /\ Len(seen[f]) <= CacheSize
    BY <1>1, <1>3, <1>5
  <2>5. \A w \in Writers : batch[w] \in Seq(Trades) /\ Len(batch[w]) <= MaxBatch
    <3>1. Len(<<>>) = 0 /\ 0 <= MaxBatch
      BY <1>1, <1>5
    <3> QED BY <1>1, <1>2, <3>1
  <2>6. running = TRUE /\ timer = TRUE
    BY DEF Init
  <2> QED BY <1>2, <2>1, <2>2, <2>3, <2>4, <2>5, <2>6 DEF TypeOK
<1>7. MoreTypes
  BY <1>2, <1>3, <1>4 DEF MoreTypes
<1>8. CacheIsASet
  BY <1>1, <1>3 DEF CacheIsASet
<1>9. LetInOrForgotten
  <2>1. \A t \in Trades : t[1] \in Feeds
    BY DEF Trades
  <2>2. \A t \in Trades : ~IsDuplicate(t)
    BY <1>1, <1>3, <2>1 DEF IsDuplicate, ToSet
  <2> QED BY <1>4, <2>2 DEF LetInOrForgotten, Remembered
<1>10. Conserved
  <2>1. \A t \in Trades : Held(t) = 0
    <3>1. batch["loop"] = <<>> /\ batch["task"] = <<>>
      BY <1>2 DEF Writers
    <3>2. \A t \in Trades : Occurrences(<<>>)[t] = 0
      BY OccurrencesFew
    <3> QED BY <1>2, <3>1, <3>2 DEF Held
  <2> QED BY <1>4, <2>1 DEF Conserved
<1>11. ClockIsRight
  BY <1>5 DEF Init, ClockIsRight
<1> QED BY <1>6, <1>7, <1>8, <1>9, <1>10, <1>11 DEF Inductive

\* What the normalizer holds and remembers, and the tables.
memories == <<seen, last, newest, rewound>>

holdings == <<buffer, batch>>

\* Steps around the normalizer.
LEMMA MemoryStays ==
    ASSUME Inductive, TypeOK', UNCHANGED <<memories, holdings, table>>
    PROVE  Inductive'
<1>1. /\ seen' = seen /\ last' = last /\ newest' = newest /\ rewound' = rewound
      /\ buffer' = buffer /\ batch' = batch
      /\ stored' = stored /\ accepted' = accepted /\ lost' = lost /\ forgotten' = forgotten
  BY DEF memories, holdings, table
<1>2. \A t : Remembered(t)' = Remembered(t) /\ Held(t)' = Held(t)
  BY <1>1 DEF Remembered, IsDuplicate, Held
<1>3. MoreTypes' /\ CacheIsASet' /\ ClockIsRight'
  BY <1>1 DEF Inductive, MoreTypes, CacheIsASet, ClockIsRight
<1>4. LetInOrForgotten' /\ Conserved'
  BY <1>1, <1>2 DEF Inductive, LetInOrForgotten, Conserved
<1> QED BY <1>3, <1>4 DEF Inductive

\* A message goes into the channel, or to nobody.
LEMMA WireKept ==
    ASSUME TypeOK, NEW trades \in Messages, Publish(trades)
    PROVE  wire' \in Seq(Messages) /\ Len(wire') <= MaxWire /\ (~running => wire' = <<>>)
<1>1. wire \in Seq(Messages) /\ Len(wire) \in Nat /\ Len(wire) < MaxWire
  BY ListFacts DEF TypeOK, Publish
<1>2. CASE running
  <2>1. wire' = Append(wire, trades)
    BY <1>2 DEF Publish
  <2>2. wire' \in Seq(Messages) /\ Len(wire') = Len(wire) + 1
    BY <1>1, <2>1, AppendFacts
  <2> QED BY <1>1, <1>2, <2>2, Bounds
<1>3. CASE ~running
  BY <1>1, <1>3, Bounds DEF Publish, TypeOK
<1> QED BY <1>2, <1>3

\* Trades made travel in messages no longer than their exchange makes them.
LEMMA MessageMade ==
    ASSUME NEW f \in Feeds, NEW n \in 1..MessageSize(f), NEW first \in Nat \ {0},
           first + n - 1 <= MaxTrades
    PROVE  Message(f, first, n) \in Messages
<1>1. n \in Nat /\ n <= MaxMessage
  BY Bounds DEF MessageSize
<1>2. \A i \in 1..n : first + i - 1 \in Numbers
  BY <1>1, Bounds DEF Numbers
<1>3. Message(f, first, n) \in [1..n -> Trades]
  BY <1>2 DEF Message, Trades
<1>4. Message(f, first, n) \in Seq(Trades) /\ Len(Message(f, first, n)) = n
  BY <1>1, <1>3 DEF Message
<1> QED BY <1>1, <1>4 DEF Messages

\* The exchange makes trades, or sends some again.
LEMMA TradeKept ==
    ASSUME Inductive,
           \/ \E f \in Feeds : \E n \in 1..MessageSize(f) : Trade(f, n)
           \/ \E f \in Feeds : \E first \in Numbers, n \in 1..MessageSize(f) : Resend(f, first, n)
    PROVE  Inductive'
<1>1. /\ link' = link /\ faults' = faults /\ running' = running /\ timer' = timer
      /\ message' = message /\ UNCHANGED <<memories, holdings, table>>
  BY DEF Trade, Resend, memory, memories, holdings
<1>2. /\ made' \in [Feeds -> 0..MaxTrades]
      /\ wire' \in Seq(Messages) /\ Len(wire') <= MaxWire /\ (~running => wire' = <<>>)
  <2>1. ASSUME NEW f \in Feeds, NEW n \in 1..MessageSize(f), Trade(f, n)
        PROVE  /\ made' \in [Feeds -> 0..MaxTrades]
               /\ wire' \in Seq(Messages) /\ Len(wire') <= MaxWire /\ (~running => wire' = <<>>)
    <3>1. /\ made \in [Feeds -> 0..MaxTrades] /\ made[f] + n <= MaxTrades
          /\ made' = [made EXCEPT ![f] = @ + n] /\ n \in Nat
      BY <2>1, Bounds DEF Inductive, TypeOK, Trade, MessageSize
    <3>2. /\ made[f] + n \in 0..MaxTrades /\ made[f] + 1 \in Nat \ {0}
          /\ (made[f] + 1) + n - 1 <= MaxTrades
      BY <3>1, Bounds
    <3>3. Message(f, made[f] + 1, n) \in Messages
      BY <3>2, MessageMade
    <3>4. Publish(Message(f, made[f] + 1, n)) \/ wire' = wire
      BY <2>1 DEF Trade
    <3> QED BY <3>1, <3>2, <3>3, <3>4, WireKept DEF Inductive, TypeOK
  <2>2. ASSUME NEW f \in Feeds, NEW first \in Numbers, NEW n \in 1..MessageSize(f), Resend(f, first, n)
        PROVE  /\ made' \in [Feeds -> 0..MaxTrades]
               /\ wire' \in Seq(Messages) /\ Len(wire') <= MaxWire /\ (~running => wire' = <<>>)
    <3>1. /\ made \in [Feeds -> 0..MaxTrades] /\ made' = made /\ first + n - 1 <= made[f]
          /\ Publish(Message(f, first, n))
      BY <2>2 DEF Inductive, TypeOK, Resend
    <3>2. first \in Nat \ {0} /\ n \in Nat /\ first + n - 1 <= MaxTrades
      BY <3>1, Bounds DEF Numbers, MessageSize
    <3> QED BY <3>1, <3>2, MessageMade, WireKept DEF Inductive
  <2> QED BY <2>1, <2>2
<1>3. TypeOK'
  BY <1>1, <1>2 DEF Inductive, TypeOK, memories, holdings, table
<1> QED BY <1>1, <1>3, MemoryStays

\* The loop takes a message out of the channel, with the buffer below the limit.
LEMMA ReceiveKept ==
    ASSUME Inductive, Receive
    PROVE  Inductive' /\ newest' = newest
<1>1. /\ wire \in Seq(Messages) /\ wire # <<>> /\ Len(wire) <= MaxWire
      /\ buffer \in Seq(Trades) /\ Len(buffer) < BatchSize
      /\ running = TRUE /\ batch["loop"] = <<>>
  BY DEF Inductive, TypeOK, Receive
<1>2. /\ message' = Head(wire) /\ wire' = Tail(wire)
      /\ UNCHANGED <<link, made, running, timer, faults>>
      /\ UNCHANGED <<memories, holdings, table>>
  BY DEF Receive, memory, memories, holdings
<1>3. /\ Head(wire) \in Messages /\ wire' \in Seq(Messages)
      /\ Len(wire') = Len(wire) - 1 /\ Len(wire) \in Nat
  BY <1>1, <1>2, ListFacts
<1>4. Len(wire') <= MaxWire
  BY <1>1, <1>3, Bounds
<1>5. Len(buffer) + Len(message') <= MaxBatch
  <2>1. Len(buffer) \in Nat /\ Len(message') \in Nat /\ Len(message') <= MaxMessage
    BY <1>1, <1>2, <1>3, MessageFacts, ListFacts
  <2> QED BY <1>1, <2>1, Bounds
<1>6. newest' = newest /\ buffer' = buffer /\ batch' = batch
  BY <1>2 DEF memories, holdings
<1>7. TypeOK'
  BY <1>1, <1>2, <1>3, <1>4, <1>5, <1>6 DEF Inductive, TypeOK, memories
<1> QED BY <1>2, <1>6, <1>7, MemoryStays

\* A connection moves, or the normalizer is started.
LEMMA LinkKept ==
    ASSUME Inductive, StartNormalizer \/ \E f \in Feeds : Reconnect(f)
    PROVE  Inductive'
<1>1. /\ made' = made /\ wire' = wire /\ message' = message /\ faults' = faults
      /\ UNCHANGED <<memories, holdings, table>>
  BY DEF StartNormalizer, Reconnect, market, memory, memories, holdings
<1>2. /\ running' \in BOOLEAN /\ timer' \in BOOLEAN
      /\ ~running' => ~running /\ ~timer'
  <2>1. CASE StartNormalizer
    BY <2>1 DEF StartNormalizer
  <2>2. CASE running' = running /\ timer' = timer
    BY <2>2 DEF Inductive, TypeOK
  <2> QED BY <2>1, <2>2 DEF Reconnect, memory
<1>3. link' \in [Feeds -> Links]
  <2>1. link \in [Feeds -> Links]
    BY DEF Inductive, TypeOK
  <2>2. ASSUME NEW f \in Feeds, NEW from \in Links, NEW to \in Links, Move(f, from, to)
        PROVE  link' \in [Feeds -> Links]
    BY <2>1, <2>2 DEF Move
  <2>3. {"down", "connecting", "open", "dead", "waiting"} \subseteq Links
    BY DEF Links
  <2>4. ASSUME NEW f \in Feeds, Reconnect(f) PROVE link' \in [Feeds -> Links]
    BY <2>2, <2>3, <2>4
       DEF Reconnect, Connect, FailToConnect, RefuseHandshake, LoseConnection, CloseCleanly,
           GoSilent, NoticeSilence, Retry, RestartCollector
  <2> QED BY <2>1, <2>4 DEF StartNormalizer
<1>4. TypeOK'
  BY <1>1, <1>2, <1>3 DEF Inductive, TypeOK, memories, holdings, table
<1> QED BY <1>1, <1>4, MemoryStays

-----------------------------------------------------------------------------
(* The normalizer reads.                                                   *)

Distinct(ids) == \A i, j \in DOMAIN ids : ids[i] = ids[j] => i = j

\* A new identifier enters the cache and, when it is full, the oldest leaves.
LEMMA CachedFacts ==
    ASSUME NEW ids \in Seq(Numbers), Len(ids) <= CacheSize, Distinct(ids),
           NEW n \in Numbers, n \notin ToSet(ids)
    PROVE  /\ Cached(ids, n) \in Seq(Numbers) /\ Len(Cached(ids, n)) <= CacheSize
           /\ Distinct(Cached(ids, n))
           /\ IF Len(ids) < CacheSize
              THEN ToSet(Cached(ids, n)) = ToSet(ids) \union {n}
              ELSE /\ Head(ids) \in ToSet(ids) /\ Head(ids) \in Numbers
                   /\ ToSet(Cached(ids, n)) = (ToSet(ids) \ {Head(ids)}) \union {n}
<1>1. Len(ids) \in Nat /\ DOMAIN ids = 1..Len(ids) /\ \A i \in 1..Len(ids) : ids[i] \in Numbers /\ ids[i] # n
  BY ListFacts DEF ToSet
<1>2. ASSUME NEW s \in Seq(Numbers), Distinct(s), n \notin ToSet(s)
      PROVE  /\ Append(s, n) \in Seq(Numbers) /\ Len(Append(s, n)) = Len(s) + 1
             /\ Distinct(Append(s, n)) /\ ToSet(Append(s, n)) = ToSet(s) \union {n}
  <2>1. Len(s) \in Nat /\ DOMAIN s = 1..Len(s)
    BY ListFacts
  <2>2. /\ Append(s, n) \in Seq(Numbers) /\ Len(Append(s, n)) = Len(s) + 1
        /\ DOMAIN Append(s, n) = 1..(Len(s) + 1)
        /\ \A i \in 1..Len(s) : Append(s, n)[i] = s[i]
        /\ Append(s, n)[Len(s) + 1] = n
    BY AppendFacts
  <2>3. \A i \in 1..(Len(s) + 1) : i \in 1..Len(s) \/ i = Len(s) + 1
    BY <2>1
  <2>4. \A i \in 1..Len(s) : s[i] # n /\ i \in 1..(Len(s) + 1) /\ i # Len(s) + 1
    BY <1>2, <2>1 DEF ToSet
  <2>5. Distinct(Append(s, n))
    BY <1>2, <2>1, <2>2, <2>3, <2>4 DEF Distinct
  <2>6. ToSet(Append(s, n)) = ToSet(s) \union {n}
    <3>1. Len(s) + 1 \in 1..(Len(s) + 1)
      BY <2>1
    <3> QED BY <2>1, <2>2, <2>3, <2>4, <3>1 DEF ToSet
  <2> QED BY <2>2, <2>5, <2>6
<1>3. CASE Len(ids) < CacheSize
  <2>0. Len(ids) \in Int /\ CacheSize \in Int
    BY <1>1, Bounds
  <2>1. Len(ids) # CacheSize /\ Len(ids) + 1 <= CacheSize
    BY <1>3, <2>0
  <2>2. Cached(ids, n) = Append(ids, n)
    BY <2>1 DEF Cached
  <2>3. n \notin ToSet(ids)
    OBVIOUS
  <2> HIDE DEF Distinct
  <2> QED BY <1>2, <1>3, <2>1, <2>2, <2>3
<1>4. CASE ~(Len(ids) < CacheSize)
  <2>0. Len(ids) \in Int /\ CacheSize \in Int /\ CacheSize > 0 /\ Len(ids) <= CacheSize
    BY <1>1, Bounds
  <2>1. Len(ids) = CacheSize /\ Len(ids) > 0
    BY <1>4, <2>0
  <2>2. Cached(ids, n) = Append(Tail(ids), n)
    BY <2>1 DEF Cached
  <2>3. /\ Head(ids) = ids[1] /\ ids[1] \in Numbers /\ 1 \in DOMAIN ids
        /\ Tail(ids) \in Seq(Numbers) /\ Len(Tail(ids)) = Len(ids) - 1
        /\ DOMAIN Tail(ids) = 1..(Len(ids) - 1)
        /\ \A i \in 1..(Len(ids) - 1) : Tail(ids)[i] = ids[i + 1]
    BY <2>1, ListFacts
  <2>4. \A i \in 1..(Len(ids) - 1) : i + 1 \in DOMAIN ids /\ i + 1 # 1
    BY <1>1
  <2>5. Distinct(Tail(ids))
    <3> SUFFICES ASSUME NEW i \in 1..(Len(ids) - 1), NEW j \in 1..(Len(ids) - 1),
                        Tail(ids)[i] = Tail(ids)[j]
                 PROVE  i = j
      BY <2>3 DEF Distinct
    <3>1. ids[i + 1] = ids[j + 1]
      BY <2>3
    <3>2. i + 1 = j + 1
      BY <2>4, <3>1 DEF Distinct
    <3> QED BY <1>1, <3>2
  <2>6. ToSet(Tail(ids)) = ToSet(ids) \ {Head(ids)}
    <3>1. \A k \in DOMAIN ids : k = 1 \/ (k - 1 \in 1..(Len(ids) - 1) /\ (k - 1) + 1 = k)
      BY <1>1
    <3>2. ASSUME NEW x \in ToSet(Tail(ids)) PROVE x \in ToSet(ids) /\ x # Head(ids)
      <4>1. PICK i \in 1..(Len(ids) - 1) : x = ids[i + 1]
        BY <2>3 DEF ToSet
      <4> QED BY <2>3, <2>4, <4>1 DEF ToSet, Distinct
    <3>3. ASSUME NEW x \in ToSet(ids), x # Head(ids) PROVE x \in ToSet(Tail(ids))
      <4>1. PICK k \in DOMAIN ids : x = ids[k]
        BY DEF ToSet
      <4>2. k # 1
        BY <2>3, <3>3, <4>1
      <4> QED BY <2>3, <3>1, <4>1, <4>2 DEF ToSet
    <3> QED BY <3>2, <3>3
  <2>7. Head(ids) \in ToSet(ids)
    BY <2>3 DEF ToSet
  <2>8. n \notin ToSet(Tail(ids))
    BY <2>6
  <2>9. Head(ids) \in Numbers
    BY <2>3
  <2>10. /\ Append(Tail(ids), n) \in Seq(Numbers) /\ Len(Append(Tail(ids), n)) = Len(Tail(ids)) + 1
         /\ Distinct(Append(Tail(ids), n))
         /\ ToSet(Append(Tail(ids), n)) = ToSet(Tail(ids)) \union {n}
    BY <1>2, <2>3, <2>5, <2>8
  <2>11. Len(Append(Tail(ids), n)) <= CacheSize
    BY <2>0, <2>1, <2>3, <2>10
  <2> QED BY <1>4, <2>2, <2>6, <2>7, <2>9, <2>10, <2>11
<1> QED BY <1>3, <1>4

\* What every step on the batches leaves alone, and the counts it starts from.
LEMMA Counts ==
    ASSUME Inductive
    PROVE  /\ buffer \in Seq(Trades) /\ batch \in [Writers -> Seq(Trades)]
           /\ batch["loop"] \in Seq(Trades) /\ batch["task"] \in Seq(Trades)
           /\ {stored, accepted, lost, forgotten} \subseteq [Trades -> Nat]
           /\ \A u \in Trades : /\ Occurrences(buffer)[u] \in Nat
                                /\ Occurrences(batch["loop"])[u] \in Nat
                                /\ Occurrences(batch["task"])[u] \in Nat
                                /\ Occurrences(<<>>)[u] = 0
                                /\ accepted[u] = stored[u] + lost[u] + Held(u)
                                /\ stored[u] \in Nat /\ lost[u] \in Nat
<1>1. /\ buffer \in Seq(Trades) /\ batch \in [Writers -> Seq(Trades)]
      /\ {stored, accepted, lost, forgotten} \subseteq [Trades -> Nat]
  BY DEF Inductive, TypeOK, MoreTypes
<1>2. batch["loop"] \in Seq(Trades) /\ batch["task"] \in Seq(Trades)
  BY <1>1 DEF Writers
<1>3. ASSUME NEW s \in Seq(Trades), NEW u \in Trades PROVE Occurrences(s)[u] \in Nat
  BY PlacesAreFinite
<1>4. \A u \in Trades : Occurrences(<<>>)[u] = 0
  BY OccurrencesFew
<1>5. \A u \in Trades : accepted[u] = stored[u] + lost[u] + Held(u)
  BY DEF Inductive, Conserved
<1> QED BY <1>1, <1>2, <1>3, <1>4, <1>5

\* Steps that move trades and neither let in nor forget any.
LEMMA MoveKept ==
    ASSUME Inductive, TypeOK', UNCHANGED <<memories, accepted, forgotten>>,
           batch' \in [Writers -> Seq(Trades)],
           stored' \in [Trades -> Nat], lost' \in [Trades -> Nat],
           \A u \in Trades : stored'[u] + lost'[u] + Held(u)' = stored[u] + lost[u] + Held(u)
    PROVE  Inductive'
<1>1. /\ seen' = seen /\ last' = last /\ newest' = newest /\ rewound' = rewound
      /\ accepted' = accepted /\ forgotten' = forgotten
  BY DEF memories
<1>2. \A t : Remembered(t)' = Remembered(t)
  BY <1>1 DEF Remembered, IsDuplicate
<1>3. MoreTypes' /\ CacheIsASet' /\ ClockIsRight'
  BY <1>1 DEF Inductive, MoreTypes, CacheIsASet, ClockIsRight
<1>4. LetInOrForgotten'
  BY <1>1, <1>2 DEF Inductive, LetInOrForgotten
<1>5. Conserved'
  BY <1>1 DEF Inductive, Conserved
<1> QED BY <1>3, <1>4, <1>5 DEF Inductive

\* What becomes of the rows the buffer holds once a trade is handled.
Handled(rows) ==
    IF message' = <<>> /\ Len(rows) >= BatchSize
    THEN buffer' = <<>> /\ batch' = [batch EXCEPT !["loop"] = rows]
    ELSE buffer' = rows /\ batch' = batch

\* The trade at the head of the message, and what is left behind it.
LEMMA ReadAtHand ==
    ASSUME Inductive, Read
    PROVE  \E f \in Feeds, n \in Numbers, t \in Trades :
               /\ t = Head(message) /\ t = <<f, n>> /\ t[1] = f /\ t[2] = n
               /\ message' = Tail(message) /\ message # <<>> /\ running = TRUE
               /\ last' = [last EXCEPT ![f] = TimeAfter(t)]
               /\ UNCHANGED <<link, made, wire, running, timer, faults, stored, lost>>
<1>1. message \in Messages /\ message # <<>> /\ message' = Tail(message) /\ running = TRUE
  BY DEF Inductive, TypeOK, Read
<1>2. Head(message) \in Trades
  BY <1>1, MessageFacts
<1>3. PICK t \in Trades : t = Head(message)
  BY <1>2
<1>4. PICK f \in Feeds, n \in Numbers : t = <<f, n>>
  BY DEF Trades
<1>5. t[1] = f /\ t[2] = n
  BY <1>4
<1>6. last' = [last EXCEPT ![f] = TimeAfter(t)]
  <2>1. last' = [last EXCEPT ![Head(message)[1]] = TimeAfter(Head(message))]
    BY DEF Read
  <2> QED BY <1>3, <1>5, <2>1
<1>7. UNCHANGED <<link, made, wire, running, timer, faults, stored, lost>>
  BY DEF Read
<1> QED BY <1>1, <1>3, <1>4, <1>5, <1>6, <1>7

\* The rows stay in the buffer while the message lasts or the batch is not full; after the
\* last trade, a full buffer goes into the batch of the loop.
LEMMA RowsHandled ==
    ASSUME Inductive, message # <<>>, message' = Tail(message), NEW rows \in Seq(Trades),
           Len(rows) <= Len(buffer) + 1, Handled(rows)
    PROVE  /\ message' \in Messages
           /\ buffer' \in Seq(Trades) /\ Len(buffer') + Len(message') <= MaxBatch
           /\ message' = <<>> => Len(buffer') < BatchSize
           /\ message' # <<>> => batch'["loop"] = <<>>
           /\ batch' \in [Writers -> Seq(Trades)]
           /\ \A w \in Writers : batch'[w] \in Seq(Trades) /\ Len(batch'[w]) <= MaxBatch
           /\ \A u \in Trades :
                  /\ Held(u) = Occurrences(buffer)[u] + Occurrences(batch["task"])[u]
                  /\ Held(u)' = Occurrences(rows)[u] + Occurrences(batch["task"])[u]
                  /\ Occurrences(batch["task"])[u] \in Nat
<1>1. /\ buffer \in Seq(Trades) /\ Len(buffer) \in Nat /\ Len(buffer) + Len(message) <= MaxBatch
      /\ batch["loop"] = <<>> /\ batch \in [Writers -> Seq(Trades)] /\ batch["task"] \in Seq(Trades)
      /\ \A w \in Writers : batch[w] \in Seq(Trades) /\ Len(batch[w]) <= MaxBatch
  BY ListFacts DEF Inductive, TypeOK, MoreTypes, Writers
<1>2. /\ message' \in Messages /\ Len(message') \in Nat /\ Len(message) \in Nat
      /\ Len(message') = Len(message) - 1
  BY MessageFacts DEF Inductive, TypeOK
<1>3. Len(rows) \in Nat /\ Len(rows) + Len(message') <= MaxBatch /\ Len(rows) <= MaxBatch
  <2>1. Len(rows) \in Nat
    BY ListFacts
  <2> QED BY <1>1, <1>2, <2>1, Bounds
<1>4. <<>> \in Seq(Trades) /\ Len(<<>>) = 0
  BY EmptySeq
<1>5. ASSUME NEW u \in Trades
      PROVE  /\ Occurrences(rows)[u] \in Nat /\ Occurrences(buffer)[u] \in Nat
             /\ Occurrences(<<>>)[u] = 0 /\ Occurrences(batch["task"])[u] \in Nat
             /\ Held(u) = Occurrences(buffer)[u] + Occurrences(batch["task"])[u]
  <2>1. /\ Occurrences(rows)[u] \in Nat /\ Occurrences(buffer)[u] \in Nat
        /\ Occurrences(<<>>)[u] = 0 /\ Occurrences(batch["task"])[u] \in Nat
    <3>1. \A s \in Seq(Trades) : Occurrences(s)[u] \in Nat
      BY PlacesAreFinite
    <3>2. Occurrences(<<>>)[u] = 0
      BY OccurrencesFew
    <3> HIDE DEF Occurrences
    <3> QED BY <1>1, <3>1, <3>2
  <2>2. Held(u) = Occurrences(buffer)[u] + Occurrences(<<>>)[u] + Occurrences(batch["task"])[u]
    BY <1>1 DEF Held
  <2> QED BY <2>1, <2>2
<1>6. CASE message' = <<>> /\ Len(rows) >= BatchSize
  <2>1. buffer' = <<>> /\ batch' = [batch EXCEPT !["loop"] = rows]
    BY <1>6 DEF Handled
  <2>2. batch'["loop"] = rows /\ batch'["task"] = batch["task"] /\ batch' \in [Writers -> Seq(Trades)]
    BY <1>1, <2>1 DEF Writers
  <2>3. /\ buffer' \in Seq(Trades) /\ Len(buffer') + Len(message') <= MaxBatch
        /\ Len(buffer') < BatchSize
    <3>1. Len(buffer') = 0 /\ Len(message') = 0 /\ 0 + 0 <= MaxBatch /\ 0 < BatchSize
      <4>1. 0 + 0 <= MaxBatch /\ 0 < BatchSize
        BY Bounds
      <4>2. buffer' = <<>> /\ message' = <<>>
        BY <1>6, <2>1
      <4> QED BY <1>4, <4>1, <4>2
    <3> QED BY <1>4, <2>1, <3>1
  <2>4. \A w \in Writers : batch'[w] \in Seq(Trades) /\ Len(batch'[w]) <= MaxBatch
    BY <1>1, <1>3, <2>2 DEF Writers
  <2>5. ASSUME NEW u \in Trades
        PROVE  Held(u)' = Occurrences(rows)[u] + Occurrences(batch["task"])[u]
    <3>1. Held(u)' = Occurrences(<<>>)[u] + Occurrences(rows)[u] + Occurrences(batch["task"])[u]
      BY <2>1, <2>2 DEF Held
    <3> QED BY <1>5, <3>1
  <2> QED BY <1>2, <1>5, <1>6, <2>2, <2>3, <2>4, <2>5
<1>7. CASE ~(message' = <<>> /\ Len(rows) >= BatchSize)
  <2>1. buffer' = rows /\ batch' = batch
    BY <1>7 DEF Handled
  <2>2. message' = <<>> => Len(rows) < BatchSize
    BY <1>3, <1>7, Bounds
  <2>3. ASSUME NEW u \in Trades
        PROVE  Held(u)' = Occurrences(rows)[u] + Occurrences(batch["task"])[u]
    <3>1. Held(u)' = Occurrences(rows)[u] + Occurrences(<<>>)[u] + Occurrences(batch["task"])[u]
      BY <1>1, <2>1 DEF Held
    <3> QED BY <1>5, <3>1
  <2> QED BY <1>1, <1>2, <1>3, <1>5, <2>1, <2>2, <2>3
<1> QED BY <1>6, <1>7

\* A duplicate is dropped; the buffer may still be found full after the last trade.
LEMMA ReadDuplicateKept ==
    ASSUME Inductive, Read, IsDuplicate(Head(message))
    PROVE  Inductive' /\ newest' = newest
<1>1. PICK f \in Feeds, n \in Numbers, t \in Trades :
               /\ t = Head(message) /\ t = <<f, n>> /\ t[1] = f /\ t[2] = n
               /\ message' = Tail(message) /\ message # <<>> /\ running = TRUE
               /\ last' = [last EXCEPT ![f] = TimeAfter(t)]
               /\ UNCHANGED <<link, made, wire, running, timer, faults, stored, lost>>
  BY ReadAtHand
<1>2. /\ UNCHANGED <<seen, newest, rewound, accepted, forgotten>>
      /\ Handled(buffer)
  BY DEF Read, LeftInBuffer, Handled
<1>3. last' = last
  BY <1>1 DEF TimeAfter, Inductive, TypeOK
<1>4. /\ message' \in Messages
      /\ buffer' \in Seq(Trades) /\ Len(buffer') + Len(message') <= MaxBatch
      /\ message' = <<>> => Len(buffer') < BatchSize
      /\ message' # <<>> => batch'["loop"] = <<>>
      /\ batch' \in [Writers -> Seq(Trades)]
      /\ \A w \in Writers : batch'[w] \in Seq(Trades) /\ Len(batch'[w]) <= MaxBatch
      /\ \A u \in Trades : Held(u)' = Held(u)
  <2>1. buffer \in Seq(Trades) /\ Len(buffer) \in Nat /\ Len(buffer) <= Len(buffer) + 1
    BY ListFacts DEF Inductive, TypeOK
  <2> QED BY <1>1, <1>2, <2>1, RowsHandled
<1>5. TypeOK'
  BY <1>1, <1>2, <1>3, <1>4 DEF Inductive, TypeOK
<1>6. UNCHANGED <<memories, accepted, forgotten>> /\ stored' = stored /\ lost' = lost
  BY <1>1, <1>2, <1>3 DEF memories
<1>7. stored' \in [Trades -> Nat] /\ lost' \in [Trades -> Nat]
  BY <1>6 DEF Inductive, MoreTypes
<1>8. Inductive'
  BY <1>4, <1>5, <1>6, <1>7, MoveKept
<1> QED BY <1>2, <1>8

\* A trade is its feed and its number.
LEMMA TradeIs ==
    ASSUME NEW t \in Trades
    PROVE  t[1] \in Feeds /\ t[2] \in Numbers /\ t = <<t[1], t[2]>>
BY DEF Trades

\* One more for a trade in a table.
LEMMA OneMore ==
    ASSUME NEW bag \in [Trades -> Nat], NEW t \in Trades, NEW new, new = [bag EXCEPT ![t] = @ + 1]
    PROVE  /\ new \in [Trades -> Nat]
           /\ \A u \in Trades : /\ u = t => new[u] = bag[u] + 1
                                /\ u # t => new[u] = bag[u]
BY DEF Trades

\* What the reading of a trade that is not remembered does.
LEMMA ReadNewAtHand ==
    ASSUME Inductive, Read, ~IsDuplicate(Head(message))
    PROVE  \E f \in Feeds, n \in Numbers, t \in Trades :
               /\ t = <<f, n>> /\ t[1] = f /\ t[2] = n
               /\ n \notin ToSet(seen[f])
               /\ message' = Tail(message) /\ message # <<>> /\ running = TRUE
               /\ UNCHANGED <<link, made, wire, running, timer, faults, stored, lost>>
               /\ last' = [last EXCEPT ![f] = n]
               /\ accepted' = [accepted EXCEPT ![t] = @ + 1]
               /\ seen' = [seen EXCEPT ![f] = Cached(@, n)]
               /\ forgotten' = IF Len(seen[f]) < CacheSize THEN forgotten
                               ELSE [forgotten EXCEPT ![<<f, Head(seen[f])>>] = @ + 1]
               /\ told' = Gap(t)
               /\ newest' = [newest EXCEPT ![f] = IF n > @ THEN n ELSE @]
               /\ rewound' = [rewound EXCEPT ![f] = @ \/ n < newest[f]]
               /\ Handled(Append(buffer, t))
<1>1. PICK f \in Feeds, n \in Numbers, t \in Trades :
               /\ t = Head(message) /\ t = <<f, n>> /\ t[1] = f /\ t[2] = n
               /\ message' = Tail(message) /\ message # <<>> /\ running = TRUE
               /\ last' = [last EXCEPT ![f] = TimeAfter(t)]
               /\ UNCHANGED <<link, made, wire, running, timer, faults, stored, lost>>
  BY ReadAtHand
<1>2. ~IsDuplicate(t)
  BY <1>1
<1>3. n \notin ToSet(seen[f]) /\ last' = [last EXCEPT ![f] = n]
  BY <1>1, <1>2 DEF IsDuplicate, TimeAfter
<1>4. /\ accepted' = [accepted EXCEPT ![t] = @ + 1]
      /\ seen' = [seen EXCEPT ![f] = Cached(@, n)]
      /\ forgotten' = IF Len(seen[f]) < CacheSize THEN forgotten
                      ELSE [forgotten EXCEPT ![<<f, Head(seen[f])>>] = @ + 1]
      /\ told' = Gap(t)
  BY <1>1, <1>2 DEF Read
<1>5. /\ newest' = [newest EXCEPT ![f] = IF n > @ THEN n ELSE @]
      /\ rewound' = [rewound EXCEPT ![f] = @ \/ n < newest[f]]
  BY <1>1, <1>2 DEF Read
<1>6. Handled(Append(buffer, t))
  BY <1>1, <1>2 DEF Read, LeftInBuffer, Handled
<1> QED BY <1>1, <1>3, <1>4, <1>5, <1>6

\* It goes into the buffer or, with the buffer it fills, into the batch of the loop.
LEMMA ReadNewHeld ==
    ASSUME Inductive, NEW t \in Trades, message # <<>>, message' = Tail(message),
           Handled(Append(buffer, t))
    PROVE  /\ message' \in Messages
           /\ buffer' \in Seq(Trades) /\ Len(buffer') + Len(message') <= MaxBatch
           /\ message' = <<>> => Len(buffer') < BatchSize
           /\ message' # <<>> => batch'["loop"] = <<>>
           /\ batch' \in [Writers -> Seq(Trades)]
           /\ \A w \in Writers : batch'[w] \in Seq(Trades) /\ Len(batch'[w]) <= MaxBatch
           /\ \A u \in Trades : Held(u)' = Held(u) + (IF u = t THEN 1 ELSE 0) /\ Held(u) \in Nat
<1>1. PICK rows : rows = Append(buffer, t)
  OBVIOUS
<1>2. rows \in Seq(Trades) /\ Len(rows) = Len(buffer) + 1 /\ Len(buffer) \in Nat
      /\ buffer \in Seq(Trades)
  BY <1>1, AppendFacts, ListFacts DEF Inductive, TypeOK
<1>3. /\ message' \in Messages
      /\ buffer' \in Seq(Trades) /\ Len(buffer') + Len(message') <= MaxBatch
      /\ message' = <<>> => Len(buffer') < BatchSize
      /\ message' # <<>> => batch'["loop"] = <<>>
      /\ batch' \in [Writers -> Seq(Trades)]
      /\ \A w \in Writers : batch'[w] \in Seq(Trades) /\ Len(batch'[w]) <= MaxBatch
      /\ \A u \in Trades :
             /\ Held(u) = Occurrences(buffer)[u] + Occurrences(batch["task"])[u]
             /\ Held(u)' = Occurrences(rows)[u] + Occurrences(batch["task"])[u]
             /\ Occurrences(batch["task"])[u] \in Nat
  <2>1. Handled(rows) /\ Len(rows) <= Len(buffer) + 1
    BY <1>1, <1>2
  <2> QED BY <1>2, <2>1, RowsHandled
<1>4. ASSUME NEW u \in Trades
      PROVE  Held(u)' = Held(u) + (IF u = t THEN 1 ELSE 0) /\ Held(u) \in Nat
  <2>1. /\ Occurrences(rows)[u] = Occurrences(buffer)[u] + (IF t = u THEN 1 ELSE 0)
        /\ Occurrences(buffer)[u] \in Nat
    BY <1>1, <1>2, OccurrencesAppend
  <2>2. /\ Held(u) = Occurrences(buffer)[u] + Occurrences(batch["task"])[u]
        /\ Held(u)' = Occurrences(rows)[u] + Occurrences(batch["task"])[u]
        /\ Occurrences(batch["task"])[u] \in Nat
    BY <1>3
  <2> HIDE DEF Held, Occurrences
  <2> QED BY <2>1, <2>2
<1> QED BY <1>3, <1>4

\* It is remembered, and the one the cache lets go is forgotten.
LEMMA ReadNewRemembered ==
    ASSUME Inductive, NEW f \in Feeds, NEW n \in Numbers, NEW t \in Trades,
           t = <<f, n>>, n \notin ToSet(seen[f]),
           accepted' = [accepted EXCEPT ![t] = @ + 1],
           seen' = [seen EXCEPT ![f] = Cached(@, n)],
           forgotten' = IF Len(seen[f]) < CacheSize THEN forgotten
                        ELSE [forgotten EXCEPT ![<<f, Head(seen[f])>>] = @ + 1]
    PROVE  /\ seen' \in [Feeds -> Seq(Numbers)] /\ \A g \in Feeds : Len(seen'[g]) <= CacheSize
           /\ CacheIsASet' /\ LetInOrForgotten'
           /\ accepted' \in [Trades -> Nat] /\ forgotten' \in [Trades -> Nat]
<1>1. /\ seen \in [Feeds -> Seq(Numbers)] /\ \A g \in Feeds : Len(seen[g]) <= CacheSize
      /\ accepted \in [Trades -> Nat] /\ forgotten \in [Trades -> Nat]
  BY DEF Inductive, TypeOK, MoreTypes
<1>2. PICK ids \in Seq(Numbers) : ids = seen[f]
  BY <1>1
<1>3. Len(ids) <= CacheSize /\ Distinct(ids) /\ n \notin ToSet(ids)
  BY <1>1, <1>2 DEF Inductive, CacheIsASet, Distinct
<1>4. PICK new : new = Cached(ids, n)
  OBVIOUS
<1>5. /\ new \in Seq(Numbers) /\ Len(new) <= CacheSize /\ Distinct(new)
      /\ IF Len(ids) < CacheSize
         THEN ToSet(new) = ToSet(ids) \union {n}
         ELSE /\ Head(ids) \in ToSet(ids) /\ Head(ids) \in Numbers
              /\ ToSet(new) = (ToSet(ids) \ {Head(ids)}) \union {n}
  BY <1>3, <1>4, CachedFacts
<1>6. seen' = [seen EXCEPT ![f] = new]
  BY <1>2, <1>4
<1>7. seen'[f] = new /\ \A g \in Feeds : g # f => seen'[g] = seen[g]
  BY <1>1, <1>6
<1>8. seen' \in [Feeds -> Seq(Numbers)] /\ \A g \in Feeds : Len(seen'[g]) <= CacheSize
  BY <1>1, <1>5, <1>6, <1>7
<1>9. CacheIsASet'
  <2>1. \A g \in Feeds : Distinct(seen[g])
    BY DEF Inductive, CacheIsASet, Distinct
  <2>2. \A g \in Feeds : Distinct(seen'[g])
    BY <1>5, <1>7, <2>1
  <2> QED BY <2>2 DEF CacheIsASet, Distinct
<1>10. /\ accepted' \in [Trades -> Nat]
       /\ \A u \in Trades : /\ u = t => accepted'[u] = accepted[u] + 1
                            /\ u # t => accepted'[u] = accepted[u]
  BY <1>1, OneMore
<1>11. \A u \in Trades : /\ IsDuplicate(u) <=> u[2] \in ToSet(seen[u[1]])
                         /\ IsDuplicate(u)' <=> u[2] \in ToSet(seen'[u[1]])
  BY DEF IsDuplicate
<1>12. \A u \in Trades : u[1] # f => (IsDuplicate(u)' <=> IsDuplicate(u))
  BY <1>7, <1>11, TradeIs
<1>13. \A u \in Trades : /\ u[1] = f /\ u[2] = n <=> u = t
                         /\ u[1] = f => /\ IsDuplicate(u) <=> u[2] \in ToSet(ids)
                                        /\ IsDuplicate(u)' <=> u[2] \in ToSet(new)
  BY <1>2, <1>7, <1>11, TradeIs
<1>14. ASSUME Len(ids) < CacheSize PROVE LetInOrForgotten' /\ forgotten' \in [Trades -> Nat]
  <2>1. forgotten' = forgotten /\ ToSet(new) = ToSet(ids) \union {n}
    BY <1>2, <1>5, <1>14
  <2>2. \A u \in Trades : IsDuplicate(u)' <=> IsDuplicate(u) \/ u = t
    BY <1>12, <1>13, <2>1
  <2>3. ~IsDuplicate(t)
    BY <1>3, <1>13
  <2>4. \A u \in Trades : /\ u = t => Remembered(u) = 0 /\ Remembered(u)' = 1
                          /\ u # t => Remembered(u)' = Remembered(u)
                          /\ Remembered(u) \in Nat
    BY <2>2, <2>3 DEF Remembered
  <2>5. \A u \in Trades : accepted[u] = forgotten[u] + Remembered(u) /\ forgotten[u] \in Nat
    BY <1>1 DEF Inductive, LetInOrForgotten
  <2>6. ASSUME NEW u \in Trades PROVE accepted'[u] = forgotten'[u] + Remembered(u)'
    <3>1. CASE u = t
      <4>1. accepted'[u] = accepted[u] + 1 /\ accepted[u] = forgotten[u] + 0 /\ Remembered(u)' = 1
        BY <1>10, <2>4, <2>5, <3>1
      <4>2. forgotten'[u] = forgotten[u] /\ forgotten[u] \in Nat
        BY <2>1, <2>5
      <4> QED BY <4>1, <4>2
    <3>2. CASE u # t
      <4>1. accepted'[u] = accepted[u] /\ Remembered(u)' = Remembered(u)
        BY <1>10, <2>4, <3>2
      <4> QED BY <2>1, <2>5, <4>1
    <3> QED BY <3>1, <3>2
  <2> QED BY <1>1, <2>1, <2>6 DEF LetInOrForgotten
<1>15. ASSUME ~(Len(ids) < CacheSize) PROVE LetInOrForgotten' /\ forgotten' \in [Trades -> Nat]
  <2>1. PICK o \in Trades : o = <<f, Head(ids)>>
    BY <1>5, <1>15 DEF Trades
  <2>2. /\ ToSet(new) = (ToSet(ids) \ {Head(ids)}) \union {n}
        /\ forgotten' = [forgotten EXCEPT ![o] = @ + 1]
        /\ o[1] = f /\ o[2] = Head(ids) /\ Head(ids) \in ToSet(ids)
    BY <1>2, <1>5, <1>15, <2>1
  <2>3. o # t /\ IsDuplicate(o) /\ ~IsDuplicate(t)
    BY <1>3, <1>13, <2>2
  <2>4. \A u \in Trades : u[1] = f /\ u[2] = Head(ids) <=> u = o
    BY <2>1, TradeIs
  <2>5. \A u \in Trades : IsDuplicate(u)' <=> (IsDuplicate(u) /\ u # o) \/ u = t
    BY <1>12, <1>13, <2>2, <2>4
  <2>6. \A u \in Trades : /\ u = o => Remembered(u) = 1 /\ Remembered(u)' = 0
                          /\ u = t => Remembered(u) = 0 /\ Remembered(u)' = 1
                          /\ u # o /\ u # t => Remembered(u)' = Remembered(u)
                          /\ Remembered(u) \in Nat
    BY <2>3, <2>5 DEF Remembered
  <2>7. \A u \in Trades : accepted[u] = forgotten[u] + Remembered(u) /\ forgotten[u] \in Nat
    BY <1>1 DEF Inductive, LetInOrForgotten
  <2>8. /\ forgotten' \in [Trades -> Nat]
        /\ \A u \in Trades : /\ u = o => forgotten'[u] = forgotten[u] + 1
                             /\ u # o => forgotten'[u] = forgotten[u]
    <3>1. forgotten' = [forgotten EXCEPT ![o] = @ + 1] /\ forgotten \in [Trades -> Nat]
      BY <1>1, <2>2
    <3>2. PICK now : now = forgotten' /\ now = [forgotten EXCEPT ![o] = @ + 1]
      BY <3>1
    <3>3. /\ now \in [Trades -> Nat]
          /\ \A u \in Trades : /\ u = o => now[u] = forgotten[u] + 1
                               /\ u # o => now[u] = forgotten[u]
      BY ONLY <3>1, <3>2, o \in Trades, OneMore
    <3> QED BY <3>2, <3>3
  <2>9. ASSUME NEW u \in Trades PROVE accepted'[u] = forgotten'[u] + Remembered(u)'
    <3>1. CASE u = o
      <4>1. /\ accepted'[u] = accepted[u] /\ Remembered(u)' = 0 /\ Remembered(u) = 1
            /\ forgotten'[u] = forgotten[u] + 1
        BY <1>10, <2>3, <2>6, <2>8, <3>1
      <4> QED BY <2>7, <4>1
    <3>2. CASE u = t
      <4>1. u # o /\ accepted'[u] = accepted[u] + 1
        BY <1>10, <2>3, <3>2
      <4>2. forgotten'[u] = forgotten[u] /\ Remembered(u) = 0 /\ Remembered(u)' = 1
        BY <2>6, <2>8, <3>2, <4>1
      <4>3. accepted[u] = forgotten[u] + Remembered(u) /\ forgotten[u] \in Nat
        BY <2>7
      <4> QED BY <4>1, <4>2, <4>3
    <3>3. CASE u # o /\ u # t
      <4>1. accepted'[u] = accepted[u] /\ Remembered(u)' = Remembered(u) /\ forgotten'[u] = forgotten[u]
        BY <1>10, <2>6, <2>8, <3>3
      <4> QED BY <2>7, <4>1
    <3> QED BY <3>1, <3>2, <3>3
  <2> QED BY <2>8, <2>9 DEF LetInOrForgotten
<1> QED BY <1>8, <1>9, <1>10, <1>14, <1>15

\* What a reader is told of a gap when the newest trade changes.
GapTold(f) ==
    newest[f] # 0 /\ newest'[f] > newest[f]
    => LET real == newest'[f] - newest[f] > GapThreshold
       IN (real => told') /\ (told' => real \/ rewound[f])

\* Where the newest trade is the same, nothing is to be told.
LEMMA NewestStays ==
    ASSUME Inductive, newest' = newest
    PROVE  \A f \in Feeds : GapTold(f)
<1> SUFFICES ASSUME NEW f \in Feeds, newest'[f] > newest[f] PROVE FALSE
  BY DEF GapTold
<1>1. newest[f] \in 0..MaxTrades
  BY DEF Inductive, TypeOK
<1>2. ~(newest[f] > newest[f])
  BY <1>1, Bounds
<1> QED BY <1>2

\* A trade that is not remembered is let in.
LEMMA ReadNewKept ==
    ASSUME Inductive, Read, ~IsDuplicate(Head(message))
    PROVE  Inductive' /\ \A f \in Feeds : GapTold(f)
<1>1. PICK f \in Feeds, n \in Numbers, t \in Trades :
               /\ t = <<f, n>> /\ t[1] = f /\ t[2] = n
               /\ n \notin ToSet(seen[f])
               /\ message' = Tail(message) /\ message # <<>> /\ running = TRUE
               /\ UNCHANGED <<link, made, wire, running, timer, faults, stored, lost>>
               /\ last' = [last EXCEPT ![f] = n]
               /\ accepted' = [accepted EXCEPT ![t] = @ + 1]
               /\ seen' = [seen EXCEPT ![f] = Cached(@, n)]
               /\ forgotten' = IF Len(seen[f]) < CacheSize THEN forgotten
                               ELSE [forgotten EXCEPT ![<<f, Head(seen[f])>>] = @ + 1]
               /\ told' = Gap(t)
               /\ newest' = [newest EXCEPT ![f] = IF n > @ THEN n ELSE @]
               /\ rewound' = [rewound EXCEPT ![f] = @ \/ n < newest[f]]
               /\ Handled(Append(buffer, t))
  BY ReadNewAtHand
<1>2. /\ message' \in Messages
      /\ buffer' \in Seq(Trades) /\ Len(buffer') + Len(message') <= MaxBatch
      /\ message' = <<>> => Len(buffer') < BatchSize
      /\ message' # <<>> => batch'["loop"] = <<>>
      /\ batch' \in [Writers -> Seq(Trades)]
      /\ \A w \in Writers : batch'[w] \in Seq(Trades) /\ Len(batch'[w]) <= MaxBatch
      /\ \A u \in Trades : Held(u)' = Held(u) + (IF u = t THEN 1 ELSE 0) /\ Held(u) \in Nat
  BY <1>1, ReadNewHeld
<1>3. /\ seen' \in [Feeds -> Seq(Numbers)] /\ \A g \in Feeds : Len(seen'[g]) <= CacheSize
      /\ CacheIsASet' /\ LetInOrForgotten'
      /\ accepted' \in [Trades -> Nat] /\ forgotten' \in [Trades -> Nat]
  BY <1>1, ReadNewRemembered
<1>4. /\ last \in [Feeds -> 0..MaxTrades] /\ newest \in [Feeds -> 0..MaxTrades]
      /\ rewound \in [Feeds -> BOOLEAN] /\ MaxTrades \in Nat
      /\ n \in Int /\ n >= 1 /\ n <= MaxTrades
  <2>1. MaxTrades \in Nat
    BY Bounds
  <2>2. n \in 1..MaxTrades
    BY DEF Numbers
  <2>3. n \in Int /\ n >= 1 /\ n <= MaxTrades
    BY <2>1, <2>2
  <2> QED BY <2>1, <2>3 DEF Inductive, TypeOK, MoreTypes
<1>5. /\ last'[f] = n /\ newest'[f] = IF n > newest[f] THEN n ELSE newest[f]
      /\ rewound'[f] = (rewound[f] \/ n < newest[f])
      /\ \A g \in Feeds : g # f => last'[g] = last[g] /\ newest'[g] = newest[g] /\ rewound'[g] = rewound[g]
  BY <1>1, <1>4
<1>6. /\ last' \in [Feeds -> 0..MaxTrades] /\ newest' \in [Feeds -> 0..MaxTrades]
      /\ rewound' \in [Feeds -> BOOLEAN]
  <2>1. n \in 0..MaxTrades
    BY <1>4
  <2>2. newest'[f] \in 0..MaxTrades /\ rewound'[f] \in BOOLEAN
    BY <1>4, <1>5, <2>1
  <2> QED BY <1>1, <1>4, <2>1, <2>2
<1>7. TypeOK'
  <2>1. /\ link' \in [Feeds -> Links] /\ made' \in [Feeds -> 0..MaxTrades] /\ faults' \in 0..MaxFaults
        /\ wire' \in Seq(Messages) /\ Len(wire') <= MaxWire
    BY <1>1 DEF Inductive, TypeOK
  <2>2. running' = TRUE /\ timer' \in BOOLEAN
    BY <1>1 DEF Inductive, TypeOK
  <2> QED BY <1>1, <1>2, <1>3, <1>6, <2>1, <2>2 DEF TypeOK
<1>8. stored' \in [Trades -> Nat] /\ lost' \in [Trades -> Nat] /\ stored' = stored /\ lost' = lost
  BY <1>1 DEF Inductive, MoreTypes
<1>9. MoreTypes'
  BY <1>2, <1>3, <1>6, <1>8 DEF MoreTypes
<1>10. Conserved'
  <2>1. \A u \in Trades : /\ accepted[u] = stored[u] + lost[u] + Held(u)
                          /\ accepted[u] \in Nat /\ stored[u] \in Nat /\ lost[u] \in Nat
    BY DEF Inductive, Conserved, MoreTypes
  <2>2. accepted \in [Trades -> Nat]
    BY DEF Inductive, MoreTypes
  <2>3. \A u \in Trades : /\ u = t => accepted'[u] = accepted[u] + 1
                          /\ u # t => accepted'[u] = accepted[u]
    BY <1>1, <2>2, OneMore
  <2>4. ASSUME NEW u \in Trades PROVE accepted'[u] = stored'[u] + lost'[u] + Held(u)'
    <3>1. stored'[u] = stored[u] /\ lost'[u] = lost[u] /\ Held(u) \in Nat
      BY <1>2, <1>8
    <3>2. CASE u = t
      <4>1. Held(u)' = Held(u) + 1
        BY <1>2, <3>2
      <4> QED BY <2>1, <2>3, <3>1, <3>2, <4>1
    <3>3. CASE u # t
      <4>1. Held(u)' = Held(u)
        BY <1>2, <3>1, <3>3
      <4> QED BY <2>1, <2>3, <3>1, <3>3, <4>1
    <3> QED BY <3>2, <3>3
  <2> QED BY <2>4 DEF Conserved
<1>11. \A g \in Feeds : /\ last[g] <= newest[g]
                        /\ last[g] = 0 <=> newest[g] = 0
                        /\ ~rewound[g] => last[g] = newest[g]
  BY DEF Inductive, ClockIsRight
<1>12. last[f] \in Int /\ newest[f] \in Int /\ newest[f] >= 0 /\ GapThreshold \in Int
  BY <1>4, Bounds
<1>13. ClockIsRight'
  <2>1. CASE n > newest[f]
    <3>1. newest'[f] = n
      BY <1>5, <2>1
    <3>2. n # 0 /\ n <= n
      BY <1>4
    <3> QED BY <1>5, <1>11, <3>1, <3>2 DEF ClockIsRight
  <2>2. CASE ~(n > newest[f])
    <3>1. newest'[f] = newest[f] /\ n <= newest[f] /\ n # 0 /\ newest[f] # 0
      BY <1>4, <1>5, <1>12, <2>2
    <3>2. ~rewound'[f] => n = newest[f]
      <4>1. ~rewound'[f] => ~(n < newest[f])
        BY <1>5
      <4> QED BY <1>4, <1>12, <3>1, <4>1
    <3> QED BY <1>5, <1>11, <3>1, <3>2 DEF ClockIsRight
  <2> QED BY <2>1, <2>2
<1>14. ASSUME NEW g \in Feeds PROVE GapTold(g)
  <2> SUFFICES ASSUME newest[g] # 0, newest'[g] > newest[g]
               PROVE  /\ newest'[g] - newest[g] > GapThreshold => told'
                      /\ told' => newest'[g] - newest[g] > GapThreshold \/ rewound[g]
    BY DEF GapTold
  <2>1. newest[g] \in Int /\ ~(newest[g] > newest[g])
    BY <1>4
  <2>2. g = f
    BY <1>5, <2>1
  <2>3. newest'[g] = n
    BY <1>4, <1>5, <1>12, <2>2
  <2>4. told' <=> last[f] # 0 /\ n - last[f] > GapThreshold
    BY <1>1 DEF Gap
  <2>5. last[f] # 0 /\ last[f] <= newest[f] /\ (~rewound[f] => last[f] = newest[f])
    BY <1>11, <2>2
  <2>6. newest'[g] - newest[g] > GapThreshold => n - last[f] > GapThreshold
    BY <1>4, <1>12, <2>2, <2>3, <2>5
  <2>7. ~rewound[g] /\ n - last[f] > GapThreshold => newest'[g] - newest[g] > GapThreshold
    BY <2>2, <2>3, <2>5
  <2> QED BY <2>4, <2>5, <2>6, <2>7
<1> QED BY <1>3, <1>7, <1>9, <1>10, <1>13, <1>14 DEF Inductive

-----------------------------------------------------------------------------
(* The batches.                                                            *)

\* The periodic task takes the buffer.
LEMMA FlushKept ==
    ASSUME Inductive, FlushPeriodically
    PROVE  Inductive'
<1>1. /\ batch["task"] = <<>> /\ batch' = [batch EXCEPT !["task"] = buffer] /\ buffer' = <<>>
      /\ UNCHANGED <<link, made, wire, running, timer, faults, stored, lost>>
      /\ UNCHANGED <<memories, accepted, forgotten>>
      /\ running = TRUE /\ seen' = seen /\ last' = last /\ newest' = newest
      /\ message = <<>> /\ message' = message
  BY DEF FlushPeriodically, LeftInBuffer, market, memory, table, memories, Inductive, TypeOK
<1>2. batch'["task"] = buffer /\ batch'["loop"] = batch["loop"]
  BY <1>1, Counts DEF Writers
<1>3. batch' \in [Writers -> Seq(Trades)]
  BY <1>1, Counts
<1>4. <<>> \in Seq(Trades) /\ Len(<<>>) = 0 /\ 0 < BatchSize /\ 0 + 0 <= MaxBatch
  BY EmptySeq, Bounds
<1>5. \A w \in Writers : batch'[w] \in Seq(Trades) /\ Len(batch'[w]) <= MaxBatch
  <2>1. Len(buffer) \in Nat /\ Len(buffer) < BatchSize /\ BatchSize \in Nat
    BY <1>1, ListFacts, Bounds DEF Inductive, TypeOK
  <2>2. Len(buffer) <= MaxBatch
    BY <2>1, Bounds
  <2>3. Len(batch["loop"]) <= MaxBatch
    BY DEF Inductive, TypeOK, Writers
  <2> QED BY <1>2, <2>2, <2>3, Counts DEF Writers
<1>6. TypeOK'
  BY <1>1, <1>4, <1>5 DEF Inductive, TypeOK
<1>7. ASSUME NEW u \in Trades
      PROVE  stored'[u] + lost'[u] + Held(u)' = stored[u] + lost[u] + Held(u)
  <2>1. Held(u)' = Occurrences(<<>>)[u] + Occurrences(batch["loop"])[u] + Occurrences(buffer)[u]
    BY <1>1, <1>2 DEF Held
  <2>2. Held(u) = Occurrences(buffer)[u] + Occurrences(batch["loop"])[u] + Occurrences(<<>>)[u]
    BY <1>1 DEF Held
  <2>3. stored' = stored /\ lost' = lost
    BY <1>1
  <2> QED BY <2>1, <2>2, <2>3, Counts
<1>8. stored' \in [Trades -> Nat] /\ lost' \in [Trades -> Nat]
  BY <1>1, Counts
<1> QED BY <1>1, <1>3, <1>6, <1>7, <1>8, MoveKept

\* What a batch that leaves a writer does to what is held.
LEMMA EmptiedBatch ==
    ASSUME Inductive, NEW w \in Writers, buffer' = buffer,
           batch' = [batch EXCEPT ![w] = <<>>]
    PROVE  /\ batch' \in [Writers -> Seq(Trades)] /\ batch'[w] = <<>>
           /\ \A v \in Writers : batch'[v] \in Seq(Trades) /\ Len(batch'[v]) <= MaxBatch
           /\ batch[w] \in Seq(Trades)
           /\ \A u \in Trades : /\ Held(u) = Held(u)' + Occurrences(batch[w])[u]
                                /\ Held(u)' \in Nat /\ Occurrences(batch[w])[u] \in Nat
<1>1. <<>> \in Seq(Trades) /\ Len(<<>>) = 0 /\ 0 <= MaxBatch
  BY EmptySeq, Bounds
<1>2. batch \in [Writers -> Seq(Trades)]
  BY Counts
<1>3. batch' \in [Writers -> Seq(Trades)] /\ batch'[w] = <<>> /\ batch[w] \in Seq(Trades)
  BY <1>1, <1>2
<1>4. \A v \in Writers : batch'[v] = IF v = w THEN <<>> ELSE batch[v]
  BY <1>2
<1>5. \A v \in Writers : batch[v] \in Seq(Trades) /\ Len(batch[v]) <= MaxBatch
  BY DEF Inductive, TypeOK
<1>6. \A v \in Writers : batch'[v] \in Seq(Trades) /\ Len(batch'[v]) <= MaxBatch
  BY <1>1, <1>4, <1>5
<1>7. ASSUME NEW u \in Trades
      PROVE  /\ Held(u) = Held(u)' + Occurrences(batch[w])[u]
             /\ Held(u)' \in Nat /\ Occurrences(batch[w])[u] \in Nat
  <2>0. "loop" \in Writers /\ "task" \in Writers /\ (w = "loop" \/ w = "task") /\ "loop" # "task"
    BY DEF Writers
  <2>1. Held(u) = Occurrences(buffer)[u] + Occurrences(batch["loop"])[u] + Occurrences(batch["task"])[u]
    BY DEF Held
  <2>2. Held(u)' = Occurrences(buffer)[u] + Occurrences(batch'["loop"])[u] + Occurrences(batch'["task"])[u]
    BY DEF Held
  <2>3. CASE w = "loop"
    <3>1. batch'["loop"] = <<>> /\ batch'["task"] = batch["task"]
      BY <1>4, <2>0, <2>3
    <3>2. Held(u)' = Occurrences(buffer)[u] + Occurrences(<<>>)[u] + Occurrences(batch["task"])[u]
      BY <2>2, <3>1
    <3>3. /\ Occurrences(buffer)[u] \in Nat /\ Occurrences(batch["loop"])[u] \in Nat
          /\ Occurrences(batch["task"])[u] \in Nat /\ Occurrences(<<>>)[u] = 0
      BY Counts
    <3> QED BY <2>1, <2>3, <3>2, <3>3
  <2>4. CASE w = "task"
    <3>1. batch'["task"] = <<>> /\ batch'["loop"] = batch["loop"]
      BY <1>4, <2>0, <2>4
    <3>2. Held(u)' = Occurrences(buffer)[u] + Occurrences(batch["loop"])[u] + Occurrences(<<>>)[u]
      BY <2>2, <3>1
    <3>3. /\ Occurrences(buffer)[u] \in Nat /\ Occurrences(batch["loop"])[u] \in Nat
          /\ Occurrences(batch["task"])[u] \in Nat /\ Occurrences(<<>>)[u] = 0
      BY Counts
    <3> QED BY <2>1, <2>4, <3>2, <3>3
  <2> QED BY <2>0, <2>3, <2>4
<1> QED BY <1>3, <1>6, <1>7

\* A batch becomes rows.
LEMMA InsertKept ==
    ASSUME Inductive, NEW w \in Writers, Insert(w)
    PROVE  Inductive'
<1>1. /\ batch' = [batch EXCEPT ![w] = <<>>] /\ stored' = Plus(stored, batch[w]) /\ lost' = lost
      /\ UNCHANGED <<link, made, wire, message, running, timer, faults, buffer>>
      /\ UNCHANGED <<memories, accepted, forgotten>>
      /\ seen' = seen /\ last' = last /\ newest' = newest
  BY DEF Insert, market, memory, memories
<1>2. /\ batch' \in [Writers -> Seq(Trades)]
      /\ \A v \in Writers : batch'[v] \in Seq(Trades) /\ Len(batch'[v]) <= MaxBatch
      /\ batch[w] \in Seq(Trades)
      /\ \A u \in Trades : /\ Held(u) = Held(u)' + Occurrences(batch[w])[u]
                           /\ Held(u)' \in Nat /\ Occurrences(batch[w])[u] \in Nat
  BY <1>1, EmptiedBatch
<1>3. /\ stored' \in [Trades -> Nat]
      /\ \A u \in Trades : stored'[u] = stored[u] + Occurrences(batch[w])[u]
  <2>1. stored \in [Trades -> Nat]
    BY Counts
  <2>2. PICK seq \in Seq(Trades) : seq = batch[w]
    BY <1>2
  <2>3. /\ Plus(stored, seq) \in [Trades -> Nat]
        /\ \A u \in Trades : Plus(stored, seq)[u] = stored[u] + Occurrences(seq)[u]
    BY <2>1, PlusFacts
  <2> QED BY <1>1, <2>2, <2>3
<1>4. running = TRUE
  <2>1. batch[w] # <<>> /\ running \in BOOLEAN /\ (~running => batch = Empty)
    BY DEF Insert, Inductive, TypeOK
  <2>2. Empty[w] = <<>>
    BY DEF Empty
  <2> QED BY <2>1, <2>2
<1>8. message' # <<>> => batch'["loop"] = <<>>
  <2>1. (message # <<>> => batch["loop"] = <<>>) /\ batch \in [Writers -> Seq(Trades)]
    BY DEF Inductive, TypeOK, MoreTypes
  <2>2. batch'["loop"] = IF w = "loop" THEN <<>> ELSE batch["loop"]
    BY <1>1, <2>1 DEF Writers
  <2> QED BY <1>1, <2>1, <2>2
<1>5. TypeOK'
  BY <1>1, <1>2, <1>4, <1>8 DEF Inductive, TypeOK
<1>6. ASSUME NEW u \in Trades
      PROVE  stored'[u] + lost'[u] + Held(u)' = stored[u] + lost[u] + Held(u)
  <2>1. lost'[u] = lost[u] /\ lost[u] \in Nat /\ stored[u] \in Nat
    BY <1>1, Counts
  <2>2. /\ Held(u) = Held(u)' + Occurrences(batch[w])[u]
        /\ Held(u)' \in Nat /\ Occurrences(batch[w])[u] \in Nat
    BY <1>2
  <2>3. stored'[u] = stored[u] + Occurrences(batch[w])[u]
    BY <1>3
  <2> QED BY <2>1, <2>2, <2>3
<1>7. lost' \in [Trades -> Nat]
  BY <1>1, Counts
<1> QED BY <1>1, <1>2, <1>3, <1>5, <1>6, <1>7, MoveKept

\* A failed insertion ends the periodic task.
LEMMA LoseTaskKept ==
    ASSUME Inductive, LoseTask
    PROVE  Inductive'
<1>1. /\ batch' = [batch EXCEPT !["task"] = <<>>]
      /\ UNCHANGED <<link, made, wire, message, running, buffer>>
      /\ UNCHANGED <<memories, accepted, forgotten>>
      /\ seen' = seen /\ last' = last /\ newest' = newest
      /\ running = TRUE /\ timer' = FALSE /\ faults < MaxFaults /\ faults' = faults + 1
  BY DEF LoseTask, Fault, market, memories, Inductive, TypeOK
<1>2. /\ batch' \in [Writers -> Seq(Trades)]
      /\ \A v \in Writers : batch'[v] \in Seq(Trades) /\ Len(batch'[v]) <= MaxBatch
      /\ batch["task"] \in Seq(Trades)
      /\ \A u \in Trades : /\ Held(u) = Held(u)' + Occurrences(batch["task"])[u]
                           /\ Held(u)' \in Nat /\ Occurrences(batch["task"])[u] \in Nat
  <2>1. "task" \in Writers
    BY DEF Writers
  <2> QED BY <1>1, <2>1, EmptiedBatch
<1>3. faults' \in 0..MaxFaults
  BY <1>1, Bounds DEF Inductive, TypeOK
<1>7. message' # <<>> => batch'["loop"] = <<>>
  <2>1. (message # <<>> => batch["loop"] = <<>>) /\ batch \in [Writers -> Seq(Trades)]
    BY DEF Inductive, TypeOK, MoreTypes
  <2>2. batch'["loop"] = batch["loop"]
    BY <1>1, <2>1 DEF Writers
  <2> QED BY <1>1, <2>1, <2>2
<1>4. TypeOK'
  BY <1>1, <1>2, <1>3, <1>7 DEF Inductive, TypeOK
<1>5. stored \in [Trades -> Nat] /\ lost \in [Trades -> Nat]
  BY Counts
<1>6. /\ stored' \in [Trades -> Nat] /\ lost' \in [Trades -> Nat]
      /\ \A u \in Trades : stored'[u] + lost'[u] + Held(u)' = stored[u] + lost[u] + Held(u)
  <2>1. CASE stored' = Plus(stored, batch["task"]) /\ lost' = lost
    <3>1. stored' \in [Trades -> Nat] /\ \A u \in Trades : stored'[u] = stored[u] + Occurrences(batch["task"])[u]
      BY <1>2, <1>5, <2>1, PlusFacts
    <3>2. \A u \in Trades : lost'[u] = lost[u] /\ lost[u] \in Nat /\ stored[u] \in Nat
      BY <1>5, <2>1
    <3>3. ASSUME NEW u \in Trades
          PROVE  stored'[u] + lost'[u] + Held(u)' = stored[u] + lost[u] + Held(u)
      <4>1. /\ Held(u) = Held(u)' + Occurrences(batch["task"])[u]
            /\ Held(u)' \in Nat /\ Occurrences(batch["task"])[u] \in Nat
        BY <1>2
      <4>2. stored'[u] = stored[u] + Occurrences(batch["task"])[u]
        BY <3>1
      <4>3. lost'[u] = lost[u] /\ lost[u] \in Nat /\ stored[u] \in Nat
        BY <3>2
      <4> QED BY <4>1, <4>2, <4>3
    <3> QED BY <1>5, <2>1, <3>1, <3>3
  <2>2. CASE lost' = Plus(lost, batch["task"]) /\ stored' = stored
    <3>1. lost' \in [Trades -> Nat] /\ \A u \in Trades : lost'[u] = lost[u] + Occurrences(batch["task"])[u]
      BY <1>2, <1>5, <2>2, PlusFacts
    <3>2. \A u \in Trades : stored'[u] = stored[u] /\ lost[u] \in Nat /\ stored[u] \in Nat
      BY <1>5, <2>2
    <3>3. ASSUME NEW u \in Trades
          PROVE  stored'[u] + lost'[u] + Held(u)' = stored[u] + lost[u] + Held(u)
      <4>1. /\ Held(u) = Held(u)' + Occurrences(batch["task"])[u]
            /\ Held(u)' \in Nat /\ Occurrences(batch["task"])[u] \in Nat
        BY <1>2
      <4>2. lost'[u] = lost[u] + Occurrences(batch["task"])[u]
        BY <3>1
      <4>3. stored'[u] = stored[u] /\ lost[u] \in Nat /\ stored[u] \in Nat
        BY <3>2
      <4> QED BY <4>1, <4>2, <4>3
    <3> QED BY <1>5, <2>2, <3>1, <3>3
  <2> QED BY <2>1, <2>2 DEF LoseTask
<1> QED BY <1>1, <1>2, <1>4, <1>6, MoveKept

\* The process ends: what it remembered is forgotten, what it held is stored or lost.
LEMMA EndKept ==
    ASSUME Inductive, EndNormalizer
    PROVE  Inductive'
<1>1. PICK done \in SUBSET Writers :
          LET rows(ws) == (IF "loop" \in ws THEN batch["loop"] ELSE <<>>)
                              \o (IF "task" \in ws THEN batch["task"] ELSE <<>>)
          IN /\ stored' = Plus(stored, rows(done))
             /\ lost' = Plus(lost, buffer \o rows(Writers \ done))
  BY DEF EndNormalizer
<1>2. PICK a, b : /\ a = IF "loop" \in done THEN batch["loop"] ELSE <<>>
                  /\ b = IF "task" \in done THEN batch["task"] ELSE <<>>
  OBVIOUS
<1>3. PICK c, d : /\ c = IF "loop" \in Writers \ done THEN batch["loop"] ELSE <<>>
                  /\ d = IF "task" \in Writers \ done THEN batch["task"] ELSE <<>>
  OBVIOUS
<1>4. stored' = Plus(stored, a \o b) /\ lost' = Plus(lost, buffer \o (c \o d))
  BY <1>1, <1>2, <1>3
<1>5. <<>> \in Seq(Trades) /\ <<>> \in Seq(Numbers) /\ Len(<<>>) = 0 /\ DOMAIN <<>> = {}
  BY EmptySeq
<1>6. a \in Seq(Trades) /\ b \in Seq(Trades) /\ c \in Seq(Trades) /\ d \in Seq(Trades)
  BY <1>2, <1>3, <1>5, Counts
<1>7. /\ stored' \in [Trades -> Nat]
      /\ \A u \in Trades : stored'[u] = stored[u] + Occurrences(a)[u] + Occurrences(b)[u]
  <2>1. stored \in [Trades -> Nat] /\ a \o b \in Seq(Trades)
    BY <1>6, OccurrencesJoin, Counts
  <2>2. stored' \in [Trades -> Nat] /\ \A u \in Trades : stored'[u] = stored[u] + Occurrences(a \o b)[u]
    BY <1>4, <2>1, PlusFacts
  <2>3. ASSUME NEW u \in Trades PROVE stored'[u] = stored[u] + Occurrences(a)[u] + Occurrences(b)[u]
    <3>1. /\ Occurrences(a \o b)[u] = Occurrences(a)[u] + Occurrences(b)[u]
          /\ Occurrences(a)[u] \in Nat /\ Occurrences(b)[u] \in Nat /\ stored[u] \in Nat
      BY <1>6, <2>1, OccurrencesJoin
    <3> QED BY <2>2, <3>1
  <2> QED BY <2>2, <2>3
<1>8. /\ lost' \in [Trades -> Nat]
      /\ \A u \in Trades : lost'[u] = lost[u] + Occurrences(buffer)[u] + Occurrences(c)[u] + Occurrences(d)[u]
  <2>1. lost \in [Trades -> Nat] /\ c \o d \in Seq(Trades) /\ buffer \in Seq(Trades)
    BY <1>6, OccurrencesJoin, Counts
  <2>2. PICK cd \in Seq(Trades) : cd = c \o d
    BY <2>1
  <2>3. buffer \o cd \in Seq(Trades)
    BY <2>1, OccurrencesJoin
  <2>4. lost' \in [Trades -> Nat] /\ \A u \in Trades : lost'[u] = lost[u] + Occurrences(buffer \o cd)[u]
    BY <1>4, <2>1, <2>2, <2>3, PlusFacts
  <2>5. ASSUME NEW u \in Trades
        PROVE  lost'[u] = lost[u] + Occurrences(buffer)[u] + Occurrences(c)[u] + Occurrences(d)[u]
    <3>1. /\ Occurrences(cd)[u] = Occurrences(c)[u] + Occurrences(d)[u]
          /\ Occurrences(c)[u] \in Nat /\ Occurrences(d)[u] \in Nat /\ lost[u] \in Nat
      BY <1>6, <2>1, <2>2, OccurrencesJoin
    <3>2. /\ Occurrences(buffer \o cd)[u] = Occurrences(buffer)[u] + Occurrences(cd)[u]
          /\ Occurrences(buffer)[u] \in Nat
      BY <2>1, OccurrencesJoin
    <3> QED BY <2>4, <3>1, <3>2
  <2> QED BY <2>4, <2>5
<1>9. /\ wire' = <<>> /\ message' = <<>> /\ buffer' = <<>> /\ batch' = Empty
      /\ running' = FALSE /\ timer' = FALSE /\ link' = link /\ made' = made /\ accepted' = accepted
      /\ faults < MaxFaults /\ faults' = faults + 1
      /\ seen' = [f \in Feeds |-> <<>>]
  BY DEF EndNormalizer, Fault
<1>10. /\ last' = [f \in Feeds |-> 0] /\ newest' = [f \in Feeds |-> 0]
       /\ rewound' = [f \in Feeds |-> FALSE]
       /\ forgotten' = [t \in Trades |-> forgotten[t] + IF IsDuplicate(t) THEN 1 ELSE 0]
  BY DEF EndNormalizer
<1>11. /\ batch' \in [Writers -> Seq(Trades)]
       /\ \A w \in Writers : batch'[w] = <<>>
  BY <1>5, <1>9 DEF Empty
<1>12. TypeOK'
  <2>1. link' \in [Feeds -> Links] /\ made' \in [Feeds -> 0..MaxTrades]
    BY <1>9 DEF Inductive, TypeOK
  <2>2. faults' \in 0..MaxFaults
    BY <1>9, Bounds DEF Inductive, TypeOK
  <2>3. 0 <= MaxWire /\ 0 < BatchSize /\ 0 <= MaxBatch /\ 0 <= CacheSize /\ 0 \in 0..MaxTrades
    BY Bounds
  <2>4. /\ wire' \in Seq(Messages) /\ Len(wire') <= MaxWire /\ message' \in Messages
        /\ buffer' \in Seq(Trades) /\ Len(buffer') < BatchSize /\ Len(buffer') + Len(message') <= MaxBatch
    <3>1. <<>> \in Seq(Messages) /\ 0 + 0 <= MaxBatch
      BY <2>3, EmptySeq
    <3> QED BY <1>5, <1>9, <2>3, <3>1, MessageFacts
  <2>5. \A f \in Feeds : seen'[f] \in Seq(Numbers) /\ Len(seen'[f]) <= CacheSize
    <3>1. Len(<<>>) <= CacheSize
      BY <1>5, <2>3
    <3> QED BY <1>5, <1>9, <3>1
  <2>6. last' \in [Feeds -> 0..MaxTrades] /\ newest' \in [Feeds -> 0..MaxTrades]
    BY <1>10, <2>3
  <2>7. \A w \in Writers : batch'[w] \in Seq(Trades) /\ Len(batch'[w]) <= MaxBatch
    <3>1. Len(<<>>) <= MaxBatch
      BY <1>5, <2>3
    <3> QED BY <1>5, <1>11, <3>1
  <2>8. running' \in BOOLEAN /\ timer' \in BOOLEAN
        /\ (~running' => ~timer' /\ wire' = <<>> /\ message' = <<>> /\ buffer' = <<>> /\ batch' = Empty')
    BY <1>9 DEF Empty
  <2> QED BY <1>9, <2>1, <2>2, <2>4, <2>5, <2>6, <2>7, <2>8 DEF TypeOK
<1>13. forgotten' \in [Trades -> Nat]
       /\ \A u \in Trades : forgotten'[u] = forgotten[u] + Remembered(u)
  <2>1. \A u \in Trades : forgotten[u] \in Nat
    BY Counts
  <2>2. \A u \in Trades : (IF IsDuplicate(u) THEN 1 ELSE 0) \in Nat
    OBVIOUS
  <2>3. \A u \in Trades : forgotten[u] + (IF IsDuplicate(u) THEN 1 ELSE 0) \in Nat
    BY <2>1, <2>2
  <2> QED BY <1>10, <2>3 DEF Remembered
<1>14. MoreTypes'
  <2>1. seen' \in [Feeds -> Seq(Numbers)] /\ rewound' \in [Feeds -> BOOLEAN]
    BY <1>5, <1>9, <1>10
  <2>2. accepted' \in [Trades -> Nat]
    BY <1>9, Counts
  <2> QED BY <1>7, <1>8, <1>11, <1>13, <2>1, <2>2 DEF MoreTypes
<1>15. CacheIsASet'
  BY <1>5, <1>9 DEF CacheIsASet
<1>16. LetInOrForgotten'
  <2>1. \A u \in Trades : ~IsDuplicate(u)'
    BY <1>5, <1>9, TradeIs DEF IsDuplicate, ToSet
  <2>2. \A u \in Trades : Remembered(u)' = 0
    BY <2>1 DEF Remembered
  <2>3. \A u \in Trades : accepted[u] = forgotten[u] + Remembered(u) /\ forgotten'[u] \in Nat
    BY <1>13 DEF Inductive, LetInOrForgotten
  <2>4. \A u \in Trades : accepted'[u] = forgotten'[u] + Remembered(u)'
    BY <1>9, <1>13, <2>2, <2>3
  <2> QED BY <2>4 DEF LetInOrForgotten
<1>17. Conserved'
  <2> SUFFICES ASSUME NEW u \in Trades PROVE accepted'[u] = stored'[u] + lost'[u] + Held(u)'
    BY DEF Conserved
  <2>1. Held(u)' = 0
    <3>1. batch'["loop"] = <<>> /\ batch'["task"] = <<>> /\ buffer' = <<>>
      BY <1>9, <1>11 DEF Writers
    <3>2. Held(u)' = Occurrences(<<>>)[u] + Occurrences(<<>>)[u] + Occurrences(<<>>)[u]
      BY <3>1 DEF Held
    <3> QED BY <3>2, Counts
  <2>2. /\ Occurrences(a)[u] + Occurrences(c)[u] = Occurrences(batch["loop"])[u]
        /\ Occurrences(a)[u] \in Nat /\ Occurrences(c)[u] \in Nat
    <3>1. "loop" \in Writers
      BY DEF Writers
    <3>2. CASE "loop" \in done
      <4>1. a = batch["loop"] /\ c = <<>>
        BY <1>2, <1>3, <3>2
      <4> QED BY <4>1, Counts
    <3>3. CASE "loop" \notin done
      <4>1. a = <<>> /\ c = batch["loop"]
        BY <1>2, <1>3, <3>1, <3>3
      <4> QED BY <4>1, Counts
    <3> QED BY <3>2, <3>3
  <2>3. /\ Occurrences(b)[u] + Occurrences(d)[u] = Occurrences(batch["task"])[u]
        /\ Occurrences(b)[u] \in Nat /\ Occurrences(d)[u] \in Nat
    <3>1. "task" \in Writers
      BY DEF Writers
    <3>2. CASE "task" \in done
      <4>1. b = batch["task"] /\ d = <<>>
        BY <1>2, <1>3, <3>2
      <4> QED BY <4>1, Counts
    <3>3. CASE "task" \notin done
      <4>1. b = <<>> /\ d = batch["task"]
        BY <1>2, <1>3, <3>1, <3>3
      <4> QED BY <4>1, Counts
    <3> QED BY <3>2, <3>3
  <2>4. accepted'[u] = stored[u] + lost[u]
            + (Occurrences(buffer)[u] + Occurrences(batch["loop"])[u] + Occurrences(batch["task"])[u])
    BY <1>9, Counts DEF Held
  <2>5. /\ stored'[u] = stored[u] + Occurrences(a)[u] + Occurrences(b)[u]
        /\ lost'[u] = lost[u] + Occurrences(buffer)[u] + Occurrences(c)[u] + Occurrences(d)[u]
    BY <1>7, <1>8
  <2>6. stored[u] \in Nat /\ lost[u] \in Nat /\ Occurrences(buffer)[u] \in Nat
    BY Counts
  <2> QED BY <2>1, <2>2, <2>3, <2>4, <2>5, <2>6
<1>18. ClockIsRight'
  BY <1>10 DEF ClockIsRight
<1> QED BY <1>12, <1>14, <1>15, <1>16, <1>17, <1>18 DEF Inductive

-----------------------------------------------------------------------------
(* The theorems.                                                           *)

\* Every step of the system, and every step that leaves it alone.
LEMMA InductiveKept ==
    ASSUME Inductive, [Next]_vars
    PROVE  Inductive'
<1>1. CASE Next
  <2>1. CASE \E f \in Feeds : Reconnect(f)
    BY <2>1, LinkKept
  <2>2. CASE \/ \E f \in Feeds : \E n \in 1..MessageSize(f) : Trade(f, n)
             \/ \E f \in Feeds : \E first \in Numbers, n \in 1..MessageSize(f) : Resend(f, first, n)
    BY <2>2, TradeKept
  <2>9. CASE Receive
    BY <2>9, ReceiveKept
  <2>3. CASE Read
    BY <2>3, ReadDuplicateKept, ReadNewKept
  <2>4. CASE FlushPeriodically
    BY <2>4, FlushKept
  <2>5. CASE StartNormalizer
    BY <2>5, LinkKept
  <2>6. CASE \E w \in Writers : Insert(w)
    BY <2>6, InsertKept
  <2>7. CASE LoseTask
    BY <2>7, LoseTaskKept
  <2>8. CASE EndNormalizer
    BY <2>8, EndKept
  <2> QED BY <1>1, <2>1, <2>2, <2>3, <2>4, <2>5, <2>6, <2>7, <2>8, <2>9 DEF Next
<1>2. CASE UNCHANGED vars
  <2>1. UNCHANGED <<link, made, wire, message, running, timer, faults>> /\ UNCHANGED <<memories, holdings, table>>
    BY <1>2 DEF vars, market, memory, memories, holdings
  <2>2. /\ link' = link /\ made' = made /\ wire' = wire /\ message' = message /\ running' = running /\ timer' = timer
        /\ faults' = faults /\ seen' = seen /\ last' = last /\ newest' = newest
        /\ buffer' = buffer /\ batch' = batch
    BY <2>1 DEF memories, holdings
  <2>3. TypeOK'
    BY <2>2 DEF Inductive, TypeOK
  <2> QED BY <2>1, <2>3, MemoryStays
<1> QED BY <1>1, <1>2

\* The inductive invariant holds in every state of every behaviour.
THEOREM InductiveHolds == Spec => []Inductive
BY InitInductive, InductiveKept, PTL DEF Spec

\* Every variable stays in its domain: between two messages the buffer never holds a full
\* batch, a batch is never longer than a buffer one trade short of full and a whole message,
\* the cache never outgrows its length, a normalizer that is down holds nothing.
THEOREM TypeCorrectness == Spec => []TypeOK
<1>1. Inductive => TypeOK
  BY DEF Inductive
<1> QED BY <1>1, InductiveHolds, PTL

\* Whatever the lengths of cache and batch: each time a trade was accepted it is in exactly
\* one place, and it is accepted again only after the cache or a restart forgot it.
THEOREM TradesConserved == Spec => []TradesAreConserved
<1>1. ASSUME Inductive PROVE TradesAreConserved
  <2> SUFFICES ASSUME NEW t \in Trades
               PROVE  /\ accepted[t] = stored[t] + lost[t]
                                       + Occurrences(buffer \o batch["loop"] \o batch["task"])[t]
                      /\ accepted[t] <= 1 + forgotten[t]
    BY DEF TradesAreConserved
  <2>1. PICK first : first = buffer \o batch["loop"]
    OBVIOUS
  <2>2. /\ first \in Seq(Trades)
        /\ Occurrences(first)[t] = Occurrences(buffer)[t] + Occurrences(batch["loop"])[t]
    BY <1>1, <2>1, OccurrencesJoin, Counts
  <2>3. Occurrences(first \o batch["task"])[t] = Occurrences(first)[t] + Occurrences(batch["task"])[t]
    BY <1>1, <2>2, OccurrencesJoin, Counts
  <2>4. Occurrences(buffer \o batch["loop"] \o batch["task"])[t] = Held(t)
    BY <2>1, <2>2, <2>3 DEF Held
  <2>5. accepted[t] = stored[t] + lost[t] + Held(t)
    BY <1>1, Counts
  <2>6. accepted[t] = forgotten[t] + Remembered(t) /\ forgotten[t] \in Nat
    BY <1>1, Counts DEF Inductive, LetInOrForgotten
  <2>7. Remembered(t) = 0 \/ Remembered(t) = 1
    BY DEF Remembered
  <2> QED BY <2>4, <2>5, <2>6, <2>7
<1> QED BY <1>1, InductiveHolds, PTL

\* Whatever the threshold: no gap between the newest trades is hidden, and one that does not
\* exist is told only after an older trade was accepted after a newer one, for the second
\* time because it was forgotten, or for the first because it had been missed.
THEOREM GapsTold == Spec => GapsAreTold
<1>1. ASSUME Inductive, [Next]_vars PROVE \A f \in Feeds : GapTold(f)
  <2>1. CASE Read
    <3>1. CASE IsDuplicate(Head(message))
      <4>1. newest' = newest
        BY <1>1, <2>1, <3>1, ReadDuplicateKept
      <4> QED BY <1>1, <4>1, NewestStays
    <3>2. CASE ~IsDuplicate(Head(message))
      BY <1>1, <2>1, <3>2, ReadNewKept
    <3> QED BY <3>1, <3>2
  <2>2. CASE EndNormalizer
    <3> SUFFICES ASSUME NEW f \in Feeds, newest'[f] > newest[f] PROVE FALSE
      BY DEF GapTold
    <3>1. newest'[f] = 0
      BY <2>2 DEF EndNormalizer
    <3>2. newest[f] \in 0..MaxTrades
      BY <1>1 DEF Inductive, TypeOK
    <3>3. ~(0 > newest[f])
      BY <3>2, Bounds
    <3> QED BY <3>1, <3>3
  <2>3. CASE newest' = newest
    BY <1>1, <2>3, NewestStays
  <2>4. \/ Read \/ EndNormalizer \/ newest' = newest
    BY <1>1 DEF Next, Trade, Reconnect, Resend, Receive, FlushPeriodically, StartNormalizer, Insert, LoseTask,
                vars, memory
  <2> QED BY <2>1, <2>2, <2>3, <2>4
<1>2. (\A f \in Feeds : GapTold(f))
      => \A f \in Feeds :
             newest[f] # 0 /\ newest'[f] > newest[f]
             => LET real == newest'[f] - newest[f] > GapThreshold
                IN (real => told') /\ (told' => real \/ rewound[f])
  BY DEF GapTold
<1> QED BY <1>1, <1>2, InductiveHolds, PTL DEF Spec, GapsAreTold
-----------------------------------------------------------------------------
(* The events of data_collector beside its trades: how Alerts tells them,  *)
(* over the same connections.                                              *)

CONSTANT QueueSize
VARIABLES fresh, monitor, cooldown, service, debounced, losses

Alerting == INSTANCE Alerts WITH faults <- losses

\* What the type invariant leaves open: monitoring and notifications are records.
IsMonitor(m) == m \in [todo : {m.todo}, sent : {m.sent}]
IsService(s) == s \in [up : {s.up}, queue : {s.queue}, sending : {s.sending}]

AlertingInductive ==
    /\ Alerting!TypeOK
    /\ IsMonitor(monitor) /\ IsService(service)

\* A queue of notifications within its bound.
IsQueue(queue) == queue \in Seq(Alerting!Kinds) /\ Len(queue) <= QueueSize

\* enqueue_notification makes room first, so that the queue never outgrows its bound.
LEMMA EnqueueIsBounded ==
    ASSUME QueueSize \in Nat \ {0}, NEW queue, IsQueue(queue), NEW kind \in Alerting!Kinds
    PROVE  IsQueue(Alerting!Enqueue(queue, kind))
<1>1. CASE Len(queue) = QueueSize
  <2>1. queue # <<>>
    BY <1>1
  <2>2. Tail(queue) \in Seq(Alerting!Kinds) /\ Len(Tail(queue)) = QueueSize - 1
    BY <1>1, <2>1, HeadTailProperties DEF IsQueue
  <2>3. PICK rest \in Seq(Alerting!Kinds) : rest = Tail(queue)
    BY <2>2
  <2>4. Append(rest, kind) \in Seq(Alerting!Kinds) /\ Len(Append(rest, kind)) = Len(rest) + 1
    BY AppendProperties
  <2> QED BY <1>1, <2>2, <2>3, <2>4 DEF IsQueue, Alerting!Enqueue
<1>2. CASE Len(queue) # QueueSize
  <2>1. queue \in Seq(Alerting!Kinds) /\ Len(queue) \in Nat
    BY LenProperties DEF IsQueue
  <2>2. Append(queue, kind) \in Seq(Alerting!Kinds) /\ Len(Append(queue, kind)) = Len(queue) + 1
    BY <2>1, AppendProperties
  <2> QED BY <1>2, <2>1, <2>2 DEF IsQueue, Alerting!Enqueue
<1> QED BY <1>1, <1>2

\* Neither do the events that are let through the debouncer.
LEMMA IncomingIsBounded ==
    ASSUME QueueSize \in Nat \ {0}, NEW queue, IsQueue(queue),
           NEW kind \in Alerting!Kinds \union {Alerting!None}
    PROVE  IsQueue(Alerting!EnqueueIncoming(queue, kind))
<1>1. CASE kind = Alerting!None
  BY <1>1 DEF Alerting!EnqueueIncoming
<1>2. CASE kind \in Alerting!Kinds
  BY <1>2, EnqueueIsBounded DEF Alerting!EnqueueIncoming
<1> QED BY <1>1, <1>2

\* What is published finds the service up, down, or is lost.
LEMMA HearKept ==
    ASSUME QueueSize \in Nat \ {0}, AlertingInductive,
           NEW first \in Alerting!Kinds \union {Alerting!None},
           NEW second \in Alerting!Kinds \union {Alerting!None},
           Alerting!Hear(first, second) \/ UNCHANGED <<service, debounced>>
    PROVE  /\ IsService(service') /\ IsQueue(service'.queue) /\ service'.up \in BOOLEAN
           /\ service'.sending \in Alerting!Kinds \union {Alerting!None}
           /\ ~service'.up => service' = Alerting!Ended /\ debounced' = {}
           /\ debounced' \subseteq Alerting!Outages
<1>1. /\ IsService(service) /\ IsQueue(service.queue) /\ service.up \in BOOLEAN
      /\ service.sending \in Alerting!Kinds \union {Alerting!None}
      /\ ~service.up => service = Alerting!Ended /\ debounced = {}
      /\ debounced \subseteq Alerting!Outages
  BY DEF AlertingInductive, Alerting!TypeOK, IsQueue
<1>2. CASE UNCHANGED <<service, debounced>>
  BY <1>1, <1>2
<1>3. CASE Alerting!Hear(first, second) /\ service.up
  <2>1. PICK one : one = Alerting!EnqueueIncoming(service.queue, first) /\ IsQueue(one)
    BY <1>1, IncomingIsBounded
  <2>2. PICK queue : queue = Alerting!EnqueueIncoming(one, second) /\ IsQueue(queue)
    BY <2>1, IncomingIsBounded
  <2>3. /\ service' = [service EXCEPT !.queue = queue]
        /\ debounced' = debounced \union ({first, second} \cap Alerting!Outages)
    BY <1>3, <2>1, <2>2 DEF Alerting!Hear
  <2>4. /\ IsService(service') /\ service'.queue = queue /\ service'.up = service.up
        /\ service'.sending = service.sending
    BY <1>1, <2>3 DEF IsService
  <2> QED BY <1>1, <1>3, <2>2, <2>3, <2>4
<1>4. CASE Alerting!Hear(first, second) /\ ~service.up
  BY <1>1, <1>4 DEF Alerting!Hear
<1> QED BY <1>2, <1>3, <1>4

\* The conjuncts of the invariant, one by one.
LEMMA AlertingMoves ==
    ASSUME link' \in [Feeds -> Alerting!Links], fresh' \in BOOLEAN,
           IsMonitor(monitor'), monitor'.todo \subseteq Alerting!Checks,
           monitor'.sent \in Alerting!Checks \union {Alerting!None},
           cooldown' \subseteq Alerting!Checks,
           IsService(service'), IsQueue(service'.queue), service'.up \in BOOLEAN,
           service'.sending \in Alerting!Kinds \union {Alerting!None},
           ~service'.up => service' = Alerting!Ended /\ debounced' = {},
           debounced' \subseteq Alerting!Outages, losses' \in 0..MaxFaults
    PROVE  AlertingInductive'
BY DEF AlertingInductive, Alerting!TypeOK, IsQueue

\* And what the invariant says of them.
LEMMA AlertingHas ==
    ASSUME AlertingInductive
    PROVE  /\ link \in [Feeds -> Alerting!Links] /\ fresh \in BOOLEAN
           /\ IsMonitor(monitor) /\ monitor.todo \subseteq Alerting!Checks
           /\ monitor.sent \in Alerting!Checks \union {Alerting!None}
           /\ cooldown \subseteq Alerting!Checks
           /\ IsService(service) /\ IsQueue(service.queue) /\ service.up \in BOOLEAN
           /\ service.sending \in Alerting!Kinds \union {Alerting!None}
           /\ ~service.up => service = Alerting!Ended /\ debounced = {}
           /\ debounced \subseteq Alerting!Outages /\ losses \in 0..MaxFaults
BY DEF AlertingInductive, Alerting!TypeOK, IsQueue

\* A loss is counted within its bound.
LEMMA LossesAreBounded ==
    ASSUME AlertingInductive, Alerting!Lose \/ UNCHANGED losses
    PROVE  losses' \in 0..MaxFaults
BY BoundsAssumption DEF AlertingInductive, Alerting!TypeOK, Alerting!Lose

\* The connections, whatever the collector says of them.
LEMMA CollectorKept ==
    ASSUME QueueSize \in Nat \ {0}, AlertingInductive, NEW f \in Feeds,
           Alerting!Announced(f) \/ Alerting!Unannounced(f)
    PROVE  AlertingInductive'
<1>1. link' \in [Feeds -> Alerting!Links]
  <2>1. link \in [Feeds -> Alerting!Links]
    BY AlertingHas
  <2>2. ASSUME NEW g \in Feeds, NEW from, NEW to \in Alerting!Links, Alerting!Move(g, from, to)
        PROVE  link' \in [Feeds -> Alerting!Links]
    BY <2>1, <2>2 DEF Alerting!Move
  <2> QED BY <2>2 DEF Alerting!Announced, Alerting!Unannounced, Alerting!Connect,
          Alerting!FailToConnect, Alerting!LoseConnection, Alerting!NoticeSilence,
          Alerting!CloseCleanly, Alerting!GoSilent, Alerting!Retry, Alerting!RefuseHandshake,
          Alerting!RestartCollector, Alerting!Links
<1>2. /\ monitor' = monitor /\ cooldown' = cooldown /\ fresh' \in BOOLEAN
      /\ Alerting!Lose \/ UNCHANGED losses
      /\ \E first, second \in Alerting!Kinds \union {Alerting!None} :
             Alerting!Hear(first, second) \/ UNCHANGED <<service, debounced>>
  <2>1. /\ Alerting!Disconnection(f) \in Alerting!Kinds
        /\ Alerting!Silence(f) \in Alerting!Kinds \union {Alerting!None}
        /\ fresh \in BOOLEAN
    BY AlertingHas DEF Alerting!Kinds, Alerting!Outages, Alerting!Disconnection, Alerting!Silence
  <2>2. ASSUME NEW first, NEW second, Alerting!Say(first, second)
        PROVE  /\ monitor' = monitor /\ cooldown' = cooldown /\ fresh' \in BOOLEAN
               /\ Alerting!Lose \/ UNCHANGED losses
               /\ Alerting!Hear(first, second) \/ UNCHANGED <<service, debounced>>
    BY <2>1, <2>2 DEF Alerting!Say, Alerting!Publish, Alerting!telling
  <2>3. CASE Alerting!Announced(f)
    <3>1. PICK first \in Alerting!Kinds \union {Alerting!None},
               second \in Alerting!Kinds \union {Alerting!None} : Alerting!Say(first, second)
      BY <2>1, <2>3 DEF Alerting!Announced
    <3> QED BY <2>2, <3>1
  <2>4. CASE Alerting!Unannounced(f)
    BY <2>1, <2>4 DEF Alerting!Unannounced, Alerting!SayNothing, Alerting!telling
  <2> QED BY <2>3, <2>4
<1>3. PICK first \in Alerting!Kinds \union {Alerting!None},
           second \in Alerting!Kinds \union {Alerting!None} :
          Alerting!Hear(first, second) \/ UNCHANGED <<service, debounced>>
  BY <1>2
<1> QED BY <1>1, <1>2, <1>3, AlertingHas, HearKept, LossesAreBounded, AlertingMoves

\* monitoring: its checks, its alerts and what cuts a cycle.
LEMMA MonitorKept ==
    ASSUME QueueSize \in Nat \ {0}, AlertingInductive,
           \/ Alerting!Age \/ Alerting!Monitor \/ Alerting!FailChecks
           \/ \E check \in Alerting!Checks : Alerting!ExpireCooldown(check)
    PROVE  AlertingInductive'
<1>1. PICK m : m = monitor /\ IsMonitor(m) /\ m.todo \subseteq Alerting!Checks
               /\ m.sent \in Alerting!Checks \union {Alerting!None}
  BY AlertingHas
<1>2. /\ IsMonitor(Alerting!Quiet) /\ Alerting!Quiet.todo = {} /\ Alerting!Quiet.sent = Alerting!None
  BY DEF Alerting!Quiet, IsMonitor
<1>3. link' = link /\ link' \in [Feeds -> Alerting!Links]
  BY AlertingHas DEF Alerting!Age, Alerting!Monitor, Alerting!FailChecks, Alerting!ExpireCooldown,
     Alerting!RunChecks, Alerting!SetCooldown, Alerting!SendAlert, Alerting!HoldAlert
<1>4. CASE \E check \in Alerting!Checks : Alerting!SendAlert(check)
  <2>1. PICK check \in Alerting!Checks : Alerting!SendAlert(check)
    BY <1>4
  <2>2. /\ monitor' = [todo |-> m.todo \ {check}, sent |-> check]
        /\ fresh' = fresh /\ cooldown' = cooldown
        /\ Alerting!Lose \/ UNCHANGED losses
        /\ Alerting!Hear(check, Alerting!None) \/ UNCHANGED <<service, debounced>>
    BY <1>1, <2>1 DEF Alerting!SendAlert, Alerting!Publish
  <2>3. check \in Alerting!Kinds \union {Alerting!None} /\ Alerting!None \in Alerting!Kinds \union {Alerting!None}
    BY DEF Alerting!Kinds
  <2>4. PICK left : left = m.todo \ {check}
    OBVIOUS
  <2>5. IsMonitor(monitor') /\ monitor'.todo \subseteq Alerting!Checks /\ monitor'.sent = check
    BY <1>1, <2>2, <2>4 DEF IsMonitor
  <2> QED BY <1>3, <2>2, <2>3, <2>5, AlertingHas, HearKept, LossesAreBounded, AlertingMoves
<1>5. CASE Alerting!Age \/ Alerting!RunChecks \/ Alerting!SetCooldown \/ Alerting!FailChecks
           \/ (\E check \in Alerting!Checks : Alerting!HoldAlert(check))
           \/ (\E check \in Alerting!Checks : Alerting!ExpireCooldown(check))
  <2>1. /\ UNCHANGED <<service, debounced>> /\ fresh' \in BOOLEAN
        /\ Alerting!Lose \/ UNCHANGED losses
    BY <1>5, AlertingHas DEF Alerting!Age, Alerting!telling, Alerting!RunChecks,
       Alerting!SetCooldown, Alerting!FailChecks, Alerting!HoldAlert, Alerting!ExpireCooldown
  <2>2. /\ IsMonitor(monitor') /\ monitor'.todo \subseteq Alerting!Checks
        /\ monitor'.sent \in Alerting!Checks \union {Alerting!None}
        /\ cooldown' \subseteq Alerting!Checks
    <3>1. cooldown \subseteq Alerting!Checks
      BY AlertingHas
    <3>2. CASE Alerting!Age \/ \E check \in Alerting!Checks : Alerting!ExpireCooldown(check)
      BY <1>1, <3>1, <3>2 DEF Alerting!Age, Alerting!telling, Alerting!ExpireCooldown
    <3>3. CASE Alerting!FailChecks
      BY <1>2, <3>1, <3>3 DEF Alerting!FailChecks
    <3>4. CASE Alerting!RunChecks
      <4>1. PICK others \in SUBSET {"other_check"} :
                monitor' = [Alerting!Quiet EXCEPT !.todo =
                               others \union IF fresh THEN {} ELSE {"freshness.data_collector"}]
        BY <3>4 DEF Alerting!RunChecks
      <4>2. PICK todo : /\ todo = others \union (IF fresh THEN {} ELSE {"freshness.data_collector"})
                        /\ todo \subseteq Alerting!Checks
        BY DEF Alerting!Checks
      <4>3. monitor' = [Alerting!Quiet EXCEPT !.todo = todo]
        BY <4>1, <4>2
      <4>4. IsMonitor(monitor') /\ monitor'.todo = todo /\ monitor'.sent = Alerting!None
        BY <1>2, <4>3 DEF IsMonitor
      <4> QED BY <3>1, <3>4, <4>2, <4>4 DEF Alerting!RunChecks
    <3>5. CASE Alerting!SetCooldown
      <4>1. /\ monitor' = [m EXCEPT !.sent = Alerting!None]
            /\ cooldown' = cooldown \union {m.sent} /\ m.sent # Alerting!None
        BY <1>1, <3>5 DEF Alerting!SetCooldown
      <4>2. IsMonitor(monitor') /\ monitor'.todo = m.todo /\ monitor'.sent = Alerting!None
        BY <1>1, <4>1 DEF IsMonitor
      <4> QED BY <1>1, <3>1, <4>1, <4>2
    <3>6. ASSUME NEW check \in Alerting!Checks, Alerting!HoldAlert(check)
          PROVE  /\ IsMonitor(monitor') /\ monitor'.todo \subseteq Alerting!Checks
                 /\ monitor'.sent \in Alerting!Checks \union {Alerting!None}
                 /\ cooldown' \subseteq Alerting!Checks
      <4>1. monitor' = [m EXCEPT !.todo = m.todo \ {check}] /\ cooldown' = cooldown
        BY <1>1, <3>6 DEF Alerting!HoldAlert
      <4>2. PICK left : left = m.todo \ {check}
        OBVIOUS
      <4>3. IsMonitor(monitor') /\ monitor'.todo = left /\ monitor'.sent = m.sent
        BY <1>1, <4>1, <4>2 DEF IsMonitor
      <4> QED BY <1>1, <3>1, <4>1, <4>2, <4>3
    <3> QED BY <1>5, <3>2, <3>3, <3>4, <3>5, <3>6
  <2> QED BY <1>3, <2>1, <2>2, AlertingHas, LossesAreBounded, AlertingMoves
<1> QED BY <1>4, <1>5 DEF Alerting!Monitor

\* notifications: its queue, what it sends, its end and its windows.
LEMMA NotifyKept ==
    ASSUME QueueSize \in Nat \ {0}, AlertingInductive,
           \/ Alerting!Notify \/ Alerting!RefuseNotification \/ Alerting!EndService
           \/ \E kind \in Alerting!Outages : Alerting!ExpireWindow(kind)
    PROVE  AlertingInductive'
<1>1. PICK s : s = service /\ IsService(s) /\ IsQueue(s.queue) /\ s.up \in BOOLEAN
               /\ s.sending \in Alerting!Kinds \union {Alerting!None}
               /\ (~s.up => s = Alerting!Ended /\ debounced = {})
               /\ debounced \subseteq Alerting!Outages
  BY AlertingHas
<1>2. /\ IsService(Alerting!Ended) /\ Alerting!Ended.up = FALSE /\ Alerting!Ended.queue = <<>>
      /\ Alerting!Ended.sending = Alerting!None /\ IsQueue(<<>>)
  <2>1. <<>> \in Seq(Alerting!Kinds) /\ Len(<<>>) = 0
    BY EmptySeq
  <2> QED BY <2>1 DEF Alerting!Ended, IsService, IsQueue
<1>3. /\ UNCHANGED <<link, fresh, monitor, cooldown>>
      /\ Alerting!Lose \/ UNCHANGED losses
  BY DEF Alerting!Notify, Alerting!StartService, Alerting!TakeNotification, Alerting!Deliver,
     Alerting!RefuseNotification, Alerting!EndService, Alerting!ExpireWindow, Alerting!telling
<1>4. /\ IsService(service') /\ IsQueue(service'.queue) /\ service'.up \in BOOLEAN
      /\ service'.sending \in Alerting!Kinds \union {Alerting!None}
      /\ ~service'.up => service' = Alerting!Ended /\ debounced' = {}
      /\ debounced' \subseteq Alerting!Outages
  <2>1. CASE \E kind \in Alerting!Outages : Alerting!ExpireWindow(kind)
    BY <1>1, <2>1 DEF Alerting!ExpireWindow
  <2>2. CASE Alerting!StartService
    <3>1. service' = [s EXCEPT !.up = TRUE] /\ debounced' = debounced
      BY <1>1, <2>2 DEF Alerting!StartService
    <3>2. /\ IsService(service') /\ service'.up = TRUE /\ service'.queue = s.queue
          /\ service'.sending = s.sending
      BY <1>1, <3>1 DEF IsService
    <3> QED BY <1>1, <3>1, <3>2
  <2>3. CASE Alerting!TakeNotification
    <3>1. PICK rest, next : /\ rest = Tail(s.queue) /\ next = Head(s.queue)
                            /\ s.queue # <<>>
                            /\ service' = [s EXCEPT !.queue = rest, !.sending = next]
                            /\ debounced' = debounced
      BY <1>1, <2>3 DEF Alerting!TakeNotification
    <3>2. IsQueue(rest) /\ next \in Alerting!Kinds
      <4>1. s.queue \in Seq(Alerting!Kinds) /\ Len(s.queue) \in Nat /\ Len(s.queue) <= QueueSize
        BY <1>1, LenProperties DEF IsQueue
      <4>2. /\ rest \in Seq(Alerting!Kinds) /\ Len(rest) = Len(s.queue) - 1
            /\ next \in Alerting!Kinds
        BY <3>1, <4>1, HeadTailProperties
      <4> QED BY <4>1, <4>2 DEF IsQueue
    <3>3. /\ IsService(service') /\ service'.up = s.up /\ service'.queue = rest
          /\ service'.sending = next
      BY <1>1, <3>1 DEF IsService
    <3>4. s.up
      BY <1>1, <1>2, <3>1
    <3> QED BY <1>1, <3>1, <3>2, <3>3, <3>4
  <2>4. CASE Alerting!Deliver \/ Alerting!RefuseNotification
    <3>1. /\ service' = [s EXCEPT !.sending = Alerting!None] /\ debounced' = debounced
          /\ s.sending # Alerting!None
      BY <1>1, <2>4 DEF Alerting!Deliver, Alerting!RefuseNotification
    <3>2. /\ IsService(service') /\ service'.up = s.up /\ service'.queue = s.queue
          /\ service'.sending = Alerting!None
      BY <1>1, <3>1 DEF IsService
    <3>3. s.up
      BY <1>1, <1>2, <3>1
    <3> QED BY <1>1, <3>1, <3>2, <3>3
  <2>5. CASE Alerting!EndService
    BY <1>2, <2>5 DEF Alerting!EndService
  <2> QED BY <2>1, <2>2, <2>3, <2>4, <2>5 DEF Alerting!Notify
<1> QED BY <1>3, <1>4, AlertingHas, LossesAreBounded, AlertingMoves

\* The invariant holds in every state.
LEMMA AlertingInvariant ==
    ASSUME QueueSize \in Nat \ {0}
    PROVE  Alerting!Spec => []AlertingInductive
<1>1. Alerting!Init => AlertingInductive
  <2> SUFFICES ASSUME Alerting!Init PROVE AlertingInductive
    OBVIOUS
  <2>1. link \in [Feeds -> Alerting!Links] /\ fresh \in BOOLEAN
    BY DEF Alerting!Init, Alerting!LinkInit, Alerting!Links
  <2>2. /\ IsMonitor(monitor) /\ monitor.todo = {} /\ monitor.sent = Alerting!None
        /\ cooldown = {} /\ debounced = {}
    BY DEF Alerting!Init, Alerting!Quiet, IsMonitor
  <2>3. /\ IsService(service) /\ service.up = FALSE /\ service.queue = <<>>
        /\ service.sending = Alerting!None /\ service = Alerting!Ended
    BY DEF Alerting!Init, Alerting!Ended, IsService
  <2>4. <<>> \in Seq(Alerting!Kinds) /\ Len(<<>>) = 0
    BY EmptySeq
  <2>5. losses \in 0..MaxFaults
    BY BoundsAssumption DEF Alerting!Init
  <2>6. service.queue \in Seq(Alerting!Kinds) /\ Len(service.queue) <= QueueSize
    BY <2>3, <2>4
  <2>7. Alerting!TypeOK
    BY <2>1, <2>2, <2>3, <2>5, <2>6 DEF Alerting!TypeOK
  <2> QED BY <2>2, <2>3, <2>7 DEF AlertingInductive
<1>2. AlertingInductive /\ [Alerting!Next]_(Alerting!vars) => AlertingInductive'
  <2> SUFFICES ASSUME AlertingInductive, [Alerting!Next]_(Alerting!vars) PROVE AlertingInductive'
    OBVIOUS
  <2>1. CASE \E f \in Feeds : Alerting!Announced(f) \/ Alerting!Unannounced(f)
    BY <2>1, CollectorKept
  <2>2. CASE UNCHANGED Alerting!vars
    <3>1. UNCHANGED <<link, fresh, monitor, cooldown, service, debounced, losses>>
      BY <2>2 DEF Alerting!vars
    <3> QED BY <3>1, AlertingHas, AlertingMoves
  <2> QED BY <2>1, <2>2, MonitorKept, NotifyKept DEF Alerting!Next
<1> QED BY <1>1, <1>2, PTL DEF Alerting!Spec

\* The queue of notifications stays bounded, and a process that is down holds none,
\* whatever the connections do, whatever is lost and wherever a cycle is cut.
THEOREM AlertingTypeCorrectness ==
    ASSUME QueueSize \in Nat \ {0}
    PROVE  Alerting!Spec => []Alerting!TypeOK
<1>1. AlertingInductive => Alerting!TypeOK
  BY DEF AlertingInductive
<1> QED BY <1>1, AlertingInvariant, PTL

\* No event of data_collector waits twice, nor while it is being sent; what waits or is
\* being sent is remembered by the debouncer.
Once(queue, sending, known) ==
    /\ \A i \in DOMAIN queue : queue[i] \in Alerting!Outages => queue[i] \in known /\ queue[i] # sending
    /\ \A i, j \in DOMAIN queue : queue[i] \in Alerting!Outages /\ queue[i] = queue[j] => i = j
    /\ sending \in Alerting!Outages => sending \in known

EventsWaitOnce == Once(service.queue, service.sending, debounced)

\* A queue that loses its head, with or without sending it.
LEMMA TailWaitsOnce ==
    ASSUME NEW S, NEW queue \in Seq(S), queue # <<>>, NEW sending, NEW known,
           Once(queue, sending, known)
    PROVE  /\ Once(Tail(queue), sending, known)
           /\ sending = Alerting!None => Once(Tail(queue), Head(queue), known)
<1>1. Len(queue) \in Nat \ {0} /\ DOMAIN queue = 1..Len(queue)
  BY LenProperties, EmptySeq
<1>2. /\ DOMAIN Tail(queue) = 1..(Len(queue) - 1)
      /\ \A i \in 1..(Len(queue) - 1) : Tail(queue)[i] = queue[i + 1]
      /\ Head(queue) = queue[1]
  BY <1>1, HeadTailProperties
<1>3. PICK rest, head : rest = Tail(queue) /\ head = Head(queue)
  OBVIOUS
<1>4. /\ DOMAIN rest = 1..(Len(queue) - 1) /\ head = queue[1] /\ 1 \in DOMAIN queue
      /\ \A i \in DOMAIN rest : i + 1 \in DOMAIN queue /\ i + 1 # 1 /\ rest[i] = queue[i + 1]
      /\ \A i, j \in DOMAIN rest : i + 1 = j + 1 => i = j
  BY <1>1, <1>2, <1>3
<1>5. \A i, j \in DOMAIN rest : rest[i] \in Alerting!Outages /\ rest[i] = rest[j] => i = j
  <2> SUFFICES ASSUME NEW i \in DOMAIN rest, NEW j \in DOMAIN rest,
                      rest[i] \in Alerting!Outages, rest[i] = rest[j]
               PROVE  i = j
    OBVIOUS
  <2>1. i + 1 = j + 1
    BY <1>4 DEF Once
  <2> QED BY <1>4, <2>1
<1>6. Once(rest, sending, known)
  BY <1>4, <1>5 DEF Once
<1>7. ASSUME NEW i \in DOMAIN rest, rest[i] \in Alerting!Outages PROVE rest[i] # head
  BY <1>4, <1>7 DEF Once
<1>8. Once(rest, head, known)
  BY <1>4, <1>5, <1>7 DEF Once
<1> QED BY <1>3, <1>6, <1>8

\* A queue that takes in an alert, or an event that is not remembered.
LEMMA AppendWaitsOnce ==
    ASSUME NEW queue \in Seq(Alerting!Kinds), NEW sending, NEW known, Once(queue, sending, known),
           NEW kind \in Alerting!Kinds, kind \in Alerting!Outages => kind \notin known
    PROVE  Once(Append(queue, kind), sending, known \union ({kind} \cap Alerting!Outages))
<1>1. PICK n \in Nat : n = Len(queue) /\ DOMAIN queue = 1..n
  BY LenProperties
<1>2. PICK longer : longer = Append(queue, kind)
  OBVIOUS
<1>3. /\ DOMAIN longer = 1..(n + 1) /\ longer[n + 1] = kind
      /\ \A i \in 1..n : longer[i] = queue[i]
  <2>1. /\ Append(queue, kind) \in Seq(Alerting!Kinds)
        /\ Len(Append(queue, kind)) = Len(queue) + 1
        /\ \A i \in 1..Len(queue) : Append(queue, kind)[i] = queue[i]
        /\ Append(queue, kind)[Len(queue) + 1] = kind
    BY AppendProperties
  <2> QED BY <1>1, <1>2, <2>1, LenProperties
<1>4. \A i \in 1..(n + 1) : i \in 1..n \/ i = n + 1
  BY <1>1
<1>5. \A i \in 1..n : queue[i] \in Alerting!Outages => queue[i] \in known /\ queue[i] # sending /\ queue[i] # kind
  BY <1>1 DEF Once
<1>6. kind \in Alerting!Outages => kind # sending
  BY DEF Once
<1>7. PICK more : more = known \union ({kind} \cap Alerting!Outages)
  OBVIOUS
<1>8. \A i \in DOMAIN longer : longer[i] \in Alerting!Outages => longer[i] \in more /\ longer[i] # sending
  BY <1>3, <1>4, <1>5, <1>6, <1>7
<1>9. ASSUME NEW i \in DOMAIN longer, NEW j \in DOMAIN longer,
             longer[i] \in Alerting!Outages, longer[i] = longer[j]
      PROVE  i = j
  <2>1. CASE i \in 1..n /\ j \in 1..n
    BY <1>1, <1>3, <1>9, <2>1 DEF Once
  <2>2. CASE i = n + 1 /\ j \in 1..n
    BY <1>3, <1>5, <1>9, <2>2
  <2>3. CASE i \in 1..n /\ j = n + 1
    BY <1>3, <1>5, <1>9, <2>3
  <2> QED BY <1>3, <1>4, <2>1, <2>2, <2>3
<1>10. sending \in Alerting!Outages => sending \in more
  BY <1>7 DEF Once
<1> QED BY <1>2, <1>7, <1>8, <1>9, <1>10 DEF Once

\* What is let through the debouncer and queued, the oldest giving way.
LEMMA IncomingWaitsOnce ==
    ASSUME QueueSize \in Nat \ {0}, NEW queue, IsQueue(queue), NEW sending, NEW known,
           Once(queue, sending, known),
           NEW kind \in Alerting!Kinds \union {Alerting!None},
           kind \in Alerting!Outages /\ kind \notin debounced => kind \notin known
    PROVE  Once(Alerting!EnqueueIncoming(queue, kind), sending,
                known \union ({kind} \cap Alerting!Outages))
<1>1. PICK more : more = known \union ({kind} \cap Alerting!Outages)
  OBVIOUS
<1>2. CASE ~ (kind # Alerting!None /\ Alerting!Passes(kind))
  <2>1. Alerting!EnqueueIncoming(queue, kind) = queue
    BY <1>2 DEF Alerting!EnqueueIncoming
  <2>2. Once(queue, sending, more)
    BY <1>1 DEF Once
  <2> QED BY <1>1, <2>1, <2>2
<1>3. CASE kind # Alerting!None /\ Alerting!Passes(kind)
  <2>1. kind \in Alerting!Kinds /\ (kind \in Alerting!Outages => kind \notin known)
    BY <1>3 DEF Alerting!Passes, Alerting!Debounces
  <2>2. PICK room : /\ room = (IF Len(queue) = QueueSize THEN Tail(queue) ELSE queue)
                    /\ Alerting!EnqueueIncoming(queue, kind) = Append(room, kind)
    BY <1>3 DEF Alerting!EnqueueIncoming, Alerting!Enqueue
  <2>3. room \in Seq(Alerting!Kinds) /\ Once(room, sending, known)
    <3>1. queue \in Seq(Alerting!Kinds)
      BY DEF IsQueue
    <3>2. CASE Len(queue) = QueueSize
      <4>1. queue # <<>>
        BY <3>2, EmptySeq
      <4>2. Tail(queue) \in Seq(Alerting!Kinds) /\ Once(Tail(queue), sending, known)
        BY <3>1, <4>1, HeadTailProperties, TailWaitsOnce
      <4> QED BY <2>2, <3>2, <4>2
    <3> QED BY <2>2, <3>1, <3>2
  <2>4. Once(Append(room, kind), sending, known \union ({kind} \cap Alerting!Outages))
    <3> HIDE DEF Once
    <3> QED BY <2>1, <2>3, AppendWaitsOnce, Zenon
  <2> HIDE DEF Once
  <2> QED BY <2>2, <2>4, Zenon
<1> QED BY <1>2, <1>3

\* What is published at once are different notifications.
LEMMA HearWaitsOnce ==
    ASSUME QueueSize \in Nat \ {0}, AlertingInductive, EventsWaitOnce,
           NEW first \in Alerting!Kinds \union {Alerting!None},
           NEW second \in Alerting!Kinds \union {Alerting!None},
           first # second \/ second = Alerting!None,
           Alerting!Hear(first, second) \/ UNCHANGED <<service, debounced>>
    PROVE  EventsWaitOnce'
<1>1. IsService(service) /\ IsQueue(service.queue) /\ Once(service.queue, service.sending, debounced)
  BY AlertingHas DEF EventsWaitOnce
<1>2. CASE service' = service /\ debounced' = debounced
  BY <1>1, <1>2 DEF EventsWaitOnce
<1>3. CASE Alerting!Hear(first, second) /\ service.up
  <2>1. PICK known : known = debounced \union ({first} \cap Alerting!Outages)
    OBVIOUS
  <2>2. PICK one : one = Alerting!EnqueueIncoming(service.queue, first) /\ IsQueue(one)
    BY <1>1, IncomingIsBounded
  <2>3. Once(one, service.sending, known)
    BY <1>1, <2>1, <2>2, IncomingWaitsOnce
  <2>4. PICK two : two = Alerting!EnqueueIncoming(one, second)
    OBVIOUS
  <2>5. second \in Alerting!Outages /\ second \notin debounced => second \notin known
    BY <2>1 DEF Alerting!Outages, Alerting!None
  <2>6. Once(two, service.sending, known \union ({second} \cap Alerting!Outages))
    BY <2>2, <2>3, <2>4, <2>5, IncomingWaitsOnce
  <2>7. /\ service' = [service EXCEPT !.queue = two]
        /\ debounced' = known \union ({second} \cap Alerting!Outages)
    BY <1>3, <2>1, <2>2, <2>4 DEF Alerting!Hear
  <2>8. service'.queue = two /\ service'.sending = service.sending
    BY <1>1, <2>7 DEF IsService
  <2> QED BY <2>6, <2>7, <2>8 DEF EventsWaitOnce
<1> QED BY <1>2, <1>3 DEF Alerting!Hear

\* The collector and monitoring, which publish.
LEMMA PublishersWaitOnce ==
    ASSUME QueueSize \in Nat \ {0}, AlertingInductive, EventsWaitOnce,
           \/ \E f \in Feeds : Alerting!Announced(f) \/ Alerting!Unannounced(f)
           \/ Alerting!Age \/ Alerting!Monitor \/ Alerting!FailChecks
           \/ \E check \in Alerting!Checks : Alerting!ExpireCooldown(check)
    PROVE  EventsWaitOnce'
<1>1. \/ UNCHANGED <<service, debounced>>
      \/ \E first, second \in Alerting!Kinds \union {Alerting!None} :
             /\ first # second \/ second = Alerting!None
             /\ Alerting!Hear(first, second)
  <2>1. /\ Alerting!Checks \subseteq Alerting!Kinds
        /\ \A f \in Feeds :
              /\ Alerting!Disconnection(f) \in Alerting!Kinds
              /\ Alerting!Silence(f) \in Alerting!Kinds \union {Alerting!None}
              /\ Alerting!Silence(f) # Alerting!Disconnection(f)
    BY DEF Alerting!Kinds, Alerting!Outages, Alerting!None, Alerting!Disconnection,
       Alerting!Silence
  <2>2. ASSUME NEW f \in Feeds, Alerting!Announced(f)
        PROVE  \/ UNCHANGED <<service, debounced>>
               \/ \E first, second \in Alerting!Kinds \union {Alerting!None} :
                      /\ first # second \/ second = Alerting!None
                      /\ Alerting!Hear(first, second)
    <3>1. PICK first \in Alerting!Kinds \union {Alerting!None},
               second \in Alerting!Kinds \union {Alerting!None} :
              Alerting!Say(first, second) /\ (first # second \/ second = Alerting!None)
      BY <2>1, <2>2 DEF Alerting!Announced
    <3>2. Alerting!Hear(first, second) \/ UNCHANGED <<service, debounced>>
      BY <3>1 DEF Alerting!Say, Alerting!Publish
    <3> QED BY <3>1, <3>2
  <2>3. ASSUME NEW check \in Alerting!Checks, Alerting!SendAlert(check)
        PROVE  \/ UNCHANGED <<service, debounced>>
               \/ \E first, second \in Alerting!Kinds \union {Alerting!None} :
                      /\ first # second \/ second = Alerting!None
                      /\ Alerting!Hear(first, second)
    <3>1. Alerting!Hear(check, Alerting!None) \/ UNCHANGED <<service, debounced>>
      BY <2>3 DEF Alerting!SendAlert, Alerting!Publish
    <3> QED BY <2>1, <3>1
  <2> QED BY <2>2, <2>3 DEF Alerting!Unannounced, Alerting!SayNothing, Alerting!Age,
          Alerting!Monitor, Alerting!RunChecks, Alerting!SetCooldown, Alerting!HoldAlert,
          Alerting!FailChecks, Alerting!ExpireCooldown
<1>2. CASE UNCHANGED <<service, debounced>>
  <2>1. Alerting!None \in Alerting!Kinds \union {Alerting!None}
    OBVIOUS
  <2> QED BY <1>2, <2>1, HearWaitsOnce
<1> QED BY <1>1, <1>2, HearWaitsOnce

\* The sending loop, its end and its windows.
LEMMA ServiceWaitsOnce ==
    ASSUME AlertingInductive, EventsWaitOnce,
           \/ Alerting!Notify \/ Alerting!RefuseNotification \/ Alerting!EndService
           \/ \E kind \in Alerting!Outages : Alerting!ExpireWindow(kind)
    PROVE  EventsWaitOnce'
<1>1. PICK s : /\ s = service /\ IsService(s) /\ s.queue \in Seq(Alerting!Kinds)
               /\ Once(s.queue, s.sending, debounced)
  BY AlertingHas DEF EventsWaitOnce, IsQueue
<1>2. ASSUME NEW known PROVE Once(<<>>, Alerting!None, known)
  BY DEF Once, Alerting!None, Alerting!Outages
<1>3. CASE \E kind \in Alerting!Outages : Alerting!ExpireWindow(kind)
  <2>1. service' = service /\ service.queue = <<>> /\ service.sending = Alerting!None
    BY <1>3 DEF Alerting!ExpireWindow, Alerting!Emptied
  <2> QED BY <1>2, <2>1 DEF EventsWaitOnce
<1>4. CASE Alerting!StartService
  <2>1. service' = [s EXCEPT !.up = TRUE] /\ debounced' = debounced
    BY <1>1, <1>4 DEF Alerting!StartService
  <2>2. service'.queue = s.queue /\ service'.sending = s.sending
    BY <1>1, <2>1 DEF IsService
  <2> QED BY <1>1, <2>1, <2>2 DEF EventsWaitOnce
<1>5. CASE Alerting!TakeNotification
  <2>1. PICK rest, head : /\ rest = Tail(s.queue) /\ head = Head(s.queue)
                          /\ s.queue # <<>> /\ s.sending = Alerting!None
                          /\ service' = [s EXCEPT !.queue = rest, !.sending = head]
                          /\ debounced' = debounced
    BY <1>1, <1>5 DEF Alerting!TakeNotification
  <2>2. service'.queue = rest /\ service'.sending = head
    BY <1>1, <2>1 DEF IsService
  <2>3. Once(rest, head, debounced)
    BY <1>1, <2>1, TailWaitsOnce
  <2> QED BY <2>1, <2>2, <2>3 DEF EventsWaitOnce
<1>6. CASE Alerting!Deliver \/ Alerting!RefuseNotification
  <2>1. service' = [s EXCEPT !.sending = Alerting!None] /\ debounced' = debounced
    BY <1>1, <1>6 DEF Alerting!Deliver, Alerting!RefuseNotification
  <2>2. service'.queue = s.queue /\ service'.sending = Alerting!None
    BY <1>1, <2>1 DEF IsService
  <2>3. Alerting!None \notin Alerting!Outages
    BY DEF Alerting!None, Alerting!Outages
  <2>4. Once(s.queue, Alerting!None, debounced)
    BY <1>1, <2>3 DEF Once
  <2> QED BY <2>1, <2>2, <2>4 DEF EventsWaitOnce
<1>7. CASE Alerting!EndService
  <2>1. service'.queue = <<>> /\ service'.sending = Alerting!None
    BY <1>7 DEF Alerting!EndService, Alerting!Ended
  <2> QED BY <1>2, <2>1 DEF EventsWaitOnce
<1> QED BY <1>3, <1>4, <1>5, <1>6, <1>7 DEF Alerting!Notify

\* A connection that fails again and again has one event of a type in the queue, whatever
\* is lost and wherever the service ends: what pushes notifications out of a full queue are
\* alerts, which are never debounced. It rests on the one assumption on time of Alerts, that
\* a debounce window outlasts the emptying of the queue.
THEOREM EventsNeverPileUp ==
    ASSUME QueueSize \in Nat \ {0}
    PROVE  Alerting!Spec => []EventsWaitOnce
<1>1. Alerting!Init => EventsWaitOnce
  BY DEF Alerting!Init, Alerting!Ended, Alerting!None, Alerting!Outages, EventsWaitOnce, Once
<1>2. AlertingInductive /\ EventsWaitOnce /\ [Alerting!Next]_(Alerting!vars) => EventsWaitOnce'
  <2> SUFFICES ASSUME AlertingInductive, EventsWaitOnce, [Alerting!Next]_(Alerting!vars)
               PROVE  EventsWaitOnce'
    OBVIOUS
  <2>1. CASE UNCHANGED Alerting!vars
    BY <2>1 DEF Alerting!vars, EventsWaitOnce
  <2> QED BY <2>1, PublishersWaitOnce, ServiceWaitsOnce DEF Alerting!Next
<1> QED BY <1>1, <1>2, AlertingInvariant, PTL DEF Alerting!Spec
=============================================================================
