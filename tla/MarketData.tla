----------------------------- MODULE MarketData ------------------------------
(***************************************************************************)
(* The road of a trade from the exchange to raw_market_data: the           *)
(* connection of data_collector, a Redis channel, and data_normalizer      *)
(* (data_normalizer/main.py), which drops the trades it has seen, tells    *)
(* the gaps and writes in batches, flushed by the listening loop when they *)
(* are full and by a periodic task otherwise.                              *)
(*                                                                         *)
(* A message of HTX carries several trades, one of Binance a single trade. *)
(* The loop handles a message without awaiting anything: its trades are    *)
(* taken one by one here, and nothing of the normalizer comes in between.  *)
(*                                                                         *)
(* Trades of a feed are numbered in the order of their time, one unit of   *)
(* time apart. The history variables are accepted, lost, forgotten,        *)
(* newest, rewound and told.                                               *)
(***************************************************************************)
EXTENDS Collector, SequencesExt

CONSTANTS
    MaxTrades,       \* bound on the trades of a feed
    MaxMessage,      \* bound on the trades of one message of HTX
    MaxWire,         \* bound on the messages in the channel
    MaxAccepted,     \* bound on the times one trade is accepted
    CacheSize,       \* DEDUP_CACHE_SIZE
    BatchSize,       \* BATCH_MAX_SIZE
    GapThreshold,    \* GAP_THRESHOLD_SECONDS
    MaxFaults        \* bound on failed insertions and crashes of the normalizer

ASSUME BoundsAssumption ==
    /\ {MaxTrades, MaxMessage, MaxWire, MaxAccepted, CacheSize, BatchSize} \subseteq Nat \ {0}
    /\ {GapThreshold, MaxFaults} \subseteq Nat

VARIABLES
    made,         \* trades each feed has had so far
    wire,         \* messages published and not read yet
    message,      \* trades left to handle of the message the loop has read
    running,      \* data_normalizer runs
    timer,        \* its periodic task runs
    seen,         \* _recent_trade_ids
    last,         \* _last_trade_time, 0 for none
    buffer,       \* trade_buffer
    batch,        \* what the loop and the task are inserting
    stored,       \* rows of each trade in raw_market_data
    accepted,     \* times each trade was accepted
    lost,         \* times it was lost on the way to its row
    forgotten,    \* times it left the cache
    newest,       \* newest trade accepted since the start
    rewound,      \* an older one was accepted after it
    told,         \* the step just taken published data.gap_detected
    faults

market  == <<made, wire, message>>
memory  == <<running, timer, seen, last, newest, rewound>>
table   == <<stored, accepted, lost, forgotten>>
vars    == <<link, market, memory, buffer, batch, table, told, faults>>

Numbers == 1..MaxTrades
Trades  == Feeds \X Numbers
Writers == {"loop", "task"}
Empty   == [w \in Writers |-> <<>>]

Occurrences(seq) == [t \in Trades |-> Cardinality({i \in DOMAIN seq : seq[i] = t})]
Plus(bag, seq)   == [t \in Trades |-> bag[t] + Occurrences(seq)[t]]

-----------------------------------------------------------------------------
(* The exchange and the collector.                                         *)

MessageSize(f) == IF f \in Binance THEN 1 ELSE MaxMessage

\* The message that carries n trades of f, from the one numbered first.
Message(f, first, n) == [i \in 1..n |-> <<f, first + i - 1>>]

Publish(trades) ==
    /\ Len(wire) < MaxWire                                    \* bound
    /\ wire' = IF running THEN Append(wire, trades) ELSE wire

\* Trades are made: published if the feed is connected, missed otherwise.
Trade(f, n) ==
    /\ made[f] + n <= MaxTrades                               \* bound
    /\ made' = [made EXCEPT ![f] = @ + n]
    /\ IF link[f] = "open" THEN Publish(Message(f, made[f] + 1, n)) ELSE UNCHANGED wire
    /\ told' = FALSE
    /\ UNCHANGED <<link, message, memory, buffer, batch, table, faults>>

\* The exchange sends again n trades it has made, or sends late those it had not.
Resend(f, first, n) ==
    /\ link[f] = "open"
    /\ first + n - 1 <= made[f]
    /\ Publish(Message(f, first, n))
    /\ told' = FALSE
    /\ UNCHANGED <<link, made, message, memory, buffer, batch, table, faults>>

Reconnect(f) ==
    /\ \/ Connect(f) \/ FailToConnect(f) \/ RefuseHandshake(f) \/ LoseConnection(f)
       \/ CloseCleanly(f) \/ GoSilent(f) \/ NoticeSilence(f) \/ Retry(f) \/ RestartCollector
    /\ told' = FALSE
    /\ UNCHANGED <<market, memory, buffer, batch, table, faults>>

-----------------------------------------------------------------------------
(* The normalizer.                                                         *)

IsDuplicate(t) == t[2] \in ToSet(seen[t[1]])

\* Mutant: a plain list.
CachedForEver(ids, n) == Append(ids, n)

\* deque(maxlen): the oldest identifier leaves.
Cached(ids, n) == Append(IF Len(ids) = CacheSize THEN Tail(ids) ELSE ids, n)

\* Mutant: the time of a duplicate is remembered too.
TimeAfterAny(t) == t[2]

\* What the normalizer keeps as the time of the last trade after it read a trade.
TimeAfter(t) == IF IsDuplicate(t) THEN last[t[1]] ELSE t[2]

Gap(t) == last[t[1]] # 0 /\ t[2] - last[t[1]] > GapThreshold

\* Mutant: the batch is copied, the buffer cleared only when it is inserted.
LeftInBufferToo(full, rows) == rows

\* What stays in the buffer when it is flushed.
LeftInBuffer(full, rows) == IF full THEN <<>> ELSE rows

\* The loop reads nothing while it awaits an insertion of its own.
Receive ==
    /\ running
    /\ batch["loop"] = <<>> /\ message = <<>>
    /\ wire # <<>>
    /\ message' = Head(wire)
    /\ wire' = Tail(wire)
    /\ told' = FALSE
    /\ UNCHANGED <<link, made, memory, buffer, batch, table, faults>>

\* One trade of the message. The size of the buffer is looked at after the last.
Read ==
    /\ message # <<>>
    /\ message' = Tail(message)
    /\ LET t == Head(message) f == t[1] n == t[2]
           rows == IF IsDuplicate(t) THEN buffer ELSE Append(buffer, t)
           full == message' = <<>> /\ Len(rows) >= BatchSize
       IN /\ last' = [last EXCEPT ![f] = TimeAfter(t)]
          /\ buffer' = LeftInBuffer(full, rows)
          /\ batch' = IF full THEN [batch EXCEPT !["loop"] = rows] ELSE batch
          /\ IF IsDuplicate(t)
             THEN /\ told' = FALSE
                  /\ UNCHANGED <<seen, newest, rewound, accepted, forgotten>>
             ELSE /\ accepted[t] < MaxAccepted                \* bound
                  /\ accepted' = [accepted EXCEPT ![t] = @ + 1]
                  /\ seen' = [seen EXCEPT ![f] = Cached(@, n)]
                  /\ forgotten' = IF Len(seen[f]) < CacheSize THEN forgotten
                                  ELSE [forgotten EXCEPT ![<<f, Head(seen[f])>>] = @ + 1]
                  /\ told' = Gap(t)
                  /\ newest' = [newest EXCEPT ![f] = IF n > @ THEN n ELSE @]
                  /\ rewound' = [rewound EXCEPT ![f] = @ \/ n < newest[f]]
    /\ UNCHANGED <<link, made, wire, running, timer, stored, lost, faults>>

FlushPeriodically ==
    /\ running /\ timer
    /\ message = <<>>
    /\ batch["task"] = <<>> /\ buffer # <<>>
    /\ batch' = [batch EXCEPT !["task"] = buffer]
    /\ buffer' = LeftInBuffer(TRUE, buffer)
    /\ told' = FALSE
    /\ UNCHANGED <<link, market, memory, table, faults>>

Insert(w) ==
    /\ batch[w] # <<>>
    /\ stored' = Plus(stored, batch[w])
    /\ batch' = [batch EXCEPT ![w] = <<>>]
    /\ told' = FALSE
    /\ UNCHANGED <<link, market, memory, buffer, accepted, lost, forgotten, faults>>

Fault == faults < MaxFaults /\ faults' = faults + 1           \* bound

\* A failed insertion, of trades or of order books, ends the periodic task for good; its
\* rows, taken out of the buffer, are inserted (the answer was lost) or lost.
LoseTask ==
    /\ running /\ timer
    /\ Fault
    /\ timer' = FALSE
    /\ batch' = [batch EXCEPT !["task"] = <<>>]
    /\ \/ stored' = Plus(stored, batch["task"]) /\ UNCHANGED lost
       \/ lost' = Plus(lost, batch["task"]) /\ UNCHANGED stored
    /\ told' = FALSE
    /\ UNCHANGED <<link, market, running, seen, last, newest, rewound, buffer, accepted, forgotten>>

\* One in the loop ends the process, with all it holds.
EndNormalizer ==
    /\ running
    /\ Fault
    /\ \E done \in SUBSET Writers :
          LET rows(ws) == (IF "loop" \in ws THEN batch["loop"] ELSE <<>>)
                              \o (IF "task" \in ws THEN batch["task"] ELSE <<>>)
          IN /\ stored' = Plus(stored, rows(done))
             /\ lost' = Plus(lost, buffer \o rows(Writers \ done))
    /\ forgotten' = [t \in Trades |-> forgotten[t] + IF IsDuplicate(t) THEN 1 ELSE 0]
    /\ running' = FALSE /\ timer' = FALSE
    /\ wire' = <<>> /\ message' = <<>> /\ buffer' = <<>> /\ batch' = Empty
    /\ seen' = [f \in Feeds |-> <<>>]
    /\ last' = [f \in Feeds |-> 0]
    /\ newest' = [f \in Feeds |-> 0]
    /\ rewound' = [f \in Feeds |-> FALSE]
    /\ told' = FALSE
    /\ UNCHANGED <<link, made, accepted>>

StartNormalizer ==
    /\ ~running
    /\ running' = TRUE /\ timer' = TRUE
    /\ told' = FALSE
    /\ UNCHANGED <<link, market, seen, last, newest, rewound, buffer, batch, table, faults>>

-----------------------------------------------------------------------------

Init ==
    /\ LinkInit
    /\ made = [f \in Feeds |-> 0] /\ wire = <<>> /\ message = <<>>
    /\ running = TRUE /\ timer = TRUE
    /\ seen = [f \in Feeds |-> <<>>]
    /\ last = [f \in Feeds |-> 0] /\ newest = [f \in Feeds |-> 0]
    /\ rewound = [f \in Feeds |-> FALSE]
    /\ buffer = <<>> /\ batch = Empty
    /\ stored = [t \in Trades |-> 0] /\ accepted = stored /\ lost = stored /\ forgotten = stored
    /\ told = FALSE
    /\ faults = 0

Next ==
    \/ \E f \in Feeds : Reconnect(f)
    \/ \E f \in Feeds : \E n \in 1..MessageSize(f) : Trade(f, n)
    \/ \E f \in Feeds : \E first \in Numbers, n \in 1..MessageSize(f) : Resend(f, first, n)
    \/ Receive \/ Read \/ FlushPeriodically \/ StartNormalizer
    \/ \E w \in Writers : Insert(w)
    \/ LoseTask \/ EndNormalizer

Spec == Init /\ [][Next]_vars

-----------------------------------------------------------------------------
(* Properties                                                              *)

Messages == {trades \in Seq(Trades) : Len(trades) <= MaxMessage}
MaxBatch == BatchSize - 1 + MaxMessage

\* Every variable stays in its domain and its bound; a normalizer that is down holds
\* nothing. BATCH_MAX_SIZE bounds the buffer between two messages only: the trades of a
\* message all enter before the size is looked at, and a batch may exceed it by as many.
TypeOK ==
    /\ link \in [Feeds -> Links]
    /\ made \in [Feeds -> 0..MaxTrades]
    /\ wire \in Seq(Messages) /\ Len(wire) <= MaxWire
    /\ message \in Messages
    /\ running \in BOOLEAN /\ timer \in BOOLEAN
    /\ \A f \in Feeds : seen[f] \in Seq(Numbers) /\ Len(seen[f]) <= CacheSize
    /\ last \in [Feeds -> 0..MaxTrades] /\ newest \in [Feeds -> 0..MaxTrades]
    /\ buffer \in Seq(Trades) /\ Len(buffer) + Len(message) <= MaxBatch
    /\ message = <<>> => Len(buffer) < BatchSize
    /\ message # <<>> => batch["loop"] = <<>>
    /\ \A w \in Writers : batch[w] \in Seq(Trades) /\ Len(batch[w]) <= MaxBatch
    /\ ~running => ~timer /\ wire = <<>> /\ message = <<>> /\ buffer = <<>> /\ batch = Empty
    /\ faults \in 0..MaxFaults

\* A trade that was accepted is in exactly one place, each time: in the buffer, in a batch
\* on its way, in the table, or lost with a failed batch or a crash, although the loop fills
\* the buffer while the task inserts it. And it is accepted again only after the bounded
\* cache, or a restart, forgot it: no interleaving stores it twice otherwise.
TradesAreConserved ==
    \A t \in Trades :
        /\ accepted[t] = stored[t] + lost[t]
                         + Occurrences(buffer \o batch["loop"] \o batch["task"])[t]
        /\ accepted[t] <= 1 + forgotten[t]

\* A newer trade tells of a gap exactly when more than the threshold separates it from the
\* newest accepted since the start, whatever was missed, resent or dropped in between. An
\* older trade accepted after a newer one, whether it was forgotten or had been missed and
\* comes late, takes the clock back, and the next one may then tell of a gap that does not
\* exist; it never hides one.
GapsAreTold ==
    [][\A f \in Feeds :
          newest[f] # 0 /\ newest'[f] > newest[f]
          => LET real == newest'[f] - newest[f] > GapThreshold
             IN (real => told') /\ (told' => real \/ rewound[f])]_vars
=============================================================================
