------------------------------ MODULE Collector ------------------------------
(***************************************************************************)
(* The connections of data_collector to the exchanges                      *)
(* (data_collector/main.py, adapters/htx.py and binance.py): one process,  *)
(* one generator per feed (trades, order book), each in a loop that        *)
(* connects, listens and waits before it tries again. What a step publishes*)
(* and what it carries is for the modules that extend this one.            *)
(*                                                                         *)
(* The growing delay between two attempts is left out.                     *)
(***************************************************************************)
EXTENDS Naturals, Sequences, FiniteSets

CONSTANTS
    Feeds,        \* streams of the active exchanges
    Binance       \* those of Binance; the others are of HTX

ASSUME FeedsAssumption == Feeds # {} /\ Binance \subseteq Feeds

VARIABLE link     \* of each feed

\* "dead" is a connection that says nothing any more and was never closed.
Links == {"down", "connecting", "open", "dead", "waiting"}

Move(f, from, to) ==
    /\ link[f] = from
    /\ link' = [link EXCEPT ![f] = to]

\* The subscriptions are sent, and the connection is announced.
Connect(f) == Move(f, "connecting", "open")

FailToConnect(f) == Move(f, "connecting", "waiting")

\* A handshake answered by anything but an upgrade is neither ConnectionClosed nor OSError:
\* it leaves the generator, then gather, then main.
RefuseHandshake(f) ==
    /\ link[f] = "connecting"
    /\ link' = [g \in Feeds |-> "down"]

LoseConnection(f) == Move(f, "open", "waiting")

\* On a clean close `async for` returns, and the loop connects again at once.
CloseCleanly(f) == f \in Binance /\ Move(f, "open", "connecting")

GoSilent(f) == Move(f, "open", "dead")

\* PING_TIMEOUT_SECONDS on HTX, the keepalive of the library on Binance.
NoticeSilence(f) == Move(f, "dead", "waiting")

Retry(f) == Move(f, "waiting", "connecting")

\* The container has a restart policy.
RestartCollector ==
    /\ \A f \in Feeds : link[f] = "down"
    /\ link' = [f \in Feeds |-> "connecting"]

LinkInit == link = [f \in Feeds |-> "connecting"]
=============================================================================
