------------------------------- MODULE Alerts --------------------------------
(***************************************************************************)
(* How an outage of data_collector comes to be told: its events go through *)
(* one Redis channel to two subscribers. journal writes them in a table;   *)
(* monitoring, every minute, judges from the table whether a module is     *)
(* silent and publishes alerts in turn; notifications sends events and     *)
(* alerts to Telegram, through a debouncer and a bounded queue.            *)
(*                                                                         *)
(* Publishing is fire and forget: what a subscriber that is down, or fails *)
(* to write, does not take is lost.                                        *)
(*                                                                         *)
(* Time is left out but for one assumption: the windows of 15 and 30       *)
(* minutes outlast the emptying of the queue. The chat of the alerts is    *)
(* configured: without it every notification is dropped with a warning.    *)
(***************************************************************************)
EXTENDS Collector

CONSTANTS
    QueueSize,     \* MAX_QUEUE_SIZE
    MaxFaults      \* bound on lost messages, failed calls and crashes

ASSUME QueueAssumption == QueueSize \in Nat \ {0}
ASSUME FaultsAssumption == MaxFaults \in Nat

VARIABLES
    fresh,        \* an event of data_collector was journalled in the last minutes
    monitor,      \* monitoring: alerts left to send, and the one just published
    cooldown,     \* alerts whose Redis key exists
    service,      \* notifications: whether it runs, its queue and what it is sending
    debounced,    \* event types of _last_sent that are still in their window
    faults        \* losses and crashes so far

telling == <<monitor, cooldown>>
vars    == <<link, fresh, monitor, cooldown, service, debounced, faults>>

\* Events of data_collector that are notified, alerts of monitoring, and the rest.
Outages == {"disconnected", "ws_disconnected", "stale_connection"}
Checks  == {"freshness.data_collector", "other_check"}
Kinds   == Outages \union Checks

\* Notifications that tell of an outage of data_collector.
Tells(kind) == kind \in Outages \union {"freshness.data_collector"}

None  == "none"
Quiet == [todo |-> {}, sent |-> None]
Ended == [up |-> FALSE, queue |-> <<>>, sending |-> None]

-----------------------------------------------------------------------------
(* notifications                                                           *)

\* Mutant: there is always room.
EnqueueWithoutBound(queue, kind) == Append(queue, kind)

\* The oldest gives way when the queue is full, whatever it says.
Enqueue(queue, kind) == Append(IF Len(queue) = QueueSize THEN Tail(queue) ELSE queue, kind)

\* route: events are debounced by their type, alerts and business events never.
Debounces(kind) == kind \in Outages

\* should_send remembers the event when it is queued, not when it is delivered.
Passes(kind) == ~(Debounces(kind) /\ kind \in debounced)

EnqueueIncoming(queue, kind) ==
    IF kind # None /\ Passes(kind) THEN Enqueue(queue, kind) ELSE queue

\* What notifications does with what is published on the channel, when it runs: at most
\* two events at a time.
Hear(first, second) ==
    IF service.up
    THEN /\ service' = [service EXCEPT !.queue = EnqueueIncoming(EnqueueIncoming(@, first), second)]
         /\ debounced' = debounced \union ({first, second} \cap Outages)
    ELSE UNCHANGED <<service, debounced>>

\* Losing a message is a fault.
Lose == faults < MaxFaults /\ faults' = faults + 1                 \* bound

Publish(first, second) ==
    \/ Hear(first, second) /\ UNCHANGED faults
    \/ Lose /\ UNCHANGED <<service, debounced>>

StartService ==
    /\ ~service.up
    /\ service' = [service EXCEPT !.up = TRUE]
    /\ UNCHANGED <<link, fresh, telling, debounced, faults>>

TakeNotification ==
    /\ service.sending = None /\ service.queue # <<>>
    /\ service' = [service EXCEPT !.queue = Tail(@), !.sending = Head(service.queue)]
    /\ UNCHANGED <<link, fresh, telling, debounced, faults>>

Deliver ==
    /\ service.sending # None
    /\ service' = [service EXCEPT !.sending = None]
    /\ UNCHANGED <<link, fresh, telling, debounced, faults>>

\* An answer of 400 or more is logged; the notification is not sent again.
RefuseNotification == service.sending # None /\ Lose /\ service' = [service EXCEPT !.sending = None]
                      /\ UNCHANGED <<link, fresh, telling, debounced>>

\* Any exception of the client, a timeout first, leaves the sending loop, gather and main:
\* the queue and the debouncer are lost with the process.
EndService ==
    /\ service.up
    /\ Lose
    /\ service' = Ended
    /\ debounced' = {}
    /\ UNCHANGED <<link, fresh, telling>>

Emptied == service.queue = <<>> /\ service.sending = None

\* Mutant: a window ends with the outage, by mark_resolved alone.
ExpireWindowOnRecovery(kind) ==
    /\ kind \in debounced
    /\ Emptied
    /\ \E f \in Feeds : link[f] = "open"
    /\ debounced' = debounced \ {kind}
    /\ UNCHANGED <<link, fresh, telling, service, faults>>

ExpireWindow(kind) ==
    /\ kind \in debounced
    /\ Emptied                                                \* timing assumption
    /\ debounced' = debounced \ {kind}
    /\ UNCHANGED <<link, fresh, telling, service, faults>>

-----------------------------------------------------------------------------
(* data_collector, heard by journal and by notifications                   *)

\* persist_event: an event that cannot be written is lost, and only it.
Say(first, second) ==
    /\ \/ fresh' = TRUE /\ Publish(first, second)
       \/ Lose /\ Hear(first, second) /\ UNCHANGED fresh
    /\ UNCHANGED telling

SayNothing == UNCHANGED <<fresh, telling, service, debounced, faults>>

\* Each adapter has its own name for a disconnection; only that of HTX notices a silence.
Disconnection(f) == IF f \in Binance THEN "ws_disconnected" ELSE "disconnected"
Silence(f)       == IF f \in Binance THEN None ELSE "stale_connection"

Announced(f) ==
    \/ Connect(f) /\ Say(None, None)
    \/ (FailToConnect(f) \/ LoseConnection(f)) /\ Say(Disconnection(f), None)
    \/ NoticeSilence(f) /\ Say(Silence(f), Disconnection(f))

Unannounced(f) ==
    /\ CloseCleanly(f) \/ GoSilent(f) \/ Retry(f) \/ RefuseHandshake(f) \/ RestartCollector
    /\ SayNothing

-----------------------------------------------------------------------------
(* monitoring                                                              *)

\* The threshold of freshness is passed.
Age ==
    /\ fresh
    /\ fresh' = FALSE
    /\ UNCHANGED <<link, telling, service, debounced, faults>>

\* The disk, the kill switch, the other modules and the rate of reconnections alert or not.
RunChecks ==
    /\ monitor = Quiet
    /\ \E others \in SUBSET {"other_check"} :
          monitor' = [Quiet EXCEPT !.todo =
                         others \union IF fresh THEN {} ELSE {"freshness.data_collector"}]
    /\ UNCHANGED <<link, fresh, cooldown, service, debounced, faults>>

\* The freshness of data_collector comes first of all checks.
Comes(check) ==
    /\ check \in monitor.todo /\ monitor.sent = None
    /\ "freshness.data_collector" \in monitor.todo => check = "freshness.data_collector"

SendAlert(check) ==
    /\ Comes(check)
    /\ check \notin cooldown
    /\ Publish(check, None)
    /\ monitor' = [todo |-> monitor.todo \ {check}, sent |-> check]
    /\ UNCHANGED <<link, fresh, cooldown>>

HoldAlert(check) ==
    /\ Comes(check)
    /\ check \in cooldown
    /\ monitor' = [monitor EXCEPT !.todo = @ \ {check}]
    /\ UNCHANGED <<link, fresh, cooldown, service, debounced, faults>>

\* After the alert is published, not with it.
SetCooldown ==
    /\ monitor.sent # None
    /\ cooldown' = cooldown \union {monitor.sent}
    /\ monitor' = [monitor EXCEPT !.sent = None]
    /\ UNCHANGED <<link, fresh, service, debounced, faults>>

\* An exception of Redis or of the database, caught around the cycle, or a restart.
FailChecks ==
    /\ monitor # Quiet
    /\ Lose
    /\ monitor' = Quiet
    /\ UNCHANGED <<link, fresh, cooldown, service, debounced>>

ExpireCooldown(check) ==
    /\ check \in cooldown
    /\ Emptied                                                \* timing assumption
    /\ cooldown' = cooldown \ {check}
    /\ UNCHANGED <<link, fresh, monitor, service, debounced, faults>>

-----------------------------------------------------------------------------

Init ==
    /\ LinkInit
    /\ fresh \in BOOLEAN
    /\ monitor = Quiet
    /\ cooldown = {}
    /\ service = Ended
    /\ debounced = {}
    /\ faults = 0

Monitor == RunChecks \/ SetCooldown \/ \E check \in Checks : SendAlert(check) \/ HoldAlert(check)
Notify  == StartService \/ TakeNotification \/ Deliver

\* What the collector does by itself, and what happens to its connections.
Persevere(f) ==
    /\ link[f] # "open"
    /\ Announced(f) \/ Unannounced(f)

Next ==
    \/ \E f \in Feeds : Announced(f) \/ Unannounced(f)
    \/ Age \/ Monitor \/ FailChecks
    \/ Notify \/ RefuseNotification \/ EndService
    \/ \E kind \in Outages : ExpireWindow(kind)
    \/ \E check \in Checks : ExpireCooldown(check)

\* The event loops resume what awaits, containers restart; time passes, so that windows and
\* freshness end. No connection is owed, nor the delivery of any one message. Less than the
\* clock gives is asked of it: that some window ends, and the cooldown of one alert.
Spec ==
    /\ Init /\ [][Next]_vars
    /\ \A f \in Feeds : WF_vars(Persevere(f))
    /\ WF_vars(Age) /\ WF_vars(Monitor) /\ WF_vars(Notify)
    /\ SF_vars(\E kind \in Outages : ExpireWindow(kind))
    /\ SF_vars(ExpireCooldown("freshness.data_collector"))

-----------------------------------------------------------------------------
(* Properties                                                              *)

\* Every variable stays in its domain; the queue stays bounded, and a process that is down
\* holds no queue, sends nothing and remembers no event.
TypeOK ==
    /\ link \in [Feeds -> Links]
    /\ fresh \in BOOLEAN
    /\ monitor.todo \subseteq Checks /\ monitor.sent \in Checks \union {None}
    /\ cooldown \subseteq Checks
    /\ service.up \in BOOLEAN
    /\ service.queue \in Seq(Kinds) /\ Len(service.queue) <= QueueSize
    /\ service.sending \in Kinds \union {None}
    /\ ~service.up => service = Ended /\ debounced = {}
    /\ debounced \subseteq Outages
    /\ faults \in 0..MaxFaults

\* An outage is not silent, however long ("ne jamais rester silencieusement deconnecte",
\* htx.py:45): for ever, either the connection opens again or notifications that tell of an
\* outage are delivered. A failing attempt tells through its events; a refused handshake,
\* which ends the process without one, through the silence it leaves in the journal. What
\* may stay silent, and is exempted as a whole, is a feed refused again and again while
\* another connects again and again: its event, each time the process starts again, keeps
\* the journal fresh.
Refused(f) == link[f] = "down"

OutagesKeepBeingTold ==
    \A f \in Feeds :
        \/ []<>(link[f] = "open")
        \/ []<><<Deliver /\ Tells(service.sending)>>_vars
        \/ []<>Refused(f) /\ \E g \in Feeds \ {f} : []<>(link[g] = "open")
=============================================================================
