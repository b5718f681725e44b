--------------------------- MODULE EntryProtection ---------------------------
(***************************************************************************)
(* What real mode promises of the futures position of each exchange        *)
(* (docstrings of execution_engine/modes/real.py): the stop is never       *)
(* placed atomically with the entry, so a position is exposed for a        *)
(* while, and comes out of it protected or with its lack announced. An     *)
(* interruption may end the window without a trace. The row outlives its   *)
(* stop: once it was triggered, an order that the program takes for a      *)
(* reinforcement leaves the exchange with a bare position.                 *)
(***************************************************************************)
EXTENDS Naturals

CONSTANTS Exchanges, MaxFaults

VARIABLES
    stage,    \* of the open futures position of each exchange
    losses    \* interruptions so far

Stages == {"flat", "exposed", "protected", "announced", "unknown", "stopped", "bare"}

Move(e, from, to) ==
    /\ stage[e] \in from
    /\ stage' = [stage EXCEPT ![e] = to]

Init == stage = [e \in Exchanges |-> "flat"] /\ losses = 0

Open(e)  == Move(e, {"flat"}, "exposed") /\ UNCHANGED losses
Settle(e) == Move(e, {"exposed"}, "protected") /\ UNCHANGED losses

\* The exchange offers no stop, or refuses one: the second costs an interruption.
AnnounceLack(e) == Move(e, {"exposed"}, "announced") /\ losses' \in {losses, losses + 1}

\* The stop is triggered, perhaps before its identifier is recorded.
Fire(e) == Move(e, {"protected", "exposed"}, "stopped") /\ UNCHANGED losses

\* An order over a row whose stop was triggered, accepted at least by the exchange.
Reinforce(e) == Move(e, {"stopped"}, "bare") /\ losses' \in {losses, losses + 1}

\* What it put there is sold again, or closed by a stop left over.
Unwind(e) == Move(e, {"bare"}, "stopped") /\ losses' \in {losses, losses + 1}

Close(e) == Move(e, Stages \ {"flat", "exposed"}, "flat") /\ UNCHANGED losses

Interrupt ==
    /\ losses' = losses + 1
    /\ \/ UNCHANGED stage
       \/ \E e \in Exchanges : Move(e, {"exposed"}, "unknown")

Next ==
    \/ \E e \in Exchanges : \/ Open(e) \/ Settle(e) \/ AnnounceLack(e) \/ Close(e)
                           \/ Fire(e) \/ Reinforce(e) \/ Unwind(e)
    \/ losses < MaxFaults /\ Interrupt

\* The window closes.
Spec == /\ Init /\ [][Next]_<<stage, losses>>
        /\ \A e \in Exchanges : WF_<<stage, losses>>(Settle(e) \/ AnnounceLack(e))
=============================================================================
