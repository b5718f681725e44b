--------------------------- MODULE DecisionLedger ----------------------------
(***************************************************************************)
(* What the road from decision to order promises, decision by decision: a  *)
(* decision is judged at most once, is ordered only after a favourable     *)
(* verdict, at most once, and what an interruption drops stays dropped.    *)
(* Orchestrator implements it.                                             *)
(***************************************************************************)
CONSTANT Decisions

VARIABLE stage   \* stage of each decision

Stages == {"absent", "pending", "judging", "refused", "approved", "ordered", "lost"}

TypeOK == stage \in [Decisions -> Stages]

Init == stage = [d \in Decisions |-> "absent"]

Move(d, from, to) ==
    /\ stage[d] = from
    /\ stage' = [stage EXCEPT ![d] = to]

Arrive(d)  == Move(d, "absent", "pending")
Open(d)    == Move(d, "pending", "judging")
Block(d)   == Move(d, "pending", "refused")
Refuse(d)  == Move(d, "judging", "refused")
Approve(d) == Move(d, "judging", "approved")
Order(d)   == Move(d, "approved", "ordered")

\* An interruption drops the decision under judgement and the approved ones, and may
\* leave behind the order that was being placed.
Interrupt(placed) ==
    /\ placed \subseteq {d \in Decisions : stage[d] = "approved"}
    /\ \A d, e \in placed : d = e
    /\ stage' = [d \in Decisions |->
                    IF d \in placed THEN "ordered"
                    ELSE IF stage[d] \in {"judging", "approved"} THEN "lost"
                    ELSE stage[d]]

Next ==
    \/ \E d \in Decisions :
           Arrive(d) \/ Open(d) \/ Block(d) \/ Refuse(d) \/ Approve(d) \/ Order(d)
    \/ \E placed \in SUBSET Decisions : Interrupt(placed)

Spec == Init /\ [][Next]_stage
=============================================================================
