--------------------------- MODULE DeliveryContract ---------------------------
(* What a queued publication promises its author: the receiver decides it at *)
(* most once, and what the author is told is that decision.                  *)
CONSTANTS Receipt, None

VARIABLES
  status,   \* "absent", "pending", "decided" or "acknowledged"
  decision  \* the receiver's receipt, None until there is one

Init == status = "absent" /\ decision = None

Queue == status = "absent" /\ status' = "pending" /\ decision' = None

\* The receiver decides a pending request, or had decided the same request
\* before it was queued.
Decide ==
  status \in {"absent", "pending"} /\ status' = "decided" /\ decision' \in Receipt

Acknowledge == status = "decided" /\ status' = "acknowledged" /\ UNCHANGED decision

Next == Queue \/ Decide \/ Acknowledge

Spec == Init /\ [][Next]_<<status, decision>>
=============================================================================
