---------------------------- MODULE DeliveryQueue ----------------------------
(***************************************************************************)
(* What the webhook queue promises, whatever its leaders, leases, clocks   *)
(* and crashes do: at-least-once delivery with a budget of attempts        *)
(* (docs/operations.md, "at-least-once, not exactly-once").                *)
(*                                                                         *)
(* A delivery is attempted only while it is pending, reaches a receiver    *)
(* only after an attempt was spent on it, is recorded as delivered only    *)
(* when a receiver took it and as abandoned only when its budget is spent; *)
(* once settled it is never attempted again.                               *)
(***************************************************************************)
EXTENDS Naturals

CONSTANTS Row, MaxAttempts

VARIABLES
  state,  \* "absent", "pending", "delivered", "abandoned" or "gone"
  tries,  \* attempts spent on the delivery
  got     \* deliveries some receiver took

vars == <<state, tries, got>>

Recorded == {"pending", "delivered", "abandoned"}

Init ==
  /\ state = [d \in Row |-> "absent"]
  /\ tries = [d \in Row |-> 0]
  /\ got = {}

\* One event is queued for the webhooks that take it.
Enqueue(S) ==
  /\ \A d \in S : state[d] = "absent"
  /\ state' = [d \in Row |-> IF d \in S THEN "pending" ELSE state[d]]
  /\ UNCHANGED <<tries, got>>

\* An attempt is spent on each delivery of a batch.
Attempt(S) ==
  /\ \A d \in S : state[d] = "pending"
  /\ tries' = [d \in Row |-> IF d \in S THEN tries[d] + 1 ELSE tries[d]]
  /\ UNCHANGED <<state, got>>

\* A receiver takes the event, perhaps again, perhaps after the row was settled.
Receive(d) ==
  /\ tries[d] > 0
  /\ got' = got \cup {d}
  /\ UNCHANGED <<state, tries>>

\* The record of the last outcome to be written.
Settle(d, s) ==
  /\ state[d] \in Recorded
  /\ \/ s = "delivered" /\ d \in got
     \/ s = "abandoned" /\ tries[d] >= MaxAttempts
  /\ state' = [state EXCEPT ![d] = s]
  /\ UNCHANGED <<tries, got>>

\* Rows are purged, or go with their webhook.
Remove(S) ==
  /\ \A d \in S : state[d] # "absent"
  /\ state' = [d \in Row |-> IF d \in S THEN "gone" ELSE state[d]]
  /\ UNCHANGED <<tries, got>>

Next ==
  \/ \E S \in SUBSET Row : Enqueue(S) \/ Attempt(S) \/ Remove(S)
  \/ \E d \in Row : Receive(d) \/ \E s \in {"delivered", "abandoned"} : Settle(d, s)

Spec == Init /\ [][Next]_vars
=============================================================================
