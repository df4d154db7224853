------------------------------- MODULE Outbox -------------------------------
(***************************************************************************)
(* The outbound webhook queue (internal/webhook/webhook.go) and the        *)
(* leader-elected drain around it (withLeadership in cmd/linkctrl/jobs.go). *)
(* internal/mail runs the same claim, lease, retry and purge on a table of *)
(* its own.                                                                *)
(*                                                                         *)
(* A row of webhook_deliveries is named by the event that produced it and  *)
(* the webhook it is addressed to.  Every replica's family goroutine tries *)
(* the advisory lock, claims a batch in one UPDATE, dials the whole batch  *)
(* together, records each outcome, and unlocks.  Replicas die at any step; *)
(* a lock connection dies while its drain carries on, so two drains may    *)
(* overlap; a mark may fail; a receiver may accept a delivery whose answer *)
(* never comes back.                                                       *)
(*                                                                         *)
(* Time is relative: `due[d]` counts the ticks until next_attempt_at (a    *)
(* non-positive value is how long the row has been due), `age` the ticks   *)
(* since the claim.                                                        *)
(***************************************************************************)
EXTENDS Integers, FiniteSets

CONSTANTS
  Replica,      \* processes running the scheduler
  Event,        \* link events that may be emitted, each once
  Hook,         \* webhook registrations of the workspace
  MaxAttempts,  \* webhook.MaxAttempts
  BackoffBase,  \* webhook.BackoffBase in ticks; also the lease, Backoff(1)
  BackoffMax,   \* webhook.BackoffMax in ticks
  DrainBatch,   \* webhook.DrainBatch
  MaxFaults,    \* bound: crashes, lost locks and failed statements in a behaviour
  MaxOverdue    \* bound: how far back the order of due rows is remembered

Row == Event \X Hook

HookOf(d) == d[2]

\* Backoff: the delay before attempt n+1, doubling from the base up to the cap.
Backoff(n) ==
  LET d == BackoffBase * 2 ^ (n - 1)
  IN  IF d >= BackoffMax THEN BackoffMax ELSE d

\* The lease a claim takes: Backoff(1), whatever attempt the row is on.
Lease == BackoffBase

ASSUME OutboxConstants ==
  /\ MaxAttempts \in Nat \ {0}
  /\ DrainBatch \in Nat \ {0}
  /\ BackoffBase \in Nat \ {0}
  /\ BackoffMax \in Nat
  /\ BackoffBase <= BackoffMax
  /\ MaxFaults \in Nat
  /\ MaxOverdue \in Nat

\* Arithmetic, for the proofs: powers of two are positive.
ASSUME PowersOfTwo == \A n \in 0 .. MaxAttempts : 2 ^ n \in Nat \ {0}

VARIABLES
  emitted,   \* events whose link write has happened
  enabled,   \* webhooks that are enabled
  deleted,   \* webhooks that were removed
  status,    \* webhook_deliveries.status, with "absent" (no row yet) and "gone"
  attempts,  \* webhook_deliveries.attempts
  due,       \* webhook_deliveries.next_attempt_at, relative
  leader,    \* the replica whose session holds advisoryLockKeyWebhooks, if any
  drain,     \* per replica: "idle", "leading" (lock asked for), "claimed"
  flight,    \* per replica and row: the delivery goroutine
  got,       \* rows some receiver accepted at least once
  faults

queue == <<emitted, enabled, deleted, status, attempts, due>>
vars == <<queue, leader, drain, flight, got, faults>>

Status == {"absent", "pending", "delivered", "abandoned", "gone"}
Finished == {"delivered", "abandoned"}

Phase == {"none", "sending", "accepted", "refused"}
Flight == [phase : Phase, n : Nat, age : 0 .. Lease]
NoFlight == [phase |-> "none", n |-> 0, age |-> 0]

Init ==
  /\ emitted = {}
  /\ enabled = Hook
  /\ deleted = {}
  /\ status = [d \in Row |-> "absent"]
  /\ attempts = [d \in Row |-> 0]
  /\ due = [d \in Row |-> 0]
  /\ leader = {}
  /\ drain = [r \in Replica |-> "idle"]
  /\ flight = [r \in Replica |-> [d \in Row |-> NoFlight]]
  /\ got = {}
  /\ faults = 0

Fault ==
  /\ faults < MaxFaults
  /\ faults' = faults + 1

-----------------------------------------------------------------------------
(* The request path. *)

\* Emit: one INSERT .. SELECT queues a row for every enabled webhook.  It never
\* fails the link write: an error is logged and the event is not queued at all.
Emit(e) ==
  /\ e \notin emitted
  /\ emitted' = emitted \cup {e}
  /\ status' = [d \in Row |->
       IF d[1] = e /\ HookOf(d) \in enabled THEN "pending" ELSE status[d]]
  /\ due' = [d \in Row |->
       IF d[1] = e /\ HookOf(d) \in enabled THEN 0 ELSE due[d]]
  /\ UNCHANGED <<enabled, deleted, attempts, leader, drain, flight, got, faults>>

EmitLost(e) ==
  /\ e \notin emitted
  /\ Fault
  /\ emitted' = emitted \cup {e}
  /\ UNCHANGED <<enabled, deleted, status, attempts, due, leader, drain, flight, got>>

\* UpdateWebhook with `enabled`.  Rows already queued are not touched.
SetEnabled(h) ==
  /\ h \notin deleted
  /\ enabled' = IF h \in enabled THEN enabled \ {h} ELSE enabled \cup {h}
  /\ UNCHANGED <<emitted, deleted, status, attempts, due, leader, drain, flight,
                 got, faults>>

\* DeleteWebhook: the deliveries go with it, by ON DELETE CASCADE.
DeleteWebhook(h) ==
  /\ h \notin deleted
  /\ deleted' = deleted \cup {h}
  /\ enabled' = enabled \ {h}
  /\ status' = [d \in Row |->
       IF HookOf(d) = h /\ status[d] # "absent" THEN "gone" ELSE status[d]]
  /\ UNCHANGED <<emitted, attempts, due, leader, drain, flight, got, faults>>

-----------------------------------------------------------------------------
(* The scheduler: one drain per tick of the family, under the advisory lock. *)

\* withLeadership: pg_try_advisory_lock never blocks, so a follower skips.
Lead(r) ==
  /\ drain[r] = "idle"
  /\ leader = {}
  /\ leader' = {r}
  /\ drain' = [drain EXCEPT ![r] = "leading"]
  /\ UNCHANGED <<queue, flight, got, faults>>

\* Mutant: the lock is not given back when the drain returns.
UnlockNever(r) == leader' = leader

\* The deferred pg_advisory_unlock frees only a lock this session still holds.
Unlock(r) == leader' = leader \ {r}

Due == {d \in Row : status[d] = "pending" /\ due[d] <= 0}

\* ORDER BY next_attempt_at LIMIT batch_size.
Batch(B) ==
  /\ B \subseteq Due
  /\ Cardinality(B) <= DrainBatch
  /\ B # Due => Cardinality(B) = DrainBatch
  /\ \A d \in B, x \in Due \ B : due[d] <= due[x]

\* Mutant: the row is selected, not leased.
ClaimNoLease(r) ==
  /\ drain[r] = "leading"
  /\ \E B \in SUBSET Due :
       /\ Batch(B)
       /\ attempts' = [d \in Row |-> IF d \in B THEN attempts[d] + 1 ELSE attempts[d]]
       /\ flight' = [flight EXCEPT ![r] = [d \in Row |->
            IF d \in B THEN [phase |-> "sending", n |-> attempts[d] + 1, age |-> 0]
                       ELSE @[d]]]
  /\ drain' = [drain EXCEPT ![r] = "claimed"]
  /\ UNCHANGED <<emitted, enabled, deleted, status, due, leader, got, faults>>

\* Mutant: the attempt is counted when it is sent, not when it is claimed.
ClaimUncounted(r) ==
  /\ drain[r] = "leading"
  /\ \E B \in SUBSET Due :
       /\ Batch(B)
       /\ due' = [d \in Row |-> IF d \in B THEN Lease ELSE due[d]]
       /\ flight' = [flight EXCEPT ![r] = [d \in Row |->
            IF d \in B THEN [phase |-> "sending", n |-> attempts[d] + 1, age |-> 0]
                       ELSE @[d]]]
  /\ drain' = [drain EXCEPT ![r] = "claimed"]
  /\ UNCHANGED <<emitted, enabled, deleted, status, attempts, leader, got, faults>>

\* ClaimDueWebhookDeliveries: the attempt is spent and the row leased in the
\* statement that selects it.
Claim(r) ==
  /\ drain[r] = "leading"
  /\ \E B \in SUBSET Due :
       /\ Batch(B)
       /\ attempts' = [d \in Row |-> IF d \in B THEN attempts[d] + 1 ELSE attempts[d]]
       /\ due' = [d \in Row |-> IF d \in B THEN Lease ELSE due[d]]
       /\ flight' = [flight EXCEPT ![r] = [d \in Row |->
            IF d \in B THEN [phase |-> "sending", n |-> attempts[d] + 1, age |-> 0]
                       ELSE @[d]]]
  /\ drain' = [drain EXCEPT ![r] = "claimed"]
  /\ UNCHANGED <<emitted, enabled, deleted, status, leader, got, faults>>

\* The claim statement fails: Drain returns the error and the lock is released.
ClaimFails(r) ==
  /\ drain[r] = "leading"
  /\ Fault
  /\ drain' = [drain EXCEPT ![r] = "idle"]
  /\ Unlock(r)
  /\ UNCHANGED <<queue, flight, got>>

\* wg.Wait: Drain returns, and the lock is released, once every delivery is done.
DrainEnds(r) ==
  /\ drain[r] = "claimed"
  /\ \A d \in Row : flight[r][d].phase = "none"
  /\ drain' = [drain EXCEPT ![r] = "idle"]
  /\ Unlock(r)
  /\ UNCHANGED <<queue, flight, got, faults>>

-----------------------------------------------------------------------------
(* deliver, one goroutine per claimed row. *)

SetFlight(r, d, f) == flight' = [flight EXCEPT ![r][d] = f]

\* Client.Deliver answers 2xx.
Accepted(r, d) ==
  /\ flight[r][d].phase = "sending"
  /\ SetFlight(r, d, [flight[r][d] EXCEPT !.phase = "accepted"])
  /\ got' = got \cup {d}
  /\ UNCHANGED <<queue, leader, drain, faults>>

\* Client.Deliver fails: any other answer, a refused dial, a timeout or a
\* cancelled context.  The receiver may have taken the event all the same.
Refused(r, d) ==
  /\ flight[r][d].phase = "sending"
  /\ SetFlight(r, d, [flight[r][d] EXCEPT !.phase = "refused"])
  /\ got' \in {got, got \cup {d}}
  /\ UNCHANGED <<queue, leader, drain, faults>>

\* Each mark names the row by id alone: it writes whatever the row now is, and
\* nothing when the row has been deleted.
Exists(d) == status[d] \notin {"absent", "gone"}

\* Mutant: a delivered row is charged a second time for its attempt.
MarkDeliveredCounts(r, d) ==
  /\ flight[r][d].phase = "accepted"
  /\ status' = IF Exists(d) THEN [status EXCEPT ![d] = "delivered"] ELSE status
  /\ attempts' = IF Exists(d) THEN [attempts EXCEPT ![d] = @ + 1] ELSE attempts
  /\ SetFlight(r, d, NoFlight)
  /\ UNCHANGED <<emitted, enabled, deleted, due, leader, drain, got, faults>>

MarkDelivered(r, d) ==
  /\ flight[r][d].phase = "accepted"
  /\ status' = IF Exists(d) THEN [status EXCEPT ![d] = "delivered"] ELSE status
  /\ SetFlight(r, d, NoFlight)
  /\ UNCHANGED <<emitted, enabled, deleted, attempts, due, leader, drain, got, faults>>

\* Mutant: abandoned one attempt early.
MarkAbandonedEarly(r, d) ==
  /\ flight[r][d].phase = "refused"
  /\ flight[r][d].n >= MaxAttempts - 1
  /\ status' = IF Exists(d) THEN [status EXCEPT ![d] = "abandoned"] ELSE status
  /\ SetFlight(r, d, NoFlight)
  /\ UNCHANGED <<emitted, enabled, deleted, attempts, due, leader, drain, got, faults>>

MarkAbandoned(r, d) ==
  /\ flight[r][d].phase = "refused"
  /\ flight[r][d].n >= MaxAttempts
  /\ status' = IF Exists(d) THEN [status EXCEPT ![d] = "abandoned"] ELSE status
  /\ SetFlight(r, d, NoFlight)
  /\ UNCHANGED <<emitted, enabled, deleted, attempts, due, leader, drain, got, faults>>

\* Mutant: the backoff is added to the lease instead of replacing it.
MarkRetryAdds(r, d) ==
  /\ flight[r][d].phase = "refused"
  /\ flight[r][d].n < MaxAttempts
  /\ due' = IF Exists(d) THEN [due EXCEPT ![d] = @ + Backoff(flight[r][d].n)] ELSE due
  /\ SetFlight(r, d, NoFlight)
  /\ UNCHANGED <<emitted, enabled, deleted, status, attempts, leader, drain, got, faults>>

\* Mutant: the retry mark also puts the row back to pending.
MarkRetryRevives(r, d) ==
  /\ flight[r][d].phase = "refused"
  /\ flight[r][d].n < MaxAttempts
  /\ due' = IF Exists(d) THEN [due EXCEPT ![d] = Backoff(flight[r][d].n)] ELSE due
  /\ status' = IF Exists(d) THEN [status EXCEPT ![d] = "pending"] ELSE status
  /\ SetFlight(r, d, NoFlight)
  /\ UNCHANGED <<emitted, enabled, deleted, attempts, leader, drain, got, faults>>

MarkRetry(r, d) ==
  /\ flight[r][d].phase = "refused"
  /\ flight[r][d].n < MaxAttempts
  /\ due' = IF Exists(d) THEN [due EXCEPT ![d] = Backoff(flight[r][d].n)] ELSE due
  /\ SetFlight(r, d, NoFlight)
  /\ UNCHANGED <<emitted, enabled, deleted, status, attempts, leader, drain, got, faults>>

\* The mark itself fails (the pool is down, or the run's context is over).
MarkLost(r, d) ==
  /\ flight[r][d].phase \in {"accepted", "refused"}
  /\ Fault
  /\ SetFlight(r, d, NoFlight)
  /\ UNCHANGED <<queue, leader, drain, got>>

-----------------------------------------------------------------------------
(* Retention, failure and time. *)

\* PurgeFinished: the finished rows past the retention window.
PurgeFinished ==
  /\ \E S \in SUBSET {d \in Row : status[d] \in Finished} \ {{}} :
       status' = [d \in Row |-> IF d \in S THEN "gone" ELSE status[d]]
  /\ UNCHANGED <<emitted, enabled, deleted, attempts, due, leader, drain, flight,
                 got, faults>>

\* The process dies: its goroutines stop and its sessions' locks are released.
Crash(r) ==
  /\ drain[r] # "idle"
  /\ Fault
  /\ drain' = [drain EXCEPT ![r] = "idle"]
  /\ flight' = [flight EXCEPT ![r] = [d \in Row |-> NoFlight]]
  /\ Unlock(r)
  /\ UNCHANGED <<queue, got>>

\* The lock connection dies while the drain works on others.
LockLost(r) ==
  /\ r \in leader
  /\ Fault
  /\ leader' = {}
  /\ UNCHANGED <<queue, drain, flight, got>>

Later(n) == IF n > -MaxOverdue THEN n - 1 ELSE n

Older(f) ==
  IF f.phase # "none" /\ f.age < Lease THEN [f EXCEPT !.age = @ + 1] ELSE f

Tick ==
  /\ due' = [d \in Row |-> IF status[d] = "pending" THEN Later(due[d]) ELSE due[d]]
  /\ flight' = [r \in Replica |-> [d \in Row |-> Older(flight[r][d])]]
  /\ UNCHANGED <<emitted, enabled, deleted, status, attempts, leader, drain, got, faults>>

-----------------------------------------------------------------------------
RequestPath ==
  \/ \E e \in Event : Emit(e) \/ EmitLost(e)
  \/ \E h \in Hook : SetEnabled(h) \/ DeleteWebhook(h)

Scheduler(r) == Lead(r) \/ Claim(r) \/ ClaimFails(r) \/ DrainEnds(r)

Outcome(r, d) == Accepted(r, d) \/ Refused(r, d)

Mark(r, d) == MarkDelivered(r, d) \/ MarkAbandoned(r, d) \/ MarkRetry(r, d)

Deliver(r, d) == Outcome(r, d) \/ Mark(r, d) \/ MarkLost(r, d)

Next ==
  \/ RequestPath
  \/ \E r \in Replica :
       \/ Scheduler(r) \/ Crash(r) \/ LockLost(r)
       \/ \E d \in Row : Deliver(r, d)
  \/ PurgeFinished
  \/ Tick

Spec == Init /\ [][Next]_vars

\* Every family goroutine keeps ticking; a delivery ends by its timeout and a
\* statement by its context; time passes.
Fairness ==
  /\ WF_vars(Tick)
  /\ WF_vars(\E r \in Replica : Lead(r))
  /\ \A r \in Replica :
       /\ WF_vars(Claim(r))
       /\ WF_vars(DrainEnds(r))
       /\ \A d \in Row :
            /\ WF_vars(Outcome(r, d))
            /\ WF_vars(Mark(r, d))

FairSpec == Spec /\ Fairness

-----------------------------------------------------------------------------
(* Properties. *)

\* What every variable may hold.
TypeOK ==
  /\ emitted \subseteq Event
  /\ enabled \subseteq Hook
  /\ deleted \subseteq Hook
  /\ status \in [Row -> Status]
  /\ attempts \in [Row -> Nat]
  /\ due \in [Row -> -MaxOverdue .. BackoffMax]
  /\ leader \subseteq Replica
  /\ drain \in [Replica -> {"idle", "leading", "claimed"}]
  /\ flight \in [Replica -> [Row -> Flight]]
  /\ got \subseteq Row
  /\ faults \in 0 .. MaxFaults

Flying(r, d) == flight[r][d].phase # "none"
Overdue(r, d) == flight[r][d].age >= Lease

\* Two replicas work on one delivery at once only when the older of the two
\* claims has outlived its lease: neither a crash, a lost lock, a late mark nor
\* a shorter backoff hands out a row that is being dialled (claim and MarkRetry).
LeaseExcludes ==
  \A d \in Row : \A r, s \in Replica :
    r # s /\ Flying(r, d) /\ Flying(s, d) => Overdue(r, d) \/ Overdue(s, d)

\* No two claims of a row get the same attempt number, and none gets a number
\* past the row's counter: what deliver compares with MaxAttempts is the number
\* of claims made so far, however many drains overlapped.
AttemptsAreDistinct ==
  \A d \in Row : \A r \in Replica :
    Flying(r, d) =>
      /\ flight[r][d].n <= attempts[d]
      /\ \A s \in Replica : s # r /\ Flying(s, d) => flight[s][d].n # flight[r][d].n

\* An event is given up only after its last permitted attempt, and recorded as
\* delivered only when a receiver took it.
OutcomesAreEarned ==
  \A d \in Row :
    /\ status[d] = "abandoned" => attempts[d] >= MaxAttempts
    /\ status[d] = "delivered" => d \in got

\* A finished row is never dialled again: a late retry mark of an attempt that
\* outlived its lease leaves the row finished (MarkWebhookRetry keeps status).
FinishedIsNotSentAgain ==
  [][\A d \in Row : status[d] \in Finished =>
       /\ status'[d] \in Finished \cup {"gone"}
       /\ attempts'[d] = attempts[d]]_vars

\* The queue as its users see it: leaders, leases, time and faults are hidden.
Promised == INSTANCE DeliveryQueue WITH state <- status, tries <- attempts

\* Emit, Drain, deliver and PurgeFinished, with every crash, lost lock, late mark
\* and failed statement, do what the at-least-once queue of DeliveryQueue does: a
\* settled delivery is never attempted again, nothing is received that was not
\* attempted, and no outcome is recorded that was not earned.
ImplementsQueue == Promised!Spec

\* Every queued delivery is settled in the end: delivered, abandoned or removed
\* with its webhook, with faults that stop happening.
EveryDeliverySettles ==
  \A d \in Row : status[d] = "pending" ~> status[d] # "pending"
=============================================================================
