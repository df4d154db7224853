---------------------------- MODULE OutboxProofs ----------------------------
(***************************************************************************)
(* Proofs about Outbox, for any replicas, events, webhooks, batch size,    *)
(* retry policy and number of faults.                                      *)
(***************************************************************************)
EXTENDS Outbox, TLAPS

\* While a claim is within its lease its row is not due, whoever marks it late.
LeaseHolds ==
  \A r \in Replica, d \in Row :
    Flying(r, d) /\ status[d] = "pending" /\ flight[r][d].age < Lease
      => due[d] >= Lease - flight[r][d].age

\* A row exists, and is worked on, only after its event was emitted.
RowsAreEmitted ==
  /\ \A d \in Row : status[d] # "absent" => d[1] \in emitted
  /\ \A r \in Replica, d \in Row : Flying(r, d) => d[1] \in emitted

\* Attempts are numbered from one.
AttemptsStartAtOne ==
  \A r \in Replica, d \in Row : Flying(r, d) => flight[r][d].n >= 1

\* An attempt waiting to be marked delivered was taken by its receiver.
AcceptedWasTaken ==
  \A r \in Replica, d \in Row : flight[r][d].phase = "accepted" => d \in got

Inv ==
  /\ TypeOK
  /\ LeaseHolds
  /\ LeaseExcludes
  /\ AttemptsAreDistinct
  /\ AttemptsStartAtOne
  /\ OutcomesAreEarned
  /\ RowsAreEmitted
  /\ AcceptedWasTaken

-----------------------------------------------------------------------------

\* A retry is never scheduled sooner than the lease of the claim it replaces,
\* and never later than the cap.
LEMMA BackoffCoversLease == \A n \in 1 .. MaxAttempts : Backoff(n) \in Lease .. BackoffMax
<1> SUFFICES ASSUME NEW n \in 1 .. MaxAttempts PROVE Backoff(n) \in Lease .. BackoffMax
  OBVIOUS
<1> DEFINE p == 2 ^ (n - 1)
<1>1. n - 1 \in 0 .. MaxAttempts
  BY OutboxConstants
<1>2. p \in Nat \ {0}
  BY <1>1, PowersOfTwo
<1>3. \A b \in Nat, k \in Nat \ {0} : b * k \in Nat /\ b * k >= b
  OBVIOUS
<1> HIDE DEF p
<1>4. BackoffBase * p \in Nat /\ BackoffBase * p >= BackoffBase
  BY <1>2, <1>3, OutboxConstants
<1>5. Backoff(n) = IF BackoffBase * p >= BackoffMax THEN BackoffMax ELSE BackoffBase * p
  BY DEF Backoff, p
<1> QED
  BY <1>4, <1>5, OutboxConstants DEF Lease

-----------------------------------------------------------------------------
(* Facts about flights.                                                     *)

\* The fields of a flight are typed.
LEMMA FlightFields ==
  \A f \in Flight : f.phase \in Phase /\ f.n \in Nat /\ f.age \in 0 .. Lease
  BY DEF Flight

\* A replica that works on no row is well typed.
LEMMA NoFlightType ==
  /\ NoFlight \in Flight
  /\ NoFlight.phase = "none"
  BY OutboxConstants DEF NoFlight, Flight, Phase, Lease

\* Ageing a flight keeps its phase and number; an age below the lease was
\* younger by one tick.
LEMMA OlderFacts ==
  ASSUME NEW f \in Flight
  PROVE  /\ Older(f) \in Flight
         /\ Older(f).phase = f.phase
         /\ Older(f).n = f.n
         /\ Older(f).age >= f.age
         /\ f.phase # "none" /\ Older(f).age < Lease => Older(f).age = f.age + 1
  BY OutboxConstants DEF Older, Flight, Lease

\* Replacing one flight leaves the others alone.
LEMMA SetFlightFacts ==
  ASSUME flight \in [Replica -> [Row -> Flight]],
         NEW r \in Replica, NEW d \in Row, NEW f \in Flight,
         SetFlight(r, d, f)
  PROVE  /\ flight' \in [Replica -> [Row -> Flight]]
         /\ flight'[r][d] = f
         /\ \A s \in Replica, x \in Row :
              s # r \/ x # d => flight'[s][x] = flight[s][x]
  BY DEF SetFlight

-----------------------------------------------------------------------------
(* Each operation preserves the invariant.                                  *)

\* The invariant holds at first.
LEMMA InitInv == Init => Inv
<1>. SUFFICES ASSUME Init PROVE Inv
  OBVIOUS
<1>1. TypeOK
  BY OutboxConstants, NoFlightType DEF Init, TypeOK, Status
<1>2. \A r \in Replica, d \in Row : flight[r][d] = NoFlight
  BY DEF Init
<1>3. LeaseHolds /\ LeaseExcludes /\ AttemptsAreDistinct /\ AttemptsStartAtOne
      /\ AcceptedWasTaken
  BY <1>2, NoFlightType
  DEF LeaseHolds, LeaseExcludes, AttemptsAreDistinct, AttemptsStartAtOne,
      AcceptedWasTaken, Flying
<1>4. OutcomesAreEarned /\ RowsAreEmitted
  BY <1>2, NoFlightType DEF Init, OutcomesAreEarned, RowsAreEmitted, Flying
<1>. QED BY <1>1, <1>3, <1>4 DEF Inv

\* Steps that touch neither the rows nor the flights.
LEMMA QuietSteps ==
  ASSUME Inv, TypeOK',
         emitted \subseteq emitted',
         UNCHANGED <<status, attempts, due, flight, got>>
  PROVE  Inv'
  BY DEF Inv, LeaseHolds, LeaseExcludes, AttemptsAreDistinct, AttemptsStartAtOne,
         OutcomesAreEarned, RowsAreEmitted, AcceptedWasTaken, Flying, Overdue

\* Steps that only take rows away, or settle them without a mark.
LEMMA StatusSteps ==
  ASSUME Inv, TypeOK',
         \A d \in Row : status'[d] \in {status[d], "gone"}
                        /\ (status[d] = "absent" => status'[d] = "absent"),
         UNCHANGED <<emitted, attempts, due, flight, got>>
  PROVE  Inv'
  BY DEF Inv, LeaseHolds, LeaseExcludes, AttemptsAreDistinct, AttemptsStartAtOne,
         OutcomesAreEarned, RowsAreEmitted, AcceptedWasTaken, Flying, Overdue

\* Queueing rows for an event keeps the invariant.
LEMMA EmitInv ==
  ASSUME Inv, NEW e \in Event, Emit(e)
  PROVE  Inv'
<1>1. TypeOK'
  BY OutboxConstants DEF Inv, Emit, TypeOK, Status
<1>2. \A d \in Row : d[1] = e => status[d] = "absent"
  BY DEF Inv, Emit, RowsAreEmitted
<1>3. \A r \in Replica, d \in Row : d[1] = e => ~Flying(r, d)
  BY DEF Inv, Emit, RowsAreEmitted
<1>4. \A d \in Row : d[1] # e => status'[d] = status[d] /\ due'[d] = due[d]
  BY DEF Emit
<1>5. \A d \in Row : d[1] = e => status'[d] \in {"absent", "pending"}
  BY <1>2 DEF Emit
<1>6. UNCHANGED <<attempts, flight, got>> /\ emitted' = emitted \cup {e}
  BY DEF Emit
<1>7. LeaseHolds'
  BY <1>3, <1>4, <1>6 DEF Inv, LeaseHolds, Flying
<1>8. LeaseExcludes' /\ AttemptsAreDistinct' /\ AttemptsStartAtOne' /\ AcceptedWasTaken'
  BY <1>6 DEF Inv, LeaseExcludes, AttemptsAreDistinct, AttemptsStartAtOne,
              AcceptedWasTaken, Flying, Overdue
<1>9. OutcomesAreEarned'
  BY <1>4, <1>5, <1>6 DEF Inv, OutcomesAreEarned
<1>10. RowsAreEmitted'
  BY <1>4, <1>6 DEF Inv, RowsAreEmitted, Flying
<1>. QED BY <1>1, <1>7, <1>8, <1>9, <1>10 DEF Inv

\* A claim keeps it: the rows it leases were due, so nobody else is within a lease of them.
LEMMA ClaimInv ==
  ASSUME Inv, NEW r \in Replica, Claim(r)
  PROVE  Inv'
<1>1. PICK B \in SUBSET Due :
        /\ Batch(B)
        /\ attempts' = [d \in Row |-> IF d \in B THEN attempts[d] + 1 ELSE attempts[d]]
        /\ due' = [d \in Row |-> IF d \in B THEN Lease ELSE due[d]]
        /\ flight' = [flight EXCEPT ![r] = [d \in Row |->
             IF d \in B THEN [phase |-> "sending", n |-> attempts[d] + 1, age |-> 0]
                        ELSE @[d]]]
  BY DEF Claim
<1>2. \A d \in B : d \in Row /\ status[d] = "pending" /\ due[d] <= 0
  BY <1>1 DEF Due
<1>3. UNCHANGED <<emitted, enabled, deleted, status, leader, got, faults>>
  BY DEF Claim
<1>. DEFINE New(d) == [phase |-> "sending", n |-> attempts[d] + 1, age |-> 0]
<1>4. \A d \in Row : /\ New(d) \in Flight
                     /\ New(d).phase = "sending"
                     /\ New(d).n = attempts[d] + 1
                     /\ New(d).age = 0
  BY OutboxConstants DEF Inv, TypeOK, Flight, Phase, Lease
<1>5. \A s \in Replica, d \in Row :
        flight'[s][d] = IF s = r /\ d \in B THEN New(d) ELSE flight[s][d]
  BY <1>1 DEF Inv, TypeOK
<1>. HIDE DEF New
<1>6. \A d \in Row : attempts'[d] = IF d \in B THEN attempts[d] + 1 ELSE attempts[d]
  BY <1>1
<1>7. \A d \in Row : due'[d] = IF d \in B THEN Lease ELSE due[d]
  BY <1>1
<1>8. attempts \in [Row -> Nat] /\ due \in [Row -> -MaxOverdue .. BackoffMax]
  BY DEF Inv, TypeOK
<1>9. \A s \in Replica, d \in Row : flight[s][d] \in Flight
  BY DEF Inv, TypeOK
<1>10. Lease \in Nat /\ Lease > 0 /\ Lease <= BackoffMax /\ MaxOverdue \in Nat
         /\ BackoffMax \in Nat
  BY OutboxConstants DEF Lease
<1>11. TypeOK'
  <2>1. attempts' \in [Row -> Nat]
    BY <1>1, <1>8
  <2>2. due' \in [Row -> -MaxOverdue .. BackoffMax]
    BY <1>1, <1>8, <1>10
  <2>3. flight' \in [Replica -> [Row -> Flight]]
    <3>1. [d \in Row |-> IF d \in B THEN New(d) ELSE flight[r][d]] \in [Row -> Flight]
      BY <1>4, <1>9
    <3>2. flight' = [flight EXCEPT ![r] =
                       [d \in Row |-> IF d \in B THEN New(d) ELSE flight[r][d]]]
      BY <1>1 DEF New
    <3>. QED BY <3>1, <3>2 DEF Inv, TypeOK
  <2>4. drain' \in [Replica -> {"idle", "leading", "claimed"}]
    BY DEF Claim, Inv, TypeOK
  <2>. QED BY <1>3, <2>1, <2>2, <2>3, <2>4 DEF Inv, TypeOK
<1>12. \A s \in Replica, d \in B : Flying(s, d) => Overdue(s, d)
  <2>. SUFFICES ASSUME NEW s \in Replica, NEW d \in B, Flying(s, d)
                PROVE  Overdue(s, d)
    OBVIOUS
  <2>1. flight[s][d].age \in 0 .. Lease /\ due[d] \in Int
    BY <1>2, <1>8, <1>9, FlightFields
  <2>2. flight[s][d].age < Lease => due[d] >= Lease - flight[s][d].age
    BY <1>2 DEF Inv, LeaseHolds
  <2>. QED BY <1>2, <1>10, <2>1, <2>2 DEF Overdue
<1>13. LeaseHolds'
  <2>. SUFFICES ASSUME NEW s \in Replica, NEW d \in Row,
                       flight'[s][d].phase # "none", status[d] = "pending",
                       flight'[s][d].age < Lease
                PROVE  due'[d] >= Lease - flight'[s][d].age
    BY <1>3 DEF LeaseHolds, Flying
  <2>1. flight'[s][d] \in Flight
    BY <1>4, <1>5, <1>9
  <2>2. flight'[s][d].age \in 0 .. Lease
    BY <2>1, FlightFields
  <2>3. CASE d \in B
    BY <1>7, <1>10, <2>2, <2>3
  <2>4. CASE d \notin B
    BY <1>5, <1>7, <2>4 DEF Inv, LeaseHolds, Flying
  <2>. QED BY <2>3, <2>4
<1>14. LeaseExcludes'
  <2>. SUFFICES ASSUME NEW d \in Row, NEW s \in Replica, NEW t \in Replica, s # t,
                       Flying(s, d)', Flying(t, d)'
                PROVE  Overdue(s, d)' \/ Overdue(t, d)'
    BY DEF LeaseExcludes
  <2>1. CASE d \in B
    BY <1>5, <1>12, <2>1 DEF Flying, Overdue
  <2>2. CASE d \notin B
    BY <1>5, <2>2 DEF Inv, LeaseExcludes, Flying, Overdue
  <2>. QED BY <2>1, <2>2
<1>15. AttemptsAreDistinct'
  <2>1. \A s \in Replica, d \in Row : Flying(s, d) => flight[s][d].n \in Nat
                                        /\ flight[s][d].n <= attempts[d]
    BY <1>9, FlightFields DEF Inv, AttemptsAreDistinct
  <2>2. \A s \in Replica, d \in Row : Flying(s, d)' =>
          \/ s = r /\ d \in B /\ flight'[s][d].n = attempts[d] + 1
          \/ ~(s = r /\ d \in B) /\ Flying(s, d) /\ flight'[s][d].n = flight[s][d].n
    BY <1>4, <1>5 DEF Flying
  <2>3. \A d \in Row : attempts[d] \in Nat
    BY <1>8
  <2>4. \A s \in Replica, d \in Row : Flying(s, d)' => flight'[s][d].n <= attempts'[d]
    BY <1>6, <2>1, <2>2, <2>3
  <2>5. \A s, t \in Replica, d \in Row :
          s # t /\ Flying(s, d)' /\ Flying(t, d)' => flight'[s][d].n # flight'[t][d].n
    BY <2>1, <2>2, <2>3 DEF Inv, AttemptsAreDistinct
  <2>. QED BY <2>4, <2>5 DEF AttemptsAreDistinct
<1>19. AttemptsStartAtOne'
  BY <1>4, <1>5, <1>8 DEF Inv, AttemptsStartAtOne, Flying
<1>16. OutcomesAreEarned'
  BY <1>2, <1>3, <1>6 DEF Inv, OutcomesAreEarned
<1>17. RowsAreEmitted'
  BY <1>2, <1>3, <1>5 DEF Inv, RowsAreEmitted, Flying
<1>18. AcceptedWasTaken'
  BY <1>3, <1>4, <1>5 DEF Inv, AcceptedWasTaken
<1>. QED BY <1>11, <1>13, <1>14, <1>15, <1>16, <1>17, <1>18, <1>19 DEF Inv

\* A flight's answer arrives: its number and age stay, and a receiver that
\* answered has the event.
LEMMA OutcomeInv ==
  ASSUME Inv, NEW r \in Replica, NEW d \in Row, Outcome(r, d)
  PROVE  Inv'
<1>1. PICK p \in {"accepted", "refused"} :
        /\ flight[r][d].phase = "sending"
        /\ SetFlight(r, d, [flight[r][d] EXCEPT !.phase = p])
        /\ got' \in {got, got \cup {d}}
        /\ p = "accepted" => d \in got'
        /\ UNCHANGED <<queue, leader, drain, faults>>
  BY DEF Outcome, Accepted, Refused
<1>. DEFINE f == [flight[r][d] EXCEPT !.phase = p]
<1>2. flight[r][d] \in Flight /\ flight \in [Replica -> [Row -> Flight]]
  BY DEF Inv, TypeOK
<1>3. /\ f \in Flight /\ f.phase = p
      /\ f.n = flight[r][d].n /\ f.age = flight[r][d].age
  BY <1>2 DEF Flight, Phase
<1>. HIDE DEF f
<1>4. /\ flight' \in [Replica -> [Row -> Flight]]
      /\ flight'[r][d] = f
      /\ \A s \in Replica, x \in Row : s # r \/ x # d => flight'[s][x] = flight[s][x]
  BY <1>1, <1>2, <1>3, SetFlightFacts DEF f
<1>5. \A s \in Replica, x \in Row :
        /\ Flying(s, x)' <=> Flying(s, x)
        /\ flight'[s][x].n = flight[s][x].n
        /\ flight'[s][x].age = flight[s][x].age
  BY <1>1, <1>3, <1>4 DEF Flying
<1>6. UNCHANGED <<emitted, status, attempts, due>>
  BY <1>1 DEF queue
<1>7. TypeOK'
  BY <1>1, <1>4 DEF Inv, TypeOK, queue
<1>8. LeaseHolds' /\ LeaseExcludes' /\ AttemptsAreDistinct' /\ AttemptsStartAtOne'
      /\ RowsAreEmitted'
  BY <1>5, <1>6
  DEF Inv, LeaseHolds, LeaseExcludes, AttemptsAreDistinct, AttemptsStartAtOne,
      RowsAreEmitted, Overdue
<1>9. OutcomesAreEarned'
  BY <1>1, <1>6 DEF Inv, OutcomesAreEarned
<1>10. AcceptedWasTaken'
  BY <1>1, <1>3, <1>4 DEF Inv, AcceptedWasTaken
<1>. QED BY <1>7, <1>8, <1>9, <1>10 DEF Inv

\* A flight ends, and at most its own row is written.
EndsFlight(r, d) ==
  /\ SetFlight(r, d, NoFlight)
  /\ UNCHANGED <<emitted, attempts, got>>
  /\ status' \in [Row -> Status]
  /\ due' \in [Row -> -MaxOverdue .. BackoffMax]
  /\ \A x \in Row :
       status'[x] = status[x] \/ (x = d /\ Exists(d) /\ status'[d] \in Finished)
  /\ \A x \in Row : due'[x] = due[x] \/ (x = d /\ due'[d] >= Lease)
  /\ status'[d] = "abandoned" => attempts[d] >= MaxAttempts
  /\ status'[d] = "delivered" => d \in got

\* A flight that ends, with a mark or without, keeps it for all the others.
LEMMA FlightEnds ==
  ASSUME Inv, NEW r \in Replica, NEW d \in Row, EndsFlight(r, d)
  PROVE  /\ flight' \in [Replica -> [Row -> Flight]]
         /\ LeaseHolds' /\ LeaseExcludes' /\ AttemptsAreDistinct'
         /\ AttemptsStartAtOne' /\ OutcomesAreEarned' /\ RowsAreEmitted' /\ AcceptedWasTaken'
<1>1. flight \in [Replica -> [Row -> Flight]] /\ due \in [Row -> -MaxOverdue .. BackoffMax]
  BY DEF Inv, TypeOK
<1>2. /\ flight' \in [Replica -> [Row -> Flight]]
      /\ flight'[r][d] = NoFlight
      /\ \A s \in Replica, x \in Row : s # r \/ x # d => flight'[s][x] = flight[s][x]
  BY <1>1, SetFlightFacts, NoFlightType DEF EndsFlight
<1>3. \A s \in Replica, x \in Row :
        Flying(s, x)' => Flying(s, x) /\ flight'[s][x] = flight[s][x]
  BY <1>2, NoFlightType DEF Flying
<1>4. LeaseHolds'
  <2>. SUFFICES ASSUME NEW s \in Replica, NEW x \in Row, Flying(s, x)',
                       status'[x] = "pending", flight'[s][x].age < Lease
                PROVE  due'[x] >= Lease - flight'[s][x].age
    BY DEF LeaseHolds
  <2>1. status[x] = "pending"
    BY DEF EndsFlight, Finished
  <2>2. due[x] >= Lease - flight[s][x].age
    BY <1>3, <2>1 DEF Inv, LeaseHolds
  <2>3. flight[s][x].age \in 0 .. Lease /\ due[x] \in Int /\ due'[x] \in Int
    BY <1>1, FlightFields DEF EndsFlight
  <2>4. CASE due'[x] = due[x]
    BY <1>3, <2>2, <2>4
  <2>5. CASE due'[x] >= Lease
    BY <1>3, <2>3, <2>5, OutboxConstants DEF Lease
  <2>. QED BY <2>4, <2>5 DEF EndsFlight
<1>5. LeaseExcludes' /\ AttemptsAreDistinct' /\ AttemptsStartAtOne'
  BY <1>3 DEF Inv, LeaseExcludes, AttemptsAreDistinct, AttemptsStartAtOne, Overdue,
              EndsFlight
<1>6. OutcomesAreEarned'
  BY DEF Inv, OutcomesAreEarned, EndsFlight
<1>7. RowsAreEmitted'
  BY <1>3 DEF Inv, RowsAreEmitted, Exists, EndsFlight
<1>8. AcceptedWasTaken'
  BY <1>2, NoFlightType DEF Inv, AcceptedWasTaken, EndsFlight
<1>. QED BY <1>2, <1>4, <1>5, <1>6, <1>7, <1>8

\* Each of the three marks keeps it, however late it is.
LEMMA MarkInv ==
  ASSUME Inv, NEW r \in Replica, NEW d \in Row, Mark(r, d) \/ MarkLost(r, d)
  PROVE  Inv'
<1>1. /\ flight[r][d] \in Flight
      /\ attempts[d] \in Nat
      /\ status \in [Row -> Status]
      /\ due \in [Row -> -MaxOverdue .. BackoffMax]
  BY DEF Inv, TypeOK
<1>2. flight[r][d].n \in Nat
  BY <1>1, FlightFields
<1>3. /\ status[d] = "abandoned" => attempts[d] >= MaxAttempts
      /\ status[d] = "delivered" => d \in got
  BY DEF Inv, OutcomesAreEarned
<1>4. CASE MarkDelivered(r, d)
  <2>1. d \in got
    BY <1>4 DEF MarkDelivered, Inv, AcceptedWasTaken
  <2>2. status' \in [Row -> Status]
    BY <1>1, <1>4 DEF MarkDelivered, Status
  <2>3. EndsFlight(r, d)
    <3>1. \A x \in Row :
            status'[x] = status[x] \/ (x = d /\ Exists(d) /\ status'[d] \in Finished)
      BY <1>1, <1>4 DEF MarkDelivered, Finished
    <3>2. /\ status'[d] = "abandoned" => attempts[d] >= MaxAttempts
          /\ status'[d] = "delivered" => d \in got
      BY <1>1, <1>3, <1>4, <2>1 DEF MarkDelivered
    <3>. QED BY <1>1, <1>4, <2>2, <3>1, <3>2 DEF MarkDelivered, EndsFlight
  <2>. QED BY <1>4, <2>2, <2>3, FlightEnds DEF MarkDelivered, Inv, TypeOK
<1>5. CASE MarkAbandoned(r, d)
  <2>1. flight[r][d].n <= attempts[d]
    BY <1>5 DEF MarkAbandoned, Inv, AttemptsAreDistinct, Flying
  <2>2. attempts[d] >= MaxAttempts
    BY <1>1, <1>2, <1>5, <2>1, OutboxConstants DEF MarkAbandoned
  <2>3. status' \in [Row -> Status]
    BY <1>1, <1>5 DEF MarkAbandoned, Status
  <2>4. EndsFlight(r, d)
    <3>1. \A x \in Row :
            status'[x] = status[x] \/ (x = d /\ Exists(d) /\ status'[d] \in Finished)
      BY <1>1, <1>5 DEF MarkAbandoned, Finished
    <3>2. /\ status'[d] = "abandoned" => attempts[d] >= MaxAttempts
          /\ status'[d] = "delivered" => d \in got
      BY <1>1, <1>3, <1>5, <2>2 DEF MarkAbandoned
    <3>. QED BY <1>1, <1>5, <2>3, <3>1, <3>2 DEF MarkAbandoned, EndsFlight
  <2>. QED BY <1>5, <2>3, <2>4, FlightEnds DEF MarkAbandoned, Inv, TypeOK
<1>6. CASE MarkRetry(r, d)
  <2>1. flight[r][d].n >= 1
    BY <1>6 DEF MarkRetry, Inv, AttemptsStartAtOne, Flying
  <2>2. flight[r][d].n \in 1 .. MaxAttempts
    BY <1>2, <1>6, <2>1, OutboxConstants DEF MarkRetry
  <2>3. Backoff(flight[r][d].n) \in Lease .. BackoffMax
    BY <2>2, BackoffCoversLease
  <2>4. PICK k \in Lease .. BackoffMax :
          due' = IF Exists(d) THEN [due EXCEPT ![d] = k] ELSE due
    BY <1>6, <2>3 DEF MarkRetry
  <2>5. k >= Lease /\ k \in -MaxOverdue .. BackoffMax
    BY OutboxConstants DEF Lease
  <2>6. due' \in [Row -> -MaxOverdue .. BackoffMax]
    BY <1>1, <2>4, <2>5
  <2>7. \A x \in Row : due'[x] = due[x] \/ (x = d /\ due'[d] >= Lease)
    BY <1>1, <2>4, <2>5
  <2>8. EndsFlight(r, d)
    BY <1>1, <1>3, <1>6, <2>6, <2>7 DEF MarkRetry, EndsFlight
  <2>. QED BY <1>6, <2>6, <2>8, FlightEnds DEF MarkRetry, Inv, TypeOK
<1>7. CASE MarkLost(r, d)
  <2>1. EndsFlight(r, d)
    BY <1>1, <1>3, <1>7 DEF MarkLost, queue, EndsFlight
  <2>2. faults' \in 0 .. MaxFaults
    BY <1>7, OutboxConstants DEF MarkLost, Fault, Inv, TypeOK
  <2>. QED BY <1>7, <2>1, <2>2, FlightEnds DEF MarkLost, queue, Inv, TypeOK
<1>. QED BY <1>4, <1>5, <1>6, <1>7 DEF Mark

\* A crash keeps it: flights only end.
LEMMA CrashInv ==
  ASSUME Inv, NEW r \in Replica, Crash(r)
  PROVE  Inv'
<1>1. flight \in [Replica -> [Row -> Flight]]
  BY DEF Inv, TypeOK
<1>2. [d \in Row |-> NoFlight] \in [Row -> Flight]
  BY NoFlightType
<1>3. flight' \in [Replica -> [Row -> Flight]]
  BY <1>1, <1>2 DEF Crash
<1>4. \A s \in Replica, d \in Row :
        flight'[s][d] = IF s = r THEN NoFlight ELSE flight[s][d]
  BY <1>1 DEF Crash
<1>5. faults' \in 0 .. MaxFaults
  BY OutboxConstants DEF Crash, Fault, Inv, TypeOK
<1>6. TypeOK'
  BY <1>3, <1>5 DEF Crash, Unlock, queue, Inv, TypeOK
<1>7. \A s \in Replica, d \in Row :
        Flying(s, d)' => Flying(s, d) /\ flight'[s][d] = flight[s][d]
  BY <1>4, NoFlightType DEF Flying
<1>8. UNCHANGED <<emitted, status, attempts, due, got>>
  BY DEF Crash, queue
<1>9. LeaseHolds' /\ LeaseExcludes' /\ AttemptsAreDistinct' /\ AttemptsStartAtOne'
      /\ RowsAreEmitted'
  BY <1>7, <1>8 DEF Inv, LeaseHolds, LeaseExcludes, AttemptsAreDistinct,
                    AttemptsStartAtOne, RowsAreEmitted, Overdue
<1>10. OutcomesAreEarned'
  BY <1>8 DEF Inv, OutcomesAreEarned
<1>11. AcceptedWasTaken'
  BY <1>4, <1>8, NoFlightType DEF Inv, AcceptedWasTaken
<1>. QED BY <1>6, <1>9, <1>10, <1>11 DEF Inv

\* The passing of time keeps it: a lease and its row age together.
LEMMA TickInv ==
  ASSUME Inv, Tick
  PROVE  Inv'
<1>1. /\ \A r \in Replica, d \in Row : flight[r][d] \in Flight
      /\ \A r \in Replica, d \in Row : flight'[r][d] = Older(flight[r][d])
  BY DEF Inv, TypeOK, Tick
<1>2. /\ due \in [Row -> -MaxOverdue .. BackoffMax]
      /\ \A d \in Row :
           due'[d] = IF status[d] = "pending" THEN Later(due[d]) ELSE due[d]
  BY DEF Inv, TypeOK, Tick
<1>3. \A r \in Replica, d \in Row :
        /\ flight'[r][d] \in Flight
        /\ flight'[r][d].phase = flight[r][d].phase
        /\ flight'[r][d].n = flight[r][d].n
        /\ flight'[r][d].age >= flight[r][d].age
        /\ Flying(r, d) /\ flight'[r][d].age < Lease
             => flight'[r][d].age = flight[r][d].age + 1
  BY <1>1, OlderFacts DEF Flying
<1>4. UNCHANGED <<emitted, status, attempts, got>>
  BY DEF Tick
<1>5. \A m \in -MaxOverdue .. BackoffMax : Later(m) \in -MaxOverdue .. BackoffMax
  BY OutboxConstants DEF Later
<1>6. TypeOK'
  <2>1. due' \in [Row -> -MaxOverdue .. BackoffMax]
    <3>1. \A d \in Row : due[d] \in -MaxOverdue .. BackoffMax
      BY <1>2
    <3>2. \A d \in Row : due'[d] \in -MaxOverdue .. BackoffMax
      BY <1>2, <1>5, <3>1
    <3>. QED BY <3>2 DEF Tick
  <2>2. flight' \in [Replica -> [Row -> Flight]]
    BY <1>1, <1>3 DEF Tick
  <2>. QED BY <2>1, <2>2 DEF Tick, Inv, TypeOK
<1>7. \A r \in Replica, d \in Row :
        /\ flight[r][d].age \in Nat /\ flight[r][d].age <= Lease
        /\ flight'[r][d].age \in Nat
        /\ Lease \in Nat
  BY <1>1, <1>3, FlightFields, OutboxConstants DEF Lease
<1>8. LeaseHolds'
  <2>. SUFFICES ASSUME NEW r \in Replica, NEW d \in Row, Flying(r, d)',
                       status'[d] = "pending", flight'[r][d].age < Lease
                PROVE  due'[d] >= Lease - flight'[r][d].age
    BY DEF LeaseHolds
  <2>1. flight'[r][d].age = flight[r][d].age + 1 /\ Flying(r, d)
    BY <1>3 DEF Flying
  <2>2. due[d] >= Lease - flight[r][d].age
    BY <1>4, <1>7, <2>1 DEF Inv, LeaseHolds
  <2>3. due'[d] = due[d] - 1
    BY <1>2, <1>4, <1>7, <2>1, <2>2, OutboxConstants DEF Later
  <2>. QED BY <1>2, <1>7, <2>1, <2>2, <2>3
<1>9. LeaseExcludes'
  <2>1. \A r \in Replica, d \in Row :
          (Flying(r, d)' => Flying(r, d)) /\ (Overdue(r, d) => Overdue(r, d)')
    BY <1>3, <1>7 DEF Flying, Overdue
  <2>. QED BY <2>1 DEF Inv, LeaseExcludes
<1>10. AttemptsAreDistinct' /\ AttemptsStartAtOne' /\ AcceptedWasTaken' /\ RowsAreEmitted'
  BY <1>3, <1>4 DEF Inv, AttemptsAreDistinct, AttemptsStartAtOne, AcceptedWasTaken,
                    RowsAreEmitted, Flying
<1>11. OutcomesAreEarned'
  BY <1>4 DEF Inv, OutcomesAreEarned
<1>. QED BY <1>6, <1>8, <1>9, <1>10, <1>11 DEF Inv

\* Every step keeps the invariant.
LEMMA StepInv == Inv /\ [Next]_vars => Inv'
<1>. SUFFICES ASSUME Inv, [Next]_vars PROVE Inv'
  OBVIOUS
<1>1. CASE RequestPath
  <2>1. CASE \E e \in Event : Emit(e)
    BY <2>1, EmitInv
  <2>2. CASE \E e \in Event : EmitLost(e)
    <3>1. TypeOK'
      BY <2>2, OutboxConstants DEF EmitLost, Fault, Inv, TypeOK
    <3>. QED BY <2>2, <3>1, QuietSteps DEF EmitLost
  <2>3. CASE \E h \in Hook : SetEnabled(h)
    <3>1. TypeOK'
      BY <2>3 DEF SetEnabled, Inv, TypeOK
    <3>. QED BY <2>3, <3>1, QuietSteps DEF SetEnabled
  <2>4. CASE \E h \in Hook : DeleteWebhook(h)
    <3>1. TypeOK'
      BY <2>4 DEF DeleteWebhook, Inv, TypeOK, Status
    <3>2. /\ \A d \in Row : /\ status'[d] \in {status[d], "gone"}
                            /\ status[d] = "absent" => status'[d] = "absent"
          /\ UNCHANGED <<emitted, attempts, due, flight, got>>
      BY <2>4 DEF DeleteWebhook
    <3>. QED BY <3>1, <3>2, StatusSteps
  <2>. QED BY <1>1, <2>1, <2>2, <2>3, <2>4 DEF RequestPath
<1>2. ASSUME NEW r \in Replica, Scheduler(r)
      PROVE  Inv'
  <2>1. CASE Claim(r)
    BY <2>1, ClaimInv
  <2>2. CASE Lead(r) \/ ClaimFails(r) \/ DrainEnds(r)
    <3>0. faults' \in 0 .. MaxFaults
      BY <2>2, OutboxConstants DEF Lead, ClaimFails, DrainEnds, Fault, Inv, TypeOK
    <3>4. leader' \subseteq Replica
      BY <2>2 DEF Lead, ClaimFails, DrainEnds, Unlock, Inv, TypeOK
    <3>5. drain' \in [Replica -> {"idle", "leading", "claimed"}]
      BY <2>2 DEF Lead, ClaimFails, DrainEnds, Inv, TypeOK
    <3>1. TypeOK'
      BY <2>2, <3>0, <3>4, <3>5 DEF Lead, ClaimFails, DrainEnds, queue, Inv, TypeOK
    <3>2. UNCHANGED <<emitted, status, attempts, due, flight, got>>
      BY <2>2 DEF Lead, ClaimFails, DrainEnds, queue
    <3>. QED BY <3>1, <3>2, QuietSteps
  <2>. QED BY <1>2, <2>1, <2>2 DEF Scheduler
<1>3. ASSUME NEW r \in Replica, Crash(r) \/ LockLost(r)
      PROVE  Inv'
  <2>1. CASE Crash(r)
    BY <2>1, CrashInv
  <2>2. CASE LockLost(r)
    <3>1. TypeOK'
      BY <2>2, OutboxConstants DEF LockLost, Fault, queue, Inv, TypeOK
    <3>. QED BY <2>2, <3>1, QuietSteps DEF LockLost, queue
  <2>. QED BY <1>3, <2>1, <2>2
<1>4. ASSUME NEW r \in Replica, NEW d \in Row, Deliver(r, d)
      PROVE  Inv'
  BY <1>4, OutcomeInv, MarkInv DEF Deliver
<1>5. CASE PurgeFinished
  <2>1. TypeOK'
    BY <1>5 DEF PurgeFinished, Inv, TypeOK, Status
  <2>2. /\ \A d \in Row : /\ status'[d] \in {status[d], "gone"}
                          /\ status[d] = "absent" => status'[d] = "absent"
        /\ UNCHANGED <<emitted, attempts, due, flight, got>>
    BY <1>5 DEF PurgeFinished, Finished
  <2>. QED BY <2>1, <2>2, StatusSteps
<1>6. CASE Tick
  BY <1>6, TickInv
<1>7. CASE UNCHANGED vars
  <2>1. UNCHANGED <<emitted, status, attempts, due, flight, got>>
    BY <1>7 DEF vars, queue
  <2>2. TypeOK'
    BY <1>7 DEF vars, queue, Inv, TypeOK
  <2>. QED BY <2>1, <2>2, QuietSteps
<1>. QED BY <1>1, <1>2, <1>3, <1>4, <1>5, <1>6, <1>7 DEF Next

-----------------------------------------------------------------------------
(* The results.                                                             *)

\* The invariant holds in every reachable state.
THEOREM InvHolds == Spec => []Inv
  BY InitInv, StepInv, PTL DEF Spec

\* claim and marks: the queue's state stays within its types; in particular a
\* retry is never scheduled further away than BackoffMax.
THEOREM TypeCorrect == Spec => []TypeOK
<1>1. Inv => TypeOK
  BY DEF Inv
<1>. QED BY <1>1, InvHolds, PTL

\* However many drains overlap, a delivery is in the hands of two replicas only
\* after one of their claims has outlived its lease.
THEOREM LeaseIsExclusive == Spec => []LeaseExcludes
<1>1. Inv => LeaseExcludes
  BY DEF Inv
<1>. QED BY <1>1, InvHolds, PTL

\* deliver: what an attempt compares with MaxAttempts is a number no other live
\* attempt of the row has.
THEOREM AttemptsAreCounted == Spec => []AttemptsAreDistinct
<1>1. Inv => AttemptsAreDistinct
  BY DEF Inv
<1>. QED BY <1>1, InvHolds, PTL

\* deliver: an event is abandoned only after MaxAttempts claims and recorded as
\* delivered only when a receiver took it.
THEOREM OutcomesAreRecorded == Spec => []OutcomesAreEarned
<1>1. Inv => OutcomesAreEarned
  BY DEF Inv
<1>. QED BY <1>1, InvHolds, PTL

\* A finished row is never claimed again and never becomes pending again, also
\* when an attempt that outlived its lease marks it late.
THEOREM FinishedRowsRest == Spec => FinishedIsNotSentAgain
<1>. DEFINE Rests == \A d \in Row : status[d] \in Finished =>
                       /\ status'[d] \in Finished \cup {"gone"}
                       /\ attempts'[d] = attempts[d]
<1>1. ASSUME Inv, [Next]_vars PROVE [Rests]_vars
  <2>. SUFFICES ASSUME NEW d \in Row, status[d] \in Finished, Next
                PROVE  /\ status'[d] \in Finished \cup {"gone"}
                       /\ attempts'[d] = attempts[d]
    BY <1>1
  <2>1. status \in [Row -> Status] /\ attempts \in [Row -> Nat] /\ d[1] \in emitted
    BY <1>1 DEF Inv, TypeOK, RowsAreEmitted, Finished
  <2>2. CASE RequestPath
    BY <2>1, <2>2
    DEF RequestPath, Emit, EmitLost, SetEnabled, DeleteWebhook, Finished
  <2>3. ASSUME NEW r \in Replica, Scheduler(r)
        PROVE  status' = status /\ attempts'[d] = attempts[d]
    <3>1. CASE Claim(r)
      BY <2>1, <3>1 DEF Claim, Due, Finished
    <3>. QED BY <2>3, <3>1 DEF Scheduler, Lead, ClaimFails, DrainEnds, queue
  <2>4. ASSUME NEW r \in Replica, Crash(r) \/ LockLost(r)
        PROVE  status' = status /\ attempts' = attempts
    BY <2>4 DEF Crash, LockLost, queue
  <2>5. ASSUME NEW r \in Replica, NEW x \in Row, Deliver(r, x)
        PROVE  status'[d] \in Finished \cup {"gone"} /\ attempts' = attempts
    <3>1. CASE Outcome(r, x) \/ MarkRetry(r, x) \/ MarkLost(r, x)
      BY <3>1 DEF Outcome, Accepted, Refused, MarkRetry, MarkLost, queue
    <3>2. CASE MarkDelivered(r, x) \/ MarkAbandoned(r, x)
      BY <2>1, <3>2 DEF MarkDelivered, MarkAbandoned, Finished
    <3>. QED BY <2>5, <3>1, <3>2 DEF Deliver, Mark
  <2>6. CASE PurgeFinished
    BY <2>1, <2>6 DEF PurgeFinished, Finished
  <2>7. CASE Tick
    BY <2>7 DEF Tick
  <2>. QED BY <2>2, <2>3, <2>4, <2>5, <2>6, <2>7 DEF Next
<1>. QED BY <1>1, InvHolds, PTL DEF Spec, FinishedIsNotSentAgain

-----------------------------------------------------------------------------
(* Refinement of DeliveryQueue.                                             *)

\* An attempt in the air was spent, within the row's counter.
LEMMA FlyingWasSpent ==
  ASSUME Inv, NEW r \in Replica, NEW d \in Row, Flying(r, d)
  PROVE  attempts[d] > 0 /\ flight[r][d].n <= attempts[d]
<1>1. flight[r][d] \in Flight /\ attempts[d] \in Nat
  BY DEF Inv, TypeOK
<1>2. flight[r][d].n >= 1 /\ flight[r][d].n <= attempts[d]
  BY DEF Inv, AttemptsStartAtOne, AttemptsAreDistinct
<1>. QED BY <1>1, <1>2, FlightFields

\* What requests do to webhooks and events is a step of the abstract queue.
LEMMA RequestPathRefines ==
  ASSUME Inv, RequestPath
  PROVE  [Promised!Next]_Promised!vars
<1>0. status \in [Row -> Status]
  BY DEF Inv, TypeOK
<1>1. ASSUME NEW e \in Event, Emit(e) PROVE Promised!Next
  <2>. DEFINE S == {d \in Row : d[1] = e /\ HookOf(d) \in enabled}
  <2>1. \A d \in S : status[d] = "absent"
    BY <1>1 DEF Inv, Emit, RowsAreEmitted
  <2>2. status' = [d \in Row |-> IF d \in S THEN "pending" ELSE status[d]]
    BY <1>1 DEF Emit
  <2>3. UNCHANGED <<attempts, got>>
    BY <1>1 DEF Emit
  <2>4. Promised!Enqueue(S)
    BY <2>1, <2>2, <2>3 DEF Promised!Enqueue
  <2>5. S \in SUBSET Row
    OBVIOUS
  <2>. QED BY <2>4, <2>5 DEF Promised!Next
<1>2. ASSUME NEW h \in Hook, DeleteWebhook(h) PROVE Promised!Next
  <2>. DEFINE S == {d \in Row : HookOf(d) = h /\ status[d] # "absent"}
  <2>1. status' = [d \in Row |-> IF d \in S THEN "gone" ELSE status[d]]
    BY <1>2 DEF DeleteWebhook
  <2>2. UNCHANGED <<attempts, got>>
    BY <1>2 DEF DeleteWebhook
  <2>3. Promised!Remove(S)
    BY <2>1, <2>2 DEF Promised!Remove
  <2>4. S \in SUBSET Row
    OBVIOUS
  <2>. QED BY <2>3, <2>4 DEF Promised!Next
<1>3. ASSUME NEW e \in Event, EmitLost(e) PROVE UNCHANGED Promised!vars
  BY <1>3 DEF EmitLost, Promised!vars
<1>4. ASSUME NEW h \in Hook, SetEnabled(h) PROVE UNCHANGED Promised!vars
  BY <1>4 DEF SetEnabled, Promised!vars
<1>. QED BY <1>1, <1>2, <1>3, <1>4 DEF RequestPath

\* So is what the scheduler does: only a claim is not a stutter.
LEMMA SchedulerRefines ==
  ASSUME Inv, NEW r \in Replica, Scheduler(r) \/ Crash(r) \/ LockLost(r)
  PROVE  [Promised!Next]_Promised!vars
<1>1. CASE Claim(r)
  <2>1. PICK B \in SUBSET Due :
          attempts' = [d \in Row |-> IF d \in B THEN attempts[d] + 1 ELSE attempts[d]]
    BY <1>1 DEF Claim
  <2>2. UNCHANGED <<status, got>>
    BY <1>1 DEF Claim
  <2>3. B \in SUBSET Row /\ \A d \in B : status[d] = "pending"
    BY <2>1 DEF Due
  <2>4. Promised!Attempt(B)
    BY <2>1, <2>2, <2>3 DEF Promised!Attempt
  <2>. QED BY <2>3, <2>4 DEF Promised!Next
<1>2. CASE Lead(r) \/ ClaimFails(r) \/ DrainEnds(r)
  BY <1>2 DEF Lead, ClaimFails, DrainEnds, queue, Promised!vars
<1>3. CASE Crash(r) \/ LockLost(r)
  BY <1>3 DEF Crash, LockLost, queue, Promised!vars
<1>. QED BY <1>1, <1>2, <1>3 DEF Scheduler

\* So is what a dial and its mark do.
LEMMA DeliverRefines ==
  ASSUME Inv, NEW r \in Replica, NEW d \in Row, Deliver(r, d)
  PROVE  [Promised!Next]_Promised!vars
<1>0. status \in [Row -> Status]
  BY DEF Inv, TypeOK
<1>1. CASE Outcome(r, d)
  <2>1. Flying(r, d) /\ got' \in {got, got \cup {d}} /\ UNCHANGED <<status, attempts>>
    BY <1>1 DEF Outcome, Accepted, Refused, Flying, queue
  <2>2. CASE got' = got
    BY <2>1, <2>2 DEF Promised!vars
  <2>3. CASE got' = got \cup {d}
    <3>1. attempts[d] > 0
      BY <2>1, FlyingWasSpent
    <3>2. Promised!Receive(d)
      BY <2>1, <2>3, <3>1 DEF Promised!Receive
    <3>. QED BY <3>2 DEF Promised!Next
  <2>. QED BY <2>1, <2>2, <2>3
<1>2. CASE MarkRetry(r, d) \/ MarkLost(r, d)
  BY <1>2 DEF MarkRetry, MarkLost, queue, Promised!vars
<1>3. ASSUME NEW s \in {"delivered", "abandoned"},
             s = "delivered" => d \in got,
             s = "abandoned" => attempts[d] >= MaxAttempts,
             status' = IF Exists(d) THEN [status EXCEPT ![d] = s] ELSE status,
             UNCHANGED <<attempts, got>>
      PROVE  [Promised!Next]_Promised!vars
  <2>1. CASE Exists(d)
    <3>1. status[d] \in Promised!Recorded
      BY <1>0, <2>1 DEF Exists, Status, Promised!Recorded
    <3>2. Promised!Settle(d, s)
      BY <1>3, <2>1, <3>1 DEF Promised!Settle
    <3>. QED BY <3>2 DEF Promised!Next
  <2>2. CASE ~Exists(d)
    BY <1>3, <2>2 DEF Promised!vars
  <2>. QED BY <2>1, <2>2
<1>4. CASE MarkDelivered(r, d)
  <2>1. d \in got
    BY <1>4 DEF MarkDelivered, Inv, AcceptedWasTaken
  <2>2. /\ status' = IF Exists(d) THEN [status EXCEPT ![d] = "delivered"] ELSE status
        /\ UNCHANGED <<attempts, got>>
    BY <1>4 DEF MarkDelivered
  <2>. QED BY <2>1, <2>2, <1>3
<1>5. CASE MarkAbandoned(r, d)
  <2>1. Flying(r, d) /\ flight[r][d].n >= MaxAttempts
    BY <1>5 DEF MarkAbandoned, Flying
  <2>2. attempts[d] \in Nat /\ flight[r][d].n \in Nat /\ MaxAttempts \in Nat
    BY OutboxConstants, FlightFields DEF Inv, TypeOK
  <2>3. attempts[d] >= MaxAttempts
    BY <2>1, <2>2, FlyingWasSpent
  <2>4. /\ status' = IF Exists(d) THEN [status EXCEPT ![d] = "abandoned"] ELSE status
        /\ UNCHANGED <<attempts, got>>
    BY <1>5 DEF MarkAbandoned
  <2>. QED BY <2>3, <2>4, <1>3
<1>. QED BY <1>1, <1>2, <1>4, <1>5 DEF Deliver, Mark

\* Every step is a step of the abstract queue or a stutter.
LEMMA StepRefines == Inv /\ [Next]_vars => [Promised!Next]_Promised!vars
<1>. SUFFICES ASSUME Inv, [Next]_vars PROVE [Promised!Next]_Promised!vars
  OBVIOUS
<1>1. CASE RequestPath
  BY <1>1, RequestPathRefines
<1>2. ASSUME NEW r \in Replica, Scheduler(r) \/ Crash(r) \/ LockLost(r)
      PROVE  [Promised!Next]_Promised!vars
  BY <1>2, SchedulerRefines
<1>3. ASSUME NEW r \in Replica, NEW d \in Row, Deliver(r, d)
      PROVE  [Promised!Next]_Promised!vars
  BY <1>3, DeliverRefines
<1>4. CASE PurgeFinished
  <2>1. PICK S \in SUBSET {d \in Row : status[d] \in Finished} :
          status' = [d \in Row |-> IF d \in S THEN "gone" ELSE status[d]]
    BY <1>4 DEF PurgeFinished
  <2>2. S \in SUBSET Row /\ \A d \in S : status[d] # "absent"
    BY <2>1 DEF Finished
  <2>3. UNCHANGED <<attempts, got>>
    BY <1>4 DEF PurgeFinished
  <2>4. Promised!Remove(S)
    BY <2>1, <2>2, <2>3 DEF Promised!Remove
  <2>. QED BY <2>2, <2>4 DEF Promised!Next
<1>5. CASE Tick \/ UNCHANGED vars
  BY <1>5 DEF Tick, vars, queue, Promised!vars
<1>. QED BY <1>1, <1>2, <1>3, <1>4, <1>5 DEF Next

\* The webhook queue, with its leaders, leases, retries and faults, implements the
\* at-least-once queue of DeliveryQueue.
THEOREM QueueIsImplemented == Spec => ImplementsQueue
<1>1. Init => Promised!Init
  BY DEF Init, Promised!Init
<1>. QED BY <1>1, InvHolds, StepRefines, PTL DEF Spec, ImplementsQueue, Promised!Spec
=============================================================================
