------------------------- MODULE DomainVerification -------------------------
(***************************************************************************)
(* Proof of control over custom hostnames (internal/link/verification.go,  *)
(* domains.go and domains.sql).                                            *)
(*                                                                         *)
(* A row's registration is the pair <<hostname, token>>; DNS holds the     *)
(* pairs that are published.  A check reads a row, asks DNS about what it  *)
(* read, and writes back under a predicate on that pair.  Checks are run   *)
(* on demand by requests and by the leader's pass over a work list; a row  *)
(* may be renamed or deleted while a lookup is in flight.  A failed check  *)
(* starts the grace window, and a pass that finds the window spent stops   *)
(* serving.                                                                *)
(*                                                                         *)
(* Time is relative: failing[d] counts the ticks since                     *)
(* verification_failing_since and lag[r] the ticks since the pass took its *)
(* `now`, so that now.Sub(since) is failing[d] - lag[r].                   *)
(***************************************************************************)
EXTENDS Integers, FiniteSets, Sequences

CONSTANTS
  Domain,     \* rows of the domains table, ordered by id
  Hostname,
  Token,      \* challenge tokens; a new one is never one still in use
  Request,    \* concurrent VerifyDomain requests
  Replica,    \* processes running the scheduler
  Batch,      \* rows a pass draws
  Grace,      \* the grace window, in ticks
  PassTicks,  \* the deadline of a pass, in ticks
  MaxFaults   \* bound: crashes, cut-off passes, lost locks and failed statements

ASSUME VerificationConstants ==
  /\ Domain \subseteq Nat
  /\ IsFiniteSet(Domain)
  /\ Request \cap Replica = {}
  /\ Batch \in Nat \ {0}
  /\ Grace \in Nat \ {0}
  /\ PassTicks \in Nat
  /\ MaxFaults \in Nat

Actor == Request \cup Replica
Registration == Hostname \X Token

\* What a row nobody has registered holds, and a check that is over remembers.
Nothing == <<>>

\* A NULL verification_failing_since.
None == -1
OldestRun == Grace + PassTicks

VARIABLES
  life,       \* per row: "none" (not registered), "live" or "deleted"
  reg,        \* per row: hostname and verification_token
  verified,   \* rows whose verified_at is set
  failing,    \* per row: verification_failing_since
  checked,    \* per row: the rank of verification_checked_at, 0 for NULL
  published,  \* TXT records in DNS
  pc,         \* per actor: where its check stands
  row,        \* per actor: the row it read
  seen,       \* per actor: the registration it read
  served,     \* actors that read the row as verified
  anchored,   \* actors that read the row with a failing run
  leader,     \* the session holding advisoryLockKeyDomains, if any
  todo,       \* per replica: the rest of the pass's work list
  lag,        \* per replica: ticks since the pass took its clock
  changed,    \* replicas whose pass has something to broadcast
  dirty,      \* rows whose serving changed and whose broadcast is still to come
  proved,     \* rows whose present registration a lookup has found in DNS
  warned,     \* rows whose workspace was told of the present failing run
  reset,      \* replicas whose row was verified or renamed since they saw it fail
  faults

table == <<life, reg, verified, failing, checked>>
check == <<pc, row, seen, served, anchored>>
walk == <<leader, todo, lag, changed>>
ghosts == <<proved, warned, reset>>
vars == <<table, published, check, walk, dirty, ghosts, faults>>

Init ==
  /\ life = [d \in Domain |-> "none"]
  /\ reg = [d \in Domain |-> Nothing]
  /\ verified = {}
  /\ failing = [d \in Domain |-> None]
  /\ checked = [d \in Domain |-> 0]
  /\ published = {}
  /\ pc = [a \in Actor |-> "idle"]
  /\ \E d \in Domain : row = [a \in Actor |-> d]
  /\ seen = [a \in Actor |-> Nothing]
  /\ served = {}
  /\ anchored = {}
  /\ leader = {}
  /\ todo = [r \in Replica |-> <<>>]
  /\ lag = [r \in Replica |-> 0]
  /\ changed = {}
  /\ dirty = {}
  /\ proved = {}
  /\ warned = {}
  /\ reset = {}
  /\ faults = 0

Fault ==
  /\ faults < MaxFaults
  /\ faults' = faults + 1

Goto(a, l) == pc' = [pc EXCEPT ![a] = l]

\* The check of a row is over and what it read is forgotten.
Leave(a, l) ==
  /\ Goto(a, l)
  /\ seen' = [seen EXCEPT ![a] = Nothing]
  /\ served' = served \ {a}
  /\ anchored' = anchored \ {a}

\* A token nothing remembers any more stands for a new random one.
Fresh(t) ==
  /\ \A d \in Domain : life[d] = "live" => reg[d][2] # t
  /\ \A p \in published : p[2] # t
  /\ \A a \in Actor : seen[a] # Nothing => seen[a][2] # t

\* domains_hostname_key.
Taken(h, d) == \E e \in Domain \ {d} : life[e] = "live" /\ reg[e][1] = h

\* The row is now the one most recently checked; the others keep their order.
Touch(d) ==
  checked' = [x \in Domain |->
    IF x = d THEN Cardinality(Domain)
    ELSE IF checked[x] = 0 THEN 0
    ELSE Cardinality(Domain)
           - Cardinality({y \in Domain \ {d} : checked[y] >= checked[x]})]

\* Passes that saw d fail and have not finished with it.
Judging(d) == {r \in Replica : pc[r] \in {"warn", "stop"} /\ row[r] = d}

-----------------------------------------------------------------------------
(* Registration, and the owner's zone. *)

\* Mutant: registration mints no token.
RegisterDomainBare(d, h, t) ==
  /\ life[d] = "none"
  /\ ~Taken(h, d)
  /\ Fresh(t)
  /\ life' = [life EXCEPT ![d] = "live"]
  /\ reg' = [reg EXCEPT ![d] = <<h>>]
  /\ UNCHANGED <<verified, failing, checked, published, check, walk, dirty, ghosts, faults>>

RegisterDomain(d, h, t) ==
  /\ life[d] = "none"
  /\ ~Taken(h, d)
  /\ Fresh(t)
  /\ life' = [life EXCEPT ![d] = "live"]
  /\ reg' = [reg EXCEPT ![d] = <<h, t>>]
  /\ UNCHANGED <<verified, failing, checked, published, check, walk, dirty, ghosts, faults>>

\* RenameDomain un-verifies, mints a token, forgets the checks, and broadcasts.
RenameDomain(d, h, t) ==
  /\ life[d] = "live"
  /\ ~Taken(h, d)
  /\ Fresh(t)
  /\ reg' = [reg EXCEPT ![d] = <<h, t>>]
  /\ verified' = verified \ {d}
  /\ failing' = [failing EXCEPT ![d] = None]
  /\ checked' = [checked EXCEPT ![d] = 0]
  /\ dirty' = {}
  /\ proved' = proved \ {d}
  /\ warned' = warned \ {d}
  /\ reset' = reset \cup Judging(d)
  /\ UNCHANGED <<life, published, check, walk, faults>>

\* DeleteDomain, of a row no link is on.
DeleteDomain(d) ==
  /\ life[d] = "live"
  /\ life' = [life EXCEPT ![d] = "deleted"]
  /\ dirty' = {}
  /\ UNCHANGED <<reg, verified, failing, checked, published, check, walk, ghosts, faults>>

Publish(d) ==
  /\ life[d] = "live"
  /\ reg[d] \notin published
  /\ published' = published \cup {reg[d]}
  /\ UNCHANGED <<table, check, walk, dirty, ghosts, faults>>

Withdraw(p) ==
  /\ p \in published
  /\ published' = published \ {p}
  /\ UNCHANGED <<table, check, walk, dirty, ghosts, faults>>

-----------------------------------------------------------------------------
(* The pass: ReverifyDomains under withLeadership. *)

Lead(r) ==
  /\ pc[r] = "idle"
  /\ leader = {}
  /\ leader' = {r}
  /\ Goto(r, "leading")
  /\ UNCHANGED <<table, published, row, seen, served, anchored, todo, lag, changed, dirty,
                 ghosts, faults>>

\* ORDER BY verification_checked_at NULLS FIRST, id.
Sooner(d, e) ==
  \/ checked[d] < checked[e]
  \/ checked[d] = checked[e] /\ d < e

\* q lists the first n rows of a class in that order.
FirstOf(S, n, q) ==
  /\ \A i \in DOMAIN q : q[i] \in S
  /\ \A i, j \in DOMAIN q : i < j => Sooner(q[i], q[j])
  /\ \A d \in S : (\E i \in DOMAIN q : q[i] = d)
                  \/ (Len(q) = n /\ \A i \in DOMAIN q : Sooner(q[i], d))

Serving == {d \in Domain : life[d] = "live" /\ d \in verified}
Pending == {d \in Domain : life[d] = "live" /\ d \notin verified}

\* What a query with a limit may return.
Rows(n) == UNION {[1 .. k -> Domain] : k \in 0 .. n}

\* Mutant: one queue for both classes, ordered by last check alone.
DrawServingOneQueue(r) ==
  /\ pc[r] = "leading"
  /\ \E q \in Rows(Batch) :
       /\ FirstOf(Serving \cup Pending, Batch, q)
       /\ todo' = [todo EXCEPT ![r] = q]
  /\ Goto(r, "drawing")
  /\ UNCHANGED <<table, published, row, seen, served, anchored, leader, lag, changed,
                 dirty, ghosts, faults>>

\* verificationWorkList gives the serving class what it needs of the batch ...
DrawServing(r) ==
  /\ pc[r] = "leading"
  /\ \E q \in Rows(Batch) :
       /\ FirstOf(Serving, Batch, q)
       /\ todo' = [todo EXCEPT ![r] = q]
  /\ Goto(r, "drawing")
  /\ UNCHANGED <<table, published, row, seen, served, anchored, leader, lag, changed,
                 dirty, ghosts, faults>>

\* ... and what is left of it, in a second query, to the pending class.
DrawPending(r) ==
  /\ pc[r] = "drawing"
  /\ \E q \in Rows(Batch - Len(todo[r])) :
       /\ FirstOf(Pending, Batch - Len(todo[r]), q)
       /\ todo' = [todo EXCEPT ![r] = @ \o q]
  /\ Goto(r, "walking")
  /\ UNCHANGED <<table, published, row, seen, served, anchored, leader, lag, changed,
                 dirty, ghosts, faults>>

\* The check reads row d.
Read(a, d) ==
  /\ Goto(a, "asking")
  /\ row' = [row EXCEPT ![a] = d]
  /\ seen' = [seen EXCEPT ![a] = reg[d]]
  /\ served' = IF d \in verified THEN served \cup {a} ELSE served \ {a}
  /\ anchored' = IF failing[d] # None THEN anchored \cup {a} ELSE anchored \ {a}

\* GetDomainByID for the next row of the list; a deleted one is skipped.
Take(r) ==
  /\ pc[r] = "walking"
  /\ todo[r] # <<>>
  /\ todo' = [todo EXCEPT ![r] = Tail(@)]
  /\ IF life[Head(todo[r])] = "live" THEN Read(r, Head(todo[r])) ELSE UNCHANGED check
  /\ UNCHANGED <<table, published, leader, lag, changed, dirty, ghosts, faults>>

\* One broadcast for the whole pass, if anything changed; then the unlock.
Finish(r) ==
  /\ pc[r] = "walking"
  /\ todo[r] = <<>>
  /\ dirty' = IF r \in changed THEN {} ELSE dirty
  /\ lag' = [lag EXCEPT ![r] = 0]
  /\ changed' = changed \ {r}
  /\ Goto(r, "idle")
  /\ leader' = leader \ {r}
  /\ UNCHANGED <<table, published, row, seen, served, anchored, todo, ghosts, faults>>

-----------------------------------------------------------------------------
(* One check, by a request or by the pass. *)

\* VerifyDomain reads the row.
Ask(c, d) ==
  /\ pc[c] = "idle"
  /\ life[d] = "live"
  /\ Read(c, d)
  /\ UNCHANGED <<table, published, walk, dirty, ghosts, faults>>

\* checkChallenge finds the record ...
LookupPasses(a) ==
  /\ pc[a] = "asking"
  /\ seen[a] \in published
  /\ Goto(a, "passed")
  /\ proved' = IF life[row[a]] = "live" /\ reg[row[a]] = seen[a]
               THEN proved \cup {row[a]} ELSE proved
  /\ UNCHANGED <<table, published, row, seen, served, anchored, walk, dirty, warned,
                 reset, faults>>

\* ... or it does not: no such record, another value, or a lookup that failed.
LookupFails(a) ==
  /\ pc[a] = "asking"
  /\ Goto(a, "failed")
  /\ UNCHANGED <<table, published, row, seen, served, anchored, walk, dirty, ghosts, faults>>

\* Mutant: the write addresses the row by id alone.
StillReadId(a) == life[row[a]] = "live"

\* The predicate of MarkDomainVerified and MarkDomainVerificationFailed.
StillRead(a) == life[row[a]] = "live" /\ reg[row[a]] = seen[a]

\* Where the actor goes once its row is done.
Done(a) == IF a \in Replica THEN "walking" ELSE "idle"

\* MarkDomainVerified.  A request broadcasts at once, a pass when it ends: if it
\* verified the row, or if it had read the row with a failing run.
MarkVerified(a) ==
  /\ pc[a] = "passed"
  /\ StillRead(a)
  /\ verified' = verified \cup {row[a]}
  /\ failing' = [failing EXCEPT ![row[a]] = None]
  /\ Touch(row[a])
  /\ warned' = warned \ {row[a]}
  /\ reset' = reset \cup Judging(row[a])
  /\ dirty' = IF a \in Request THEN {}
              ELSE IF row[a] \in verified THEN dirty ELSE dirty \cup {row[a]}
  /\ changed' = IF a \in Replica /\ (row[a] \notin verified \/ a \in anchored)
                THEN changed \cup {a} ELSE changed
  /\ Leave(a, Done(a))
  /\ UNCHANGED <<life, reg, published, row, leader, todo, lag,
                 proved, faults>>

\* COALESCE(verification_failing_since, now()).
Anchor(d) == IF failing[d] = None THEN 0 ELSE failing[d]

\* Mutant: a failing run is stopped however old it is.
VerdictAtOnce(r) ==
  IF r \notin served THEN "walking"
  ELSE IF r \notin anchored THEN "warn"
  ELSE "stop"

\* What a pass does after it recorded a failure: nothing for a row it read as
\* not served, a warning for the first failure of a run, a stop when the window
\* is spent.
Verdict(r) ==
  IF r \notin served THEN "walking"
  ELSE IF r \notin anchored THEN "warn"
  ELSE IF Anchor(row[r]) - lag[r] < Grace THEN "walking"
  ELSE "stop"

\* MarkDomainVerificationFailed.
MarkFailed(a) ==
  /\ pc[a] = "failed"
  /\ StillRead(a)
  /\ failing' = [failing EXCEPT ![row[a]] = Anchor(row[a])]
  /\ Touch(row[a])
  /\ Leave(a, IF a \in Replica THEN Verdict(a) ELSE "idle")
  /\ reset' = reset \ {a}
  /\ UNCHANGED <<life, reg, verified, published, row, walk,
                 dirty, proved, warned, faults>>

\* No row matched: it was renamed or deleted while the lookup was in flight.
Conflict(a) ==
  /\ pc[a] \in {"passed", "failed"}
  /\ ~StillRead(a)
  /\ Leave(a, Done(a))
  /\ UNCHANGED <<table, published, row, walk, dirty, ghosts, faults>>

\* warnDomainFailing: the first failure of a run, told by the pass.
Warn(r) ==
  /\ pc[r] = "warn"
  /\ warned' = warned \cup {row[r]}
  /\ Leave(r, "walking")
  /\ UNCHANGED <<table, published, row, walk, dirty, proved,
                 reset, faults>>

Stoppable(r) == life[row[r]] = "live" /\ row[r] \in verified

\* UnverifyDomain, addressed by id: the failing run is kept.
Stop(r) ==
  /\ pc[r] = "stop"
  /\ Stoppable(r)
  /\ verified' = verified \ {row[r]}
  /\ dirty' = dirty \cup {row[r]}
  /\ changed' = changed \cup {r}
  /\ Leave(r, "walking")
  /\ UNCHANGED <<life, reg, failing, checked, published, row,
                 leader, todo, lag, ghosts, faults>>

\* No row matched: already stopped or deleted.
StopConflict(r) ==
  /\ pc[r] = "stop"
  /\ ~Stoppable(r)
  /\ Leave(r, "walking")
  /\ UNCHANGED <<table, published, row, walk, dirty, ghosts, faults>>

-----------------------------------------------------------------------------
(* Failure and time. *)

\* A statement or a notification of one check fails; the pass goes on.
StepFails(a) ==
  /\ pc[a] \in {"passed", "failed", "warn", "stop"}
  /\ Fault
  /\ Leave(a, Done(a))
  /\ UNCHANGED <<table, published, row, walk, dirty, ghosts>>

\* The next row of the list cannot be read: the pass goes on.
ReadFails(r) ==
  /\ pc[r] = "walking"
  /\ todo[r] # <<>>
  /\ Fault
  /\ todo' = [todo EXCEPT ![r] = Tail(@)]
  /\ UNCHANGED <<table, published, check, leader, lag, changed, dirty, ghosts>>

\* The work list cannot be drawn: the pass is over.
ListFails(r) ==
  /\ pc[r] \in {"leading", "drawing"}
  /\ Fault
  /\ todo' = [todo EXCEPT ![r] = <<>>]
  /\ Goto(r, "walking")
  /\ UNCHANGED <<table, published, row, seen, served, anchored, leader, lag, changed,
                 dirty, ghosts>>

\* Mutant: the deadline returns from the pass instead of leaving the loop, and the
\* broadcast of the rows already walked is skipped.
CutOffReturns(r) ==
  /\ pc[r] = "walking"
  /\ todo[r] # <<>>
  /\ Fault
  /\ Goto(r, "idle")
  /\ todo' = [todo EXCEPT ![r] = <<>>]
  /\ lag' = [lag EXCEPT ![r] = 0]
  /\ changed' = changed \ {r}
  /\ leader' = leader \ {r}
  /\ UNCHANGED <<table, published, row, seen, served, anchored, dirty, ghosts>>

\* The run's deadline: the rest of the list is dropped.  The broadcast still goes
\* out, under a context of its own.
CutOff(r) ==
  /\ pc[r] = "walking"
  /\ todo[r] # <<>>
  /\ Fault
  /\ todo' = [todo EXCEPT ![r] = <<>>]
  /\ UNCHANGED <<table, published, check, leader, lag, changed, dirty, ghosts>>

\* The broadcast of the pass is lost with the process.
Crash(r) ==
  /\ pc[r] # "idle"
  /\ Fault
  /\ Leave(r, "idle")
  /\ todo' = [todo EXCEPT ![r] = <<>>]
  /\ lag' = [lag EXCEPT ![r] = 0]
  /\ changed' = changed \ {r}
  /\ leader' = leader \ {r}
  /\ dirty' = IF r \in changed THEN {} ELSE dirty
  /\ UNCHANGED <<table, published, row, ghosts>>

LockLost(r) ==
  /\ r \in leader
  /\ Fault
  /\ leader' = {}
  /\ UNCHANGED <<table, published, check, todo, lag, changed, dirty, ghosts>>

Running(r) == pc[r] # "idle"

\* Time passes, and no pass outlives its deadline.
Tick ==
  /\ \A r \in Replica : Running(r) => lag[r] < PassTicks
  /\ failing' = [d \in Domain |->
       IF failing[d] = None \/ failing[d] = OldestRun THEN failing[d] ELSE failing[d] + 1]
  /\ lag' = [r \in Replica |-> IF Running(r) THEN lag[r] + 1 ELSE lag[r]]
  /\ UNCHANGED <<life, reg, verified, checked, published, check, leader, todo, changed,
                 dirty, ghosts, faults>>

-----------------------------------------------------------------------------
\* What is done to row d, under a hostname of H and a token of T.
Owner(d, H, T) ==
  \/ DeleteDomain(d) \/ Publish(d)
  \/ \E h \in H, t \in T : RegisterDomain(d, h, t) \/ RenameDomain(d, h, t)

Lookup(a) == LookupPasses(a) \/ LookupFails(a)
Write(a) == MarkVerified(a) \/ MarkFailed(a) \/ Conflict(a)
Judge(r) == Warn(r) \/ Stop(r) \/ StopConflict(r)
Walk(r) == DrawServing(r) \/ DrawPending(r) \/ Take(r) \/ Finish(r)

\* A step, of which owners and requests take only those to rows of D.
Step(D, H, T) ==
  \/ \E d \in D : Owner(d, H, T) \/ \E c \in Request : Ask(c, d)
  \/ \E p \in published : Withdraw(p)
  \/ \E a \in Actor : Lookup(a) \/ Write(a) \/ StepFails(a)
  \/ \E r \in Replica :
       \/ Lead(r) \/ Walk(r) \/ Judge(r)
       \/ ReadFails(r) \/ ListFails(r) \/ CutOff(r) \/ Crash(r) \/ LockLost(r)
  \/ Tick

Next == Step(Domain, Hostname, Token)

Spec == Init /\ [][Next]_vars

\* The family keeps ticking on some replica, every lookup has a timeout, every
\* statement a deadline, and time passes: strong fairness, as with PassTicks = 0 the
\* clock moves only between passes.
Fairness ==
  /\ SF_vars(Tick)
  /\ WF_vars(\E r \in Replica : Lead(r))
  /\ \A r \in Replica : WF_vars(Walk(r) \/ Judge(r))
  /\ \A a \in Actor : WF_vars(Lookup(a) \/ Write(a))

FairSpec == Spec /\ Fairness

-----------------------------------------------------------------------------
(* Properties. *)

\* What every variable may hold.
TypeOK ==
  /\ life \in [Domain -> {"none", "live", "deleted"}]
  /\ reg \in [Domain -> Registration \cup {Nothing}]
  /\ \A d \in Domain : life[d] # "none" => reg[d] \in Registration
  /\ verified \subseteq Domain
  /\ failing \in [Domain -> None .. OldestRun]
  /\ checked \in [Domain -> 0 .. Cardinality(Domain)]
  /\ published \subseteq Registration
  /\ pc \in [Actor -> {"idle", "leading", "drawing", "walking", "asking", "passed", "failed",
                       "warn", "stop"}]
  /\ row \in [Actor -> Domain]
  /\ seen \in [Actor -> Registration \cup {Nothing}]
  /\ served \subseteq Actor
  /\ anchored \subseteq Actor
  /\ leader \subseteq Replica
  /\ todo \in [Replica -> Seq(Domain)]
  /\ lag \in [Replica -> 0 .. PassTicks]
  /\ changed \subseteq Replica
  /\ dirty \subseteq Domain
  /\ proved \subseteq Domain
  /\ warned \subseteq Domain
  /\ reset \subseteq Replica
  /\ faults \in 0 .. MaxFaults

\* "A DNS TXT record is what turns a registration into a served hostname, and
\* nothing else does": the name and token a served row carries now were found in
\* DNS, whatever renames commit while lookups are in flight.
ServedIsProved == Serving \subseteq proved

\* A pass stops a hostname only when its failing run has lasted the whole grace
\* window, unless the row was verified or renamed since the pass saw it fail.
GraceIsWhole ==
  \A r \in Replica :
    pc[r] = "stop" /\ r \notin reset => failing[row[r]] >= Grace

\* A change of what is served is broadcast by whoever made it before it is done:
\* through failed statements, a deadline and a lost lock, but not a crash.
ChangesAreAnnounced ==
  dirty = {} \/ \E r \in Replica : Running(r) /\ r \in changed

\* A served hostname whose record is gone for good stops being served, whatever
\* the churn among the registrations that are not served.
LapsedStops ==
  \A d \in Domain :
    <>[](reg[d] \notin published) => []<>(d \notin Serving)

\* Replica r's UnverifyDomain takes its row out of service.
StopsServing(r) == pc[r] = "stop" /\ pc'[r] # "stop" /\ row[r] \in verified \ verified'

\* "The owning workspace is notified at that first failure, not only at the end".
WarnedBeforeStop ==
  [][\A r \in Replica : StopsServing(r) => row[r] \in warned]_vars
=============================================================================
