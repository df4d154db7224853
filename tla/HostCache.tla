------------------------------ MODULE HostCache ------------------------------
(***************************************************************************)
(* The verified-hostname cache of every replica (internal/redirect/hosts.go)*)
(* and the part of the invalidation subscriber that feeds it                *)
(* (internal/redirect/invalidation.go).                                     *)
(*                                                                          *)
(* The verified set itself is abstracted to its version: the number of      *)
(* committed changes (verify, un-verify, rename, remove) it includes.  A    *)
(* replica that holds version v serves exactly the hostnames verified after *)
(* the v-th change.  Version 0 is the set at the start of the behaviour.    *)
(*                                                                          *)
(* Two goroutines of a replica call Reload: the worker that Refresh starts, *)
(* and an inline caller, which is the boot sequence first and the hourly    *)
(* job afterwards.                                                          *)
(***************************************************************************)
EXTENDS Naturals, FiniteSets

CONSTANTS
    Replica,        \* the processes serving redirects
    HourlyReload,   \* whether DOMAIN_VERIFY_INTERVAL > 0, so the job runs
    MaxChanges,     \* bound: changes of the verified set
    MaxFaults       \* bound: failed loads, dead replicas and lost subscriptions

ASSUME HostCacheAssumption ==
    /\ HourlyReload \in BOOLEAN
    /\ MaxChanges \in Nat /\ MaxFaults \in Nat

VARIABLES
    db,         \* version of the verified set in Postgres
    hosts,      \* [Replica -> version]: c.hosts
    ready,      \* the replicas whose c.ready is true
    pending,    \* the replicas whose c.pending is true
    running,    \* the replicas whose c.running is true
    worker,     \* [Replica -> where reloadWorker stands]
    wset,       \* [Replica -> the set the worker's Reload has loaded]
    inline,     \* [Replica -> where the boot / hourly Reload stands]
    iset,       \* [Replica -> the set the inline Reload has loaded]
    editor,     \* [Replica -> where a change to the set stands]
    edited,     \* [Replica -> the version the editor committed]
    link,       \* [Replica -> where the subscription stands]
    inbox,      \* [Replica -> kindHost messages received and not applied]
    announced,  \* history: newest version whose broadcast was published
    seen,       \* history: [Replica -> newest version ever installed]
    gaveUp,     \* history: the replicas whose last worker retired on an error
    faults

sched == <<pending, running, worker, wset>>
inl   == <<inline, iset>>
cache == <<hosts, ready, seen>>
edit  == <<db, editor, edited, announced>>
sub   == <<link, inbox>>
bounds == <<faults>>
vars == <<sched, inl, cache, edit, sub, gaveUp, bounds>>

Larger(a, b) == IF a >= b THEN a ELSE b

(***************************************************************************)
(* A process starts with nothing loaded (NewHostCache), its subscriber      *)
(* about to subscribe, and the boot sequence about to call Reload.          *)
(***************************************************************************)
Init ==
    /\ db = 0 /\ announced = 0
    /\ hosts = [r \in Replica |-> 0]
    /\ seen = [r \in Replica |-> 0]
    /\ ready = {}
    /\ pending = {}
    /\ running = {}
    /\ gaveUp = {}
    /\ worker = [r \in Replica |-> "none"]
    /\ wset = [r \in Replica |-> 0]
    /\ inline = [r \in Replica |-> "boot"]
    /\ iset = [r \in Replica |-> 0]
    /\ editor = [r \in Replica |-> "idle"]
    /\ edited = [r \in Replica |-> 0]
    /\ link = [r \in Replica |-> "closed"]
    /\ inbox = [r \in Replica |-> 0]
    /\ faults = 0

-----------------------------------------------------------------------------
(* Scheduling of the background reload.                                     *)

\* Refresh: one critical section of schedMu arms `pending` and starts a worker
\* unless one exists.
Refresh(r) ==
    /\ pending' = pending \cup {r}
    /\ running' = running \cup {r}
    /\ worker' = [worker EXCEPT ![r] = IF r \in running THEN @ ELSE "check"]
    /\ gaveUp' = gaveUp \ {r}
    /\ wset' = wset

\* Mutant: the exit decided on an earlier read of `pending`.
WorkerExitStaleCheck(r) ==
    /\ worker[r] = "check"
    /\ running' = running \ {r}
    /\ worker' = [worker EXCEPT ![r] = "none"]
    /\ UNCHANGED <<pending, wset, gaveUp, inl, cache, edit, sub, bounds>>

\* The worker's exit: nothing pending, and `running` is given up in the same
\* critical section.
WorkerExit(r) ==
    /\ worker[r] = "check" /\ r \notin pending
    /\ running' = running \ {r}
    /\ worker' = [worker EXCEPT ![r] = "none"]
    /\ UNCHANGED <<pending, wset, gaveUp, inl, cache, edit, sub, bounds>>

\* The worker consumes the arming and goes on to Reload.
WorkerTake(r) ==
    /\ worker[r] = "check" /\ r \in pending
    /\ pending' = pending \ {r}
    /\ worker' = [worker EXCEPT ![r] = "load"]
    /\ UNCHANGED <<running, wset, gaveUp, inl, cache, edit, sub, bounds>>

\* Reload's query: the whole set as Postgres holds it now.
WorkerLoad(r) ==
    /\ worker[r] = "load"
    /\ wset' = [wset EXCEPT ![r] = db]
    /\ worker' = [worker EXCEPT ![r] = "install"]
    /\ UNCHANGED <<pending, running, gaveUp, inl, cache, edit, sub, bounds>>

\* Reload's critical section of mu: whatever was loaded replaces the set.
Install(r, v) ==
    /\ hosts' = [hosts EXCEPT ![r] = v]
    /\ ready' = ready \cup {r}
    /\ seen' = [seen EXCEPT ![r] = Larger(@, v)]

WorkerInstall(r) ==
    /\ worker[r] = "install"
    /\ Install(r, wset[r])
    /\ worker' = [worker EXCEPT ![r] = "check"]
    /\ wset' = [wset EXCEPT ![r] = 0]
    /\ UNCHANGED <<pending, running, gaveUp, inl, edit, sub, bounds>>

\* A failed load re-arms `pending` and retires the worker in one section.
WorkerFail(r) ==
    /\ worker[r] = "load" /\ faults < MaxFaults
    /\ pending' = pending \cup {r}
    /\ running' = running \ {r}
    /\ worker' = [worker EXCEPT ![r] = "none"]
    /\ gaveUp' = gaveUp \cup {r}
    /\ faults' = faults + 1
    /\ UNCHANGED <<wset, inl, cache, edit, sub>>

-----------------------------------------------------------------------------
(* The inline Reload: once at boot, then from the hourly job.               *)

\* Mutant: the set is read at boot only, as before F73.
InlineLoadBootOnly(r) ==
    /\ inline[r] = "boot"
    /\ inline' = [inline EXCEPT ![r] = "install"]
    /\ iset' = [iset EXCEPT ![r] = db]
    /\ UNCHANGED <<sched, gaveUp, cache, edit, sub, bounds>>

InlineLoad(r) ==
    /\ inline[r] = "boot" \/ (inline[r] = "idle" /\ HourlyReload)
    /\ inline' = [inline EXCEPT ![r] = "install"]
    /\ iset' = [iset EXCEPT ![r] = db]
    /\ UNCHANGED <<sched, gaveUp, cache, edit, sub, bounds>>

InlineInstall(r) ==
    /\ inline[r] = "install"
    /\ Install(r, iset[r])
    /\ inline' = [inline EXCEPT ![r] = "idle"]
    /\ iset' = [iset EXCEPT ![r] = 0]
    /\ UNCHANGED <<sched, gaveUp, edit, sub, bounds>>

\* The hourly job logs a failed load and drops it; a failed boot load ends the
\* process, which is Crash.
InlineFail(r) ==
    /\ inline[r] = "idle" /\ HourlyReload /\ faults < MaxFaults
    /\ faults' = faults + 1
    /\ UNCHANGED <<sched, inl, gaveUp, cache, edit, sub>>

-----------------------------------------------------------------------------
(* A change to the verified set, and its broadcast.                         *)

\* VerifyDomain, RenameDomain, DeleteDomain, ... commit their row.
Change(r) ==
    /\ editor[r] = "idle" /\ inline[r] # "boot" /\ db < MaxChanges
    /\ db' = db + 1
    /\ editor' = [editor EXCEPT ![r] = "refresh"]
    /\ edited' = [edited EXCEPT ![r] = db + 1]
    /\ UNCHANGED <<sched, inl, gaveUp, cache, announced, sub, bounds>>

\* BroadcastHostInvalidator: local first ...
RefreshLocal(r) ==
    /\ editor[r] = "refresh"
    /\ editor' = [editor EXCEPT ![r] = "publish"]
    /\ Refresh(r)
    /\ UNCHANGED <<inl, cache, db, edited, announced, sub, bounds>>

\* ... then one message to everybody subscribed, the publisher included.
Publish(r) ==
    /\ editor[r] = "publish"
    /\ editor' = [editor EXCEPT ![r] = "idle"]
    /\ edited' = [edited EXCEPT ![r] = 0]
    /\ inbox' = [s \in Replica |->
                   IF link[s] \in {"probing", "open"} THEN inbox[s] + 1 ELSE inbox[s]]
    /\ announced' = Larger(announced, edited[r])
    /\ UNCHANGED <<sched, inl, gaveUp, cache, db, link, bounds>>

\* A publish that fails is logged and dropped.
PublishLost(r) ==
    /\ editor[r] = "publish"
    /\ editor' = [editor EXCEPT ![r] = "idle"]
    /\ edited' = [edited EXCEPT ![r] = 0]
    /\ UNCHANGED <<sched, inl, gaveUp, cache, db, announced, sub, bounds>>

-----------------------------------------------------------------------------
(* The subscriber.  link: "open" is a subscription that has answered;       *)
(* "cut" is one that no longer delivers and has not been noticed; "closed"  *)
(* is between subscriptions; "probing" has subscribed and awaits the answer.*)

\* Mutant: a message applied that never arrived.
ApplyUnguarded(r) ==
    /\ link[r] = "open"
    /\ inbox' = [inbox EXCEPT ![r] = @ - 1]
    /\ Refresh(r)
    /\ UNCHANGED <<inl, cache, edit, link, bounds>>

\* apply, kindHost.
Apply(r) ==
    /\ link[r] = "open" /\ inbox[r] > 0
    /\ inbox' = [inbox EXCEPT ![r] = @ - 1]
    /\ Refresh(r)
    /\ UNCHANGED <<inl, cache, edit, link, bounds>>

\* The connection dies or goes silent; what it would have delivered is gone.
Cut(r) ==
    /\ link[r] = "open" /\ faults < MaxFaults
    /\ link' = [link EXCEPT ![r] = "cut"]
    /\ inbox' = [inbox EXCEPT ![r] = 0]
    /\ faults' = faults + 1
    /\ UNCHANGED <<sched, inl, gaveUp, cache, edit>>

\* A failed read, or a silence the probe does not break: establish closes the
\* subscription and distrusts what is held at once.
Distrust(r) ==
    /\ link[r] = "cut"
    /\ link' = [link EXCEPT ![r] = "closed"]
    /\ Refresh(r)
    /\ UNCHANGED <<inl, cache, edit, inbox, bounds>>

Subscribe(r) ==
    /\ link[r] = "closed"
    /\ link' = [link EXCEPT ![r] = "probing"]
    /\ UNCHANGED <<sched, inl, gaveUp, cache, edit, inbox, bounds>>

\* Mutant: reconnecting without the flush of decision D20.
ProbeAnsweredNoFlush(r) ==
    /\ link[r] = "probing"
    /\ link' = [link EXCEPT ![r] = "open"]
    /\ UNCHANGED <<sched, inl, gaveUp, cache, edit, inbox, bounds>>

\* The probe is answered: the subscription was there before the flush is, so
\* nothing published in between is missed.  The answer may be a pong or a
\* message, which the probe applies; the flush that follows arms the same bit.
ProbeAnswered(r) ==
    /\ link[r] = "probing"
    /\ link' = [link EXCEPT ![r] = "open"]
    /\ \/ inbox' = inbox
       \/ inbox[r] > 0 /\ inbox' = [inbox EXCEPT ![r] = @ - 1]
    /\ Refresh(r)
    /\ UNCHANGED <<inl, cache, edit, bounds>>

ProbeFailed(r) ==
    /\ link[r] = "probing" /\ faults < MaxFaults
    /\ link' = [link EXCEPT ![r] = "closed"]
    /\ inbox' = [inbox EXCEPT ![r] = 0]
    /\ faults' = faults + 1
    /\ UNCHANGED <<sched, inl, gaveUp, cache, edit>>

\* The process ends anywhere and a new one boots.
Crash(r) ==
    /\ faults < MaxFaults
    /\ faults' = faults + 1
    /\ hosts' = [hosts EXCEPT ![r] = 0]
    /\ seen' = [seen EXCEPT ![r] = 0]
    /\ ready' = ready \ {r}
    /\ pending' = pending \ {r}
    /\ running' = running \ {r}
    /\ worker' = [worker EXCEPT ![r] = "none"]
    /\ wset' = [wset EXCEPT ![r] = 0]
    /\ gaveUp' = gaveUp \ {r}
    /\ inline' = [inline EXCEPT ![r] = "boot"]
    /\ iset' = [iset EXCEPT ![r] = 0]
    /\ editor' = [editor EXCEPT ![r] = "idle"]
    /\ edited' = [edited EXCEPT ![r] = 0]
    /\ link' = [link EXCEPT ![r] = "closed"]
    /\ inbox' = [inbox EXCEPT ![r] = 0]
    /\ UNCHANGED <<db, announced>>

-----------------------------------------------------------------------------
WorkerStep(r) ==
    WorkerExit(r) \/ WorkerTake(r) \/ WorkerLoad(r) \/ WorkerInstall(r)
        \/ WorkerFail(r)

InlineStep(r) == InlineLoad(r) \/ InlineInstall(r) \/ InlineFail(r)

EditorStep(r) == Change(r) \/ RefreshLocal(r) \/ Publish(r) \/ PublishLost(r)

SubscriberStep(r) ==
    Apply(r) \/ Cut(r) \/ Distrust(r) \/ Subscribe(r) \/ ProbeAnswered(r)
        \/ ProbeFailed(r)

Next ==
    \E r \in Replica :
        WorkerStep(r) \/ InlineStep(r) \/ EditorStep(r) \/ SubscriberStep(r)
            \/ Crash(r)

Spec == Init /\ [][Next]_vars

\* Goroutines that are runnable run; the hourly ticker keeps ticking.  Nothing
\* is assumed of the subscriber, of publishes, or of operators.
Fairness ==
    \A r \in Replica :
        /\ WF_vars(WorkerExit(r) \/ WorkerTake(r) \/ WorkerLoad(r) \/ WorkerInstall(r))
        /\ WF_vars(InlineLoad(r) \/ InlineInstall(r))

FairSpec == Spec /\ Fairness

-----------------------------------------------------------------------------
TypeOK ==
    /\ db \in Nat /\ announced \in Nat
    /\ hosts \in [Replica -> Nat] /\ seen \in [Replica -> Nat]
    /\ wset \in [Replica -> Nat] /\ iset \in [Replica -> Nat]
    /\ edited \in [Replica -> Nat] /\ inbox \in [Replica -> Nat]
    /\ ready \subseteq Replica
    /\ pending \subseteq Replica
    /\ running \subseteq Replica
    /\ gaveUp \subseteq Replica
    /\ worker \in [Replica -> {"none", "check", "load", "install"}]
    /\ inline \in [Replica -> {"boot", "idle", "install"}]
    /\ editor \in [Replica -> {"idle", "refresh", "publish"}]
    /\ link \in [Replica -> {"open", "cut", "closed", "probing"}]
    /\ faults \in Nat

\* hosts.go, the comment on schedMu: `pending` is never armed with nobody left
\* to serve it, except after a load that failed and said so.
NoStrandedArming ==
    \A r \in Replica : r \in pending => r \in running \/ r \in gaveUp

\* A replica whose subscription is open, with no message waiting and no reload
\* due, has completed a load that observed every broadcast change, whatever was
\* cut, missed while disconnected, or published during a load.
Settled(r) ==
    link[r] = "open" /\ inbox[r] = 0 /\ r \notin pending /\ r \notin running

BroadcastObserved ==
    \A r \in Replica : Settled(r) => seen[r] >= announced

\* The hourly reload is the backstop pub/sub cannot be (jobs.go, runHostReload):
\* once changes stop, every replica ends up serving the set Postgres holds,
\* whatever broadcasts were lost.
BackstopConverges ==
    \A r \in Replica : <>[](r \in ready /\ hosts[r] = db)
=============================================================================
