-------------------------- MODULE HostCacheProofs --------------------------
(* Invariance proofs for HostCache, for any set of replicas and any bounds. *)
EXTENDS HostCache, TLAPS

\* `running` is true exactly while a worker goroutine exists.
WorkerExists == \A r \in Replica : r \in running <=> worker[r] # "none"

\* Nothing is broadcast before it is committed.
Committed ==
    /\ announced <= db
    /\ \A r \in Replica : edited[r] <= db

\* A broadcast change an open replica has not installed is still on its way:
\* a message waits, a load is due, or the set about to be installed has it.
OnItsWay(r) ==
    \/ inbox[r] > 0
    \/ r \in pending
    \/ worker[r] = "load"
    \/ worker[r] = "install" /\ wset[r] >= announced

Covered ==
    \A r \in Replica : link[r] = "open" /\ announced > seen[r] => OnItsWay(r)

IInv == TypeOK /\ WorkerExists /\ NoStrandedArming /\ Committed /\ Covered

\* The invariant holds at first.
LEMMA InitIInv == Init => IInv
  BY DEF Init, IInv, TypeOK, WorkerExists, NoStrandedArming, Committed,
         Covered, OnItsWay

\* Every step keeps the types.
LEMMA TypeStep == TypeOK /\ [Next]_vars => TypeOK'
  <1> SUFFICES ASSUME TypeOK, [Next]_vars PROVE TypeOK'
    OBVIOUS
  <1> USE DEF TypeOK
  <1>1. CASE UNCHANGED vars
    BY <1>1 DEF vars, sched, inl, cache, edit, sub, bounds
  <1>2. ASSUME NEW r \in Replica, WorkerStep(r) PROVE TypeOK'
    BY <1>2 DEF WorkerStep, WorkerExit, WorkerTake, WorkerLoad, WorkerInstall,
                WorkerFail, Install, Larger, sched, inl, cache, edit, sub, bounds
  <1>3. ASSUME NEW r \in Replica, InlineStep(r) PROVE TypeOK'
    BY <1>3 DEF InlineStep, InlineLoad, InlineInstall, InlineFail, Install,
                Larger, sched, inl, cache, edit, sub, bounds
  <1>4. ASSUME NEW r \in Replica, EditorStep(r) PROVE TypeOK'
    BY <1>4 DEF EditorStep, Change, RefreshLocal, Publish, PublishLost, Refresh,
                Larger, sched, inl, cache, edit, sub, bounds
  <1>5. ASSUME NEW r \in Replica, SubscriberStep(r) PROVE TypeOK'
    BY <1>5 DEF SubscriberStep, Apply, Cut, Distrust, Subscribe, ProbeAnswered,
                ProbeFailed, Refresh, sched, inl, cache, edit, sub, bounds
  <1>6. ASSUME NEW r \in Replica, Crash(r) PROVE TypeOK'
    BY <1>6 DEF Crash
  <1>7. QED
    BY <1>1, <1>2, <1>3, <1>4, <1>5, <1>6 DEF Next

\* Every step keeps the invariant.
LEMMA IInvStep == IInv /\ [Next]_vars => IInv'
  <1> SUFFICES ASSUME IInv, [Next]_vars PROVE IInv'
    OBVIOUS
  <1>t. TypeOK /\ TypeOK'
    BY TypeStep DEF IInv
  <1> DEFINE Rest == WorkerExists /\ NoStrandedArming /\ Committed /\ Covered
  <1> USE <1>t DEF IInv, TypeOK, WorkerExists, NoStrandedArming, Committed,
                   Covered, OnItsWay
  <1>1. CASE UNCHANGED vars
    BY <1>1 DEF vars, sched, inl, cache, edit, sub, bounds
  <1>2. ASSUME NEW r \in Replica, WorkerStep(r) PROVE Rest'
    BY <1>2 DEF WorkerStep, WorkerExit, WorkerTake, WorkerLoad, WorkerInstall,
                WorkerFail, Install, Larger, sched, inl, cache, edit, sub, bounds
  <1>3. ASSUME NEW r \in Replica, InlineStep(r) PROVE Rest'
    BY <1>3 DEF InlineStep, InlineLoad, InlineInstall, InlineFail, Install,
                Larger, sched, inl, cache, edit, sub, bounds
  <1>4. ASSUME NEW r \in Replica, EditorStep(r) PROVE Rest'
    BY <1>4 DEF EditorStep, Change, RefreshLocal, Publish, PublishLost, Refresh,
                Larger, sched, inl, cache, edit, sub, bounds
  <1>5. ASSUME NEW r \in Replica, SubscriberStep(r) PROVE Rest'
    BY <1>5 DEF SubscriberStep, Apply, Cut, Distrust, Subscribe, ProbeAnswered,
                ProbeFailed, Refresh, sched, inl, cache, edit, sub, bounds
  <1>6. ASSUME NEW r \in Replica, Crash(r) PROVE Rest'
    BY <1>6 DEF Crash
  <1>7. QED
    BY <1>1, <1>2, <1>3, <1>4, <1>5, <1>6 DEF Next

\* The inductive invariant of the reload worker (HostCache.Refresh, Reload) always holds.
THEOREM IInvHolds == Spec => []IInv
  <1>1. QED
    BY InitIInv, IInvStep, PTL DEF Spec

\* No arming is stranded: `pending` armed implies a worker, or a load that
\* failed and was logged (the argument of hosts.go for the schedMu mutex).
THEOREM ArmingNeverStranded == Spec => []NoStrandedArming
  <1>1. IInv => NoStrandedArming
    BY DEF IInv
  <1>2. QED
    BY <1>1, IInvHolds, PTL

\* A settled replica has completed a load that observed every broadcast change.
THEOREM BroadcastsAreObserved == Spec => []BroadcastObserved
  <1>1. IInv => BroadcastObserved
    BY DEF IInv, TypeOK, WorkerExists, Covered, OnItsWay, BroadcastObserved,
           Settled
  <1>2. QED
    BY <1>1, IInvHolds, PTL

\* Every step of the refresh workers, the subscribers and the editors keeps the
\* types; in particular a replica has at most one refresh worker.
THEOREM TypeCorrect == Spec => []TypeOK
  <1>1. IInv => TypeOK
    BY DEF IInv
  <1>2. QED
    BY <1>1, IInvHolds, PTL
=============================================================================
