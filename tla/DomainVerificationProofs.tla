---------------------- MODULE DomainVerificationProofs ----------------------
(***************************************************************************)
(* For any rows, hostnames, tokens, requests, replicas, windows and        *)
(* faults: a hostname is served only if the name and token its row carries *)
(* now were found in DNS, and a pass stops one only when its failing run   *)
(* has lasted the whole grace window.                                      *)
(***************************************************************************)
EXTENDS DomainVerification, FiniteSetTheorems, TLAPS

\* A check that passed and whose row still carries the pair it read is a proof of
\* that row's present registration.  This is what the predicate of
\* MarkDomainVerified buys, and what a fresh token on every rename preserves.
PassIsProof ==
  \A a \in Actor :
    pc[a] = "passed" /\ life[row[a]] = "live" /\ reg[row[a]] = seen[a] => row[a] \in proved

UnregisteredIsBlank == \A d \in Domain : life[d] = "none" => d \notin verified

Inv ==
  /\ TypeOK
  /\ UnregisteredIsBlank
  /\ PassIsProof
  /\ ServedIsProved
  /\ GraceIsWhole

-----------------------------------------------------------------------------
(* Operators. *)

\* The bounds on ages are numbers.
LEMMA NoneAndOldest == None = -1 /\ OldestRun \in Nat /\ OldestRun >= Grace
BY VerificationConstants DEF None, OldestRun

\* Touch keeps the ranks of the check times between 0 and the number of rows.
LEMMA TouchType ==
  ASSUME checked \in [Domain -> 0 .. Cardinality(Domain)], NEW d \in Domain, Touch(d)
  PROVE  checked' \in [Domain -> 0 .. Cardinality(Domain)]
<1> DEFINE later(x) == {y \in Domain \ {d} : checked[y] >= checked[x]}
<1>1. IsFiniteSet(Domain) /\ Cardinality(Domain) \in Nat
  BY VerificationConstants, FS_CardinalityType
<1>2. ASSUME NEW x \in Domain
      PROVE  Cardinality(later(x)) \in Nat /\ Cardinality(later(x)) <= Cardinality(Domain)
  <2>1. later(x) \subseteq Domain
    OBVIOUS
  <2> QED
    BY <1>1, <2>1, FS_Subset, FS_CardinalityType
<1>3. ASSUME NEW x \in Domain
      PROVE  Cardinality(Domain) - Cardinality(later(x)) \in 0 .. Cardinality(Domain)
  BY <1>1, <1>2
<1>4. 0 \in 0 .. Cardinality(Domain) /\ Cardinality(Domain) \in 0 .. Cardinality(Domain)
  BY <1>1
<1> HIDE DEF later
<1>5. checked' = [x \in Domain |->
         IF x = d THEN Cardinality(Domain)
         ELSE IF checked[x] = 0 THEN 0
         ELSE Cardinality(Domain) - Cardinality(later(x))]
  BY DEF Touch, later
<1> QED
  BY <1>3, <1>4, <1>5

\* What a query returns is a sequence of rows.
LEMMA RowsType == \A n \in Int : Rows(n) \subseteq Seq(Domain)
BY DEF Rows

-----------------------------------------------------------------------------
(* Type correctness. *)

\* The types hold at first.
LEMMA TypeInit == Init => TypeOK
<1> SUFFICES ASSUME Init PROVE TypeOK
  OBVIOUS
<1>1. Cardinality(Domain) \in Nat
  BY VerificationConstants, FS_CardinalityType
<1>2. 0 \in 0 .. Cardinality(Domain) /\ 0 \in 0 .. PassTicks /\ 0 \in 0 .. MaxFaults
  BY <1>1, VerificationConstants
<1>3. None \in None .. OldestRun
  BY NoneAndOldest
<1>4. PICK d \in Domain : row = [a \in Actor |-> d]
  BY DEF Init
<1> QED
  BY <1>2, <1>3, <1>4 DEF Init, TypeOK

\* Every step keeps the types.
LEMMA TypeStep == TypeOK /\ [Next]_vars => TypeOK'
<1> SUFFICES ASSUME TypeOK, [Next]_vars PROVE TypeOK'
  OBVIOUS
<1> USE DEF TypeOK
<1>0. /\ Replica \subseteq Actor
      /\ Request \subseteq Actor
      /\ \A l \in {"idle", "leading", "drawing", "walking", "asking", "passed", "failed",
                   "warn", "stop"}, a \in Actor :
           Goto(a, l) => pc' \in [Actor -> {"idle", "leading", "drawing", "walking", "asking",
                                            "passed", "failed", "warn", "stop"}]
  BY DEF Actor, Goto
<1>a. \A l \in {"idle", "leading", "drawing", "walking", "asking", "passed", "failed",
                "warn", "stop"}, a \in Actor :
        Leave(a, l) => /\ pc' \in [Actor -> {"idle", "leading", "drawing", "walking", "asking",
                                             "passed", "failed", "warn", "stop"}]
                       /\ seen' \in [Actor -> Registration \cup {Nothing}]
                       /\ served' \subseteq Actor
                       /\ anchored' \subseteq Actor
  BY <1>0 DEF Leave
<1>b. Fault => faults' \in 0 .. MaxFaults
  BY VerificationConstants DEF Fault
<1>c. \A a \in Actor : Done(a) \in {"walking", "idle"}
  BY DEF Done
<1>d. \A d \in Domain, a \in Actor :
        Read(a, d) => /\ pc' \in [Actor -> {"idle", "leading", "drawing", "walking", "asking",
                                            "passed", "failed", "warn", "stop"}]
                      /\ row' \in [Actor -> Domain]
                      /\ seen' \in [Actor -> Registration \cup {Nothing}]
                      /\ served' \subseteq Actor
                      /\ anchored' \subseteq Actor
  BY <1>0 DEF Read
<1>e. None \in None .. OldestRun /\ None = -1 /\ OldestRun \in Nat
  BY NoneAndOldest
<1>f. 0 \in 0 .. Cardinality(Domain) /\ 0 \in 0 .. PassTicks
  BY VerificationConstants, FS_CardinalityType
<1>g. \A d \in Domain : Anchor(d) \in None .. OldestRun
  BY <1>e DEF Anchor
<1>h. \A h \in Hostname, t \in Token : <<h, t>> \in Registration
  BY DEF Registration
<1>1. ASSUME NEW d \in Domain, NEW h \in Hostname, NEW t \in Token, RegisterDomain(d, h, t)
      PROVE  TypeOK'
  BY <1>1, <1>h DEF RegisterDomain, check, walk, ghosts
<1>2. ASSUME NEW d \in Domain, NEW h \in Hostname, NEW t \in Token, RenameDomain(d, h, t)
      PROVE  TypeOK'
  <2>1. failing' \in [Domain -> None .. OldestRun]
    BY <1>2, <1>e DEF RenameDomain
  <2>2. checked' \in [Domain -> 0 .. Cardinality(Domain)]
    BY <1>2, <1>f DEF RenameDomain
  <2>3. reset' \subseteq Replica
    BY <1>2 DEF RenameDomain, Judging
  <2> QED
    BY <1>2, <1>h, <2>1, <2>2, <2>3 DEF RenameDomain, check, walk
<1>3. ASSUME NEW d \in Domain, DeleteDomain(d) PROVE TypeOK'
  BY <1>3 DEF DeleteDomain, check, walk, ghosts
<1>4. ASSUME NEW d \in Domain, Publish(d) PROVE TypeOK'
  BY <1>4 DEF Publish, table, check, walk, ghosts
<1>5. ASSUME NEW p \in published, Withdraw(p) PROVE TypeOK'
  BY <1>5 DEF Withdraw, table, check, walk, ghosts
<1>6. ASSUME NEW c \in Request, NEW d \in Domain, Ask(c, d) PROVE TypeOK'
  BY <1>6, <1>0, <1>d DEF Ask, table, walk, ghosts
<1>7. ASSUME NEW a \in Actor, LookupPasses(a) PROVE TypeOK'
  BY <1>7, <1>0 DEF LookupPasses, table, walk
<1>8. ASSUME NEW a \in Actor, LookupFails(a) PROVE TypeOK'
  BY <1>8, <1>0 DEF LookupFails, table, walk, ghosts
<1>9. ASSUME NEW a \in Actor, MarkVerified(a) PROVE TypeOK'
  <2>1. failing' \in [Domain -> None .. OldestRun]
    BY <1>9, <1>e DEF MarkVerified
  <2>2. checked' \in [Domain -> 0 .. Cardinality(Domain)]
    BY <1>9, TouchType DEF MarkVerified
  <2>5. pc' \in [Actor -> {"idle", "leading", "drawing", "walking", "asking", "passed",
                          "failed", "warn", "stop"}]
        /\ seen' \in [Actor -> Registration \cup {Nothing}]
        /\ served' \subseteq Actor /\ anchored' \subseteq Actor
    BY <1>9, <1>a, <1>c DEF MarkVerified
  <2>6. UNCHANGED <<life, reg, published, row, leader, todo, lag, proved, faults>>
    BY <1>9 DEF MarkVerified
  <2>3. reset' \subseteq Replica /\ changed' \subseteq Replica /\ dirty' \subseteq Domain
    BY <1>9 DEF MarkVerified, Judging
  <2>4. verified' \subseteq Domain /\ warned' \subseteq Domain
    BY <1>9 DEF MarkVerified
  <2> QED
    BY <2>1, <2>2, <2>3, <2>4, <2>5, <2>6
<1>10. ASSUME NEW a \in Actor, MarkFailed(a) PROVE TypeOK'
  <2>1. failing' \in [Domain -> None .. OldestRun]
    BY <1>10, <1>g DEF MarkFailed
  <2>2. checked' \in [Domain -> 0 .. Cardinality(Domain)]
    BY <1>10, TouchType DEF MarkFailed
  <2>3. Verdict(a) \in {"walking", "warn", "stop"}
    BY DEF Verdict
  <2>4. reset' \subseteq Replica
    BY <1>10 DEF MarkFailed
  <2> QED
    BY <1>10, <1>a, <2>1, <2>2, <2>3, <2>4 DEF MarkFailed, walk
<1>11. ASSUME NEW a \in Actor, Conflict(a) PROVE TypeOK'
  BY <1>11, <1>a, <1>c DEF Conflict, table, walk, ghosts
<1>12. ASSUME NEW a \in Actor, StepFails(a) PROVE TypeOK'
  BY <1>12, <1>a, <1>b, <1>c DEF StepFails, table, walk, ghosts
<1>13. ASSUME NEW r \in Replica, Lead(r) PROVE TypeOK'
  BY <1>13, <1>0 DEF Lead, table, ghosts
<1>14. ASSUME NEW r \in Replica, DrawServing(r) PROVE TypeOK'
  <2>1. todo' \in [Replica -> Seq(Domain)]
    BY <1>14, RowsType, VerificationConstants DEF DrawServing
  <2> QED
    BY <1>14, <1>0, <2>1 DEF DrawServing, table, ghosts
<1>15. ASSUME NEW r \in Replica, DrawPending(r) PROVE TypeOK'
  <2>1. Batch - Len(todo[r]) \in Int
    BY VerificationConstants
  <2>2. PICK q \in Rows(Batch - Len(todo[r])) : todo' = [todo EXCEPT ![r] = @ \o q]
    BY <1>15 DEF DrawPending
  <2>3. q \in Seq(Domain) /\ todo[r] \in Seq(Domain)
    BY <2>1, <2>2, RowsType
  <2>4. todo[r] \o q \in Seq(Domain)
    BY <2>3
  <2>5. todo' \in [Replica -> Seq(Domain)]
    BY <2>2, <2>4
  <2> QED
    BY <1>15, <1>0, <2>5 DEF DrawPending, table, ghosts
<1>i. ASSUME NEW r \in Replica, todo[r] # <<>>
      PROVE  Head(todo[r]) \in Domain /\ Tail(todo[r]) \in Seq(Domain)
  BY <1>i
<1>16. ASSUME NEW r \in Replica, Take(r) PROVE TypeOK'
  <2>1. todo' \in [Replica -> Seq(Domain)]
    BY <1>16, <1>i DEF Take
  <2>2. CASE Read(r, Head(todo[r]))
    BY <1>16, <1>0, <1>d, <1>i, <2>1, <2>2 DEF Take, table, ghosts
  <2>3. CASE UNCHANGED check
    BY <1>16, <2>1, <2>3 DEF Take, table, ghosts, check
  <2> QED
    BY <1>16, <2>2, <2>3 DEF Take
<1>17. ASSUME NEW r \in Replica, Finish(r) PROVE TypeOK'
  BY <1>17, <1>0, <1>f DEF Finish, table, ghosts
<1>18. ASSUME NEW r \in Replica, Warn(r) PROVE TypeOK'
  BY <1>18, <1>0, <1>a DEF Warn, table, walk
<1>19. ASSUME NEW r \in Replica, Stop(r) PROVE TypeOK'
  BY <1>19, <1>0, <1>a DEF Stop, ghosts
<1>20. ASSUME NEW r \in Replica, StopConflict(r) PROVE TypeOK'
  BY <1>20, <1>0, <1>a DEF StopConflict, table, walk, ghosts
<1>21. ASSUME NEW r \in Replica, ReadFails(r) PROVE TypeOK'
  BY <1>21, <1>b, <1>i DEF ReadFails, table, check, ghosts
<1>j. <<>> \in Seq(Domain)
  OBVIOUS
<1>22. ASSUME NEW r \in Replica, ListFails(r) PROVE TypeOK'
  BY <1>22, <1>0, <1>b, <1>j DEF ListFails, table, ghosts
<1>23. ASSUME NEW r \in Replica, CutOff(r) PROVE TypeOK'
  BY <1>23, <1>b, <1>j DEF CutOff, table, check, ghosts
<1>24. ASSUME NEW r \in Replica, Crash(r) PROVE TypeOK'
  BY <1>24, <1>0, <1>a, <1>b, <1>f, <1>j DEF Crash, table, ghosts
<1>25. ASSUME NEW r \in Replica, LockLost(r) PROVE TypeOK'
  BY <1>25, <1>b DEF LockLost, table, check, ghosts
<1>26. CASE Tick
  <2>1. failing' \in [Domain -> None .. OldestRun]
    BY <1>26, <1>e DEF Tick
  <2>2. lag' \in [Replica -> 0 .. PassTicks]
    BY <1>26, VerificationConstants DEF Tick
  <2> QED
    BY <1>26, <2>1, <2>2 DEF Tick, check, ghosts
<1>27. CASE UNCHANGED vars
  BY <1>27 DEF vars, table, check, walk, ghosts
<1> QED
  BY <1>1, <1>2, <1>3, <1>4, <1>5, <1>6, <1>7, <1>8, <1>9, <1>10, <1>11, <1>12, <1>13,
     <1>14, <1>15, <1>16, <1>17, <1>18, <1>19, <1>20, <1>21, <1>22, <1>23, <1>24, <1>25,
     <1>26, <1>27
     DEF Next, Step, Owner, Lookup, Write, Walk, Judge

-----------------------------------------------------------------------------
(* Proof of control. *)

\* No step marks an unregistered row verified, serves an unproved one, or lets a
\* check outlive the registration it read.
LEMMA ProofStep ==
  TypeOK /\ UnregisteredIsBlank /\ PassIsProof /\ ServedIsProved /\ [Next]_vars
    => UnregisteredIsBlank' /\ PassIsProof' /\ ServedIsProved'
<1> SUFFICES ASSUME TypeOK, UnregisteredIsBlank, PassIsProof, ServedIsProved, [Next]_vars
             PROVE  UnregisteredIsBlank' /\ PassIsProof' /\ ServedIsProved'
  OBVIOUS
<1> DEFINE Safe == UnregisteredIsBlank /\ PassIsProof /\ ServedIsProved
<1>0. Replica \subseteq Actor /\ Request \subseteq Actor
  BY DEF Actor
<1>t. /\ life \in [Domain -> {"none", "live", "deleted"}]
      /\ reg \in [Domain -> Registration \cup {Nothing}]
      /\ pc \in [Actor -> {"idle", "leading", "drawing", "walking", "asking", "passed",
                           "failed", "warn", "stop"}]
      /\ row \in [Actor -> Domain]
      /\ seen \in [Actor -> Registration \cup {Nothing}]
      /\ verified \subseteq Domain
  BY DEF TypeOK
\* A step that leaves the table alone and moves one actor anywhere but to "passed".
<1>a. ASSUME NEW a \in Actor, NEW l, l # "passed", Goto(a, l),
             UNCHANGED <<life, reg, proved>>, verified' \subseteq verified,
             \A b \in Actor \ {a} : row'[b] = row[b] /\ seen'[b] = seen[b]
      PROVE  Safe'
  <2>1. UnregisteredIsBlank'
    BY <1>a DEF UnregisteredIsBlank
  <2>2. PassIsProof'
    BY <1>a, <1>t DEF PassIsProof, Goto
  <2>3. ServedIsProved'
    BY <1>a DEF ServedIsProved, Serving
  <2> QED
    BY <2>1, <2>2, <2>3
\* A step that touches neither the table nor any check.
<1>b. ASSUME UNCHANGED <<life, reg, verified, proved, pc, row, seen>> PROVE Safe'
  BY <1>b DEF UnregisteredIsBlank, PassIsProof, ServedIsProved, Serving
\* A fresh token is no one's that a check in flight has read.
<1>c. ASSUME NEW d \in Domain, NEW h, NEW t, Fresh(t), NEW a \in Actor, pc[a] = "passed"
      PROVE  seen[a] # <<h, t>>
  BY <1>c DEF Fresh, Nothing
<1>1. ASSUME NEW d \in Domain, NEW h \in Hostname, NEW t \in Token, RegisterDomain(d, h, t)
      PROVE  Safe'
  <2>1. life' = [life EXCEPT ![d] = "live"] /\ reg' = [reg EXCEPT ![d] = <<h, t>>]
        /\ Fresh(t) /\ life[d] = "none" /\ UNCHANGED <<verified, pc, row, seen, proved>>
    BY <1>1 DEF RegisterDomain, check, ghosts
  <2>2. UnregisteredIsBlank'
    BY <1>t, <2>1 DEF UnregisteredIsBlank
  <2>3. PassIsProof'
    <3>1. SUFFICES ASSUME NEW a \in Actor, pc[a] = "passed", life'[row[a]] = "live",
                          reg'[row[a]] = seen[a]
                   PROVE  row[a] \in proved
      BY <2>1 DEF PassIsProof
    <3>2. row[a] \in Domain
      BY <1>t
    <3>3. row[a] # d
      <4>1. reg'[d] = <<h, t>>
        BY <1>t, <2>1
      <4>2. seen[a] # <<h, t>>
        BY <1>c, <2>1, <3>1
      <4> QED
        BY <3>1, <4>1, <4>2
    <3>4. life[row[a]] = "live" /\ reg[row[a]] = seen[a]
      BY <1>t, <2>1, <3>1, <3>2, <3>3
    <3> QED
      BY <3>1, <3>4 DEF PassIsProof
  <2>4. ServedIsProved'
    BY <1>t, <2>1 DEF ServedIsProved, Serving, UnregisteredIsBlank
  <2> QED
    BY <2>2, <2>3, <2>4
<1>2. ASSUME NEW d \in Domain, NEW h \in Hostname, NEW t \in Token, RenameDomain(d, h, t)
      PROVE  Safe'
  <2>1. reg' = [reg EXCEPT ![d] = <<h, t>>] /\ verified' = verified \ {d}
        /\ proved' = proved \ {d} /\ Fresh(t) /\ UNCHANGED <<life, pc, row, seen>>
    BY <1>2 DEF RenameDomain, check
  <2>2. UnregisteredIsBlank'
    BY <2>1 DEF UnregisteredIsBlank
  <2>3. PassIsProof'
    BY <1>t, <1>c, <2>1 DEF PassIsProof
  <2>4. ServedIsProved'
    BY <2>1 DEF ServedIsProved, Serving
  <2> QED
    BY <2>2, <2>3, <2>4
<1>3. ASSUME NEW d \in Domain, DeleteDomain(d) PROVE Safe'
  <2>1. life' = [life EXCEPT ![d] = "deleted"]
        /\ UNCHANGED <<reg, verified, pc, row, seen, proved>>
    BY <1>3 DEF DeleteDomain, check, ghosts
  <2> QED
    BY <1>t, <2>1 DEF UnregisteredIsBlank, PassIsProof, ServedIsProved, Serving
<1>4. ASSUME NEW a \in Actor, LookupPasses(a) PROVE Safe'
  <2>1. /\ pc' = [pc EXCEPT ![a] = "passed"]
        /\ proved' = IF life[row[a]] = "live" /\ reg[row[a]] = seen[a]
                     THEN proved \cup {row[a]} ELSE proved
        /\ UNCHANGED <<life, reg, verified, row, seen>>
    BY <1>4 DEF LookupPasses, Goto, table
  <2> QED
    BY <1>t, <2>1 DEF UnregisteredIsBlank, PassIsProof, ServedIsProved, Serving
<1>5. ASSUME NEW a \in Actor, MarkVerified(a) PROVE Safe'
  <2>1. /\ pc[a] = "passed" /\ life[row[a]] = "live" /\ reg[row[a]] = seen[a]
        /\ verified' = verified \cup {row[a]}
        /\ pc' = [pc EXCEPT ![a] = Done(a)]
        /\ seen' = [seen EXCEPT ![a] = Nothing]
        /\ UNCHANGED <<life, reg, row, proved>>
    BY <1>5 DEF MarkVerified, StillRead, Leave, Goto
  <2>2. Done(a) # "passed"
    BY DEF Done
  <2> QED
    BY <1>t, <2>1, <2>2 DEF UnregisteredIsBlank, PassIsProof, ServedIsProved, Serving
<1>6. ASSUME NEW a \in Actor,
             LookupFails(a) \/ MarkFailed(a) \/ Conflict(a) \/ StepFails(a)
      PROVE  Safe'
  <2>1. Verdict(a) # "passed" /\ Done(a) # "passed"
    BY DEF Verdict, Done
  <2>2. \E l : l # "passed" /\ Goto(a, l)
    BY <1>6, <2>1 DEF LookupFails, MarkFailed, Conflict, StepFails, Leave
  <2>3. UNCHANGED <<life, reg, verified, proved, row>>
    BY <1>6 DEF LookupFails, MarkFailed, Conflict, StepFails, table, ghosts
  <2>4. \A b \in Actor \ {a} : seen'[b] = seen[b]
    BY <1>6, <1>t DEF LookupFails, MarkFailed, Conflict, StepFails, Leave
  <2> QED
    BY <1>a, <2>2, <2>3, <2>4
<1>7. ASSUME NEW r \in Replica,
             Lead(r) \/ DrawServing(r) \/ DrawPending(r) \/ Finish(r) \/ Warn(r) \/ Stop(r)
               \/ StopConflict(r) \/ ListFails(r) \/ Crash(r)
      PROVE  Safe'
  <2>1. \E l : l # "passed" /\ Goto(r, l)
    BY <1>7 DEF Lead, DrawServing, DrawPending, Finish, Warn, Stop, StopConflict, ListFails,
                Crash, Leave
  <2>2. UNCHANGED <<life, reg, proved, row>> /\ verified' \subseteq verified
    BY <1>7 DEF Lead, DrawServing, DrawPending, Finish, Warn, Stop, StopConflict, ListFails,
                Crash, table, ghosts
  <2>3. \A b \in Actor \ {r} : seen'[b] = seen[b]
    BY <1>7, <1>t DEF Lead, DrawServing, DrawPending, Finish, Warn, Stop, StopConflict,
                      ListFails, Crash, Leave
  <2> QED
    BY <1>0, <1>a, <2>1, <2>2, <2>3
<1>d. ASSUME NEW a \in Actor, NEW d, Read(a, d), UNCHANGED <<life, reg, verified, proved>>
      PROVE  Safe'
  <2>1. Goto(a, "asking") /\ \A b \in Actor \ {a} : row'[b] = row[b] /\ seen'[b] = seen[b]
    BY <1>d, <1>t DEF Read
  <2> QED
    BY <1>a, <1>d, <2>1
<1>8. ASSUME NEW c \in Request, NEW d \in Domain, Ask(c, d) PROVE Safe'
  BY <1>0, <1>8, <1>d DEF Ask, table, ghosts
<1>9. ASSUME NEW r \in Replica, Take(r) PROVE Safe'
  <2>1. UNCHANGED <<life, reg, verified, proved>>
    BY <1>9 DEF Take, table, ghosts
  <2>2. CASE Read(r, Head(todo[r]))
    BY <1>0, <1>d, <2>1, <2>2
  <2>3. CASE UNCHANGED check
    BY <1>b, <2>1, <2>3 DEF check
  <2> QED
    BY <1>9, <2>2, <2>3 DEF Take
<1>10. ASSUME \/ \E d \in Domain : Publish(d)
              \/ \E p \in published : Withdraw(p)
              \/ \E r \in Replica : ReadFails(r) \/ CutOff(r) \/ LockLost(r)
              \/ Tick
              \/ UNCHANGED vars
       PROVE  Safe'
  BY <1>b, <1>10
     DEF Publish, Withdraw, ReadFails, CutOff, LockLost, Tick, vars, table, check, ghosts
<1>11. Safe'
  <2> HIDE DEF Safe
  <2> QED
    BY <1>1, <1>2, <1>3, <1>4, <1>5, <1>6, <1>7, <1>8, <1>9, <1>10
       DEF Next, Step, Owner, Lookup, Write, Walk, Judge
<1> QED
  BY <1>11

-----------------------------------------------------------------------------
(* The grace window. *)

\* A pass reaches its stop with a spent window, and only a verification or a
\* rename, which `reset` records, takes a failing run back.
LEMMA GraceStep == TypeOK /\ GraceIsWhole /\ [Next]_vars => GraceIsWhole'
<1> SUFFICES ASSUME TypeOK, GraceIsWhole, [Next]_vars,
                    NEW r \in Replica, pc'[r] = "stop", r \notin reset'
             PROVE  failing'[row'[r]] >= Grace
  BY DEF GraceIsWhole
<1>0. /\ Replica \subseteq Actor
      /\ Request \subseteq Actor
      /\ Request \cap Replica = {}
      /\ Grace \in Nat
      /\ Grace > 0
  BY VerificationConstants DEF Actor
<1>t. /\ pc \in [Actor -> {"idle", "leading", "drawing", "walking", "asking", "passed",
                           "failed", "warn", "stop"}]
      /\ row \in [Actor -> Domain]
      /\ failing \in [Domain -> None .. OldestRun]
      /\ lag \in [Replica -> 0 .. PassTicks]
      /\ row[r] \in Domain
  BY <1>0 DEF TypeOK
<1>n. None = -1 /\ OldestRun \in Nat /\ OldestRun >= Grace
  BY NoneAndOldest
<1>p. failing[row[r]] \in Int /\ lag[r] \in Nat
  <2>1. failing[row[r]] \in None .. OldestRun /\ lag[r] \in 0 .. PassTicks
    BY <1>t
  <2>2. \A n \in None .. OldestRun : n \in Int
    BY <1>n
  <2>3. \A n \in 0 .. PassTicks : n \in Nat
    BY VerificationConstants
  <2> QED
    BY <2>1, <2>2, <2>3
\* The pass was there before, and its run did not get shorter.
<1>a. ASSUME pc[r] = "stop", row'[r] = row[r], r \notin reset,
             failing'[row[r]] = failing[row[r]]
      PROVE  failing'[row'[r]] >= Grace
  BY <1>a DEF GraceIsWhole
\* Someone moved, but not to "stop".
<1>b. ASSUME NEW a \in Actor, NEW l, l # "stop", Goto(a, l),
             \A b \in Actor \ {a} : row'[b] = row[b], reset \subseteq reset',
             r # a => failing'[row[r]] = failing[row[r]]
      PROVE  failing'[row'[r]] >= Grace
  <2>1. r # a
    BY <1>b, <1>0, <1>t DEF Goto
  <2>2. pc[r] = "stop" /\ row'[r] = row[r]
    BY <1>b, <1>0, <1>t, <2>1 DEF Goto
  <2> QED
    BY <1>a, <1>b, <2>1, <2>2
<1>1. ASSUME NEW d \in Domain, NEW h \in Hostname, NEW t \in Token, RenameDomain(d, h, t)
      PROVE  failing'[row'[r]] >= Grace
  <2>1. /\ failing' = [failing EXCEPT ![d] = None]
        /\ reset' = reset \cup Judging(d)
        /\ UNCHANGED <<pc, row>>
    BY <1>1 DEF RenameDomain, check
  <2>2. row[r] # d
    BY <2>1 DEF Judging
  <2> QED
    BY <1>a, <1>t, <2>1, <2>2
<1>2. ASSUME NEW a \in Actor, MarkVerified(a) PROVE failing'[row'[r]] >= Grace
  <2>1. /\ failing' = [failing EXCEPT ![row[a]] = None]
        /\ reset' = reset \cup Judging(row[a])
        /\ Goto(a, Done(a))
        /\ row' = row
    BY <1>2 DEF MarkVerified, Leave
  <2>2. Done(a) # "stop"
    BY DEF Done
  <2>3. r # a
    BY <1>0, <1>t, <2>1, <2>2 DEF Goto
  <2>4. pc[r] = "stop"
    BY <1>0, <1>t, <2>1, <2>3 DEF Goto
  <2>5. row[r] # row[a]
    BY <2>1, <2>4 DEF Judging
  <2> QED
    BY <1>a, <1>t, <2>1, <2>4, <2>5
<1>3. ASSUME NEW a \in Actor, MarkFailed(a) PROVE failing'[row'[r]] >= Grace
  <2>1. /\ failing' = [failing EXCEPT ![row[a]] = Anchor(row[a])]
        /\ reset' = reset \ {a}
        /\ Goto(a, IF a \in Replica THEN Verdict(a) ELSE "idle")
        /\ row' = row
    BY <1>3 DEF MarkFailed, Leave
  <2>2. CASE r = a
    <3>1. Verdict(r) = "stop"
      BY <1>0, <1>t, <2>1, <2>2 DEF Goto
    <3>2. ~(Anchor(row[r]) - lag[r] < Grace)
      BY <3>1 DEF Verdict
    <3>3. Anchor(row[r]) \in Int
      BY <1>p DEF Anchor
    <3>4. Anchor(row[r]) >= Grace
      BY <1>0, <1>p, <3>2, <3>3
    <3> QED
      BY <1>t, <2>1, <2>2, <3>4
  <2>3. CASE r # a
    <3>1. pc[r] = "stop" /\ r \notin reset
      BY <1>0, <1>t, <2>1, <2>3 DEF Goto
    <3>2. failing[row[r]] >= Grace
      BY <3>1 DEF GraceIsWhole
    <3>3. Anchor(row[r]) = failing[row[r]]
      BY <1>0, <1>n, <1>p, <3>2 DEF Anchor
    <3>4. failing'[row[r]] = failing[row[r]]
      BY <1>t, <2>1, <3>3
    <3> QED
      BY <1>a, <2>1, <3>1, <3>4
  <2> QED
    BY <2>2, <2>3
<1>4. ASSUME NEW a \in Actor,
             LookupPasses(a) \/ LookupFails(a) \/ Conflict(a) \/ StepFails(a)
      PROVE  failing'[row'[r]] >= Grace
  <2>1. Done(a) # "stop"
    BY DEF Done
  <2>2. \E l : l # "stop" /\ Goto(a, l)
    BY <1>4, <2>1 DEF LookupPasses, LookupFails, Conflict, StepFails, Leave
  <2>3. UNCHANGED <<failing, row, reset>>
    BY <1>4 DEF LookupPasses, LookupFails, Conflict, StepFails, table, ghosts
  <2> QED
    BY <1>b, <2>2, <2>3
<1>5. ASSUME NEW s \in Replica,
             Lead(s) \/ DrawServing(s) \/ DrawPending(s) \/ Finish(s) \/ Warn(s) \/ Stop(s)
               \/ StopConflict(s) \/ ListFails(s) \/ Crash(s)
      PROVE  failing'[row'[r]] >= Grace
  <2>1. \E l : l # "stop" /\ Goto(s, l)
    BY <1>5 DEF Lead, DrawServing, DrawPending, Finish, Warn, Stop, StopConflict, ListFails,
                Crash, Leave
  <2>2. UNCHANGED <<failing, row, reset>>
    BY <1>5 DEF Lead, DrawServing, DrawPending, Finish, Warn, Stop, StopConflict, ListFails,
                Crash, table, ghosts
  <2> QED
    BY <1>0, <1>b, <2>1, <2>2
<1>c. ASSUME NEW a \in Actor, NEW d, Read(a, d), UNCHANGED <<failing, reset>>
      PROVE  failing'[row'[r]] >= Grace
  <2>1. Goto(a, "asking") /\ \A b \in Actor \ {a} : row'[b] = row[b]
    BY <1>c, <1>t DEF Read
  <2> QED
    BY <1>b, <1>c, <2>1
<1>6. ASSUME NEW c \in Request, NEW d \in Domain, Ask(c, d)
      PROVE  failing'[row'[r]] >= Grace
  BY <1>0, <1>6, <1>c DEF Ask, table, ghosts
<1>7. ASSUME NEW s \in Replica, Take(s) PROVE failing'[row'[r]] >= Grace
  <2>1. UNCHANGED <<failing, reset>>
    BY <1>7 DEF Take, table, ghosts
  <2>2. CASE Read(s, Head(todo[s]))
    BY <1>0, <1>c, <2>1, <2>2
  <2>3. CASE UNCHANGED check
    BY <1>a, <2>1, <2>3 DEF check
  <2> QED
    BY <1>7, <2>2, <2>3 DEF Take
<1>8. CASE Tick
  <2>1. pc[r] = "stop" /\ row' = row /\ r \notin reset
    BY <1>8 DEF Tick, check, ghosts
  <2>2. failing[row[r]] >= Grace
    BY <2>1 DEF GraceIsWhole
  <2>3. failing'[row[r]] \in {failing[row[r]], failing[row[r]] + 1}
    BY <1>8, <1>t DEF Tick
  <2> QED
    BY <1>0, <1>p, <2>1, <2>2, <2>3
<1>9. ASSUME \/ \E d \in Domain, h \in Hostname, t \in Token : RegisterDomain(d, h, t)
             \/ \E d \in Domain : DeleteDomain(d) \/ Publish(d)
             \/ \E p \in published : Withdraw(p)
             \/ \E s \in Replica : ReadFails(s) \/ CutOff(s) \/ LockLost(s)
             \/ UNCHANGED vars
      PROVE  failing'[row'[r]] >= Grace
  <2>1. UNCHANGED <<failing, pc, row, reset>>
    BY <1>9 DEF RegisterDomain, DeleteDomain, Publish, Withdraw, ReadFails, CutOff, LockLost,
                vars, table, check, ghosts
  <2> QED
    BY <1>a, <2>1
<1> QED
  BY <1>1, <1>2, <1>3, <1>4, <1>5, <1>6, <1>7, <1>8, <1>9
     DEF Next, Step, Owner, Lookup, Write, Walk, Judge

-----------------------------------------------------------------------------
(* Changes are announced. *)

\* Every step leaves an unannounced change to a running pass.
LEMMA AnnounceStep == TypeOK /\ ChangesAreAnnounced /\ [Next]_vars => ChangesAreAnnounced'
<1> SUFFICES ASSUME TypeOK, ChangesAreAnnounced, [Next]_vars, dirty' # {}
             PROVE  \E r \in Replica : pc'[r] # "idle" /\ r \in changed'
  BY DEF ChangesAreAnnounced, Running
<1>t. pc \in [Actor -> {"idle", "leading", "drawing", "walking", "asking", "passed", "failed",
                        "warn", "stop"}]
  BY DEF TypeOK
<1>0. Replica \subseteq Actor /\ Request \subseteq Actor
  BY DEF Actor
\* A replica that had a change to announce, and still has a pass to announce it in.
<1>a. ASSUME dirty' = dirty, changed \subseteq changed',
             \A r \in Replica : pc[r] # "idle" => pc'[r] # "idle"
      PROVE  \E r \in Replica : pc'[r] # "idle" /\ r \in changed'
  BY <1>a DEF ChangesAreAnnounced, Running
\* Someone moved: a request anywhere, a replica within its pass.
<1>b. ASSUME NEW a \in Actor, NEW l, Goto(a, l), a \in Replica => l # "idle"
      PROVE  \A r \in Replica : pc[r] # "idle" => pc'[r] # "idle"
  BY <1>b, <1>t, <1>0 DEF Goto
<1>c. ASSUME NEW a \in Actor PROVE a \in Replica => Done(a) # "idle"
  BY DEF Done
<1>1. ASSUME NEW d \in Domain, NEW h \in Hostname, NEW t \in Token,
             RegisterDomain(d, h, t) \/ RenameDomain(d, h, t)
      PROVE  \E r \in Replica : pc'[r] # "idle" /\ r \in changed'
  <2>1. CASE RenameDomain(d, h, t)
    BY <2>1 DEF RenameDomain
  <2>2. CASE RegisterDomain(d, h, t)
    <3>1. UNCHANGED <<dirty, changed, pc>>
      BY <2>2 DEF RegisterDomain, check, walk
    <3> QED
      BY <1>a, <3>1
  <2> QED
    BY <1>1, <2>1, <2>2
<1>2. ASSUME NEW d \in Domain, DeleteDomain(d)
      PROVE  \E r \in Replica : pc'[r] # "idle" /\ r \in changed'
  BY <1>2 DEF DeleteDomain
<1>3. ASSUME NEW a \in Actor, MarkVerified(a)
      PROVE  \E r \in Replica : pc'[r] # "idle" /\ r \in changed'
  <2>1. /\ dirty' = IF a \in Request THEN {}
                    ELSE IF row[a] \in verified THEN dirty ELSE dirty \cup {row[a]}
        /\ changed' = IF a \in Replica /\ (row[a] \notin verified \/ a \in anchored)
                      THEN changed \cup {a} ELSE changed
        /\ Goto(a, Done(a))
    BY <1>3 DEF MarkVerified, Leave
  <2>2. a \notin Request /\ a \in Replica
    BY <2>1 DEF Actor
  <2>3. CASE row[a] \in verified
    <3>1. dirty' = dirty /\ changed \subseteq changed'
      BY <2>1, <2>2, <2>3
    <3> QED
      BY <1>a, <1>b, <1>c, <2>1, <3>1
  <2>4. CASE row[a] \notin verified
    <3>1. a \in changed'
      BY <2>1, <2>2, <2>4
    <3>2. pc'[a] = Done(a)
      BY <1>t, <2>1 DEF Goto
    <3> QED
      BY <1>c, <2>2, <3>1, <3>2
  <2> QED
    BY <2>3, <2>4
<1>4. ASSUME NEW a \in Actor,
             LookupPasses(a) \/ LookupFails(a) \/ Conflict(a) \/ StepFails(a) \/ MarkFailed(a)
      PROVE  \E r \in Replica : pc'[r] # "idle" /\ r \in changed'
  <2>1. UNCHANGED <<dirty, changed>>
    BY <1>4 DEF LookupPasses, LookupFails, Conflict, StepFails, MarkFailed, walk
  <2>2. a \in Replica => Verdict(a) # "idle"
    BY DEF Verdict
  <2>3. \E l : Goto(a, l) /\ (a \in Replica => l # "idle")
    BY <1>4, <1>c, <2>2 DEF LookupPasses, LookupFails, Conflict, StepFails, MarkFailed, Leave
  <2> QED
    BY <1>a, <1>b, <2>1, <2>3
<1>5. ASSUME NEW s \in Replica, Lead(s) \/ DrawServing(s) \/ DrawPending(s) \/ Warn(s)
                                  \/ StopConflict(s) \/ ListFails(s)
      PROVE  \E r \in Replica : pc'[r] # "idle" /\ r \in changed'
  <2>1. UNCHANGED <<dirty, changed>>
    BY <1>5 DEF Lead, DrawServing, DrawPending, Warn, StopConflict, ListFails, walk
  <2>2. \E l : Goto(s, l) /\ l # "idle"
    BY <1>5 DEF Lead, DrawServing, DrawPending, Warn, StopConflict, ListFails, Leave
  <2> QED
    BY <1>0, <1>a, <1>b, <2>1, <2>2
<1>6. ASSUME NEW s \in Replica, Stop(s)
      PROVE  \E r \in Replica : pc'[r] # "idle" /\ r \in changed'
  <2>1. changed' = changed \cup {s} /\ Goto(s, "walking")
    BY <1>6 DEF Stop, Leave
  <2>2. pc'[s] = "walking"
    BY <1>0, <1>t, <2>1 DEF Goto
  <2> QED
    BY <2>1, <2>2
\* A pass that ends announces its changes, and a crashed one is out of the promise.
<1>7. ASSUME NEW s \in Replica, Finish(s) \/ Crash(s)
      PROVE  \E r \in Replica : pc'[r] # "idle" /\ r \in changed'
  <2>1. /\ dirty' = IF s \in changed THEN {} ELSE dirty
        /\ changed' = changed \ {s}
        /\ Goto(s, "idle")
    BY <1>7 DEF Finish, Crash, Leave
  <2>2. s \notin changed /\ dirty # {}
    BY <2>1
  <2>3. PICK r \in Replica : pc[r] # "idle" /\ r \in changed
    BY <2>2 DEF ChangesAreAnnounced, Running
  <2>4. r # s
    BY <2>2, <2>3
  <2>5. pc'[r] = pc[r] /\ r \in changed'
    BY <1>0, <1>t, <2>1, <2>3, <2>4 DEF Goto
  <2> QED
    BY <2>3, <2>5
<1>8. ASSUME NEW s \in Replica, Take(s)
      PROVE  \E r \in Replica : pc'[r] # "idle" /\ r \in changed'
  <2>1. UNCHANGED <<dirty, changed>>
    BY <1>8 DEF Take
  <2>2. Goto(s, "asking") \/ pc' = pc
    BY <1>8 DEF Take, Read, check
  <2> QED
    BY <1>0, <1>a, <1>b, <2>1, <2>2
<1>9. ASSUME NEW c \in Request, NEW d \in Domain, Ask(c, d)
      PROVE  \E r \in Replica : pc'[r] # "idle" /\ r \in changed'
  <2>1. UNCHANGED <<dirty, changed>> /\ Goto(c, "asking")
    BY <1>9 DEF Ask, Read, walk
  <2> QED
    BY <1>0, <1>a, <1>b, <2>1
<1>10. ASSUME \/ \E d \in Domain : Publish(d)
              \/ \E p \in published : Withdraw(p)
              \/ \E s \in Replica : ReadFails(s) \/ CutOff(s) \/ LockLost(s)
              \/ Tick \/ UNCHANGED vars
       PROVE  \E r \in Replica : pc'[r] # "idle" /\ r \in changed'
  <2>1. UNCHANGED <<dirty, changed, pc>>
    BY <1>10 DEF Publish, Withdraw, ReadFails, CutOff, LockLost, Tick, vars, check, walk
  <2> QED
    BY <1>a, <2>1
<1> QED
  BY <1>1, <1>2, <1>3, <1>4, <1>5, <1>6, <1>7, <1>8, <1>9, <1>10
     DEF Next, Step, Owner, Lookup, Write, Walk, Judge

-----------------------------------------------------------------------------
(* The theorems. *)

\* The invariant holds at first.
LEMMA InvInit == Init => Inv
BY TypeInit DEF Init, Inv, UnregisteredIsBlank, PassIsProof, ServedIsProved, Serving,
                GraceIsWhole, Actor

\* The inductive invariant behind the theorems below: a check that passed is a
\* proof of what its row still is, and an unregistered row is not verified.
THEOREM InvHolds == Spec => []Inv
<1>1. Init => Inv
  BY InvInit
<1>2. Inv /\ [Next]_vars => Inv'
  BY TypeStep, ProofStep, GraceStep DEF Inv
<1> QED
  BY <1>1, <1>2, PTL DEF Spec

\* Every action of VerifyDomain, ReverifyDomains and the registration handlers
\* keeps the types of the model's variables.
THEOREM TypeCorrect == Spec => []TypeOK
BY InvHolds, PTL DEF Inv

\* Only a DNS record turns a registration into a served hostname: whatever renames
\* commit while lookups are in flight, what a served row carries now was proved.
THEOREM OnlyProvedIsServed == Spec => []ServedIsProved
BY InvHolds, PTL DEF Inv

\* ReverifyDomains stops a hostname only at the end of the whole grace window,
\* unless the row was verified or renamed since the pass saw it fail.
THEOREM WindowIsKept == Spec => []GraceIsWhole
BY InvHolds, PTL DEF Inv

\* Whoever changes what is served, request or pass, broadcasts it before it is
\* done, through failed statements, deadlines and lost locks.
THEOREM ChangesAreBroadcast == Spec => []ChangesAreAnnounced
<1>1. Init => ChangesAreAnnounced
  BY DEF Init, ChangesAreAnnounced
<1>2. TypeOK /\ ChangesAreAnnounced /\ [Next]_vars => ChangesAreAnnounced'
  BY AnnounceStep
<1> QED
  BY <1>1, <1>2, TypeCorrect, PTL DEF Spec
=============================================================================
