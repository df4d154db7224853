-------------------------- MODULE AutomationProofs --------------------------
(***************************************************************************)
(* For any replicas, editors, subjects, thresholds, caps and faults: the   *)
(* watermark never passes an unhandled occurrence that was committed       *)
(* before its instant, no occurrence is claimed twice without a stale      *)
(* re-arm, a claim reaches only what happened after the last arming, and   *)
(* the rule implements the cursor of RuleCursor.                           *)
(***************************************************************************)
EXTENDS Automation, TLAPS

Point == Nat \X Nat

\* Every clock reading a step still holds lies in the past.
ClocksBehind ==
  /\ wm[1] <= now
  /\ \A e \in Editor : patch[e].at <= now
  /\ \A r \in Replica : until[r] <= now

\* The watermark is at or after the arming, and, without a stale re-arm, at or
\* after everything claimed.
WatermarkAhead ==
  /\ ~Before(wm, armed)
  /\ regressed = {} => \A o \in claimed : ~Before(wm, o)

\* A matched batch lies after the watermark the pass listed and up to its clock,
\* and it has no gap: what lies between that watermark and one of its members
\* and was committed in time belongs to it.
BatchIsComplete ==
  \A r \in Replica : pc[r] = "matched" =>
    /\ \A o \in batch[r] : Before(snap[r], o) /\ o[1] <= until[r]
    /\ \A l \in batch[r], o \in visible \ late :
         Before(snap[r], o) /\ ~Before(l, o) => o \in batch[r]

Inv ==
  /\ TypeOK
  /\ ClocksBehind
  /\ WatermarkAhead
  /\ BatchIsComplete
  /\ NoneSkipped
  /\ AtMostOnce

-----------------------------------------------------------------------------
(* The match order is a strict total order on points. *)

\* Before is irreflexive, asymmetric and total.
LEMMA BeforeTotal ==
  ASSUME NEW a \in Point, NEW b \in Point
  PROVE  /\ ~Before(a, a)
         /\ Before(a, b) => ~Before(b, a)
         /\ (~Before(a, b) /\ ~Before(b, a)) => a = b
BY DEF Before, Point

\* Before is transitive, and so is its weak form.
LEMMA BeforeTransitive ==
  ASSUME NEW a \in Point, NEW b \in Point, NEW c \in Point
  PROVE  /\ (Before(a, b) /\ Before(b, c)) => Before(a, c)
         /\ (~Before(b, a) /\ Before(b, c)) => Before(a, c)
         /\ (Before(a, b) /\ ~Before(c, b)) => Before(a, c)
         /\ (~Before(b, a) /\ ~Before(c, b)) => ~Before(c, a)
BY DEF Before, Point

\* Occurrences and watermarks are points of the order.
LEMMA PositionsArePoints ==
  /\ Occurrence \subseteq Point
  /\ Position \subseteq Point
  /\ Time \subseteq Nat
<1>1. Time \subseteq Nat
  BY AutomationConstants DEF Time
<1>2. Subject \subseteq Nat /\ Subject \cup {Top} \subseteq Nat
  BY AutomationConstants
<1>3. \A S \in SUBSET Nat : Time \X S \subseteq Nat \X Nat
  BY <1>1
<1> QED
  BY <1>1, <1>2, <1>3 DEF Occurrence, Position, Point

\* An editor without a patch is well typed.
LEMMA NoPatchType == NoPatch \in Patch
BY AutomationConstants DEF NoPatch, Patch, Switch, Time

-----------------------------------------------------------------------------
(* Type correctness. *)

\* Every step keeps the types.
LEMMA TypeStep == TypeOK /\ [Next]_vars => TypeOK'
<1> SUFFICES ASSUME TypeOK, [Next]_vars PROVE TypeOK'
  OBVIOUS
<1> USE AutomationConstants DEF TypeOK
<1>1. ASSUME NEW s \in Subject, Vanish(s) PROVE TypeOK'
  BY <1>1 DEF Vanish, rule, pass, fired
<1>2. ASSUME NEW s \in Subject, NEW t \in Time, Stamp(s, t) PROVE TypeOK'
  BY <1>2 DEF Stamp, rule, pass, fired, Occurrence
<1>3. ASSUME NEW o \in writing, Commit(o) PROVE TypeOK'
  BY <1>3 DEF Commit, rule, pass, fired
<1>4. ASSUME NEW o \in writing, Rollback(o) PROVE TypeOK'
  BY <1>4 DEF Rollback, rule, pass, fired
<1>5. ASSUME NEW e \in Editor, NEW sw \in Switch \ {"none"}, NEW c \in Thresholds,
             PatchBegin(e, sw, c)
      PROVE  TypeOK'
  <2>1. [enabled |-> sw, at |-> now, threshold |-> c] \in Patch
    BY <1>5 DEF Patch
  <2> QED
    BY <1>5, <2>1 DEF PatchBegin, subjects, rule, pass, fired
<1>6. ASSUME NEW e \in Editor, PatchWrite(e) PROVE TypeOK'
  <2>1. patch[e] \in Patch /\ patch[e].enabled # "none"
    BY <1>6 DEF PatchWrite
  <2>2. patch[e].enabled \in Switch /\ patch[e].at \in Time /\ patch[e].threshold \in Thresholds
    BY <2>1 DEF Patch
  <2>3. <<patch[e].at, Top>> \in Position
    BY <2>2 DEF Position
  <2>4. patch' \in [Editor -> Patch]
    BY <1>6, NoPatchType DEF PatchWrite
  <2>5. wm' \in Position /\ armed' \in Position
    BY <1>6, <2>3 DEF PatchWrite
  <2>6. state' \in {"on", "off", "gone"}
    BY <1>6, <2>1, <2>2 DEF PatchWrite, Switch
  <2> QED
    BY <1>6, <2>2, <2>4, <2>5, <2>6 DEF PatchWrite, subjects, pass, fired
<1>7. ASSUME NEW e \in Editor, PatchNotFound(e) PROVE TypeOK'
  BY <1>7, NoPatchType DEF PatchNotFound, subjects, rule, pass, fired
<1>8. CASE DeleteAutomationRule
  BY <1>8 DEF DeleteAutomationRule, subjects, pass, fired
<1>9. ASSUME NEW r \in Replica, Return(r)
      PROVE  /\ pc' \in [Replica -> {"idle", "leading", "listed", "matched", "claimed"}]
             /\ until' \in [Replica -> Time]
             /\ snap' \in [Replica -> Position]
             /\ batch' \in [Replica -> SUBSET Occurrence]
             /\ leader' \subseteq Replica
  <2>1. 0 \in Time /\ <<0, Top>> \in Position
    BY DEF Time, Position
  <2> QED
    BY <1>9, <2>1 DEF Return, Goto
<1>10. ASSUME NEW r \in Replica, Lead(r) PROVE TypeOK'
  BY <1>10 DEF Lead, Goto, subjects, rule, fired
<1>11. ASSUME NEW r \in Replica, ListDue(r) PROVE TypeOK'
  BY <1>11 DEF ListDue, Goto, subjects, rule, fired
<1>12. ASSUME NEW r \in Replica, ListNone(r) \/ MatchBelow(r) \/ ClaimLost(r) \/ Act(r)
       PROVE  TypeOK'
  <2>1. Return(r) /\ UNCHANGED <<now, subjects, rule, patch, read, fired, faults>>
    BY <1>12 DEF ListNone, MatchBelow, ClaimLost, Act
  <2> QED
    BY <1>9, <2>1 DEF subjects, rule, fired
<1>13. ASSUME NEW r \in Replica, Match(r) PROVE TypeOK'
  <2>1. batch' \in [Replica -> SUBSET Occurrence]
    BY <1>13 DEF Match, Window
  <2> QED
    BY <1>13, <2>1 DEF Match, Goto, subjects, rule, fired
<1>14. ASSUME NEW r \in Replica, Advance(r)
       PROVE  /\ wm' \in Position
              /\ claimed' \subseteq Occurrence
              /\ again' \subseteq Occurrence
              /\ state' \in {"on", "off", "gone"}
              /\ threshold' \in Thresholds
              /\ armed' \in Position
              /\ regressed' \subseteq Editor
  <2>1. Occurrence \subseteq Position
    BY DEF Occurrence, Position
  <2>2. wm' \in batch[r] /\ batch[r] \subseteq Occurrence
    BY <1>14 DEF Advance
  <2> QED
    BY <1>14, <2>1, <2>2 DEF Advance
<1>15. ASSUME NEW r \in Replica, Claim(r) PROVE TypeOK'
  BY <1>14, <1>15 DEF Claim, Goto, subjects
<1>16. ASSUME Fault PROVE faults' \in 0 .. MaxFaults
  BY <1>16 DEF Fault
<1>17. ASSUME NEW r \in Replica, ClaimUnanswered(r) PROVE TypeOK'
  BY <1>9, <1>14, <1>16, <1>17 DEF ClaimUnanswered, subjects
<1>18. ASSUME NEW r \in Replica, PassFails(r) PROVE TypeOK'
  BY <1>9, <1>16, <1>18 DEF PassFails, subjects, rule, fired
<1>19. ASSUME NEW r \in Replica, Crash(r) PROVE TypeOK'
  BY <1>9, <1>16, <1>19 DEF Crash, subjects, rule, fired
<1>20. ASSUME NEW r \in Replica, LockLost(r) PROVE TypeOK'
  BY <1>16, <1>20 DEF LockLost, subjects, rule, pass, fired
<1>21. CASE Tick
  BY <1>21 DEF Tick, Time, subjects, rule, pass, fired
<1>22. CASE UNCHANGED vars
  BY <1>22 DEF vars, subjects, rule, pass, fired
<1> QED
  BY <1>1, <1>2, <1>3, <1>4, <1>5, <1>6, <1>7, <1>8, <1>10, <1>11, <1>12, <1>13,
     <1>15, <1>17, <1>18, <1>19, <1>20, <1>21, <1>22
     DEF Next, Writers, Editing, Evaluate, Failure

\* Every clock reading and the watermark stay in the past, because a pass and a
\* PATCH read the clock and a batch stops at the clock of its pass.
LEMMA ClockStep == Inv /\ [Next]_vars => ClocksBehind'
<1> SUFFICES ASSUME Inv, [Next]_vars PROVE ClocksBehind'
  OBVIOUS
<1> USE DEF Inv, ClocksBehind
<1>0. TypeOK /\ now \in Nat
  BY PositionsArePoints DEF TypeOK
<1>1. ASSUME UNCHANGED <<now, wm, patch, until>> PROVE ClocksBehind'
  BY <1>1
<1>2. ASSUME NEW e \in Editor, NEW sw \in Switch \ {"none"}, NEW c \in Thresholds,
             PatchBegin(e, sw, c)
      PROVE  ClocksBehind'
  BY <1>0, <1>2 DEF PatchBegin, rule, pass, TypeOK
<1>3. ASSUME NEW e \in Editor, PatchWrite(e) PROVE ClocksBehind'
  <2>1. <<patch[e].at, Top>>[1] <= now
    OBVIOUS
  <2>2. NoPatch.at <= now
    BY <1>0 DEF NoPatch
  <2>3. \A x \in Editor : patch'[x].at <= now
    BY <1>3, <2>2 DEF PatchWrite, TypeOK
  <2>4. wm'[1] <= now
    BY <1>3, <2>1 DEF PatchWrite
  <2> QED
    BY <1>3, <2>3, <2>4 DEF PatchWrite, pass
<1>4. ASSUME NEW e \in Editor, PatchNotFound(e) PROVE ClocksBehind'
  <2>2. NoPatch.at <= now
    BY <1>0 DEF NoPatch
  <2> QED
    BY <1>0, <1>4, <2>2 DEF PatchNotFound, rule, pass, TypeOK
<1>5. ASSUME NEW r \in Replica, Lead(r) PROVE ClocksBehind'
  BY <1>0, <1>5 DEF Lead, rule, TypeOK
<1>6. ASSUME NEW r \in Replica, Return(r), UNCHANGED <<now, wm, patch>>
      PROVE  ClocksBehind'
  BY <1>0, <1>6 DEF Return, TypeOK
<1>7. ASSUME NEW r \in Replica, Claimable(r), Advance(r) PROVE wm'[1] <= now
  <2>1. PICK l \in batch[r] : wm' = l
    BY <1>7 DEF Advance
  <2>2. l[1] <= until[r] /\ until[r] <= now
    BY <1>7, <2>1 DEF BatchIsComplete, Claimable
  <2>3. l \in Point /\ until[r] \in Nat
    BY <1>0, <2>1, PositionsArePoints DEF TypeOK
  <2>4. l[1] \in Nat
    BY <2>3 DEF Point
  <2> QED
    BY <1>0, <2>1, <2>2, <2>3, <2>4
<1>8. ASSUME NEW r \in Replica, Claim(r) PROVE ClocksBehind'
  BY <1>7, <1>8 DEF Claim
<1>9. ASSUME NEW r \in Replica, ClaimUnanswered(r) PROVE ClocksBehind'
  <2>1. wm'[1] <= now
    BY <1>7, <1>9 DEF ClaimUnanswered
  <2> QED
    BY <1>0, <1>9, <2>1 DEF ClaimUnanswered, Return, TypeOK
<1>10. CASE Tick
  <2>1. wm[1] \in Nat
    BY PositionsArePoints DEF TypeOK, Point
  <2>2. \A e \in Editor : patch[e].at \in Nat
    BY PositionsArePoints DEF TypeOK, Patch
  <2>3. \A r \in Replica : until[r] \in Nat
    BY PositionsArePoints DEF TypeOK
  <2>4. now' = now + 1 /\ UNCHANGED <<wm, patch, until>>
    BY <1>10 DEF Tick, rule, pass
  <2> QED
    BY <1>0, <2>1, <2>2, <2>3, <2>4
<1>11. ASSUME NEW r \in Replica, Evaluate(r) \/ Failure(r) PROVE ClocksBehind'
  <2>1. CASE ListDue(r) \/ Match(r) \/ LockLost(r)
    BY <1>1, <2>1 DEF ListDue, Match, LockLost, rule, pass
  <2>2. CASE ListNone(r) \/ MatchBelow(r) \/ ClaimLost(r) \/ Act(r)
    BY <1>6, <2>2 DEF ListNone, MatchBelow, ClaimLost, Act, rule
  <2>3. CASE PassFails(r) \/ Crash(r)
    BY <1>6, <2>3 DEF PassFails, Crash, rule
  <2> QED
    BY <1>8, <1>9, <1>11, <2>1, <2>2, <2>3 DEF Evaluate, Failure
<1>12. CASE Writers
  BY <1>1, <1>12 DEF Writers, Vanish, Stamp, Commit, Rollback, rule, pass
<1>13. CASE DeleteAutomationRule
  BY <1>1, <1>13 DEF DeleteAutomationRule, pass
<1>14. CASE UNCHANGED vars
  BY <1>1, <1>14 DEF vars, rule, pass
<1> QED
  BY <1>2, <1>3, <1>4, <1>5, <1>10, <1>11, <1>12, <1>13, <1>14 DEF Next, Editing

-----------------------------------------------------------------------------
(* The batch of a pass. *)

\* A match reads an initial segment of the window, and nothing committed in time
\* after it can fall inside: its instant is still to come.
LEMMA BatchStep == Inv /\ [Next]_vars => BatchIsComplete'
<1> SUFFICES ASSUME Inv, [Next]_vars, NEW q \in Replica, pc'[q] = "matched"
             PROVE  /\ \A o \in batch'[q] : Before(snap'[q], o) /\ o[1] <= until'[q]
                    /\ \A l \in batch'[q], o \in visible' \ late' :
                         Before(snap'[q], o) /\ ~Before(l, o) => o \in batch'[q]
  BY DEF BatchIsComplete
<1> DEFINE Goal == /\ \A o \in batch'[q] : Before(snap'[q], o) /\ o[1] <= until'[q]
                   /\ \A l \in batch'[q], o \in visible' \ late' :
                        Before(snap'[q], o) /\ ~Before(l, o) => o \in batch'[q]
<1>0. TypeOK /\ ClocksBehind /\ BatchIsComplete
  BY DEF Inv
<1>1. ASSUME UNCHANGED <<pc, until, snap, batch>>, visible' \ late' \subseteq visible \ late
      PROVE  Goal
  BY <1>0, <1>1 DEF BatchIsComplete
<1>2. ASSUME NEW r \in Replica, pc' = [pc EXCEPT ![r] = "idle"],
             until' = [until EXCEPT ![r] = 0], snap' = [snap EXCEPT ![r] = <<0, Top>>],
             batch' = [batch EXCEPT ![r] = {}], UNCHANGED <<visible, late>>
      PROVE  Goal
  <2>1. q # r
    BY <1>0, <1>2 DEF TypeOK
  <2>2. pc[q] = "matched" /\ until'[q] = until[q] /\ snap'[q] = snap[q] /\ batch'[q] = batch[q]
    BY <1>0, <1>2, <2>1 DEF TypeOK
  <2> QED
    BY <1>0, <1>2, <2>2 DEF BatchIsComplete
<1>3. CASE Writers
  <2>1. ASSUME NEW s \in Subject, Vanish(s) PROVE Goal
    BY <1>1, <2>1 DEF Vanish, pass
  <2>2. ASSUME NEW s \in Subject, NEW t \in Time, Stamp(s, t) PROVE Goal
    BY <1>1, <2>2 DEF Stamp, pass
  <2>3. ASSUME NEW w \in writing, Commit(w) PROVE Goal
    <3>1. UNCHANGED <<pc, until, snap, batch, now>>
      BY <2>3 DEF Commit, pass
    <3>2. pc[q] = "matched"
      BY <3>1
    <3>3. ASSUME NEW l \in batch[q], NEW o \in visible' \ late',
                 Before(snap[q], o), ~Before(l, o)
          PROVE  o \in batch[q]
      <4>1. CASE o \in visible
        <5>1. o \notin late
          BY <2>3, <3>3 DEF Commit
        <5> QED
          BY <1>0, <3>2, <3>3, <4>1, <5>1 DEF BatchIsComplete
      <4>2. CASE o = w
        <5>1. ~(w[1] <= now)
          BY <2>3, <3>3, <4>2 DEF Commit
        <5>2. l[1] <= until[q] /\ until[q] <= now
          BY <1>0, <3>2, <3>3 DEF BatchIsComplete, ClocksBehind
        <5>3. w \in Point /\ l \in Point /\ until[q] \in Nat /\ now \in Nat
          BY <1>0, <3>3, PositionsArePoints DEF TypeOK
        <5>4. w[1] \in Nat /\ l[1] \in Nat
          BY <5>3 DEF Point
        <5>5. l[1] < w[1]
          BY <5>1, <5>2, <5>3, <5>4
        <5> QED
          BY <3>3, <4>2, <5>5 DEF Before
      <4> QED
        BY <2>3, <3>3, <4>1, <4>2 DEF Commit
    <3>4. \A o \in batch[q] : Before(snap[q], o) /\ o[1] <= until[q]
      BY <1>0, <3>2 DEF BatchIsComplete
    <3> QED
      BY <3>1, <3>3, <3>4
  <2>4. ASSUME NEW w \in writing, Rollback(w) PROVE Goal
    BY <1>1, <2>4 DEF Rollback, pass
  <2> QED
    BY <1>3, <2>1, <2>2, <2>3, <2>4 DEF Writers
<1>4. CASE Editing
  <2>1. UNCHANGED <<subjects, pass>>
    BY <1>4 DEF Editing, PatchWrite, PatchNotFound, PatchBegin, DeleteAutomationRule
  <2> QED
    BY <1>1, <2>1 DEF subjects, pass
<1>5. ASSUME NEW r \in Replica, Lead(r) PROVE Goal
  <2>1. q # r /\ pc[q] = "matched"
    BY <1>0, <1>5 DEF Lead, Goto, TypeOK
  <2>2. until'[q] = until[q] /\ UNCHANGED <<snap, batch, visible, late>>
    BY <1>0, <1>5, <2>1 DEF Lead, subjects, TypeOK
  <2> QED
    BY <1>0, <2>1, <2>2 DEF BatchIsComplete
<1>6. ASSUME NEW r \in Replica, ListDue(r) PROVE Goal
  <2>1. q # r /\ pc[q] = "matched"
    BY <1>0, <1>6 DEF ListDue, Goto, TypeOK
  <2>2. snap'[q] = snap[q] /\ UNCHANGED <<until, batch, visible, late>>
    BY <1>0, <1>6, <2>1 DEF ListDue, subjects, TypeOK
  <2> QED
    BY <1>0, <2>1, <2>2 DEF BatchIsComplete
<1>7. ASSUME NEW r \in Replica, Match(r) PROVE Goal
  <2>1. UNCHANGED <<until, snap, visible, late>>
    BY <1>7 DEF Match, subjects
  <2>2. CASE q # r
    <3>1. pc[q] = "matched" /\ batch'[q] = batch[q]
      BY <1>0, <1>7, <2>2 DEF Match, Goto, TypeOK
    <3> QED
      BY <1>0, <2>1, <3>1 DEF BatchIsComplete
  <2>3. CASE q = r
    <3>1. PICK B \in SUBSET Window(q) : First(q, B) /\ batch'[q] = B
      BY <1>0, <1>7, <2>3 DEF Match, TypeOK
    <3>2. \A o \in B : Before(snap[q], o) /\ o[1] <= until[q]
      BY <3>1 DEF Window
    <3>3. ASSUME NEW l \in B, NEW o \in visible, Before(snap[q], o), ~Before(l, o)
          PROVE  o \in B
      <4>1. l \in Point /\ o \in Point /\ l[1] <= until[q] /\ until[q] \in Nat
        BY <1>0, <3>1, <3>2, <3>3, PositionsArePoints DEF Window, TypeOK
      <4>2. o[1] <= until[q]
        BY <3>3, <4>1 DEF Before, Point
      <4>3. o \in Window(q)
        BY <3>3, <4>2 DEF Window
      <4> QED
        BY <3>1, <3>3, <4>3 DEF First
    <3> QED
      BY <2>1, <3>1, <3>2, <3>3
  <2> QED
    BY <2>2, <2>3
<1>8. ASSUME NEW r \in Replica, Claim(r) PROVE Goal
  <2>1. q # r /\ pc[q] = "matched"
    BY <1>0, <1>8 DEF Claim, Goto, TypeOK
  <2>2. UNCHANGED <<until, snap, batch, visible, late>>
    BY <1>8 DEF Claim, subjects
  <2> QED
    BY <1>0, <2>1, <2>2 DEF BatchIsComplete
<1>9. ASSUME NEW r \in Replica,
             \/ ListNone(r) \/ MatchBelow(r) \/ ClaimLost(r) \/ Act(r)
             \/ ClaimUnanswered(r) \/ PassFails(r) \/ Crash(r)
      PROVE  Goal
  <2>1. Return(r) /\ UNCHANGED subjects
    BY <1>9 DEF ListNone, MatchBelow, ClaimLost, Act, ClaimUnanswered, PassFails, Crash
  <2> QED
    BY <1>2, <2>1 DEF Return, Goto, subjects
<1>10. ASSUME NEW r \in Replica, LockLost(r) PROVE Goal
  BY <1>1, <1>10 DEF LockLost, subjects, pass
<1>11. CASE Tick
  BY <1>1, <1>11 DEF Tick, subjects, pass
<1>12. CASE UNCHANGED vars
  BY <1>1, <1>12 DEF vars, subjects, pass
<1> QED
  BY <1>3, <1>4, <1>5, <1>6, <1>7, <1>8, <1>9, <1>10, <1>11, <1>12
     DEF Next, Evaluate, Failure

-----------------------------------------------------------------------------
(* The claim. *)

\* What a successful claim does to the watermark: it moves from where the pass
\* saw it to the last subject of a batch that lies after it.
LEMMA ClaimAdvances ==
  ASSUME Inv, NEW r \in Replica, Claimable(r), Advance(r)
  PROVE  /\ wm' \in batch[r] /\ wm \in Point /\ wm' \in Point
         /\ batch[r] \subseteq Point
         /\ Before(wm, wm')
         /\ \A o \in batch[r] : Before(wm, o) /\ ~Before(wm', o)
         /\ \A o \in visible \ late : Before(wm, o) /\ ~Before(wm', o) => o \in batch[r]
<1>1. TypeOK /\ BatchIsComplete /\ pc[r] = "matched" /\ wm = snap[r]
  BY DEF Inv, Claimable
<1>2. PICK l \in batch[r] : Last(batch[r], l) /\ wm' = l
  BY DEF Advance
<1>3. batch[r] \subseteq Point /\ wm \in Point
  BY <1>1, PositionsArePoints DEF TypeOK
<1>4. \A o \in batch[r] : Before(wm, o)
  BY <1>1 DEF BatchIsComplete
<1>5. \A o \in batch[r] : ~Before(l, o)
  BY <1>2, <1>3, BeforeTotal DEF Last
<1>6. \A o \in visible \ late : Before(wm, o) /\ ~Before(l, o) => o \in batch[r]
  BY <1>1, <1>2 DEF BatchIsComplete
<1> QED
  BY <1>2, <1>3, <1>4, <1>5, <1>6

\* A claim keeps the watermark ahead of the arming and of everything claimed,
\* skips nothing and repeats nothing.
LEMMA ClaimIsSound ==
  ASSUME Inv, NEW r \in Replica, Claimable(r), Advance(r), UNCHANGED subjects
  PROVE  WatermarkAhead' /\ NoneSkipped' /\ AtMostOnce'
<1>1. /\ TypeOK /\ WatermarkAhead /\ NoneSkipped /\ AtMostOnce
      /\ UNCHANGED <<visible, late, armed, regressed>>
      /\ claimed' = claimed \cup batch[r]
      /\ again' = again \cup (claimed \cap batch[r])
  BY DEF Inv, Advance, subjects
<1>2. /\ wm' \in batch[r] /\ wm \in Point /\ wm' \in Point
      /\ batch[r] \subseteq Point
      /\ Before(wm, wm')
      /\ \A o \in batch[r] : Before(wm, o) /\ ~Before(wm', o)
      /\ \A o \in visible \ late : Before(wm, o) /\ ~Before(wm', o) => o \in batch[r]
  BY ClaimAdvances
<1>3. armed \in Point /\ claimed \subseteq Point /\ visible \subseteq Point
  BY <1>1, PositionsArePoints DEF TypeOK
<1>4. ASSUME NEW a \in Point, ~Before(wm, a) PROVE ~Before(wm', a)
  BY <1>2, <1>4, BeforeTransitive
<1>5. WatermarkAhead'
  <2>1. ~Before(wm', armed)
    BY <1>1, <1>3, <1>4 DEF WatermarkAhead
  <2>2. ASSUME regressed = {}, NEW o \in claimed \cup batch[r] PROVE ~Before(wm', o)
    BY <1>1, <1>2, <1>3, <1>4, <2>2 DEF WatermarkAhead
  <2> QED
    BY <1>1, <2>1, <2>2 DEF WatermarkAhead
<1>6. NoneSkipped'
  <2>1. ASSUME NEW o \in visible \ late, Before(armed, o), ~Before(wm', o)
        PROVE  o \in claimed \cup batch[r]
    <3>1. CASE Before(wm, o)
      BY <1>2, <2>1, <3>1
    <3>2. CASE ~Before(wm, o)
      BY <1>1, <2>1, <3>2 DEF NoneSkipped
    <3> QED
      BY <3>1, <3>2
  <2> QED
    BY <1>1, <2>1 DEF NoneSkipped
<1>7. AtMostOnce'
  <2>1. ASSUME regressed = {} PROVE claimed \cap batch[r] = {}
    BY <1>1, <1>2, <2>1 DEF WatermarkAhead
  <2> QED
    BY <1>1, <2>1 DEF AtMostOnce
<1> QED
  BY <1>5, <1>6, <1>7

\* Every other step leaves the watermark or re-arms the rule, and lets in only
\* occurrences that are late or still to come.
LEMMA WatermarkStep ==
  Inv /\ [Next]_vars => WatermarkAhead' /\ NoneSkipped' /\ AtMostOnce'
<1> SUFFICES ASSUME Inv, [Next]_vars PROVE WatermarkAhead' /\ NoneSkipped' /\ AtMostOnce'
  OBVIOUS
<1> DEFINE Goal == WatermarkAhead' /\ NoneSkipped' /\ AtMostOnce'
<1>0. TypeOK /\ ClocksBehind /\ WatermarkAhead /\ NoneSkipped /\ AtMostOnce
  BY DEF Inv
<1>1. ASSUME UNCHANGED <<wm, armed, regressed, claimed, again>>,
             visible' \ late' \subseteq visible \ late
      PROVE  Goal
  BY <1>0, <1>1 DEF WatermarkAhead, NoneSkipped, AtMostOnce
<1>2. CASE Writers
  <2>1. ASSUME NEW s \in Subject, Vanish(s) PROVE Goal
    BY <1>1, <2>1 DEF Vanish, rule, fired
  <2>2. ASSUME NEW s \in Subject, NEW t \in Time, Stamp(s, t) PROVE Goal
    BY <1>1, <2>2 DEF Stamp, rule, fired
  <2>3. ASSUME NEW w \in writing, Commit(w) PROVE Goal
    <3>1. UNCHANGED <<wm, armed, regressed, claimed, again>>
      BY <2>3 DEF Commit, rule, fired
    <3>2. ASSUME NEW o \in visible' \ late', Before(armed, o), ~Before(wm, o)
          PROVE  o \in claimed
      <4>1. CASE o \in visible
        <5>1. o \notin late
          BY <2>3, <3>2 DEF Commit
        <5> QED
          BY <1>0, <3>2, <4>1, <5>1 DEF NoneSkipped
      <4>2. CASE o = w
        <5>1. ~(w[1] <= now) /\ wm[1] <= now
          BY <1>0, <2>3, <3>2, <4>2 DEF Commit, ClocksBehind
        <5>2. w \in Point /\ wm \in Point /\ now \in Nat
          BY <1>0, PositionsArePoints DEF TypeOK
        <5>3. w[1] \in Nat /\ wm[1] \in Nat
          BY <5>2 DEF Point
        <5>4. wm[1] < w[1]
          BY <5>1, <5>2, <5>3
        <5> QED
          BY <3>2, <4>2, <5>4 DEF Before
      <4> QED
        BY <2>3, <3>2, <4>1, <4>2 DEF Commit
    <3> QED
      BY <1>0, <3>1, <3>2 DEF WatermarkAhead, NoneSkipped, AtMostOnce
  <2>4. ASSUME NEW w \in writing, Rollback(w) PROVE Goal
    BY <1>1, <2>4 DEF Rollback, rule, fired
  <2> QED
    BY <1>2, <2>1, <2>2, <2>3, <2>4 DEF Writers
<1>3. ASSUME NEW e \in Editor, PatchWrite(e) PROVE Goal
  <2>1. UNCHANGED <<visible, late, claimed, again>>
    BY <1>3 DEF PatchWrite, subjects, fired
  <2>2. CASE ~Rearms(e)
    BY <1>1, <1>3, <2>1, <2>2 DEF PatchWrite
  <2>3. CASE Rearms(e)
    <3> DEFINE p == <<patch[e].at, Top>>
    <3>1. wm' = p /\ armed' = p
      BY <1>3, <2>3 DEF PatchWrite
    <3>2. p \in Point /\ wm \in Point /\ claimed \subseteq Point /\ visible \subseteq Point
      <4>1. patch[e].at \in Time
        BY <1>0 DEF TypeOK, Patch
      <4> QED
        BY <1>0, <4>1, PositionsArePoints, AutomationConstants DEF TypeOK, Position
    <3>3. regressed' = IF Before(p, wm) THEN regressed \cup {e} ELSE regressed
      BY <1>3, <2>3 DEF PatchWrite
    <3>4. regressed' = {} => (regressed = {} /\ ~Before(p, wm))
      BY <3>3
    <3>5. ASSUME regressed' = {}, NEW o \in claimed PROVE ~Before(p, o)
      BY <1>0, <3>2, <3>4, <3>5, BeforeTransitive DEF WatermarkAhead
    <3> HIDE DEF p
    <3>6. WatermarkAhead'
      BY <2>1, <3>1, <3>2, <3>5, BeforeTotal DEF WatermarkAhead
    <3>7. NoneSkipped'
      BY <2>1, <3>1 DEF NoneSkipped
    <3>8. AtMostOnce'
      BY <1>0, <2>1, <3>4 DEF AtMostOnce
    <3> QED
      BY <3>6, <3>7, <3>8
  <2> QED
    BY <2>2, <2>3
<1>4. CASE Editing
  <2>1. ASSUME NEW e \in Editor, PatchNotFound(e) PROVE Goal
    BY <1>1, <2>1 DEF PatchNotFound, subjects, rule, fired
  <2>2. ASSUME NEW e \in Editor, NEW sw \in Switch \ {"none"}, NEW c \in Thresholds,
               PatchBegin(e, sw, c)
        PROVE  Goal
    BY <1>1, <2>2 DEF PatchBegin, subjects, rule, fired
  <2>3. CASE DeleteAutomationRule
    BY <1>1, <2>3 DEF DeleteAutomationRule, subjects, fired
  <2> QED
    BY <1>3, <1>4, <2>1, <2>2, <2>3 DEF Editing
<1>5. ASSUME NEW r \in Replica, Claim(r) \/ ClaimUnanswered(r) PROVE Goal
  <2>1. Claimable(r) /\ Advance(r) /\ UNCHANGED subjects
    BY <1>5 DEF Claim, ClaimUnanswered, subjects
  <2> QED
    BY <2>1, ClaimIsSound
<1>6. ASSUME NEW r \in Replica,
             \/ Lead(r) \/ ListDue(r) \/ ListNone(r) \/ Match(r) \/ MatchBelow(r)
             \/ ClaimLost(r) \/ Act(r) \/ PassFails(r) \/ Crash(r) \/ LockLost(r)
      PROVE  Goal
  <2>1. UNCHANGED <<subjects, rule, claimed, again>>
    BY <1>6 DEF Lead, ListDue, ListNone, Match, MatchBelow, ClaimLost, Act, PassFails,
                Crash, LockLost, fired
  <2> QED
    BY <1>1, <2>1 DEF subjects, rule
<1>7. CASE Tick
  BY <1>1, <1>7 DEF Tick, subjects, rule, fired
<1>8. CASE UNCHANGED vars
  BY <1>1, <1>8 DEF vars, subjects, rule, fired
<1> QED
  BY <1>2, <1>4, <1>5, <1>6, <1>7, <1>8 DEF Next, Evaluate, Failure

-----------------------------------------------------------------------------
(* The theorems. *)

\* The invariant holds at first.
LEMMA InitInv == Init => Inv
<1> SUFFICES ASSUME Init PROVE Inv
  OBVIOUS
<1> USE AutomationConstants DEF Init
<1>1. 0 \in Time /\ <<0, Top>> \in Position /\ <<0, Top>> \in Point
  BY DEF Time, Position, Point
<1>2. TypeOK
  BY <1>1, NoPatchType DEF TypeOK
<1>3. ClocksBehind
  BY DEF ClocksBehind, NoPatch
<1>4. WatermarkAhead
  BY <1>1, BeforeTotal DEF WatermarkAhead
<1>5. BatchIsComplete /\ NoneSkipped /\ AtMostOnce
  BY DEF BatchIsComplete, NoneSkipped, AtMostOnce
<1> QED
  BY <1>2, <1>3, <1>4, <1>5 DEF Inv

\* Every step keeps the invariant.
LEMMA StepInv == Inv /\ [Next]_vars => Inv'
<1> SUFFICES ASSUME Inv, [Next]_vars PROVE Inv'
  OBVIOUS
<1>1. TypeOK'
  BY TypeStep DEF Inv
<1> QED
  BY <1>1, ClockStep, BatchStep, WatermarkStep DEF Inv

\* The inductive invariant holds of every behaviour.
THEOREM InvHolds == Spec => []Inv
  BY InitInv, StepInv, PTL DEF Spec

\* Every variable keeps its type, whatever the constants.
THEOREM TypeCorrect == Spec => []TypeOK
<1>1. Inv => TypeOK
  BY DEF Inv
<1> QED
  BY InvHolds, <1>1, PTL

\* An occurrence committed before its instant is never passed over by the
\* watermark of a rule that was armed before it (evaluateRule, resumeCursor).
THEOREM NothingIsSkipped == Spec => []NoneSkipped
<1>1. Inv => NoneSkipped
  BY DEF Inv
<1> QED
  BY InvHolds, <1>1, PTL

\* Without a stale re-arm no occurrence is claimed twice, whoever believes it
\* leads (ClaimAutomationRule).
THEOREM ClaimedAtMostOnce == Spec => []AtMostOnce
<1>1. Inv => AtMostOnce
  BY DEF Inv
<1> QED
  BY InvHolds, <1>1, PTL

\* A claim covers only occurrences after the last arming (the compare-and-set
\* fails for a pass that listed the rule before it was re-armed).
THEOREM ArmingDropsBacklog == Spec => BacklogIsDropped
<1>1. Inv /\ [Next]_vars => [\A o \in claimed' \ claimed : Before(armed, o)]_vars
  <2> SUFFICES ASSUME Inv, Next PROVE \A o \in claimed' \ claimed : Before(armed, o)
    BY DEF vars
  <2>1. ASSUME NEW r \in Replica, Claim(r) \/ ClaimUnanswered(r)
        PROVE  \A o \in claimed' \ claimed : Before(armed, o)
    <3>1. Claimable(r) /\ Advance(r)
      BY <2>1 DEF Claim, ClaimUnanswered
    <3>2. claimed' \ claimed \subseteq batch[r]
      BY <3>1 DEF Advance
    <3>3. /\ \A o \in batch[r] : Before(wm, o)
          /\ batch[r] \subseteq Point
          /\ wm \in Point
      BY <3>1, ClaimAdvances
    <3>4. armed \in Point /\ ~Before(wm, armed)
      BY PositionsArePoints DEF Inv, TypeOK, WatermarkAhead
    <3> QED
      BY <3>2, <3>3, <3>4, BeforeTransitive
  <2>2. CASE Writers \/ Editing \/ Tick
    BY <2>2 DEF Writers, Vanish, Stamp, Commit, Rollback, Editing, PatchWrite,
                PatchNotFound, PatchBegin, DeleteAutomationRule, Tick, fired
  <2>3. ASSUME NEW r \in Replica,
               \/ Lead(r) \/ ListDue(r) \/ ListNone(r) \/ Match(r) \/ MatchBelow(r)
               \/ ClaimLost(r) \/ Act(r) \/ PassFails(r) \/ Crash(r) \/ LockLost(r)
        PROVE  claimed' = claimed
    BY <2>3 DEF Lead, ListDue, ListNone, Match, MatchBelow, ClaimLost, Act, PassFails,
                Crash, LockLost, fired
  <2> QED
    BY <2>1, <2>2, <2>3 DEF Next, Evaluate, Failure
<1> QED
  BY InvHolds, <1>1, PTL DEF Spec, BacklogIsDropped

-----------------------------------------------------------------------------
(* The rule is a cursor. *)

\* The abstract cursor and the rule order occurrences alike.
LEMMA SameOrder == \A a, b : Cursor!Before(a, b) <=> Before(a, b)
BY DEF Cursor!Before, Before

\* The rule starts as the cursor starts.
LEMMA CursorInitially == Init => Cursor!Init
BY DEF Init, Cursor!Init

\* A claim, answered or not, is one firing of the cursor: it takes the batch
\* without a gap and stops at its last member.
LEMMA ClaimFires ==
  ASSUME Inv, NEW r \in Replica, Claim(r) \/ ClaimUnanswered(r)
  PROVE  Cursor!Next
<1>1. Claimable(r) /\ Advance(r) /\ UNCHANGED <<now, visible, late>>
  BY DEF Claim, ClaimUnanswered, subjects
<1>2. TypeOK /\ ClocksBehind /\ BatchIsComplete /\ pc[r] = "matched" /\ state = "on"
  BY <1>1 DEF Inv, Claimable
<1>3. /\ wm' \in batch[r]
      /\ \A o \in batch[r] : Before(wm, o) /\ ~Before(wm', o)
      /\ \A o \in visible \ late : Before(wm, o) /\ ~Before(wm', o) => o \in batch[r]
  BY <1>1, ClaimAdvances
<1>4. PICK B \in SUBSET Occurrence : B = batch[r]
  BY <1>2 DEF TypeOK
<1>5. PICK last \in Occurrence : last = wm'
  BY <1>3, <1>4
<1>6. ASSUME NEW o \in B PROVE o[1] <= now
  <2>1. o[1] <= until[r] /\ until[r] <= now
    BY <1>2, <1>4, <1>6 DEF BatchIsComplete, ClocksBehind
  <2>2. o \in Point /\ until[r] \in Nat /\ now \in Nat
    BY <1>2, <1>4, <1>6, PositionsArePoints DEF TypeOK
  <2>3. o[1] \in Nat
    BY <2>2 DEF Point
  <2> QED
    BY <2>1, <2>2, <2>3
<1>7. claimed' = claimed \cup B /\ state' = state
  BY <1>1, <1>4 DEF Advance
<1>8. last \in B /\ wm' = last
  BY <1>3, <1>4, <1>5
<1>9. \A o \in B : o[1] <= now /\ Cursor!Before(wm, o) /\ ~Cursor!Before(last, o)
  BY <1>3, <1>4, <1>5, <1>6, SameOrder
<1>10. \A o \in visible \ late :
         Cursor!Before(wm, o) /\ ~Cursor!Before(last, o) => o \in B
  BY <1>3, <1>4, <1>5, SameOrder
<1>11. Cursor!Fire(B, last)
  BY <1>1, <1>2, <1>7, <1>8, <1>9, <1>10 DEF Cursor!Fire
<1> QED
  BY <1>11 DEF Cursor!Next

\* A PATCH arms the rule, stops it, or leaves the cursor alone.
LEMMA PatchMovesCursor ==
  ASSUME Inv, NEW e \in Editor, PatchWrite(e)
  PROVE  Cursor!Next
<1>1. /\ patch[e].enabled # "none" /\ state # "gone"
      /\ UNCHANGED <<now, visible, late, claimed>>
  BY DEF PatchWrite, subjects, fired
<1>2. /\ patch[e].enabled \in Switch /\ patch[e].at \in Time /\ patch[e].at <= now
      /\ state \in {"on", "off", "gone"}
  BY DEF Inv, TypeOK, Patch, ClocksBehind
<1>3. CASE Rearms(e)
  <2>1. PICK t \in Time : t = patch[e].at
    BY <1>2
  <2>2. Cursor!Arm(t)
    BY <1>1, <1>2, <1>3, <2>1 DEF PatchWrite, Rearms, Cursor!Arm
  <2> QED
    BY <2>2 DEF Cursor!Next
<1>4. CASE ~Rearms(e)
  <2>1. wm' = wm
    BY <1>4 DEF PatchWrite
  <2>2. CASE patch[e].enabled = "off"
    <3>1. Cursor!Stop("off")
      BY <1>1, <2>1, <2>2 DEF PatchWrite, Cursor!Stop
    <3> QED
      BY <3>1 DEF Cursor!Next
  <2>3. CASE patch[e].enabled # "off"
    <3>1. state' = state
      BY <1>1, <1>2, <1>4, <2>3 DEF PatchWrite, Rearms, Switch
    <3> QED
      BY <1>1, <2>1, <3>1 DEF Cursor!Next, Cursor!vars
  <2> QED
    BY <2>2, <2>3
<1> QED
  BY <1>3, <1>4

\* Every step of the replicas, the editors and the writers is a step of the
\* cursor or leaves it alone.
LEMMA CursorStep == Inv /\ [Next]_vars => [Cursor!Next]_(Cursor!vars)
<1> SUFFICES ASSUME Inv, [Next]_vars PROVE Cursor!Next
  OBVIOUS
<1>1. ASSUME UNCHANGED <<now, visible, late, state, wm, claimed>> PROVE Cursor!Next
  BY <1>1 DEF Cursor!Next, Cursor!vars
<1>2. CASE Writers
  <2>1. ASSUME NEW s \in Subject, Vanish(s) PROVE Cursor!Next
    <3>1. PICK o \in visible : o[2] = s
      BY <2>1 DEF Vanish
    <3>2. o \in Occurrence
      BY <3>1 DEF Inv, TypeOK
    <3>3. Cursor!Vanish(o)
      BY <2>1, <3>1 DEF Vanish, rule, fired, Cursor!Vanish
    <3> QED
      BY <3>2, <3>3 DEF Cursor!Next
  <2>2. ASSUME NEW s \in Subject, NEW t \in Time, Stamp(s, t) PROVE Cursor!Next
    BY <1>1, <2>2 DEF Stamp, rule, fired
  <2>3. ASSUME NEW w \in writing, Commit(w) PROVE Cursor!Next
    <3>1. PICK o \in Occurrence : o = w
      BY DEF Inv, TypeOK
    <3>2. Cursor!Occur(o)
      BY <2>3, <3>1 DEF Commit, rule, fired, Cursor!Occur
    <3> QED
      BY <3>2 DEF Cursor!Next
  <2>4. ASSUME NEW w \in writing, Rollback(w) PROVE Cursor!Next
    BY <1>1, <2>4 DEF Rollback, rule, fired
  <2> QED
    BY <1>2, <2>1, <2>2, <2>3, <2>4 DEF Writers
<1>3. CASE Editing
  <2>1. ASSUME NEW e \in Editor, PatchNotFound(e) PROVE Cursor!Next
    BY <1>1, <2>1 DEF PatchNotFound, subjects, rule, fired
  <2>2. ASSUME NEW e \in Editor, NEW sw \in Switch \ {"none"}, NEW c \in Thresholds,
               PatchBegin(e, sw, c)
        PROVE  Cursor!Next
    BY <1>1, <2>2 DEF PatchBegin, subjects, rule, fired
  <2>3. CASE DeleteAutomationRule
    <3>1. Cursor!Stop("gone")
      BY <2>3 DEF DeleteAutomationRule, subjects, fired, Cursor!Stop
    <3> QED
      BY <3>1 DEF Cursor!Next
  <2> QED
    BY <1>3, <2>1, <2>2, <2>3, PatchMovesCursor DEF Editing
<1>4. ASSUME NEW r \in Replica,
             \/ Lead(r) \/ ListDue(r) \/ ListNone(r) \/ Match(r) \/ MatchBelow(r)
             \/ ClaimLost(r) \/ Act(r) \/ PassFails(r) \/ Crash(r) \/ LockLost(r)
      PROVE  Cursor!Next
  <2>1. UNCHANGED <<now, subjects, rule, claimed>>
    BY <1>4 DEF Lead, ListDue, ListNone, Match, MatchBelow, ClaimLost, Act, PassFails,
                Crash, LockLost, fired
  <2> QED
    BY <1>1, <2>1 DEF subjects, rule
<1>5. CASE Tick
  <2>1. Cursor!Tick
    BY <1>5 DEF Tick, subjects, rule, fired, Cursor!Tick
  <2> QED
    BY <2>1 DEF Cursor!Next
<1>6. CASE UNCHANGED vars
  BY <1>1, <1>6 DEF vars, subjects, rule, fired
<1> QED
  BY <1>2, <1>3, <1>4, <1>5, <1>6, ClaimFires DEF Next, Evaluate, Failure

\* Whatever replicas evaluate the rule, it behaves as one cursor that fires for
\* whole runs of occurrences and moves in the same step (evaluateRule,
\* ClaimAutomationRule, UpdateAutomationRule).
THEOREM RuleIsACursor == Spec => ImplementsCursor
  BY InvHolds, CursorInitially, CursorStep, PTL DEF Spec, ImplementsCursor, Cursor!Spec
=============================================================================
