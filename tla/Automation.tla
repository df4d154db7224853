----------------------------- MODULE Automation -----------------------------
(***************************************************************************)
(* One automation rule and the scheduler's evaluation of it                *)
(* (internal/automation/automation.go, automation.sql, and the rule half   *)
(* in internal/link/automation.go).                                        *)
(*                                                                         *)
(* A subject (a link that expires, a budget that runs out, a refused       *)
(* destination) occurs at an instant; an occurrence is the pair            *)
(* <<time, id>>, and the match queries read occurrences in that order.     *)
(* The rule's watermark is a position in the same order, with Top for a    *)
(* NULL last_fired_subject_id (resumeCursor reads it as uuid.Max).  An     *)
(* evaluation reads the clock, the rule and the matches in three           *)
(* statements, moves the watermark by compare-and-set, and only then acts. *)
(*                                                                         *)
(* The writers are slow too: a link write validates its expiry, and a      *)
(* budget or a refusal takes its timestamp, before it commits; a PATCH of  *)
(* the rule reads the row and the clock before its UPDATE.  Rules share    *)
(* nothing but the occurrences, which no action of a rule writes, so one   *)
(* rule stands for all.  All replicas read one clock.                      *)
(***************************************************************************)
EXTENDS Integers, FiniteSets

CONSTANTS
  Replica,      \* processes running the scheduler
  Editor,       \* concurrent PATCH requests for the rule
  Subject,      \* ids of the subjects, ordered like the uuids
  Top,          \* uuid.Max
  Trigger,      \* the rule's trigger, domain.AutomationTriggers
  Thresholds,   \* what AutomationTriggerConfig.Threshold may be
  MatchLimit,   \* domain.AutomationMatchesPerRule
  MaxTime,      \* bound: the last instant of the clock
  MaxFaults     \* bound: crashes, lost locks and failed statements

Time == 0 .. MaxTime
Occurrence == Time \X Subject
Position == Time \X (Subject \cup {Top})

ASSUME AutomationConstants ==
  /\ Subject \subseteq Nat
  /\ Top \in Nat
  /\ \A s \in Subject : s < Top
  /\ Trigger \in {"link.expired", "link.max_clicks", "destination.blocked"}
  /\ MatchLimit \in Nat
  /\ Thresholds # {} /\ Thresholds \subseteq 1 .. MatchLimit
  /\ MaxTime \in Nat
  /\ MaxFaults \in Nat

VARIABLES
  now,       \* the clock
  writing,   \* occurrences of transactions that have not committed
  visible,   \* committed occurrences
  late,      \* occurrences whose transaction committed after their instant
  state,     \* the rule: "on", "off" or "gone"
  wm,        \* (last_fired_at, last_fired_subject_id)
  threshold, \* the rule's trigger_config
  patch,     \* per editor: the PATCH between its reads and its UPDATE
  leader,    \* the session holding advisoryLockKeyAutomation, if any
  pc,        \* per replica: where Evaluate stands
  until,     \* per replica: `now` of the pass
  snap,      \* per replica: the watermark the pass listed
  read,      \* per replica: the threshold the pass listed
  batch,     \* per replica: the subjects matched
  claimed,   \* every occurrence a claim has covered
  again,     \* those covered by a second claim
  armed,     \* the watermark written when the rule was last armed
  regressed, \* editors whose re-arm moved the watermark backwards
  faults

subjects == <<writing, visible, late>>
rule == <<state, wm, threshold, armed, regressed>>
pass == <<pc, until, snap, read, batch>>
fired == <<claimed, again>>
vars == <<now, subjects, rule, patch, leader, pass, fired, faults>>

\* ORDER BY event time, id.
Before(a, b) ==
  \/ a[1] < b[1]
  \/ a[1] = b[1] /\ a[2] < b[2]

Switch == {"none", "keep", "on", "off"}
Patch == [enabled : Switch, at : Time, threshold : Thresholds]
NoPatch == [enabled |-> "none", at |-> 0, threshold |-> CHOOSE c \in Thresholds : TRUE]

\* CreateAutomationRule arms the rule at its creation, with no boundary subject.
Init ==
  /\ now = 0
  /\ writing = {}
  /\ visible = {}
  /\ late = {}
  /\ state \in {"on", "off"}
  /\ wm = <<0, Top>>
  /\ threshold \in Thresholds
  /\ patch = [e \in Editor |-> NoPatch]
  /\ leader = {}
  /\ pc = [r \in Replica |-> "idle"]
  /\ until = [r \in Replica |-> 0]
  /\ snap = [r \in Replica |-> <<0, Top>>]
  /\ read = [r \in Replica |-> threshold]
  /\ batch = [r \in Replica |-> {}]
  /\ claimed = {}
  /\ again = {}
  /\ armed = <<0, Top>>
  /\ regressed = {}
  /\ faults = 0

Fault ==
  /\ faults < MaxFaults
  /\ faults' = faults + 1

-----------------------------------------------------------------------------
(* The subjects. *)

\* A write takes its instant: an expiry has to be in the future when it is
\* validated, every other subject is stamped with the present.
Stamp(s, t) ==
  /\ \A o \in writing : o[2] # s
  /\ IF Trigger = "link.expired" THEN t > now ELSE t = now
  /\ Trigger = "destination.blocked" => \A o \in visible : o[2] # s
  /\ writing' = writing \cup {<<t, s>>}
  /\ UNCHANGED <<now, visible, late, rule, patch, leader, pass, fired, faults>>

\* The write commits, replacing the instant the row had.
Commit(o) ==
  /\ o \in writing
  /\ writing' = writing \ {o}
  /\ visible' = {x \in visible : x[2] # o[2]} \cup {o}
  /\ late' = IF o[1] <= now THEN late \cup {o} ELSE late
  /\ UNCHANGED <<now, rule, patch, leader, pass, fired, faults>>

Rollback(o) ==
  /\ o \in writing
  /\ writing' = writing \ {o}
  /\ UNCHANGED <<now, visible, late, rule, patch, leader, pass, fired, faults>>

\* The link is deleted, its expiry cleared, or the record purged.
Vanish(s) ==
  /\ \E o \in visible : o[2] = s
  /\ visible' = {o \in visible : o[2] # s}
  /\ UNCHANGED <<now, writing, late, rule, patch, leader, pass, fired, faults>>

-----------------------------------------------------------------------------
(* The rule. *)

\* UpdateAutomationRule reads the rule, merges the request into it and reads
\* the clock ...
PatchBegin(e, sw, c) ==
  /\ patch[e].enabled = "none"
  /\ state # "gone"
  /\ patch' = [patch EXCEPT ![e] = [enabled |-> sw, at |-> now, threshold |-> c]]
  /\ UNCHANGED <<now, subjects, rule, leader, pass, fired, faults>>

Rearms(e) == patch[e].enabled = "on" /\ state = "off"

\* Mutant: every PATCH that says "enabled" re-arms, whatever the rule was.
PatchWriteRearms(e) ==
  /\ patch[e].enabled # "none"
  /\ state # "gone"
  /\ state' = IF patch[e].enabled = "keep" THEN state ELSE patch[e].enabled
  /\ threshold' = patch[e].threshold
  /\ wm' = IF patch[e].enabled = "on" THEN <<patch[e].at, Top>> ELSE wm
  /\ armed' = IF patch[e].enabled = "on" THEN <<patch[e].at, Top>> ELSE armed
  /\ patch' = [patch EXCEPT ![e] = NoPatch]
  /\ UNCHANGED <<now, subjects, regressed, leader, pass, fired, faults>>

\* ... and writes all of it in one UPDATE, which re-arms on the transition from
\* off to on, with both halves of the watermark.
PatchWrite(e) ==
  /\ patch[e].enabled # "none"
  /\ state # "gone"
  /\ state' = IF patch[e].enabled = "keep" THEN state ELSE patch[e].enabled
  /\ threshold' = patch[e].threshold
  /\ wm' = IF Rearms(e) THEN <<patch[e].at, Top>> ELSE wm
  /\ armed' = IF Rearms(e) THEN <<patch[e].at, Top>> ELSE armed
  /\ regressed' = IF Rearms(e) /\ Before(<<patch[e].at, Top>>, wm)
                  THEN regressed \cup {e} ELSE regressed
  /\ patch' = [patch EXCEPT ![e] = NoPatch]
  /\ UNCHANGED <<now, subjects, leader, pass, fired, faults>>

\* The rule was deleted first: no row, ErrNotFound.
PatchNotFound(e) ==
  /\ patch[e].enabled # "none"
  /\ state = "gone"
  /\ patch' = [patch EXCEPT ![e] = NoPatch]
  /\ UNCHANGED <<now, subjects, rule, leader, pass, fired, faults>>

DeleteAutomationRule ==
  /\ state # "gone"
  /\ state' = "gone"
  /\ UNCHANGED <<now, subjects, wm, threshold, armed, regressed, patch, leader, pass,
                 fired, faults>>

-----------------------------------------------------------------------------
(* Evaluate. *)

Goto(r, l) == pc' = [pc EXCEPT ![r] = l]

\* The pass is over for this rule: the lock is released, if it is still held.
Return(r) ==
  /\ Goto(r, "idle")
  /\ until' = [until EXCEPT ![r] = 0]
  /\ snap' = [snap EXCEPT ![r] = <<0, Top>>]
  /\ batch' = [batch EXCEPT ![r] = {}]
  /\ leader' = leader \ {r}

\* runAutomation under withLeadership, and the clock the whole pass uses.
Lead(r) ==
  /\ pc[r] = "idle"
  /\ leader = {}
  /\ leader' = {r}
  /\ until' = [until EXCEPT ![r] = now]
  /\ Goto(r, "leading")
  /\ UNCHANGED <<now, subjects, rule, patch, snap, read, batch, fired, faults>>

\* ListDueAutomationRules: enabled rules only.
ListDue(r) ==
  /\ pc[r] = "leading"
  /\ state = "on"
  /\ snap' = [snap EXCEPT ![r] = wm]
  /\ read' = [read EXCEPT ![r] = threshold]
  /\ Goto(r, "listed")
  /\ UNCHANGED <<now, subjects, rule, patch, leader, until, batch, fired, faults>>

ListNone(r) ==
  /\ pc[r] = "leading"
  /\ state # "on"
  /\ Return(r)
  /\ UNCHANGED <<now, subjects, rule, patch, read, fired, faults>>

\* Mutant: the boundary instant is taken to be fully handled (expires_at > after).
WindowByInstant(r) == {o \in visible : snap[r][1] < o[1] /\ o[1] <= until[r]}

\* The match window: strictly after the watermark, up to the clock of the pass.
Window(r) == {o \in visible : Before(snap[r], o) /\ o[1] <= until[r]}

\* ORDER BY .. LIMIT: the first MatchLimit occurrences of the window.
First(r, B) ==
  /\ B \subseteq Window(r)
  /\ Cardinality(B) <= MatchLimit
  /\ B # Window(r) => Cardinality(B) = MatchLimit
  /\ \A o \in B, x \in Window(r) \ B : Before(o, x)

\* match, with the threshold reached.
Match(r) ==
  /\ pc[r] = "listed"
  /\ \E B \in SUBSET Window(r) :
       /\ First(r, B)
       /\ Cardinality(B) >= read[r]
       /\ batch' = [batch EXCEPT ![r] = B]
  /\ Goto(r, "matched")
  /\ UNCHANGED <<now, subjects, rule, patch, leader, until, snap, read, fired, faults>>

\* Mutant: the watermark moves past what was too little to fire for.
MatchBelowSpends(r) ==
  /\ pc[r] = "listed"
  /\ Cardinality(Window(r)) < read[r]
  /\ wm' = IF wm = snap[r] THEN <<until[r], Top>> ELSE wm
  /\ Return(r)
  /\ UNCHANGED <<now, subjects, state, threshold, armed, regressed, patch, read,
                 fired, faults>>

\* Below the threshold nothing moves: what matched is counted again next time.
MatchBelow(r) ==
  /\ pc[r] = "listed"
  /\ Cardinality(Window(r)) < read[r]
  /\ Return(r)
  /\ UNCHANGED <<now, subjects, rule, patch, read, fired, faults>>

\* The last subject of a batch in match order.
Last(B, l) == l \in B /\ \A o \in B : o # l => Before(o, l)

\* Mutant: the watermark moves to the clock of the pass.
AdvanceToClock(r) ==
  /\ wm' = <<until[r], Top>>
  /\ claimed' = claimed \cup batch[r]
  /\ again' = again \cup (claimed \cap batch[r])
  /\ UNCHANGED <<state, threshold, armed, regressed>>

Advance(r) ==
  /\ \E l \in batch[r] : Last(batch[r], l) /\ wm' = l
  /\ claimed' = claimed \cup batch[r]
  /\ again' = again \cup (claimed \cap batch[r])
  /\ UNCHANGED <<state, threshold, armed, regressed>>

\* Mutant: the claim checks that the rule is enabled and nothing more.
ClaimableBlind(r) == pc[r] = "matched" /\ state = "on"

\* Mutant: the subject half is compared with =, which a NULL never satisfies.
ClaimableNotNull(r) ==
  pc[r] = "matched" /\ state = "on" /\ wm = snap[r] /\ wm[2] # Top

\* ClaimAutomationRule's predicate.
Claimable(r) == pc[r] = "matched" /\ state = "on" /\ wm = snap[r]

Claim(r) ==
  /\ Claimable(r)
  /\ Advance(r)
  /\ Goto(r, "claimed")
  /\ UNCHANGED <<now, subjects, patch, leader, until, snap, read, batch, faults>>

\* No row matched: somebody else fired the rule, or it was switched off.
ClaimLost(r) ==
  /\ pc[r] = "matched"
  /\ ~Claimable(r)
  /\ Return(r)
  /\ UNCHANGED <<now, subjects, rule, patch, read, fired, faults>>

\* The claim commits and its answer is lost: evaluateRule returns the error.
ClaimUnanswered(r) ==
  /\ Claimable(r)
  /\ Fault
  /\ Advance(r)
  /\ Return(r)
  /\ UNCHANGED <<now, subjects, patch, read>>

\* act: every action is tried, whichever of them fail, and none of them writes
\* what a trigger reads: ArchiveByRule leaves expires_at alone.
Act(r) ==
  /\ pc[r] = "claimed"
  /\ Return(r)
  /\ UNCHANGED <<now, subjects, rule, patch, read, fired, faults>>

-----------------------------------------------------------------------------
(* Failure and time. *)

\* A statement before the claim fails, or the run's deadline cuts it off.
PassFails(r) ==
  /\ pc[r] \in {"leading", "listed", "matched"}
  /\ Fault
  /\ Return(r)
  /\ UNCHANGED <<now, subjects, rule, patch, read, fired>>

\* The process dies; its session's lock goes with it, and so does a firing that
\* was claimed and not yet carried out.
Crash(r) ==
  /\ pc[r] # "idle"
  /\ Fault
  /\ Return(r)
  /\ UNCHANGED <<now, subjects, rule, patch, read, fired>>

\* The lock connection dies while the pass works on others.
LockLost(r) ==
  /\ r \in leader
  /\ Fault
  /\ leader' = {}
  /\ UNCHANGED <<now, subjects, rule, patch, pass, fired>>

Tick ==
  /\ now < MaxTime
  /\ now' = now + 1
  /\ UNCHANGED <<subjects, rule, patch, leader, pass, fired, faults>>

-----------------------------------------------------------------------------
Writers ==
  \/ \E s \in Subject : Vanish(s) \/ \E t \in Time : Stamp(s, t)
  \/ \E o \in writing : Commit(o) \/ Rollback(o)

Editing ==
  \/ \E e \in Editor :
       \/ PatchWrite(e) \/ PatchNotFound(e)
       \/ \E sw \in Switch \ {"none"}, c \in Thresholds : PatchBegin(e, sw, c)
  \/ DeleteAutomationRule

Evaluate(r) ==
  \/ ListDue(r) \/ ListNone(r) \/ Match(r) \/ MatchBelow(r)
  \/ Claim(r) \/ ClaimLost(r) \/ Act(r)

Failure(r) == ClaimUnanswered(r) \/ PassFails(r) \/ Crash(r) \/ LockLost(r)

Next ==
  \/ Writers
  \/ Editing
  \/ \E r \in Replica : Lead(r) \/ Evaluate(r) \/ Failure(r)
  \/ Tick

Spec == Init /\ [][Next]_vars

\* The family's goroutine keeps ticking on some replica, statements end by their
\* deadline, and time passes.
Fairness ==
  /\ WF_vars(Tick)
  /\ WF_vars(\E r \in Replica : Lead(r))
  /\ \A r \in Replica : WF_vars(Evaluate(r))

FairSpec == Spec /\ Fairness

-----------------------------------------------------------------------------
(* Properties. *)

\* What every variable may hold.
TypeOK ==
  /\ now \in Time
  /\ writing \subseteq Occurrence
  /\ visible \subseteq Occurrence
  /\ late \subseteq Occurrence
  /\ state \in {"on", "off", "gone"}
  /\ wm \in Position
  /\ threshold \in Thresholds
  /\ patch \in [Editor -> Patch]
  /\ leader \subseteq Replica
  /\ pc \in [Replica -> {"idle", "leading", "listed", "matched", "claimed"}]
  /\ until \in [Replica -> Time]
  /\ snap \in [Replica -> Position]
  /\ read \in [Replica -> Thresholds]
  /\ batch \in [Replica -> SUBSET Occurrence]
  /\ claimed \subseteq Occurrence
  /\ again \subseteq Occurrence
  /\ armed \in Position
  /\ regressed \subseteq Editor
  /\ faults \in 0 .. MaxFaults

\* No occurrence is covered by two claims, however many replicas believe they
\* lead, as long as no stale re-arm has moved the watermark back (evaluateRule,
\* ClaimAutomationRule).
AtMostOnce == regressed = {} => again = {}

\* What the watermark has passed was handled: an occurrence committed before its
\* instant, after the rule was armed, is claimed before the watermark goes past
\* it, across the match cap, subjects sharing an instant and racing passes.
NoneSkipped ==
  \A o \in visible \ late :
    Before(armed, o) /\ ~Before(wm, o) => o \in claimed

\* Switching a rule on drops what happened while it was off: no claim takes an
\* occurrence up to the last arming, even one made by a pass that read the rule
\* before the switch.
BacklogIsDropped == [][\A o \in claimed' \ claimed : Before(armed, o)]_vars

Cursor == INSTANCE RuleCursor

\* Listing the rule, matching and claiming by compare-and-set, on replicas that
\* race with each other and with writers and editors, do what one step would: a
\* firing takes what was there in time from the watermark on, without a gap, and
\* nothing but a firing or a re-arm moves the watermark.
ImplementsCursor == Cursor!Spec

\* An occurrence ahead of an enabled rule's watermark is claimed in the end,
\* unless the rule is switched off, the subject goes away, or fewer subjects than
\* the threshold are ahead.
EventuallyFires ==
  \A o \in Occurrence :
    (o \in visible \ late /\ state = "on" /\ Before(wm, o))
      ~> \/ o \in claimed \/ o \notin visible \/ state # "on"
         \/ Cardinality({x \in visible : Before(wm, x)}) < threshold

\* "A subject is therefore visible to a rule exactly once": what the watermark
\* has passed was handled, whenever it was committed.
SeenByTheRule ==
  \A o \in visible : Before(armed, o) /\ ~Before(wm, o) => o \in claimed
=============================================================================
