----------------------------- MODULE RuleCursor -----------------------------
(***************************************************************************)
(* What an automation rule promises, whatever replicas evaluate it and      *)
(* whatever is edited, committed or crashes meanwhile: the rule is a cursor *)
(* over the occurrences in the order of their instants and ids.  A firing   *)
(* reads on from the cursor, takes everything that was there in time up to  *)
(* where it stops, and moves the cursor there, all in one step.             *)
(*                                                                          *)
(* Nothing else moves the cursor but switching the rule on, which puts it   *)
(* after every occurrence up to some instant that has passed.               *)
(***************************************************************************)
EXTENDS Integers

CONSTANTS Occurrence, Time, Top

VARIABLES
  now,      \* the clock
  visible,  \* committed occurrences, one for a subject
  late,     \* those committed after their instant
  state,    \* the rule: "on", "off" or "gone"
  wm,       \* the cursor
  claimed   \* what the rule has fired for

vars == <<now, visible, late, state, wm, claimed>>

Before(a, b) ==
  \/ a[1] < b[1]
  \/ a[1] = b[1] /\ a[2] < b[2]

Init ==
  /\ now = 0 /\ visible = {} /\ late = {} /\ claimed = {}
  /\ state \in {"on", "off"}
  /\ wm = <<0, Top>>

Tick ==
  /\ now' = now + 1
  /\ UNCHANGED <<visible, late, state, wm, claimed>>

\* The subject's instant is set, or set anew.
Occur(o) ==
  /\ visible' = {x \in visible : x[2] # o[2]} \union {o}
  /\ late' = IF o[1] <= now THEN late \union {o} ELSE late
  /\ UNCHANGED <<now, state, wm, claimed>>

Vanish(o) ==
  /\ visible' = {x \in visible : x[2] # o[2]}
  /\ UNCHANGED <<now, late, state, wm, claimed>>

Stop(s) ==
  /\ state # "gone"
  /\ state' = s
  /\ UNCHANGED <<now, visible, late, wm, claimed>>

Arm(t) ==
  /\ state = "off" /\ t <= now
  /\ state' = "on" /\ wm' = <<t, Top>>
  /\ UNCHANGED <<now, visible, late, claimed>>

Fire(B, last) ==
  /\ state = "on"
  /\ wm' = last
  /\ claimed' = claimed \union B
  /\ last \in B
  /\ \A o \in B : o[1] <= now /\ Before(wm, o) /\ ~Before(last, o)
  /\ \A o \in visible \ late : Before(wm, o) /\ ~Before(last, o) => o \in B
  /\ UNCHANGED <<now, visible, late, state>>

Next ==
  \/ UNCHANGED vars  \* a pass reads, loses or gives up
  \/ Tick
  \/ \E o \in Occurrence : Occur(o) \/ Vanish(o)
  \/ \E s \in {"off", "gone"} : Stop(s)
  \/ \E t \in Time : Arm(t)
  \/ \E B \in SUBSET Occurrence, last \in Occurrence : Fire(B, last)

Spec == Init /\ [][Next]_vars
=============================================================================
