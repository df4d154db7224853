------------------------------- MODULE Addons -------------------------------
(***************************************************************************)
(* One add-on name in one process: installing and removing it, saving its    *)
(* settings, and the invocations that borrow its instances from a pool,      *)
(* all at once.                                                             *)
(*                                                                          *)
(* Installs and removals exclude one another (installMu).  Invocations and  *)
(* saves take no part in that lock: they read whichever set is published    *)
(* when they look, and what they resolved may be gone when they use it.     *)
(*                                                                          *)
(* Every install of the name is a version of its own, with its own counter  *)
(* of invocations, settings holder and pool.  An instance is known by the   *)
(* version whose code it runs, the pool generation it was stamped with and  *)
(* the settings its package initialisation read.                            *)
(***************************************************************************)
EXTENDS Integers, Sequences, FiniteSets

CONSTANTS Versions,   \* how many times the name is ever installed
          Call,       \* invocations that can be running at once
          Save,       \* saves that can be open at once
          PoolSize,   \* instances kept at rest
          MaxSaves    \* bound on the saves that commit

Version == 1..Versions
NoVersion == 0

ASSUME AddonsConstants == Versions \in Nat \ {0} /\ PoolSize \in Nat /\ MaxSaves \in Nat /\ IsFiniteSet(Call)

VARIABLES
  loaded,     \* the version in the published set, NoVersion when the set lacks the name
  disk,       \* the version in the add-ons directory
  state,      \* the version whose hostState is registered under the name
  next,       \* the version the next install makes
  step,       \* what the holder of installMu is doing
  subject,    \* the version it does it to
  sealed,     \* versions that admit no further invocation
  shut,       \* versions whose compiled module is closed
  outlived,   \* versions closed with an invocation still inside, the grace being over
  idle,       \* each version's pool: the instances at rest, the latest last
  gen,        \* each pool's count of drains
  kept,       \* idleInstances
  saved,      \* the settings in the database, numbered by the saves that wrote them
  view,       \* the settings each version's holder answers with
  reached,    \* how far each invocation is
  runs,       \* the version it resolved
  inst,       \* the instance it holds, or the stamp of the one it makes
  into,       \* the pool it is about to give its instance to
  saving,     \* how far each save is
  of,         \* the version it found
  read,       \* what it read back
  missed      \* versions whose pool a save could not drain, the set lacking the name

addonVars == <<loaded, disk, state, next, step, subject, sealed, shut, outlived, idle, gen, kept,
               saved, view, reached, runs, inst, into, saving, of, read, missed>>
life == <<disk, next, step, subject, sealed, shut, outlived>>
pools == <<idle, gen, kept>>
calls == <<reached, runs, inst, into>>
saves == <<saved, view, saving, of, read, missed>>

NoInstance == [of |-> NoVersion, gen |-> 0, cfg |-> 0]
Inside(v) == {c \in Call : runs[c] = v /\ reached[c] \in {"inside", "making", "running", "returning"}}

AddonsInit ==
  /\ loaded \in {NoVersion, 1}
  /\ disk = loaded /\ state = loaded /\ next = loaded + 1
  /\ step = "idle" /\ subject = NoVersion
  /\ sealed = {} /\ shut = {} /\ outlived = {}
  /\ idle = [v \in Version |-> <<>>]
  /\ gen = [v \in Version |-> 0]
  /\ kept = 0
  /\ saved = 0
  /\ view = [v \in Version |-> 0]
  /\ reached = [c \in Call |-> "idle"]
  /\ runs = [c \in Call |-> NoVersion]
  /\ inst = [c \in Call |-> NoInstance]
  /\ into = [c \in Call |-> NoVersion]
  /\ saving = [s \in Save |-> "idle"]
  /\ of = [s \in Save |-> NoVersion]
  /\ read = [s \in Save |-> 0]
  /\ missed = {}

----------------------------------------------------------------------------
(* Install: the directory is renamed into place, loaded, and published.      *)

Install ==
  /\ step = "idle"
  /\ loaded = NoVersion /\ disk = NoVersion
  /\ next \in Version
  /\ step' = "load" /\ subject' = next /\ disk' = next
  /\ next' = next + 1
  /\ UNCHANGED <<loaded, state, sealed, shut, outlived>>
  /\ UNCHANGED pools /\ UNCHANGED calls /\ UNCHANGED saves

(* The stored settings are read once, and a read that fails leaves the defaults. *)
LoadOne(cfg) ==
  /\ step = "load"
  /\ cfg \in {saved, 0}
  /\ step' = "publish"
  /\ state' = subject
  /\ view' = [view EXCEPT ![subject] = cfg]
  /\ UNCHANGED <<loaded, disk, next, subject, sealed, shut, outlived, saved, saving, of, read, missed>>
  /\ UNCHANGED pools /\ UNCHANGED calls

(* The module is refused before its state is registered, or its start fails and  *)
(* the state goes; the directory comes back off the disk unless that fails too,   *)
(* and one that stays blocks the name.                                            *)
LoadFails ==
  /\ step \in {"load", "publish"}
  /\ state' = NoVersion
  /\ disk' \in {disk, NoVersion}
  /\ step' = "idle" /\ subject' = NoVersion
  /\ UNCHANGED <<loaded, next, sealed, shut, outlived>>
  /\ UNCHANGED pools /\ UNCHANGED calls /\ UNCHANGED saves

Publish ==
  /\ step = "publish"
  /\ loaded' = subject
  /\ step' = "idle" /\ subject' = NoVersion
  /\ UNCHANGED <<disk, state, next, sealed, shut, outlived>>
  /\ UNCHANGED pools /\ UNCHANGED calls /\ UNCHANGED saves

(* Remove: out of the set first, then off the disk, or back into the set. *)
RemoveAddon ==
  /\ step = "idle"
  /\ loaded # NoVersion
  /\ step' = "park" /\ subject' = loaded
  /\ loaded' = NoVersion
  /\ UNCHANGED <<disk, state, next, sealed, shut, outlived>>
  /\ UNCHANGED pools /\ UNCHANGED calls /\ UNCHANGED saves

ParkFails ==
  /\ step = "park"
  /\ loaded' = subject
  /\ step' = "idle" /\ subject' = NoVersion
  /\ UNCHANGED <<disk, state, next, sealed, shut, outlived>>
  /\ UNCHANGED pools /\ UNCHANGED calls /\ UNCHANGED saves

Park ==
  /\ step = "park"
  /\ disk' = NoVersion
  /\ sealed' = sealed \union {subject}
  /\ step' = "quiet"
  /\ UNCHANGED <<loaded, state, next, subject, shut, outlived>>
  /\ UNCHANGED pools /\ UNCHANGED calls /\ UNCHANGED saves

Emptied(v) ==
  /\ kept' = kept - Len(idle[v])
  /\ idle' = [idle EXCEPT ![v] = <<>>]
  /\ gen' = [gen EXCEPT ![v] = @ + 1]

(* quiet returns: the last invocation has left, or removeGrace is over.  Then drainPool. *)
Quiet ==
  /\ step = "quiet"
  /\ outlived' = IF Inside(subject) = {} THEN outlived ELSE outlived \union {subject}
  /\ step' = "close"
  /\ Emptied(subject)
  /\ UNCHANGED <<loaded, disk, state, next, subject, sealed, shut>>
  /\ UNCHANGED calls /\ UNCHANGED saves

Unload ==
  /\ step = "close"
  /\ shut' = shut \union {subject}
  /\ state' = NoVersion
  /\ step' = "idle" /\ subject' = NoVersion
  /\ UNCHANGED <<loaded, disk, next, sealed, outlived>>
  /\ UNCHANGED pools /\ UNCHANGED calls /\ UNCHANGED saves

----------------------------------------------------------------------------
(* An invocation: resolve, enter, take or make an instance, run, give it back. *)

Leaves(c) ==
  /\ reached' = [reached EXCEPT ![c] = "idle"]
  /\ runs' = [runs EXCEPT ![c] = NoVersion]
  /\ inst' = [inst EXCEPT ![c] = NoInstance]
  /\ into' = [into EXCEPT ![c] = NoVersion]

Resolve(c) ==
  /\ reached[c] = "idle"
  /\ loaded # NoVersion
  /\ reached' = [reached EXCEPT ![c] = "resolved"]
  /\ runs' = [runs EXCEPT ![c] = loaded]
  /\ UNCHANGED <<loaded, state, inst, into>>
  /\ UNCHANGED life /\ UNCHANGED pools /\ UNCHANGED saves

(* Mutant: enter does not look at the seal. *)
EnterSealed(c) ==
  /\ reached[c] = "resolved"
  /\ reached' = [reached EXCEPT ![c] = "inside"]
  /\ UNCHANGED <<loaded, state, runs, inst, into>>
  /\ UNCHANGED life /\ UNCHANGED pools /\ UNCHANGED saves

Enter(c) ==
  /\ reached[c] = "resolved"
  /\ runs[c] \notin sealed
  /\ reached' = [reached EXCEPT ![c] = "inside"]
  /\ UNCHANGED <<loaded, state, runs, inst, into>>
  /\ UNCHANGED life /\ UNCHANGED pools /\ UNCHANGED saves

(* Refused by the seal or by a slot, no hostState, a deadline, a trap, grown memory: closed, not kept. *)
GiveUp(c) ==
  /\ reached[c] \in {"resolved", "inside", "making", "running"}
  /\ Leaves(c)
  /\ UNCHANGED <<loaded, state>>
  /\ UNCHANGED life /\ UNCHANGED pools /\ UNCHANGED saves

(* The instances at rest in the pool published now. *)
AtRest == IF loaded = NoVersion THEN <<>> ELSE idle[loaded]

Take(c) ==
  /\ reached[c] = "inside"
  /\ AtRest # <<>>
  /\ inst' = [inst EXCEPT ![c] = AtRest[Len(AtRest)]]
  /\ idle' = [idle EXCEPT ![loaded] = SubSeq(@, 1, Len(@) - 1)]
  /\ kept' = kept - 1
  /\ reached' = [reached EXCEPT ![c] = "running"]
  /\ UNCHANGED <<loaded, state, gen, runs, into>>
  /\ UNCHANGED life /\ UNCHANGED saves

(* The generation is sampled from the published pool before the instance is built; without a pool it is 0. *)
Generation == IF loaded = NoVersion THEN 0 ELSE gen[loaded]

Sample(c) ==
  /\ reached[c] = "inside"
  /\ AtRest = <<>>
  /\ state # NoVersion
  /\ inst' = [inst EXCEPT ![c] = [of |-> state, gen |-> Generation, cfg |-> 0]]
  /\ reached' = [reached EXCEPT ![c] = "making"]
  /\ UNCHANGED <<loaded, state, runs, into>>
  /\ UNCHANGED life /\ UNCHANGED pools /\ UNCHANGED saves

(* Package initialisation reads the holder of the hostState it was given. *)
Instantiate(c) ==
  /\ reached[c] = "making"
  /\ runs[c] \notin shut
  /\ inst' = [inst EXCEPT ![c] = [@ EXCEPT !.of = runs[c], !.cfg = view[inst[c].of]]]
  /\ reached' = [reached EXCEPT ![c] = "running"]
  /\ UNCHANGED <<loaded, state, runs, into>>
  /\ UNCHANGED life /\ UNCHANGED pools /\ UNCHANGED saves

(* releaseInstance reserves its place in the budget and finds the pool published now. *)
(* The code adds before it compares and takes back what was too much; the overshoot   *)
(* can only make another return be refused and closed, which GiveUp allows anyway.    *)
ReleaseInstance(c) ==
  /\ reached[c] = "running"
  /\ state # NoVersion
  /\ kept < PoolSize
  /\ IF loaded = NoVersion
       THEN Leaves(c) /\ UNCHANGED kept
       ELSE /\ kept' = kept + 1
            /\ into' = [into EXCEPT ![c] = loaded]
            /\ reached' = [reached EXCEPT ![c] = "returning"]
            /\ UNCHANGED <<runs, inst>>
  /\ UNCHANGED <<loaded, state, idle, gen>>
  /\ UNCHANGED life /\ UNCHANGED saves

(* Mutant: an instance made before a drain is kept after it. *)
PutAnyGeneration(c) ==
  /\ reached[c] = "returning"
  /\ idle' = [idle EXCEPT ![into[c]] = Append(@, inst[c])]
  /\ Leaves(c)
  /\ UNCHANGED <<loaded, state, gen, kept>>
  /\ UNCHANGED life /\ UNCHANGED saves

(* Mutant: a refused instance keeps its place in the budget. *)
PutUncounted(c) ==
  /\ reached[c] = "returning"
  /\ idle' = IF inst[c].gen = gen[into[c]] THEN [idle EXCEPT ![into[c]] = Append(@, inst[c])] ELSE idle
  /\ Leaves(c)
  /\ UNCHANGED <<loaded, state, gen, kept>>
  /\ UNCHANGED life /\ UNCHANGED saves

Put(c) ==
  /\ reached[c] = "returning"
  /\ IF inst[c].gen = gen[into[c]]
       THEN idle' = [idle EXCEPT ![into[c]] = Append(@, inst[c])] /\ UNCHANGED kept
       ELSE kept' = kept - 1 /\ UNCHANGED idle
  /\ Leaves(c)
  /\ UNCHANGED <<loaded, state, gen>>
  /\ UNCHANGED life /\ UNCHANGED saves

(* sweepPools: the instance that has rested longest is past its lifetime. *)
SweepPools ==
  /\ AtRest # <<>>
  /\ idle' = [idle EXCEPT ![loaded] = Tail(@)]
  /\ kept' = kept - 1
  /\ UNCHANGED <<loaded, state, gen>>
  /\ UNCHANGED life /\ UNCHANGED calls /\ UNCHANGED saves

----------------------------------------------------------------------------
(* SaveSettings: find, commit, read back, replace the holder, drain the pool. *)

SaveSettings(s) ==
  /\ saving[s] = "idle"
  /\ loaded # NoVersion
  /\ saving' = [saving EXCEPT ![s] = "found"]
  /\ of' = [of EXCEPT ![s] = loaded]
  /\ UNCHANGED <<loaded, state, saved, view, read, missed>>
  /\ UNCHANGED life /\ UNCHANGED pools /\ UNCHANGED calls

Forgotten(s) == saving' = [saving EXCEPT ![s] = "idle"] /\ of' = [of EXCEPT ![s] = NoVersion] /\ read' = [read EXCEPT ![s] = 0]

SaveRefused(s) ==
  /\ saving[s] = "found"
  /\ Forgotten(s)
  /\ UNCHANGED <<loaded, state, saved, view, missed>>
  /\ UNCHANGED life /\ UNCHANGED pools /\ UNCHANGED calls

CommitSettings(s) ==
  /\ saving[s] = "found"
  /\ saved < MaxSaves
  /\ saved' = saved + 1
  /\ saving' = [saving EXCEPT ![s] = "committed"]
  /\ UNCHANGED <<loaded, state, view, of, read, missed>>
  /\ UNCHANGED life /\ UNCHANGED pools /\ UNCHANGED calls

(* resolveSettings answers with the defaults when its read fails. *)
ResolveSettings(s, cfg) ==
  /\ saving[s] = "committed"
  /\ cfg \in {saved, 0}
  /\ read' = [read EXCEPT ![s] = cfg]
  /\ saving' = [saving EXCEPT ![s] = "resolved"]
  /\ UNCHANGED <<loaded, state, saved, view, of, missed>>
  /\ UNCHANGED life /\ UNCHANGED pools /\ UNCHANGED calls

Replace(s) ==
  /\ saving[s] = "resolved"
  /\ view' = [view EXCEPT ![of[s]] = read[s]]
  /\ saving' = [saving EXCEPT ![s] = "replaced"]
  /\ UNCHANGED <<loaded, state, saved, of, read, missed>>
  /\ UNCHANGED life /\ UNCHANGED pools /\ UNCHANGED calls

DrainPool(s) ==
  /\ saving[s] = "replaced"
  /\ IF loaded = NoVersion
       THEN missed' = missed \union {of[s]} /\ UNCHANGED pools
       ELSE Emptied(loaded) /\ UNCHANGED missed
  /\ Forgotten(s)
  /\ UNCHANGED <<loaded, state, saved, view>>
  /\ UNCHANGED life /\ UNCHANGED calls

AddonsNext ==
  \/ Install \/ LoadFails \/ Publish
  \/ \E cfg \in 0..MaxSaves : LoadOne(cfg)
  \/ RemoveAddon \/ ParkFails \/ Park \/ Quiet \/ Unload
  \/ \E c \in Call :
       \/ Resolve(c) \/ Enter(c) \/ GiveUp(c)
       \/ Take(c) \/ Sample(c) \/ Instantiate(c)
       \/ ReleaseInstance(c) \/ Put(c)
  \/ SweepPools
  \/ \E s \in Save :
       \/ SaveSettings(s) \/ SaveRefused(s) \/ CommitSettings(s)
       \/ \E cfg \in 0..MaxSaves : ResolveSettings(s, cfg)
       \/ Replace(s) \/ DrainPool(s)

AddonsSpec == AddonsInit /\ [][AddonsNext]_addonVars

----------------------------------------------------------------------------

(* Removal waits for the invocations it admitted and admits no more: a guest   *)
(* runs in a closed module only if the grace ran out on its version, or on an  *)
(* earlier one whose invocation kept it and gave it to a later version's pool. *)
NoneRunsClosed ==
  \A c \in Call : reached[c] = "running" /\ inst[c].of \in shut =>
    \E v \in outlived : v <= inst[c].of

(* An instance at rest runs the loaded version with the settings its holder     *)
(* answers with, unless a save to it is about to drain it, a save found the     *)
(* name out of the set while a removal was failing, or a removal outlived its   *)
(* grace.                                                                       *)
PoolIsCurrent ==
  loaded # NoVersion /\ outlived = {} /\ loaded \notin missed =>
    \A i \in DOMAIN idle[loaded] :
      /\ idle[loaded][i].of = loaded
      /\ \/ idle[loaded][i].cfg = view[loaded]
         \/ \E s \in Save : saving[s] = "replaced" /\ of[s] = loaded

(* Where instances rest: a version and a position in its pool. *)
Places == UNION {{v} \X DOMAIN idle[v] : v \in Version}

(* The budget counts every instance at rest once, and each is in a pool that is *)
(* published, or about to be drained or restored; an invocation that outlives    *)
(* its version's removal may give its instance to a pool nobody sweeps.          *)
NothingIsLost ==
  /\ kept = Cardinality(Places) + Cardinality({c \in Call : reached[c] = "returning"})
  /\ kept <= PoolSize
  /\ outlived = {} => \A v \in Version \ {loaded, subject} : idle[v] = <<>>
=============================================================================
