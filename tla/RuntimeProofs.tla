---------------------------- MODULE RuntimeProofs ----------------------------
(***************************************************************************)
(* Ingest and Addons, the two components that live in one process's memory, *)
(* proved for any number of redirects, installs, invocations and saves.     *)
(*                                                                          *)
(* Ingest: Close loses nothing it had accepted, and a click is counted and  *)
(* marked only with its row committed.                                      *)
(*                                                                          *)
(* Addons: a module is shut under a running guest only where a removal      *)
(* outlived its grace, the pool rests on the settings in force, and the     *)
(* budget of idle instances is exact.  The argument follows instances: into *)
(* which pool each may go, and that none leaves its own version's pool and  *)
(* invocations while every removal is in time.                              *)
(*                                                                          *)
(* The services run: its two rules are rules of AutomationProofs, and its   *)
(* behaviours are behaviours of every component it puts together.           *)
(***************************************************************************)
EXTENDS MCServices, FiniteSetTheorems, TLAPS

Place == {"unborn", "checked", "queued", "batched", "flushed", "failed", "dropped", "refused"}

IngestTypes ==
  /\ place \in [Event -> Place]
  /\ closed \in {"open", "closed", "stopping"}
  /\ loop \in {"select", "drain", "write", "mark", "done"}
  /\ last \in {"select", "drain", "done"}

\* The goroutine drains only once it was told to stop, and goes back to it or returns after a write.
StopComesFirst == "drain" \in {loop, last} \/ "done" \in {loop, last} => closed = "stopping"

\* From the moment the drain found the channel empty, only late events arrive in it.
OnlyLateRemain == "done" \in {loop, last} => Queued \subseteq late

\* The last flush takes the whole batch with it.
LastFlush == (last = "done" => loop \in {"write", "mark", "done"}) /\ (loop = "done" => Batch = {})

CloseInv == IngestTypes /\ StopComesFirst /\ OnlyLateRemain /\ LastFlush

\* At first nothing was recorded and the goroutine selects.
LEMMA CloseInvInitially == IngestInit => CloseInv
  BY DEF IngestInit, CloseInv, IngestTypes, Place, StopComesFirst, OnlyLateRemain, LastFlush, Queued, Batch

\* Every step keeps what Close relies on.
LEMMA CloseInvKept == CloseInv /\ [IngestNext]_ingestVars => CloseInv'
<1> SUFFICES ASSUME CloseInv, [IngestNext]_ingestVars PROVE CloseInv'
    OBVIOUS
<1> USE DEF CloseInv, IngestTypes, StopComesFirst, OnlyLateRemain, LastFlush, Queued, Batch
<1>1. ASSUME NEW e \in Event, Record(e) PROVE CloseInv'
      BY <1>1 DEF Record, Moves, Place
<1>2. ASSUME NEW e \in Event, Send(e) PROVE CloseInv'
  <2> DEFINE room == Cardinality(Queued) < QueueSize
  <2>1. place' = [place EXCEPT ![e] = IF room THEN "queued" ELSE "dropped"]
        BY <1>2 DEF Send, Moves
  <2> HIDE DEF room
  <2>2. IngestTypes'
        BY <1>2, <2>1 DEF Send, Place
  <2>3. Batch' = Batch /\ Queued' \subseteq Queued \union {e}
        BY <1>2, <2>1 DEF Send, Place
  <2>4. closed # "open" => e \in late' /\ late \subseteq late'
        BY <1>2 DEF Send
  <2> QED
        BY <1>2, <2>2, <2>3, <2>4 DEF Send
<1>3. ASSUME NEW e \in Event, Receive(e) PROVE CloseInv'
  <2> DEFINE full == Cardinality(Batch) + 1 >= BatchSize
  <2>1. IF full THEN loop' = "write" /\ last' = loop ELSE UNCHANGED <<loop, last>>
        BY <1>3 DEF Receive
  <2> HIDE DEF full
  <2>2. IngestTypes' /\ Queued' \subseteq Queued
        BY <1>3, <2>1 DEF Receive, Moves, Place
  <2> QED
        BY <1>3, <2>1, <2>2 DEF Receive
<1>4. CASE Close \/ CloseStop
      BY <1>4 DEF Close, CloseStop
<1>5. CASE TickerFlush \/ Stop \/ Drained
      BY <1>5 DEF TickerFlush, Stop, Drained
<1>6. CASE WriteCommits
      BY <1>6 DEF WriteCommits
<1>7. ASSUME NEW b \in BOOLEAN, WriteFails(b) \/ Mark(b) PROVE CloseInv'
  <2>1. IngestTypes' /\ Queued' = Queued /\ Batch' = {}
        BY <1>7 DEF WriteFails, Mark, Counted, Place
  <2> QED
        BY <1>7, <2>1 DEF WriteFails, Mark
<1>8. CASE UNCHANGED ingestVars
      BY <1>8 DEF ingestVars
<1> QED
      BY <1>1, <1>2, <1>3, <1>4, <1>5, <1>6, <1>7, <1>8 DEF IngestNext

(* Ingester.Close: once the goroutine has returned, its batch is empty and     *)
(* whatever is left in the channel was sent after Close had set the flag, for  *)
(* any set of redirects and any sizes.                                         *)
THEOREM ClosingFlushesAccepted == IngestSpec => []AcceptedIsFlushed
<1>1. CloseInv => AcceptedIsFlushed
      BY DEF CloseInv, OnlyLateRemain, LastFlush, AcceptedIsFlushed
<1> QED
      BY CloseInvInitially, CloseInvKept, <1>1, PTL DEF IngestSpec

----------------------------------------------------------------------------

\* A batch is marked only after its commit.
MarkingFollowsCommit == loop = "mark" => Batch \subseteq rows

\* A goroutine about to receive has room for one event more.
RoomForOne == loop \in {"select", "drain"} => Cardinality(Batch) < BatchSize

CountInv ==
  /\ IngestTypes
  /\ rows \subseteq Event
  /\ LastFlush
  /\ MarkingFollowsCommit
  /\ RoomForOne
  /\ MarkedIsStored

\* The channel and the batch are finite and have a size.
LEMMA Sizes == ASSUME IsFiniteSet(Event)
               PROVE  /\ Cardinality(Queued) \in Nat
                      /\ Cardinality(Batch) \in Nat
                      /\ IsFiniteSet(Queued)
                      /\ IsFiniteSet(Batch)
  BY FS_Subset, FS_CardinalityType DEF Queued, Batch

\* At first the channel, the batch and the rows are empty.
LEMMA CountInvInitially == IngestInit => CountInv
<1> SUFFICES ASSUME IngestInit PROVE CountInv
    OBVIOUS
<1>1. Queued = {} /\ Batch = {}
      BY DEF IngestInit, Queued, Batch
<1>2. Cardinality(Queued) = 0 /\ Cardinality(Batch) = 0
      BY <1>1, FS_EmptySet
<1> QED
      BY IngestConstants, <1>1, <1>2 DEF IngestInit, CountInv, IngestTypes, Place, LastFlush, MarkingFollowsCommit,
         RoomForOne, MarkedIsStored

\* Every step keeps the bounds and the order of commit and mark.
LEMMA CountInvKept == CountInv /\ [IngestNext]_ingestVars => CountInv'
<1> SUFFICES ASSUME CountInv, [IngestNext]_ingestVars PROVE CountInv'
    OBVIOUS
<1> USE IngestConstants DEF CountInv, IngestTypes, LastFlush, MarkingFollowsCommit, RoomForOne, MarkedIsStored
<1>0. /\ Cardinality(Queued) \in Nat /\ Cardinality(Batch) \in Nat
      /\ IsFiniteSet(Queued) /\ IsFiniteSet(Batch)
      BY Sizes
<1>1. ASSUME NEW e \in Event, Record(e) PROVE CountInv'
  <2>1. Queued' = Queued /\ Batch' = Batch
        BY <1>1 DEF Record, Moves, Queued, Batch, Place
  <2> QED
        BY <1>1, <2>1 DEF Record, Moves, Place
<1>2. ASSUME NEW e \in Event, Send(e) PROVE CountInv'
  <2>1. Batch' = Batch
        BY <1>2 DEF Send, Moves, Batch, Place
  <2>2. Cardinality(Queued') <= QueueSize
    <3>1. CASE Cardinality(Queued) < QueueSize
      <4>1. Queued' = Queued \union {e} /\ e \notin Queued
            BY <1>2, <3>1 DEF Send, Moves, Queued, Place
      <4>2. Cardinality(Queued') = Cardinality(Queued) + 1
            BY <4>1, <1>0, FS_AddElement
      <4> QED
            BY <4>2, <3>1, <1>0
    <3>2. CASE ~(Cardinality(Queued) < QueueSize)
      <4>1. Queued' = Queued
            BY <1>2, <3>2 DEF Send, Moves, Queued, Place
      <4> QED
            BY <4>1
    <3> QED
        BY <3>1, <3>2
  <2>3. place' \in [Event -> Place] /\ \A d \in Event : place'[d] = "flushed" => d \in rows
        BY <1>2 DEF Send, Moves, Place
  <2> QED
        BY <1>2, <2>1, <2>2, <2>3 DEF Send
<1>3. ASSUME NEW e \in Event, Receive(e) PROVE CountInv'
  <2>1. Batch' = Batch \union {e} /\ e \notin Batch
        BY <1>3 DEF Receive, Moves, Batch, Place
  <2>2. Cardinality(Batch') = Cardinality(Batch) + 1
        BY <2>1, <1>0, FS_AddElement
  <2>3. Queued' \subseteq Queued
        BY <1>3 DEF Receive, Moves, Queued, Place
  <2>4. Cardinality(Queued') <= QueueSize
    <3>1. Cardinality(Queued') \in Nat /\ Cardinality(Queued') <= Cardinality(Queued)
          BY <2>3, <1>0, FS_Subset, FS_CardinalityType
    <3> QED
          BY <3>1, <1>0
  <2>5. place' \in [Event -> Place] /\ \A d \in Event : place'[d] = "flushed" => d \in rows
        BY <1>3 DEF Receive, Moves, Place
  <2>6. last # "done"
        BY <1>3 DEF Receive
  <2> QED
        BY <1>3, <1>0, <2>2, <2>4, <2>5, <2>6 DEF Receive
<1>4. CASE Close \/ CloseStop
      BY <1>4 DEF Close, CloseStop, Queued, Batch
<1>5. CASE TickerFlush \/ Stop \/ Drained
      BY <1>5 DEF TickerFlush, Stop, Drained, Queued, Batch
<1>6. CASE WriteCommits
      BY <1>6 DEF WriteCommits, Queued, Batch
<1>7. ASSUME NEW b \in BOOLEAN, WriteFails(b) \/ Mark(b) PROVE CountInv'
  <2>1. Queued' = Queued /\ Batch' = {}
        BY <1>7 DEF WriteFails, Mark, Counted, Queued, Batch
  <2>2. Cardinality(Batch') = 0
        BY <2>1, FS_EmptySet
  <2>3. place' \in [Event -> Place] /\ rows' \subseteq Event
        BY <1>7 DEF WriteFails, Mark, Counted, Place, Batch
  <2>4. marked' \subseteq rows' /\ \A e \in Event : place'[e] = "flushed" => e \in rows'
        BY <1>7 DEF WriteFails, Mark, Counted, Batch
  <2> QED
        BY <1>7, <2>1, <2>2, <2>3, <2>4 DEF WriteFails, Mark
<1>8. CASE UNCHANGED ingestVars
      BY <1>8 DEF ingestVars, Queued, Batch
<1> QED
      BY <1>1, <1>2, <1>3, <1>4, <1>5, <1>6, <1>7, <1>8 DEF IngestNext

(* Ingester.flush: with finitely many redirects and a batch of at least one, a *)
(* click is counted and its visitor marked only with its row committed, and    *)
(* neither the channel nor the batch outgrows its size.                        *)
THEOREM MarksFollowRows == IngestSpec => []MarkedIsStored
<1>1. CountInv => MarkedIsStored
      BY DEF CountInv
<1> QED
      BY CountInvInitially, CountInvKept, <1>1, PTL DEF IngestSpec

----------------------------------------------------------------------------

Instance == [of : Version \union {NoVersion}, gen : Nat, cfg : Nat]

AddonTypes ==
  /\ loaded \in Version \union {NoVersion} /\ state \in Version \union {NoVersion}
  /\ subject \in Version \union {NoVersion} /\ next \in Nat
  /\ step \in {"idle", "load", "publish", "park", "quiet", "close"}
  /\ idle \in [Version -> Seq(Instance)] /\ gen \in [Version -> Nat] /\ kept \in Int
  /\ saved \in Nat /\ view \in [Version -> Nat] /\ read \in [Save -> Nat]
  /\ reached \in [Call -> {"idle", "resolved", "inside", "making", "running", "returning"}]
  /\ runs \in [Call -> Version \union {NoVersion}] /\ into \in [Call -> Version \union {NoVersion}]
  /\ inst \in [Call -> Instance]
  /\ saving \in [Save -> {"idle", "found", "committed", "resolved", "replaced"}]
  /\ of \in [Save -> Version \union {NoVersion}]

(* The versions that have been in the set, and those whose pool has been drained for good. *)
Known == shut \union {v \in Version : v = loaded \/ (v = subject /\ step \in {"park", "quiet", "close"})}
Gone == shut \union {v \in Version : v = subject /\ step = "close"}

(* What the holder of installMu has done: at most one version is in the set or on its way in or out. *)
OneAtATime ==
  /\ step = "idle" => subject = NoVersion /\ state = loaded
  /\ step # "idle" => subject \in Version /\ subject = next - 1 /\ loaded = NoVersion
  /\ step = "load" => state = NoVersion
  /\ step \notin {"idle", "load"} => state = subject
  /\ loaded # NoVersion => loaded = next - 1
  /\ sealed = shut \union {v \in Version : v = subject /\ step \in {"quiet", "close"}}
  /\ shut \subseteq Version /\ outlived \subseteq Version
  /\ loaded \notin shut /\ subject \notin shut
  /\ \A v \in shut : v < next

(* Invocations, saves and instances are of versions that have been in the set. *)
FromTheSet ==
  /\ \A c \in Call : reached[c] # "idle" => runs[c] \in Known
  /\ \A c \in Call : reached[c] = "making" => inst[c].of \in Version
  /\ \A c \in Call : reached[c] = "returning" => into[c] \in Version
  /\ \A s \in Save : saving[s] # "idle" => of[s] \in Known

Admitted == {"inside", "making", "running", "returning"}
Excused(v) == \E u \in outlived : u <= v

(* An invocation inside a version that is gone outlived its removal. *)
GraceKept == \A c \in Call : reached[c] \in Admitted /\ runs[c] \in Gone => runs[c] \in outlived

(* An instance is away from its version's invocations and pool only since a removal outlived its grace. *)
HeldInPlace == \A c \in Call :
  /\ reached[c] \in {"running", "returning"} /\ inst[c].of # runs[c] => Excused(inst[c].of)
  /\ reached[c] = "returning" /\ into[c] # inst[c].of => Excused(inst[c].of)
RestInPlace == \A v \in Version : \A i \in DOMAIN idle[v] : idle[v][i].of # v => Excused(idle[v][i].of)

(* While every removal is in time, what rests or is out and will be kept has the current settings. *)
InForce(i, v) == i.cfg = view[v] \/ v \in missed \/ \E s \in Save : saving[s] = "replaced" /\ of[s] = v

RestPublished == outlived = {} =>
  \A v \in Version : idle[v] # <<>> => v = loaded \/ (v = subject /\ step \in {"park", "quiet"})
RestFresh == outlived = {} =>
  \A v \in Version : \A i \in DOMAIN idle[v] : idle[v][i].gen = gen[v] /\ InForce(idle[v][i], v)
MadeForIts == outlived = {} =>
  \A c \in Call : reached[c] = "making" => inst[c].of = runs[c] /\ inst[c].gen <= gen[runs[c]]
HeldFresh == outlived = {} =>
  \A c \in Call : reached[c] \in {"running", "returning"} =>
    /\ inst[c].gen <= gen[runs[c]]
    /\ inst[c].gen = gen[runs[c]] => InForce(inst[c], runs[c])

Returning == {c \in Call : reached[c] = "returning"}
BudgetCounted == IsFiniteSet(Places) /\ kept = Cardinality(Places) + Cardinality(Returning) /\ kept <= PoolSize

AddonsInv ==
  /\ AddonTypes /\ OneAtATime /\ FromTheSet
  /\ GraceKept /\ HeldInPlace /\ RestInPlace
  /\ RestPublished /\ RestFresh /\ MadeForIts /\ HeldFresh
  /\ BudgetCounted

\* Versions are positive numbers.
LEMMA VersionNumbers ==
  Version \subseteq Int /\ NoVersion \notin Version /\ NoVersion = 0 /\ \A v \in Version : v \in Nat
  BY AddonsConstants DEF Version, NoVersion

PlacesOf(f) == UNION {{v} \X DOMAIN f[v] : v \in Version}

\* A place is a version and a position in its pool.
LEMMA PlaceIs ==
  ASSUME NEW f \in [Version -> Seq(Instance)], NEW p
  PROVE  p \in PlacesOf(f) <=> \E v \in Version : \E i \in 1..Len(f[v]) : p = <<v, i>>
<1>1. \A v \in Version : f[v] \in Seq(Instance) /\ DOMAIN f[v] = 1..Len(f[v])
  OBVIOUS
<1> QED
  BY <1>1 DEF PlacesOf

\* Giving back the last of the instances at rest, or the first, leaves one place fewer.
LEMMA PlaceLess ==
  ASSUME NEW f \in [Version -> Seq(Instance)], IsFiniteSet(PlacesOf(f)), NEW v \in Version,
         NEW q \in Seq(Instance), f[v] # <<>>, Len(q) = Len(f[v]) - 1,
         NEW g \in [Version -> Seq(Instance)], g = [f EXCEPT ![v] = q]
  PROVE  IsFiniteSet(PlacesOf(g)) /\ Cardinality(PlacesOf(g)) = Cardinality(PlacesOf(f)) - 1
<1>1. Len(f[v]) \in Nat /\ Len(f[v]) > 0 /\ g[v] = q /\ \A w \in Version \ {v} : g[w] = f[w]
  OBVIOUS
<1>2. <<v, Len(f[v])>> \in PlacesOf(f)
  BY <1>1, PlaceIs
<1>3. PlacesOf(g) = PlacesOf(f) \ {<<v, Len(f[v])>>}
  <2>1. ASSUME NEW p \in PlacesOf(g) PROVE p \in PlacesOf(f) /\ p # <<v, Len(f[v])>>
    <3>0. PICK w \in Version : \E i \in 1..Len(g[w]) : p = <<w, i>>
      BY PlaceIs
    <3>1. PICK i \in 1..Len(g[w]) : p = <<w, i>>
      BY <3>0
    <3>2. i \in 1..Len(f[w]) /\ (w = v => i # Len(f[v]))
      BY <1>1
    <3> QED
      BY <3>1, <3>2, PlaceIs
  <2>2. ASSUME NEW p \in PlacesOf(f), p # <<v, Len(f[v])>> PROVE p \in PlacesOf(g)
    <3>0. PICK w \in Version : \E i \in 1..Len(f[w]) : p = <<w, i>>
      BY PlaceIs
    <3>1. PICK i \in 1..Len(f[w]) : p = <<w, i>>
      BY <3>0
    <3>2. i \in 1..Len(g[w])
      BY <1>1, <2>2, <3>1
    <3> QED
      BY <3>1, <3>2, PlaceIs
  <2> QED
    BY <2>1, <2>2
<1>4. IsFiniteSet(PlacesOf(f) \ {<<v, Len(f[v])>>})
      /\ Cardinality(PlacesOf(f) \ {<<v, Len(f[v])>>}) = Cardinality(PlacesOf(f)) - 1
  <2> DEFINE P == PlacesOf(f)
             x == <<v, Len(f[v])>>
  <2> HIDE DEF P, x
  <2>1. IsFiniteSet(P) /\ x \in P
    BY <1>2 DEF P, x
  <2>2. IsFiniteSet(P \ {x}) /\ Cardinality(P \ {x}) = Cardinality(P) - 1
    BY <2>1, FS_RemoveElement
  <2> QED
    BY <2>2 DEF P, x
<1> QED
  BY <1>3, <1>4

\* Keeping one more takes one place more.
LEMMA PlaceMore ==
  ASSUME NEW f \in [Version -> Seq(Instance)], IsFiniteSet(PlacesOf(f)), NEW v \in Version,
         NEW q \in Seq(Instance), Len(q) = Len(f[v]) + 1,
         NEW g \in [Version -> Seq(Instance)], g = [f EXCEPT ![v] = q]
  PROVE  IsFiniteSet(PlacesOf(g)) /\ Cardinality(PlacesOf(g)) = Cardinality(PlacesOf(f)) + 1
<1>1. Len(f[v]) \in Nat /\ g[v] = q /\ \A w \in Version \ {v} : g[w] = f[w]
  OBVIOUS
<1>2. <<v, Len(q)>> \notin PlacesOf(f)
  <2> SUFFICES ASSUME NEW w \in Version, NEW i \in 1..Len(f[w]), <<v, Len(q)>> = <<w, i>> PROVE FALSE
    BY PlaceIs
  <2> QED
    BY <1>1
<1>3. PlacesOf(g) = PlacesOf(f) \union {<<v, Len(q)>>}
  <2>1. ASSUME NEW p \in PlacesOf(g), p # <<v, Len(q)>> PROVE p \in PlacesOf(f)
    <3>0. PICK w \in Version : \E i \in 1..Len(g[w]) : p = <<w, i>>
      BY PlaceIs
    <3>1. PICK i \in 1..Len(g[w]) : p = <<w, i>>
      BY <3>0
    <3>2. i \in 1..Len(f[w])
      BY <1>1, <2>1, <3>1
    <3> QED
      BY <3>1, <3>2, PlaceIs
  <2>2. ASSUME NEW p \in PlacesOf(f) PROVE p \in PlacesOf(g)
    <3>0. PICK w \in Version : \E i \in 1..Len(f[w]) : p = <<w, i>>
      BY PlaceIs
    <3>1. PICK i \in 1..Len(f[w]) : p = <<w, i>>
      BY <3>0
    <3>2. i \in 1..Len(g[w])
      BY <1>1
    <3> QED
      BY <3>1, <3>2, PlaceIs
  <2>3. <<v, Len(q)>> \in PlacesOf(g)
    <3>1. Len(q) \in 1..Len(g[v])
      BY <1>1
    <3> QED
      BY <3>1, PlaceIs
  <2> QED
    BY <2>1, <2>2, <2>3
<1>4. IsFiniteSet(PlacesOf(f) \union {<<v, Len(q)>>})
      /\ Cardinality(PlacesOf(f) \union {<<v, Len(q)>>}) = Cardinality(PlacesOf(f)) + 1
  <2> DEFINE P == PlacesOf(f)
             x == <<v, Len(q)>>
  <2> HIDE DEF P, x
  <2>1. IsFiniteSet(P) /\ x \notin P
    BY <1>2 DEF P, x
  <2>2. IsFiniteSet(P \union {x}) /\ Cardinality(P \union {x}) = Cardinality(P) + 1
    BY <2>1, FS_AddElement
  <2> QED
    BY <2>2 DEF P, x
<1> QED
  BY <1>3, <1>4

\* A drain frees as many places as there were instances.
LEMMA PlaceNone ==
  ASSUME NEW f \in [Version -> Seq(Instance)], IsFiniteSet(PlacesOf(f)), NEW v \in Version,
         NEW g \in [Version -> Seq(Instance)], g = [f EXCEPT ![v] = <<>>]
  PROVE  IsFiniteSet(PlacesOf(g)) /\ Cardinality(PlacesOf(g)) = Cardinality(PlacesOf(f)) - Len(f[v])
<1> DEFINE T == {v} \X (1..Len(f[v]))
<1>1. Len(f[v]) \in Nat /\ g[v] = <<>> /\ \A w \in Version \ {v} : g[w] = f[w]
  OBVIOUS
<1>2. IsFiniteSet(T) /\ Cardinality(T) = Len(f[v])
  <2>1. IsFiniteSet({v}) /\ Cardinality({v}) = 1
    BY FS_Singleton
  <2>2. IsFiniteSet(1..Len(f[v])) /\ Cardinality(1..Len(f[v])) = Len(f[v])
    <3> DEFINE n == Len(f[v])
    <3> HIDE DEF n
    <3>1. n \in Nat
      BY <1>1 DEF n
    <3>2. IsFiniteSet(1..n) /\ Cardinality(1..n) = IF 1 > n THEN 0 ELSE n - 1 + 1
      BY <3>1, FS_Interval
    <3>3. IsFiniteSet(1..n) /\ Cardinality(1..n) = n
      BY <3>1, <3>2
    <3> QED
      BY <3>3 DEF n
  <2>3. IsFiniteSet(T) /\ Cardinality(T) = Cardinality({v}) * Cardinality(1..Len(f[v]))
    BY <2>1, <2>2, FS_Product
  <2> QED
    BY <1>1, <2>1, <2>2, <2>3
<1>3. T \subseteq PlacesOf(f)
  BY PlaceIs
<1>4. PlacesOf(g) = PlacesOf(f) \ T
  <2>1. ASSUME NEW p \in PlacesOf(g) PROVE p \in PlacesOf(f) /\ p \notin T
    <3>0. PICK w \in Version : \E i \in 1..Len(g[w]) : p = <<w, i>>
      BY PlaceIs
    <3>1. PICK i \in 1..Len(g[w]) : p = <<w, i>>
      BY <3>0
    <3>2. w # v /\ i \in 1..Len(f[w])
      BY <1>1
    <3> QED
      BY <3>1, <3>2, PlaceIs
  <2>2. ASSUME NEW p \in PlacesOf(f), p \notin T PROVE p \in PlacesOf(g)
    <3>0. PICK w \in Version : \E i \in 1..Len(f[w]) : p = <<w, i>>
      BY PlaceIs
    <3>1. PICK i \in 1..Len(f[w]) : p = <<w, i>>
      BY <3>0
    <3>2. w # v
      BY <2>2, <3>1
    <3>3. i \in 1..Len(g[w])
      BY <1>1, <3>2
    <3> QED
      BY <3>1, <3>3, PlaceIs
  <2> QED
    BY <2>1, <2>2
<1>5. PlacesOf(f) \intersect T = T
  BY <1>3
<1>6. IsFiniteSet(PlacesOf(f) \ T) /\ Cardinality(PlacesOf(f) \ T) = Cardinality(PlacesOf(f)) - Cardinality(T)
  <2> DEFINE P == PlacesOf(f)
  <2> HIDE DEF P, T
  <2>1. IsFiniteSet(P) /\ P \intersect T = T
    BY <1>5 DEF P
  <2>2. IsFiniteSet(P \ T) /\ Cardinality(P \ T) = Cardinality(P) - Cardinality(P \intersect T)
    BY <2>1, FS_Difference
  <2> QED
    BY <2>1, <2>2 DEF P
<1> HIDE DEF T
<1> QED
  BY <1>2, <1>4, <1>6

\* While no removal outlived its grace, an invocation is inside the version that is registered.
LEMMA InsideIsCurrent ==
  ASSUME AddonsInv, NEW c \in Call, reached[c] \in Admitted, outlived = {}
  PROVE  /\ runs[c] \in Version /\ runs[c] = state
         /\ runs[c] = loaded \/ (loaded = NoVersion /\ runs[c] = subject /\ step \in {"park", "quiet"})
  BY VersionNumbers DEF AddonsInv, AddonTypes, Admitted, FromTheSet, Known, GraceKept, Gone, OneAtATime

\* The version in the set is not older than the one an invocation resolved, which outlived it if it differs.
LEMMA OldOutlived ==
  ASSUME AddonsInv, NEW c \in Call, reached[c] \in Admitted, loaded # NoVersion, runs[c] # loaded
  PROVE  runs[c] \in Version /\ runs[c] \in outlived /\ runs[c] <= loaded
<1>1. step = "idle" /\ runs[c] \in shut /\ loaded = next - 1 /\ next \in Nat
  BY DEF AddonsInv, AddonTypes, Admitted, FromTheSet, Known, OneAtATime
<1>2. runs[c] < next /\ runs[c] \in Version /\ runs[c] \in outlived
  BY <1>1 DEF AddonsInv, OneAtATime, GraceKept, Gone
<1>3. runs[c] \in Int
  BY <1>2, VersionNumbers
<1> QED
  BY <1>1, <1>2, <1>3

\* What is at rest in the published pool.
LEMMA AtRestIs ==
  ASSUME AddonsInv, AtRest # <<>>
  PROVE  /\ loaded \in Version /\ loaded # NoVersion /\ AtRest = idle[loaded] /\ idle[loaded] \in Seq(Instance)
         /\ Len(idle[loaded]) \in Nat /\ Len(idle[loaded]) > 0
         /\ Len(idle[loaded]) \in DOMAIN idle[loaded] /\ idle[loaded][Len(idle[loaded])] \in Instance
<1>1. loaded \in Version /\ loaded # NoVersion /\ AtRest = idle[loaded] /\ idle[loaded] \in Seq(Instance)
  BY DEF AtRest, AddonsInv, AddonTypes
<1>2. Len(idle[loaded]) \in Nat /\ Len(idle[loaded]) > 0 /\ DOMAIN idle[loaded] = 1..Len(idle[loaded])
  BY <1>1
<1> QED
  BY <1>1, <1>2

\* The instances about to be given back are finitely many.
LEMMA ReturningSize ==
  ASSUME AddonsInv
  PROVE  /\ IsFiniteSet(Returning) /\ Cardinality(Returning) \in Nat
         /\ IsFiniteSet(Places) /\ Cardinality(Places) \in Nat /\ Places = PlacesOf(idle)
         /\ kept \in Int /\ kept = Cardinality(Places) + Cardinality(Returning) /\ kept <= PoolSize
<1>1. IsFiniteSet(Returning)
  BY AddonsConstants, FS_Subset DEF Returning
<1>2. IsFiniteSet(Places) /\ kept \in Int /\ kept = Cardinality(Places) + Cardinality(Returning) /\ kept <= PoolSize
  BY DEF AddonsInv, AddonTypes, BudgetCounted
<1>3. Places = PlacesOf(idle)
  BY DEF Places, PlacesOf
<1> QED
  BY <1>1, <1>2, <1>3, FS_CardinalityType

\* Instances that stay at rest stay what they are.
LEMMA FewerAtRest ==
  ASSUME AddonsInv, outlived \subseteq outlived',
         \A v \in Version : \A i \in DOMAIN idle'[v] : \E j \in DOMAIN idle[v] : idle'[v][i] = idle[v][j]
  PROVE  /\ RestInPlace'
         /\ /\ \A v \in Version : idle'[v] # <<>> => gen'[v] = gen[v]
            /\ \A i, v : InForce(i, v) => InForce(i, v)'
            => RestFresh'
<1>1. RestInPlace'
  <2> SUFFICES ASSUME NEW v \in Version, NEW i \in DOMAIN idle'[v], idle'[v][i].of # v PROVE Excused(idle[v][i].of)'
    BY DEF RestInPlace, Excused
  <2>1. PICK j \in DOMAIN idle[v] : idle'[v][i] = idle[v][j]
    OBVIOUS
  <2>2. Excused(idle[v][j].of)
    BY <2>1 DEF AddonsInv, RestInPlace
  <2> QED
    BY <2>1, <2>2 DEF Excused
<1>2. ASSUME \A v \in Version : idle'[v] # <<>> => gen'[v] = gen[v], \A i, v : InForce(i, v) => InForce(i, v)' PROVE RestFresh'
  <2> SUFFICES ASSUME outlived' = {}, NEW v \in Version, NEW i \in DOMAIN idle'[v]
               PROVE  idle'[v][i].gen = gen'[v] /\ InForce(idle[v][i], v)'
    BY DEF RestFresh
  <2>1. PICK j \in DOMAIN idle[v] : idle'[v][i] = idle[v][j]
    OBVIOUS
  <2>2. idle[v][j].gen = gen[v] /\ InForce(idle[v][j], v)
    BY <2>1 DEF AddonsInv, RestFresh
  <2>3. idle'[v] # <<>>
    OBVIOUS
  <2>4. \A x : InForce(x, v) => InForce(x, v)'
    BY <1>2
  <2> QED
    BY <1>2, <2>1, <2>2, <2>3, <2>4
<1> QED
  BY <1>1, <1>2

\* Giving an instance back ends the invocation when the set lacks the name, and reserves a place otherwise.
Reserve(c) ==
  /\ reached[c] = "running" /\ kept < PoolSize /\ loaded # NoVersion
  /\ kept' = kept + 1
  /\ into' = [into EXCEPT ![c] = loaded]
  /\ reached' = [reached EXCEPT ![c] = "returning"]
  /\ UNCHANGED <<loaded, state, idle, gen, runs, inst>>
  /\ UNCHANGED life /\ UNCHANGED saves

\* Giving an instance back ends the invocation or reserves a place in the budget.
LEMMA ReleaseCases == ASSUME NEW c \in Call, ReleaseInstance(c) PROVE GiveUp(c) \/ Reserve(c)
  BY DEF ReleaseInstance, GiveUp, Reserve, pools

\* A new version is on the disk and nowhere else.
LEMMA InstallKeeps ==
  ASSUME AddonsInv, Install
  PROVE  AddonsInv'
<1>1. AddonTypes'
  <2>1. next' \in Nat /\ subject' \in Version /\ step' = "load"
    BY DEF AddonsInv, AddonTypes, Install
  <2> QED
    BY <2>1 DEF AddonsInv, AddonTypes, Install, pools, calls, saves
<1>2. OneAtATime'
  BY VersionNumbers DEF AddonsInv, AddonTypes, OneAtATime, Install
<1>3. FromTheSet'
  BY DEF AddonsInv, FromTheSet, Known, Install, pools, calls, saves
<1>4. GraceKept'
  BY DEF AddonsInv, GraceKept, Gone, Admitted, Install, pools, calls, saves
<1>5. HeldInPlace'
  BY DEF AddonsInv, HeldInPlace, Excused, Install, pools, calls, saves
<1>6. RestInPlace'
  BY DEF AddonsInv, RestInPlace, Excused, Install, pools, calls, saves
<1>7. RestPublished'
  BY DEF AddonsInv, RestPublished, Install, pools, calls, saves
<1>8. RestFresh'
  <2>1. \A i, v : InForce(i, v) => InForce(i, v)'
    BY DEF AddonsInv, AddonTypes, InForce, Install, saves
  <2>2. idle' = idle /\ gen' = gen /\ outlived' = outlived
    BY DEF Install, life, pools
  <2> QED
    BY <2>1, <2>2, FewerAtRest
<1>9. MadeForIts'
  BY DEF AddonsInv, MadeForIts, Install, pools, calls, saves
<1>10. HeldFresh'
  BY DEF AddonsInv, HeldFresh, InForce, Install, pools, calls, saves
<1>11. BudgetCounted'
  BY DEF AddonsInv, BudgetCounted, Returning, Places, Install, pools, calls, saves
<1> QED
  BY <1>1, <1>2, <1>3, <1>4, <1>5, <1>6, <1>7, <1>8, <1>9, <1>10, <1>11 DEF AddonsInv

\* The version being installed gets its state and its settings.
LEMMA LoadOneKeeps ==
  ASSUME AddonsInv, NEW cfg \in 0..MaxSaves, LoadOne(cfg)
  PROVE  AddonsInv'
<1>1. AddonTypes'
  <2>1. cfg \in Nat
    BY AddonsConstants
  <2> QED
    BY <2>1, VersionNumbers, AddonsConstants DEF AddonsInv, AddonTypes, LoadOne, life, pools, calls, saves
<1>2. OneAtATime'
  BY DEF AddonsInv, AddonTypes, OneAtATime, LoadOne, pools, calls
<1>3. FromTheSet'
  BY DEF AddonsInv, AddonTypes, FromTheSet, Known, LoadOne, pools, calls
<1>4. GraceKept'
  BY DEF AddonsInv, AddonTypes, GraceKept, Gone, Admitted, LoadOne, pools, calls
<1>5. HeldInPlace'
  BY DEF AddonsInv, AddonTypes, HeldInPlace, Excused, LoadOne, pools, calls
<1>6. RestInPlace'
  BY DEF AddonsInv, AddonTypes, RestInPlace, Excused, LoadOne, pools, calls
<1>7. RestPublished'
  BY DEF AddonsInv, AddonTypes, RestPublished, LoadOne, pools, calls
<1>8. RestFresh'
  <2>1. outlived = {} => \A v \in Version : idle[v] = <<>>
    BY VersionNumbers DEF AddonsInv, OneAtATime, RestPublished, LoadOne
  <2> QED
    BY <2>1 DEF RestFresh, LoadOne, pools
<1>9. MadeForIts'
  BY DEF AddonsInv, AddonTypes, MadeForIts, LoadOne, pools, calls
<1>10. HeldFresh'
  <2>1. outlived = {} => \A c \in Call : reached[c] \notin {"running", "returning"}
    BY VersionNumbers DEF AddonsInv, OneAtATime, FromTheSet, GraceKept, Known, Gone, Admitted, LoadOne
  <2> QED
    BY <2>1 DEF HeldFresh, LoadOne, calls
<1>11. BudgetCounted'
  BY DEF AddonsInv, AddonTypes, BudgetCounted, Returning, Places, LoadOne, pools, calls
<1> QED
  BY <1>1, <1>2, <1>3, <1>4, <1>5, <1>6, <1>7, <1>8, <1>9, <1>10, <1>11 DEF AddonsInv

\* An install that fails leaves no state and nothing published behind.
LEMMA LoadFailsKeeps ==
  ASSUME AddonsInv, LoadFails
  PROVE  AddonsInv'
<1>1. AddonTypes'
  BY DEF AddonsInv, AddonTypes, LoadFails, pools, calls, saves
<1>2. OneAtATime'
  BY DEF AddonsInv, OneAtATime, LoadFails, pools, calls, saves
<1>3. FromTheSet'
  BY DEF AddonsInv, FromTheSet, Known, LoadFails, pools, calls, saves
<1>4. GraceKept'
  BY DEF AddonsInv, GraceKept, Gone, Admitted, LoadFails, pools, calls, saves
<1>5. HeldInPlace'
  BY DEF AddonsInv, HeldInPlace, Excused, LoadFails, pools, calls, saves
<1>6. RestInPlace'
  BY DEF AddonsInv, RestInPlace, Excused, LoadFails, pools, calls, saves
<1>7. RestPublished'
  BY DEF AddonsInv, RestPublished, LoadFails, pools, calls, saves
<1>8. RestFresh'
  <2>1. \A i, v : InForce(i, v) => InForce(i, v)'
    BY DEF AddonsInv, AddonTypes, InForce, LoadFails, saves
  <2>2. idle' = idle /\ gen' = gen /\ outlived' = outlived
    BY DEF LoadFails, life, pools
  <2> QED
    BY <2>1, <2>2, FewerAtRest
<1>9. MadeForIts'
  BY DEF AddonsInv, MadeForIts, LoadFails, pools, calls, saves
<1>10. HeldFresh'
  BY DEF AddonsInv, HeldFresh, InForce, LoadFails, pools, calls, saves
<1>11. BudgetCounted'
  BY DEF AddonsInv, BudgetCounted, Returning, Places, LoadFails, pools, calls, saves
<1> QED
  BY <1>1, <1>2, <1>3, <1>4, <1>5, <1>6, <1>7, <1>8, <1>9, <1>10, <1>11 DEF AddonsInv

\* A version enters the set, and nobody has resolved it yet.
LEMMA PublishKeeps ==
  ASSUME AddonsInv, Publish
  PROVE  AddonsInv'
<1>1. AddonTypes'
  BY DEF AddonsInv, AddonTypes, Publish, pools, calls, saves
<1>2. OneAtATime'
  BY DEF AddonsInv, OneAtATime, Publish, pools, calls, saves
<1>3. FromTheSet'
  <2>0. shut' = shut /\ loaded = NoVersion /\ loaded' = subject /\ subject \in Version
    BY DEF AddonsInv, OneAtATime, Publish, life, pools, calls, saves
  <2>1. Known \subseteq Known'
    BY <2>0, VersionNumbers DEF Known
  <2> QED
    BY <2>1 DEF AddonsInv, FromTheSet, Publish, life, pools, calls, saves
<1>4. GraceKept'
  BY DEF AddonsInv, GraceKept, Gone, Admitted, Publish, pools, calls, saves
<1>5. HeldInPlace'
  BY DEF AddonsInv, HeldInPlace, Excused, Publish, pools, calls, saves
<1>6. RestInPlace'
  BY DEF AddonsInv, RestInPlace, Excused, Publish, pools, calls, saves
<1>7. RestPublished'
  BY VersionNumbers DEF AddonsInv, OneAtATime, RestPublished, Publish, pools
<1>8. RestFresh'
  <2>1. \A i, v : InForce(i, v) => InForce(i, v)'
    BY DEF AddonsInv, AddonTypes, InForce, Publish, saves
  <2>2. idle' = idle /\ gen' = gen /\ outlived' = outlived
    BY DEF Publish, life, pools
  <2> QED
    BY <2>1, <2>2, FewerAtRest
<1>9. MadeForIts'
  BY DEF AddonsInv, MadeForIts, Publish, pools, calls, saves
<1>10. HeldFresh'
  BY DEF AddonsInv, HeldFresh, InForce, Publish, pools, calls, saves
<1>11. BudgetCounted'
  BY DEF AddonsInv, BudgetCounted, Returning, Places, Publish, pools, calls, saves
<1> QED
  BY <1>1, <1>2, <1>3, <1>4, <1>5, <1>6, <1>7, <1>8, <1>9, <1>10, <1>11 DEF AddonsInv

\* A version leaves the set, and its pool rests with it.
LEMMA RemoveAddonKeeps ==
  ASSUME AddonsInv, RemoveAddon
  PROVE  AddonsInv'
<1>1. AddonTypes'
  BY DEF AddonsInv, AddonTypes, RemoveAddon, pools, calls, saves
<1>2. OneAtATime'
  BY VersionNumbers DEF AddonsInv, AddonTypes, OneAtATime, RemoveAddon
<1>3. FromTheSet'
  BY DEF AddonsInv, FromTheSet, Known, RemoveAddon, pools, calls, saves
<1>4. GraceKept'
  BY DEF AddonsInv, GraceKept, Gone, Admitted, RemoveAddon, pools, calls, saves
<1>5. HeldInPlace'
  BY DEF AddonsInv, HeldInPlace, Excused, RemoveAddon, pools, calls, saves
<1>6. RestInPlace'
  BY DEF AddonsInv, RestInPlace, Excused, RemoveAddon, pools, calls, saves
<1>7. RestPublished'
  BY DEF AddonsInv, RestPublished, RemoveAddon, pools, calls, saves
<1>8. RestFresh'
  <2>1. \A i, v : InForce(i, v) => InForce(i, v)'
    BY DEF AddonsInv, AddonTypes, InForce, RemoveAddon, saves
  <2>2. idle' = idle /\ gen' = gen /\ outlived' = outlived
    BY DEF RemoveAddon, life, pools
  <2> QED
    BY <2>1, <2>2, FewerAtRest
<1>9. MadeForIts'
  BY DEF AddonsInv, MadeForIts, RemoveAddon, pools, calls, saves
<1>10. HeldFresh'
  BY DEF AddonsInv, HeldFresh, InForce, RemoveAddon, pools, calls, saves
<1>11. BudgetCounted'
  BY DEF AddonsInv, BudgetCounted, Returning, Places, RemoveAddon, pools, calls, saves
<1> QED
  BY <1>1, <1>2, <1>3, <1>4, <1>5, <1>6, <1>7, <1>8, <1>9, <1>10, <1>11 DEF AddonsInv

\* A removal that fails restores the set.
LEMMA ParkFailsKeeps ==
  ASSUME AddonsInv, ParkFails
  PROVE  AddonsInv'
<1>1. AddonTypes'
  BY DEF AddonsInv, AddonTypes, ParkFails, pools, calls, saves
<1>2. OneAtATime'
  BY DEF AddonsInv, OneAtATime, ParkFails, pools, calls, saves
<1>3. FromTheSet'
  <2>0. shut' = shut /\ loaded = NoVersion /\ loaded' = subject /\ subject \in Version
    BY DEF AddonsInv, OneAtATime, ParkFails, life, pools, calls, saves
  <2>1. Known \subseteq Known'
    BY <2>0, VersionNumbers DEF Known
  <2> QED
    BY <2>1 DEF AddonsInv, FromTheSet, ParkFails, life, pools, calls, saves
<1>4. GraceKept'
  BY DEF AddonsInv, GraceKept, Gone, Admitted, ParkFails, pools, calls, saves
<1>5. HeldInPlace'
  BY DEF AddonsInv, HeldInPlace, Excused, ParkFails, pools, calls, saves
<1>6. RestInPlace'
  BY DEF AddonsInv, RestInPlace, Excused, ParkFails, pools, calls, saves
<1>7. RestPublished'
  BY VersionNumbers DEF AddonsInv, OneAtATime, RestPublished, ParkFails, pools
<1>8. RestFresh'
  <2>1. \A i, v : InForce(i, v) => InForce(i, v)'
    BY DEF AddonsInv, AddonTypes, InForce, ParkFails, saves
  <2>2. idle' = idle /\ gen' = gen /\ outlived' = outlived
    BY DEF ParkFails, life, pools
  <2> QED
    BY <2>1, <2>2, FewerAtRest
<1>9. MadeForIts'
  BY DEF AddonsInv, MadeForIts, ParkFails, pools, calls, saves
<1>10. HeldFresh'
  BY DEF AddonsInv, HeldFresh, InForce, ParkFails, pools, calls, saves
<1>11. BudgetCounted'
  BY DEF AddonsInv, BudgetCounted, Returning, Places, ParkFails, pools, calls, saves
<1> QED
  BY <1>1, <1>2, <1>3, <1>4, <1>5, <1>6, <1>7, <1>8, <1>9, <1>10, <1>11 DEF AddonsInv

\* The version being removed admits nobody from here on.
LEMMA ParkKeeps ==
  ASSUME AddonsInv, Park
  PROVE  AddonsInv'
<1>1. AddonTypes'
  BY DEF AddonsInv, AddonTypes, Park, pools, calls, saves
<1>2. OneAtATime'
  BY DEF AddonsInv, OneAtATime, Park, pools, calls, saves
<1>3. FromTheSet'
  BY DEF AddonsInv, FromTheSet, Known, Park, pools, calls, saves
<1>4. GraceKept'
  BY DEF AddonsInv, GraceKept, Gone, Admitted, Park, pools, calls, saves
<1>5. HeldInPlace'
  BY DEF AddonsInv, HeldInPlace, Excused, Park, pools, calls, saves
<1>6. RestInPlace'
  BY DEF AddonsInv, RestInPlace, Excused, Park, pools, calls, saves
<1>7. RestPublished'
  BY DEF AddonsInv, RestPublished, Park, pools, calls, saves
<1>8. RestFresh'
  <2>1. \A i, v : InForce(i, v) => InForce(i, v)'
    BY DEF AddonsInv, AddonTypes, InForce, Park, saves
  <2>2. idle' = idle /\ gen' = gen /\ outlived' = outlived
    BY DEF Park, life, pools
  <2> QED
    BY <2>1, <2>2, FewerAtRest
<1>9. MadeForIts'
  BY DEF AddonsInv, MadeForIts, Park, pools, calls, saves
<1>10. HeldFresh'
  BY DEF AddonsInv, HeldFresh, InForce, Park, pools, calls, saves
<1>11. BudgetCounted'
  BY DEF AddonsInv, BudgetCounted, Returning, Places, Park, pools, calls, saves
<1> QED
  BY <1>1, <1>2, <1>3, <1>4, <1>5, <1>6, <1>7, <1>8, <1>9, <1>10, <1>11 DEF AddonsInv

\* The version's pool is drained, and whoever is still inside has outlived it.
LEMMA QuietKeeps ==
  ASSUME AddonsInv, Quiet
  PROVE  AddonsInv'
<1>1. AddonTypes'
  <2>1. subject \in Version /\ <<>> \in Seq(Instance) /\ Len(idle[subject]) \in Int /\ gen[subject] + 1 \in Nat
    BY DEF AddonsInv, AddonTypes, OneAtATime, Quiet
  <2>2. idle' \in [Version -> Seq(Instance)] /\ gen' \in [Version -> Nat] /\ kept' \in Int
    BY <2>1 DEF AddonsInv, AddonTypes, Quiet, Emptied
  <2> QED
    BY <2>2 DEF AddonsInv, AddonTypes, Quiet, life, calls, saves
<1>2. OneAtATime'
  BY DEF AddonsInv, OneAtATime, Quiet, Emptied, Inside, calls, saves
<1>3. FromTheSet'
  BY DEF AddonsInv, FromTheSet, Known, Quiet, Emptied, Inside, calls, saves
<1>4. GraceKept'
  BY VersionNumbers DEF AddonsInv, AddonTypes, GraceKept, Gone, Admitted, OneAtATime, Quiet, Inside, calls
<1>5. HeldInPlace'
  BY DEF AddonsInv, HeldInPlace, Excused, Quiet, Emptied, Inside, calls, saves
<1>6. RestInPlace' /\ RestFresh'
  <2>1. subject \in Version /\ idle'[subject] = <<>> /\ \A v \in Version \ {subject} : idle'[v] = idle[v] /\ gen'[v] = gen[v]
    BY DEF AddonsInv, AddonTypes, OneAtATime, Quiet, Emptied
  <2>2. outlived \subseteq outlived' /\ \A i, v : InForce(i, v) => InForce(i, v)'
    BY DEF Quiet, saves, InForce
  <2> QED
    BY <2>1, <2>2, FewerAtRest
<1>7. RestPublished'
  <2>1. outlived' = {} => outlived = {}
    BY DEF Quiet
  <2>2. subject \in Version /\ idle'[subject] = <<>> /\ \A v \in Version \ {subject} : idle'[v] = idle[v]
    BY DEF AddonsInv, AddonTypes, OneAtATime, Quiet, Emptied
  <2> QED
    BY <2>1, <2>2 DEF AddonsInv, RestPublished, Quiet
<1>9. MadeForIts'
  BY DEF AddonsInv, MadeForIts, Quiet, Emptied, Inside, calls, saves
<1>10. HeldFresh'
  BY DEF AddonsInv, HeldFresh, InForce, Quiet, Emptied, Inside, calls, saves
<1>11. BudgetCounted'
  <2>1. subject \in Version /\ idle' = [idle EXCEPT ![subject] = <<>>] /\ kept' = kept - Len(idle[subject])
    BY DEF AddonsInv, OneAtATime, Quiet, Emptied
  <2>2. idle \in [Version -> Seq(Instance)] /\ idle' \in [Version -> Seq(Instance)] /\ Len(idle[subject]) \in Nat
    BY <1>1, <2>1 DEF AddonsInv, AddonTypes
  <2>3. IsFiniteSet(PlacesOf(idle')) /\ Cardinality(PlacesOf(idle')) = Cardinality(PlacesOf(idle)) - Len(idle[subject])
    BY <2>1, <2>2, PlaceNone, ReturningSize
  <2>4. Returning' = Returning /\ Places' = PlacesOf(idle')
    BY DEF Returning, Places, PlacesOf, Quiet, calls
  <2> QED
    BY <2>1, <2>2, <2>3, <2>4, ReturningSize, AddonsConstants DEF BudgetCounted
<1> QED
  BY <1>1, <1>2, <1>3, <1>4, <1>5, <1>6, <1>7, <1>9, <1>10, <1>11 DEF AddonsInv

\* The module is closed.
LEMMA UnloadKeeps ==
  ASSUME AddonsInv, Unload
  PROVE  AddonsInv'
<1>1. AddonTypes'
  BY DEF AddonsInv, AddonTypes, Unload, pools, calls, saves
<1>2. OneAtATime'
  BY VersionNumbers DEF AddonsInv, AddonTypes, OneAtATime, Unload
<1>3. FromTheSet'
  BY DEF AddonsInv, FromTheSet, Known, Unload, pools, calls, saves
<1>4. GraceKept'
  BY VersionNumbers DEF AddonsInv, AddonTypes, GraceKept, Gone, Admitted, OneAtATime, Unload, calls
<1>5. HeldInPlace'
  BY DEF AddonsInv, HeldInPlace, Excused, Unload, pools, calls, saves
<1>6. RestInPlace'
  BY DEF AddonsInv, RestInPlace, Excused, Unload, pools, calls, saves
<1>7. RestPublished'
  BY DEF AddonsInv, RestPublished, Unload, pools, calls, saves
<1>8. RestFresh'
  <2>1. \A i, v : InForce(i, v) => InForce(i, v)'
    BY DEF AddonsInv, AddonTypes, InForce, Unload, saves
  <2>2. idle' = idle /\ gen' = gen /\ outlived' = outlived
    BY DEF Unload, life, pools
  <2> QED
    BY <2>1, <2>2, FewerAtRest
<1>9. MadeForIts'
  BY DEF AddonsInv, MadeForIts, Unload, pools, calls, saves
<1>10. HeldFresh'
  BY DEF AddonsInv, HeldFresh, InForce, Unload, pools, calls, saves
<1>11. BudgetCounted'
  BY DEF AddonsInv, BudgetCounted, Returning, Places, Unload, pools, calls, saves
<1> QED
  BY <1>1, <1>2, <1>3, <1>4, <1>5, <1>6, <1>7, <1>8, <1>9, <1>10, <1>11 DEF AddonsInv

\* An invocation resolves the version in the set.
LEMMA ResolveKeeps ==
  ASSUME AddonsInv, NEW c \in Call, Resolve(c)
  PROVE  AddonsInv'
<1>1. AddonTypes'
  BY DEF AddonsInv, AddonTypes, Resolve, life, pools, saves
<1>2. OneAtATime'
  BY DEF AddonsInv, AddonTypes, OneAtATime, Resolve, life, pools, saves
<1>3. FromTheSet'
  BY DEF AddonsInv, AddonTypes, FromTheSet, Known, Resolve, life, pools, saves
<1>4. GraceKept'
  BY DEF AddonsInv, AddonTypes, GraceKept, Gone, Admitted, Resolve, life, pools, saves
<1>5. HeldInPlace'
  BY DEF AddonsInv, AddonTypes, HeldInPlace, Excused, Resolve, life, pools, saves
<1>6. RestInPlace'
  BY DEF AddonsInv, AddonTypes, RestInPlace, Excused, Resolve, life, pools, saves
<1>7. RestPublished'
  BY DEF AddonsInv, AddonTypes, RestPublished, Resolve, life, pools, saves
<1>8. RestFresh'
  <2>1. \A i, v : InForce(i, v) => InForce(i, v)'
    BY DEF AddonsInv, AddonTypes, InForce, Resolve, saves
  <2>2. idle' = idle /\ gen' = gen /\ outlived' = outlived
    BY DEF Resolve, life, pools
  <2> QED
    BY <2>1, <2>2, FewerAtRest
<1>9. MadeForIts'
  BY DEF AddonsInv, AddonTypes, MadeForIts, Resolve, life, pools, saves
<1>10. HeldFresh'
  BY DEF AddonsInv, AddonTypes, HeldFresh, InForce, Resolve, life, pools, saves
<1>11. BudgetCounted'
  <2>1. Places' = Places /\ kept' = kept
    BY DEF Places, Resolve, life, pools, calls, saves
  <2>2. Returning' = Returning
    BY DEF AddonsInv, AddonTypes, Returning, Resolve, life, pools, calls, saves
  <2> QED
    BY <2>1, <2>2 DEF AddonsInv, BudgetCounted
<1> QED
  BY <1>1, <1>2, <1>3, <1>4, <1>5, <1>6, <1>7, <1>8, <1>9, <1>10, <1>11 DEF AddonsInv

\* An invocation enters a version that is not sealed.
LEMMA EnterKeeps ==
  ASSUME AddonsInv, NEW c \in Call, Enter(c)
  PROVE  AddonsInv'
<1>1. AddonTypes'
  BY DEF AddonsInv, AddonTypes, Enter, life, pools, saves
<1>2. OneAtATime'
  BY DEF AddonsInv, AddonTypes, OneAtATime, Enter, life, pools, saves
<1>3. FromTheSet'
  BY DEF AddonsInv, AddonTypes, FromTheSet, Known, Enter, life, pools, saves
<1>4. GraceKept'
  BY VersionNumbers DEF AddonsInv, AddonTypes, GraceKept, FromTheSet, Known, Gone, Admitted, OneAtATime, Enter, life
<1>5. HeldInPlace'
  BY DEF AddonsInv, AddonTypes, HeldInPlace, Excused, Enter, life, pools, saves
<1>6. RestInPlace'
  BY DEF AddonsInv, AddonTypes, RestInPlace, Excused, Enter, life, pools, saves
<1>7. RestPublished'
  BY DEF AddonsInv, AddonTypes, RestPublished, Enter, life, pools, saves
<1>8. RestFresh'
  <2>1. \A i, v : InForce(i, v) => InForce(i, v)'
    BY DEF AddonsInv, AddonTypes, InForce, Enter, saves
  <2>2. idle' = idle /\ gen' = gen /\ outlived' = outlived
    BY DEF Enter, life, pools
  <2> QED
    BY <2>1, <2>2, FewerAtRest
<1>9. MadeForIts'
  BY DEF AddonsInv, AddonTypes, MadeForIts, Enter, life, pools, saves
<1>10. HeldFresh'
  BY DEF AddonsInv, AddonTypes, HeldFresh, InForce, Enter, life, pools, saves
<1>11. BudgetCounted'
  <2>1. Places' = Places /\ kept' = kept
    BY DEF Places, Enter, life, pools, calls, saves
  <2>2. Returning' = Returning
    BY DEF AddonsInv, AddonTypes, Returning, Enter, life, pools, calls, saves
  <2> QED
    BY <2>1, <2>2 DEF AddonsInv, BudgetCounted
<1> QED
  BY <1>1, <1>2, <1>3, <1>4, <1>5, <1>6, <1>7, <1>8, <1>9, <1>10, <1>11 DEF AddonsInv

\* An invocation ends and its instance is closed.
LEMMA GiveUpKeeps ==
  ASSUME AddonsInv, NEW c \in Call, GiveUp(c)
  PROVE  AddonsInv'
<1>1. AddonTypes'
  BY VersionNumbers DEF AddonsInv, AddonTypes, Instance, NoInstance, GiveUp, Leaves, life, pools, saves
<1>2. OneAtATime'
  BY DEF AddonsInv, AddonTypes, OneAtATime, GiveUp, Leaves, life, pools, saves
<1>3. FromTheSet'
  BY DEF AddonsInv, AddonTypes, FromTheSet, Known, GiveUp, Leaves, life, pools, saves
<1>4. GraceKept'
  BY DEF AddonsInv, AddonTypes, GraceKept, Gone, Admitted, GiveUp, Leaves, life, pools, saves
<1>5. HeldInPlace'
  BY DEF AddonsInv, AddonTypes, HeldInPlace, Excused, GiveUp, Leaves, life, pools, saves
<1>6. RestInPlace'
  BY DEF AddonsInv, AddonTypes, RestInPlace, Excused, GiveUp, Leaves, life, pools, saves
<1>7. RestPublished'
  BY DEF AddonsInv, AddonTypes, RestPublished, GiveUp, Leaves, life, pools, saves
<1>8. RestFresh'
  <2>1. \A i, v : InForce(i, v) => InForce(i, v)'
    BY DEF AddonsInv, AddonTypes, InForce, GiveUp, Leaves, saves
  <2>2. idle' = idle /\ gen' = gen /\ outlived' = outlived
    BY DEF GiveUp, life, pools
  <2> QED
    BY <2>1, <2>2, FewerAtRest
<1>9. MadeForIts'
  BY DEF AddonsInv, AddonTypes, MadeForIts, GiveUp, Leaves, life, pools, saves
<1>10. HeldFresh'
  BY DEF AddonsInv, AddonTypes, HeldFresh, InForce, GiveUp, Leaves, life, pools, saves
<1>11. BudgetCounted'
  <2>1. Places' = Places /\ kept' = kept
    BY DEF Places, GiveUp, Leaves, life, pools, calls, saves
  <2>2. Returning' = Returning
    BY DEF AddonsInv, AddonTypes, Returning, GiveUp, Leaves, life, pools, calls, saves
  <2> QED
    BY <2>1, <2>2 DEF AddonsInv, BudgetCounted
<1> QED
  BY <1>1, <1>2, <1>3, <1>4, <1>5, <1>6, <1>7, <1>8, <1>9, <1>10, <1>11 DEF AddonsInv

\* An invocation takes the instance that came back last, of whichever version is in the set.
LEMMA TakeKeeps ==
  ASSUME AddonsInv, NEW c \in Call, Take(c)
  PROVE  AddonsInv'
<1>1. AddonTypes'
  <2>1. SubSeq(idle[loaded], 1, Len(idle[loaded]) - 1) \in Seq(Instance) /\ loaded \in Version
    BY AtRestIs DEF Take
  <2>2. AtRest[Len(AtRest)] \in Instance
    BY AtRestIs DEF Take
  <2>3. idle' \in [Version -> Seq(Instance)] /\ kept' \in Int
    BY <2>1 DEF AddonsInv, AddonTypes, Take
  <2>4. inst' \in [Call -> Instance] /\ reached' \in [Call -> {"idle", "resolved", "inside", "making", "running", "returning"}]
    BY <2>2 DEF AddonsInv, AddonTypes, Take
  <2> QED
    BY <2>3, <2>4 DEF AddonsInv, AddonTypes, Take, life, saves
<1>2. OneAtATime'
  BY DEF AddonsInv, AddonTypes, OneAtATime, Take, AtRest, life, saves
<1>3. FromTheSet'
  BY DEF AddonsInv, AddonTypes, FromTheSet, Known, Take, AtRest, life, saves
<1>4. GraceKept'
  BY DEF AddonsInv, AddonTypes, GraceKept, Gone, Admitted, Take, AtRest, life, saves
<1>5. HeldInPlace'
  <2>1. reached[c] = "inside" /\ loaded \in Version /\ loaded # NoVersion /\ reached[c] \in Admitted
    BY AtRestIs DEF Take, Admitted
  <2>2. /\ reached'[c] = "running" /\ inst'[c] = idle[loaded][Len(idle[loaded])]
        /\ runs' = runs /\ into' = into /\ outlived' = outlived
        /\ \A d \in Call \ {c} : reached'[d] = reached[d] /\ inst'[d] = inst[d]
    BY AtRestIs DEF AddonsInv, AddonTypes, Take, life
  <2>3. ASSUME inst'[c].of # runs[c] PROVE Excused(inst'[c].of)
    <3>1. CASE inst'[c].of # loaded
      BY <2>1, <2>2, <3>1, AtRestIs DEF Take, AddonsInv, RestInPlace
    <3>2. CASE inst'[c].of = loaded
      BY <2>1, <2>3, <3>2, OldOutlived DEF Excused
    <3> QED
      BY <3>1, <3>2
  <2> QED
    BY <2>2, <2>3 DEF AddonsInv, HeldInPlace, Excused
<1>6. RestInPlace' /\ RestFresh'
  <2>1. loaded \in Version /\ idle[loaded] # <<>> /\ idle[loaded] \in Seq(Instance)
    BY AtRestIs DEF Take
  <2>2. idle' = [idle EXCEPT ![loaded] = SubSeq(idle[loaded], 1, Len(idle[loaded]) - 1)]
    BY DEF AddonsInv, AddonTypes, Take
  <2>3. \A v \in Version : \A i \in DOMAIN idle'[v] : \E j \in DOMAIN idle[v] : idle'[v][i] = idle[v][j]
    <3> TAKE v \in Version
    <3>1. CASE v = loaded
      <4>1. idle'[v] = SubSeq(idle[loaded], 1, Len(idle[loaded]) - 1) /\ idle[v] = idle[loaded]
        BY <2>1, <2>2, <3>1 DEF AddonsInv, AddonTypes
      <4> QED
        BY <2>1, <4>1
    <3>2. CASE v # loaded
      BY <2>2, <3>2 DEF AddonsInv, AddonTypes
    <3> QED
      BY <3>1, <3>2
  <2>4. gen' = gen /\ outlived' = outlived /\ \A i, v : InForce(i, v) => InForce(i, v)'
    BY DEF Take, life, saves, InForce
  <2> QED
    BY <2>3, <2>4, FewerAtRest
<1>7. RestPublished'
  BY DEF AddonsInv, AddonTypes, RestPublished, Take, AtRest, life, saves
<1>9. MadeForIts'
  BY DEF AddonsInv, AddonTypes, MadeForIts, Take, AtRest, life, saves
<1>10. HeldFresh'
  <2> SUFFICES ASSUME outlived = {}, NEW d \in Call, reached'[d] \in {"running", "returning"}
               PROVE  inst'[d].gen <= gen[runs[d]] /\ (inst'[d].gen = gen[runs[d]] => InForce(inst'[d], runs[d]))
    BY DEF HeldFresh, InForce, Take, life, saves
  <2>1. CASE d # c
    BY <2>1 DEF AddonsInv, AddonTypes, HeldFresh, Take
  <2>2. CASE d = c
    <3>1. loaded \in Version /\ loaded # NoVersion /\ reached[c] \in Admitted
      BY AtRestIs DEF Take, Admitted
    <3>2. runs[c] = loaded
      BY <3>1, InsideIsCurrent
    <3>3. inst'[c] = idle[loaded][Len(idle[loaded])]
      BY AtRestIs DEF AddonsInv, AddonTypes, Take
    <3>4. idle[loaded][Len(idle[loaded])].gen = gen[loaded] /\ InForce(idle[loaded][Len(idle[loaded])], loaded)
      BY <3>1, AtRestIs DEF Take, AddonsInv, RestFresh
    <3>5. gen[loaded] \in Nat
      BY <3>1 DEF AddonsInv, AddonTypes
    <3> QED
      BY <2>2, <3>2, <3>3, <3>4, <3>5
  <2> QED
    BY <2>1, <2>2
<1>11. BudgetCounted'
  <2> DEFINE q == SubSeq(idle[loaded], 1, Len(idle[loaded]) - 1)
  <2>1. loaded \in Version /\ idle[loaded] # <<>> /\ q \in Seq(Instance) /\ Len(q) = Len(idle[loaded]) - 1
    BY AtRestIs DEF Take
  <2>2. idle' = [idle EXCEPT ![loaded] = q] /\ kept' = kept - 1
    BY DEF AddonsInv, AddonTypes, Take
  <2>3. idle \in [Version -> Seq(Instance)] /\ idle' \in [Version -> Seq(Instance)]
    BY <1>1 DEF AddonsInv, AddonTypes
  <2> HIDE DEF q
  <2>4. IsFiniteSet(PlacesOf(idle')) /\ Cardinality(PlacesOf(idle')) = Cardinality(PlacesOf(idle)) - 1
    BY <2>1, <2>2, <2>3, PlaceLess, ReturningSize
  <2>5. Returning' = Returning
    BY DEF AddonsInv, AddonTypes, Returning, Take, life, pools, calls, saves
  <2>6. Places' = PlacesOf(idle')
    BY DEF Places, PlacesOf
  <2> QED
    BY <2>2, <2>4, <2>5, <2>6, ReturningSize, AddonsConstants DEF BudgetCounted
<1> QED
  BY <1>1, <1>2, <1>3, <1>4, <1>5, <1>6, <1>7, <1>9, <1>10, <1>11 DEF AddonsInv

\* An instance is stamped before it is made.
LEMMA SampleKeeps ==
  ASSUME AddonsInv, NEW c \in Call, Sample(c)
  PROVE  AddonsInv'
<1>1. AddonTypes'
  BY VersionNumbers DEF AddonsInv, AddonTypes, Instance, NoInstance, Sample, AtRest, Generation, life, pools, saves
<1>2. OneAtATime'
  BY DEF AddonsInv, AddonTypes, OneAtATime, Sample, AtRest, Generation, life, pools, saves
<1>3. FromTheSet'
  BY DEF AddonsInv, AddonTypes, FromTheSet, Known, Sample, AtRest, Generation, life, pools, saves
<1>4. GraceKept'
  BY DEF AddonsInv, AddonTypes, GraceKept, Gone, Admitted, Sample, AtRest, Generation, life, pools, saves
<1>5. HeldInPlace'
  BY DEF AddonsInv, AddonTypes, HeldInPlace, Excused, Sample, AtRest, Generation, life, pools, saves
<1>6. RestInPlace'
  BY DEF AddonsInv, AddonTypes, RestInPlace, Excused, Sample, AtRest, Generation, life, pools, saves
<1>7. RestPublished'
  BY DEF AddonsInv, AddonTypes, RestPublished, Sample, AtRest, Generation, life, pools, saves
<1>8. RestFresh'
  <2>1. \A i, v : InForce(i, v) => InForce(i, v)'
    BY DEF AddonsInv, AddonTypes, InForce, Sample, saves
  <2>2. idle' = idle /\ gen' = gen /\ outlived' = outlived
    BY DEF Sample, life, pools
  <2> QED
    BY <2>1, <2>2, FewerAtRest
<1>9. MadeForIts'
  <2> SUFFICES ASSUME outlived = {}, NEW d \in Call, reached'[d] = "making"
               PROVE  inst'[d].of = runs[d] /\ inst'[d].gen <= gen[runs[d]]
    BY DEF MadeForIts, Sample, life, pools
  <2>1. CASE d # c
    BY <2>1 DEF AddonsInv, AddonTypes, MadeForIts, Sample
  <2>2. CASE d = c
    <3>1. reached[c] \in Admitted
      BY DEF Sample, Admitted
    <3>2. inst'[c].of = state /\ inst'[c].gen = Generation
      BY DEF AddonsInv, AddonTypes, Sample
    <3>3. runs[c] \in Version /\ runs[c] = state /\ (loaded # NoVersion => runs[c] = loaded)
      BY <3>1, InsideIsCurrent
    <3>4. gen[runs[c]] \in Nat
      BY <3>3 DEF AddonsInv, AddonTypes
    <3> QED
      BY <2>2, <3>2, <3>3, <3>4 DEF Generation
  <2> QED
    BY <2>1, <2>2
<1>10. HeldFresh'
  BY DEF AddonsInv, AddonTypes, HeldFresh, InForce, Sample, AtRest, Generation, life, pools, saves
<1>11. BudgetCounted'
  <2>1. Places' = Places /\ kept' = kept
    BY DEF Places, Sample, life, pools, calls, saves
  <2>2. Returning' = Returning
    BY DEF AddonsInv, AddonTypes, Returning, Sample, life, pools, calls, saves
  <2> QED
    BY <2>1, <2>2 DEF AddonsInv, BudgetCounted
<1> QED
  BY <1>1, <1>2, <1>3, <1>4, <1>5, <1>6, <1>7, <1>8, <1>9, <1>10, <1>11 DEF AddonsInv

\* An instance is made of the version its invocation resolved.
LEMMA InstantiateKeeps ==
  ASSUME AddonsInv, NEW c \in Call, Instantiate(c)
  PROVE  AddonsInv'
<1>1. AddonTypes'
  <2>1. inst[c].of \in Version /\ inst[c] \in Instance /\ runs[c] \in Version \union {NoVersion}
    BY DEF AddonsInv, AddonTypes, FromTheSet, Instantiate
  <2>2. view[inst[c].of] \in Nat
    BY <2>1 DEF AddonsInv, AddonTypes
  <2>3. [inst[c] EXCEPT !.of = runs[c], !.cfg = view[inst[c].of]] \in Instance
    BY <2>1, <2>2 DEF Instance
  <2> QED
    BY <2>3, VersionNumbers, AddonsConstants DEF AddonsInv, AddonTypes, Instantiate, life, pools, calls, saves
<1>2. OneAtATime'
  BY DEF AddonsInv, AddonTypes, OneAtATime, Instantiate, life, pools, saves
<1>3. FromTheSet'
  BY DEF AddonsInv, AddonTypes, FromTheSet, Known, Instantiate, life, pools, saves
<1>4. GraceKept'
  BY DEF AddonsInv, AddonTypes, GraceKept, Gone, Admitted, Instantiate, life, pools, saves
<1>5. HeldInPlace'
  <2>1. inst'[c].of = runs[c] /\ reached'[c] = "running" /\ runs' = runs /\ into' = into /\ outlived' = outlived
    BY DEF AddonsInv, AddonTypes, Instance, Instantiate, life
  <2>2. \A d \in Call \ {c} : reached'[d] = reached[d] /\ inst'[d] = inst[d]
    BY DEF AddonsInv, AddonTypes, Instantiate
  <2> QED
    BY <2>1, <2>2 DEF AddonsInv, HeldInPlace, Excused
<1>6. RestInPlace'
  BY DEF AddonsInv, AddonTypes, RestInPlace, Excused, Instantiate, life, pools, saves
<1>7. RestPublished'
  BY DEF AddonsInv, AddonTypes, RestPublished, Instantiate, life, pools, saves
<1>8. RestFresh'
  <2>1. \A i, v : InForce(i, v) => InForce(i, v)'
    BY DEF AddonsInv, AddonTypes, InForce, Instantiate, saves
  <2>2. idle' = idle /\ gen' = gen /\ outlived' = outlived
    BY DEF Instantiate, life, pools
  <2> QED
    BY <2>1, <2>2, FewerAtRest
<1>9. MadeForIts'
  BY DEF AddonsInv, AddonTypes, MadeForIts, Instantiate, life, pools, saves
<1>10. HeldFresh'
  <2> SUFFICES ASSUME outlived = {}, NEW d \in Call, reached'[d] \in {"running", "returning"}
               PROVE  inst'[d].gen <= gen[runs[d]] /\ (inst'[d].gen = gen[runs[d]] => InForce(inst'[d], runs[d]))
    BY DEF HeldFresh, InForce, Instantiate, life, pools, saves
  <2>1. CASE d # c
    BY <2>1 DEF AddonsInv, AddonTypes, HeldFresh, Instantiate
  <2>2. CASE d = c
    <3>1. inst[c].of = runs[c] /\ inst[c].gen <= gen[runs[c]]
      BY DEF AddonsInv, MadeForIts, Instantiate
    <3>2. inst'[c].gen = inst[c].gen /\ inst'[c].cfg = view[inst[c].of]
      BY DEF AddonsInv, AddonTypes, Instance, Instantiate
    <3> QED
      BY <2>2, <3>1, <3>2 DEF InForce
  <2> QED
    BY <2>1, <2>2
<1>11. BudgetCounted'
  <2>1. Places' = Places /\ kept' = kept
    BY DEF Places, Instantiate, life, pools, calls, saves
  <2>2. Returning' = Returning
    BY DEF AddonsInv, AddonTypes, Returning, Instantiate, life, pools, calls, saves
  <2> QED
    BY <2>1, <2>2 DEF AddonsInv, BudgetCounted
<1> QED
  BY <1>1, <1>2, <1>3, <1>4, <1>5, <1>6, <1>7, <1>8, <1>9, <1>10, <1>11 DEF AddonsInv

\* An instance on its way back reserves its place.
LEMMA ReserveKeeps ==
  ASSUME AddonsInv, NEW c \in Call, Reserve(c)
  PROVE  AddonsInv'
<1>1. AddonTypes'
  <2>1. into' \in [Call -> Version \union {NoVersion}] /\ kept' \in Int
    BY DEF AddonsInv, AddonTypes, Reserve
  <2>2. reached' \in [Call -> {"idle", "resolved", "inside", "making", "running", "returning"}]
    BY DEF AddonsInv, AddonTypes, Reserve
  <2> QED
    BY <2>1, <2>2 DEF AddonsInv, AddonTypes, Reserve, life, saves
<1>2. OneAtATime'
  BY DEF AddonsInv, AddonTypes, OneAtATime, Reserve, life, saves
<1>3. FromTheSet'
  BY DEF AddonsInv, AddonTypes, FromTheSet, Known, Reserve, life, saves
<1>4. GraceKept'
  BY DEF AddonsInv, AddonTypes, GraceKept, Gone, Admitted, Reserve, life, saves
<1>5. HeldInPlace'
  <2>1. /\ reached[c] = "running" /\ into'[c] = loaded /\ inst' = inst /\ runs' = runs /\ loaded \in Version
        /\ \A d \in Call \ {c} : reached'[d] = reached[d] /\ into'[d] = into[d]
    BY DEF AddonsInv, AddonTypes, Reserve
  <2>2. inst[c].of # runs[c] => Excused(inst[c].of)
    BY <2>1 DEF AddonsInv, HeldInPlace
  <2>3. runs[c] # loaded => runs[c] \in outlived /\ runs[c] \in Int
    BY <2>1, OldOutlived, VersionNumbers DEF Admitted, Reserve
  <2>4. loaded # inst[c].of => Excused(inst[c].of)
    BY <2>2, <2>3 DEF Excused
  <2> QED
    BY <2>1, <2>2, <2>4 DEF AddonsInv, HeldInPlace, Excused, Reserve, life
<1>6. RestInPlace'
  BY DEF AddonsInv, AddonTypes, RestInPlace, Excused, Reserve, life, saves
<1>7. RestPublished'
  BY DEF AddonsInv, AddonTypes, RestPublished, Reserve, life, saves
<1>8. RestFresh'
  <2>1. \A i, v : InForce(i, v) => InForce(i, v)'
    BY DEF AddonsInv, AddonTypes, InForce, Reserve, saves
  <2>2. idle' = idle /\ gen' = gen /\ outlived' = outlived
    BY DEF Reserve, life, pools
  <2> QED
    BY <2>1, <2>2, FewerAtRest
<1>9. MadeForIts'
  BY DEF AddonsInv, AddonTypes, MadeForIts, Reserve, life, saves
<1>10. HeldFresh'
  BY DEF AddonsInv, AddonTypes, HeldFresh, InForce, Reserve, life, saves
<1>11. BudgetCounted'
  <2>1. Places' = Places
    BY DEF Places, Reserve
  <2>2. Returning' = Returning \union {c} /\ c \notin Returning /\ kept' = kept + 1 /\ kept < PoolSize
    BY DEF AddonsInv, AddonTypes, Returning, Reserve
  <2>3. Cardinality(Returning') = Cardinality(Returning) + 1
    BY <2>2, ReturningSize, FS_AddElement
  <2> QED
    BY <2>1, <2>2, <2>3, ReturningSize, AddonsConstants DEF BudgetCounted
<1> QED
  BY <1>1, <1>2, <1>3, <1>4, <1>5, <1>6, <1>7, <1>8, <1>9, <1>10, <1>11 DEF AddonsInv

\* An instance comes to rest, or its place is given up.
LEMMA PutKeeps ==
  ASSUME AddonsInv, NEW c \in Call, Put(c)
  PROVE  AddonsInv'
<1>1. AddonTypes'
  <2>1. NoInstance \in Instance /\ into[c] \in Version /\ idle[into[c]] \in Seq(Instance) /\ inst[c] \in Instance
    BY DEF NoInstance, Instance, AddonsInv, AddonTypes, FromTheSet, Put
  <2>2. Append(idle[into[c]], inst[c]) \in Seq(Instance)
    BY <2>1
  <2>3. idle' \in [Version -> Seq(Instance)] /\ kept' \in Int
    <3>1. CASE inst[c].gen = gen[into[c]]
      BY <2>1, <2>2, <3>1 DEF AddonsInv, AddonTypes, Put
    <3>2. CASE inst[c].gen # gen[into[c]]
      BY <3>2 DEF AddonsInv, AddonTypes, Put
    <3> QED
      BY <3>1, <3>2
  <2> QED
    BY <2>1, <2>3 DEF AddonsInv, AddonTypes, Put, Leaves, life, saves
<1>2. OneAtATime'
  BY DEF AddonsInv, AddonTypes, OneAtATime, Put, Leaves, life, saves
<1>3. FromTheSet'
  BY DEF AddonsInv, AddonTypes, FromTheSet, Known, Put, Leaves, life, saves
<1>4. GraceKept'
  BY DEF AddonsInv, AddonTypes, GraceKept, Gone, Admitted, Put, Leaves, life, saves
<1>5. HeldInPlace'
  BY DEF AddonsInv, AddonTypes, HeldInPlace, Excused, Put, Leaves, life, saves
<1>6. RestInPlace'
  <2>1. into[c] \in Version /\ idle[into[c]] \in Seq(Instance) /\ idle \in [Version -> Seq(Instance)]
    BY DEF AddonsInv, AddonTypes, FromTheSet, Put
  <2>2. \A v \in Version \ {into[c]} : idle'[v] = idle[v]
    BY <2>1 DEF Put
  <2>3. CASE inst[c].gen # gen[into[c]]
    <3>1. idle' = idle
      BY <2>3 DEF Put
    <3> QED
      BY <3>1 DEF AddonsInv, RestInPlace, Excused, Put, life, saves
  <2>4. CASE inst[c].gen = gen[into[c]]
    <3>1. /\ idle'[into[c]] = Append(idle[into[c]], inst[c])
          /\ DOMAIN idle'[into[c]] = 1..(Len(idle[into[c]]) + 1)
          /\ \A i \in 1..Len(idle[into[c]]) : idle'[into[c]][i] = idle[into[c]][i]
          /\ idle'[into[c]][Len(idle[into[c]]) + 1] = inst[c]
          /\ DOMAIN idle[into[c]] = 1..Len(idle[into[c]]) /\ Len(idle[into[c]]) \in Nat
      BY <2>1, <2>4 DEF Put
    <3>2. inst[c].of # into[c] => Excused(inst[c].of)
      BY DEF AddonsInv, HeldInPlace, Put
    <3>3. \A i \in DOMAIN idle'[into[c]] : idle'[into[c]][i].of # into[c] => Excused(idle'[into[c]][i].of)
      <4> TAKE i \in DOMAIN idle'[into[c]]
      <4>1. CASE i \in 1..Len(idle[into[c]])
        BY <2>1, <3>1, <4>1 DEF AddonsInv, RestInPlace
      <4>2. CASE i = Len(idle[into[c]]) + 1
        BY <3>1, <3>2, <4>2
      <4> QED
        BY <3>1, <4>1, <4>2
    <3>4. /\ outlived' = outlived
          /\ \A v \in Version \ {into[c]} : \A i \in DOMAIN idle'[v] : idle'[v][i].of # v => Excused(idle'[v][i].of)
      BY <2>2 DEF AddonsInv, RestInPlace, Put, life
    <3> QED
      BY <3>3, <3>4 DEF RestInPlace, Excused
  <2> QED
    BY <2>3, <2>4
<1>7. RestPublished'
  <2> SUFFICES ASSUME outlived = {}, NEW v \in Version, idle'[v] # <<>>
               PROVE  v = loaded \/ (v = subject /\ step \in {"park", "quiet"})
    BY DEF RestPublished, Put, life
  <2>1. into[c] \in Version /\ reached[c] \in Admitted
    BY DEF AddonsInv, AddonTypes, FromTheSet, Put, Admitted
  <2>2. CASE v = into[c]
    <3>1. inst[c].of = into[c] /\ inst[c].of = runs[c]
      BY DEF AddonsInv, HeldInPlace, Excused, Put
    <3> QED
      BY <2>1, <2>2, <3>1, InsideIsCurrent
  <2>3. CASE v # into[c]
    <3>1. idle'[v] = idle[v]
      BY <2>3 DEF AddonsInv, AddonTypes, Put
    <3> QED
      BY <3>1 DEF AddonsInv, RestPublished
  <2> QED
    BY <2>2, <2>3
<1>8. RestFresh'
  <2>1. into[c] \in Version /\ idle[into[c]] \in Seq(Instance) /\ idle \in [Version -> Seq(Instance)]
    BY DEF AddonsInv, AddonTypes, FromTheSet, Put
  <2>2. \A v \in Version \ {into[c]} : idle'[v] = idle[v]
    BY <2>1 DEF Put
  <2>3. CASE inst[c].gen # gen[into[c]]
    <3>1. idle' = idle
      BY <2>3 DEF Put
    <3> QED
      BY <3>1 DEF AddonsInv, RestFresh, InForce, Put, life, saves
  <2>4. CASE inst[c].gen = gen[into[c]]
    <3>1. /\ idle'[into[c]] = Append(idle[into[c]], inst[c])
          /\ DOMAIN idle'[into[c]] = 1..(Len(idle[into[c]]) + 1)
          /\ \A i \in 1..Len(idle[into[c]]) : idle'[into[c]][i] = idle[into[c]][i]
          /\ idle'[into[c]][Len(idle[into[c]]) + 1] = inst[c]
          /\ DOMAIN idle[into[c]] = 1..Len(idle[into[c]]) /\ Len(idle[into[c]]) \in Nat
      BY <2>1, <2>4 DEF Put
    <3> SUFFICES ASSUME outlived = {}
                 PROVE  \A v \in Version : \A i \in DOMAIN idle'[v] :
                          idle'[v][i].gen = gen[v] /\ InForce(idle'[v][i], v)
      BY DEF RestFresh, InForce, Put, life, saves
    <3>2. inst[c].of = into[c] /\ inst[c].of = runs[c]
      BY DEF AddonsInv, HeldInPlace, Excused, Put
    <3>3. inst[c].gen = gen[into[c]] /\ InForce(inst[c], into[c])
      BY <2>4, <3>2 DEF AddonsInv, HeldFresh, Put
    <3>4. \A i \in DOMAIN idle'[into[c]] : idle'[into[c]][i].gen = gen[into[c]] /\ InForce(idle'[into[c]][i], into[c])
      <4> TAKE i \in DOMAIN idle'[into[c]]
      <4>1. CASE i \in 1..Len(idle[into[c]])
        BY <2>1, <3>1, <4>1 DEF AddonsInv, RestFresh
      <4>2. CASE i = Len(idle[into[c]]) + 1
        BY <3>1, <3>3, <4>2
      <4> QED
        BY <3>1, <4>1, <4>2
    <3> QED
      BY <2>2, <3>4 DEF AddonsInv, RestFresh
  <2> QED
    BY <2>3, <2>4
<1>9. MadeForIts'
  BY DEF AddonsInv, AddonTypes, MadeForIts, Put, Leaves, life, saves
<1>10. HeldFresh'
  BY DEF AddonsInv, AddonTypes, HeldFresh, InForce, Put, Leaves, life, saves
<1>11. BudgetCounted'
  <2>1. Returning' = Returning \ {c} /\ c \in Returning /\ Places' = PlacesOf(idle')
    BY DEF AddonsInv, AddonTypes, Returning, Places, PlacesOf, Put, Leaves
  <2>2. Cardinality(Returning') = Cardinality(Returning) - 1
    BY <2>1, ReturningSize, FS_RemoveElement
  <2>3. CASE inst[c].gen # gen[into[c]]
    <3>1. idle' = idle /\ kept' = kept - 1
      BY <2>3 DEF Put
    <3> QED
      BY <2>1, <2>2, <3>1, ReturningSize, AddonsConstants DEF BudgetCounted
  <2>4. CASE inst[c].gen = gen[into[c]]
    <3> DEFINE q == Append(idle[into[c]], inst[c])
    <3>1. into[c] \in Version /\ idle[into[c]] \in Seq(Instance) /\ inst[c] \in Instance
      BY DEF AddonsInv, AddonTypes, FromTheSet, Put
    <3>2. q \in Seq(Instance) /\ Len(q) = Len(idle[into[c]]) + 1
      BY <3>1
    <3>3. idle' = [idle EXCEPT ![into[c]] = q] /\ kept' = kept
      BY <2>4 DEF Put
    <3>4. idle \in [Version -> Seq(Instance)] /\ idle' \in [Version -> Seq(Instance)]
      BY <1>1 DEF AddonsInv, AddonTypes
    <3> HIDE DEF q
    <3>5. IsFiniteSet(PlacesOf(idle')) /\ Cardinality(PlacesOf(idle')) = Cardinality(PlacesOf(idle)) + 1
      BY <3>1, <3>2, <3>3, <3>4, PlaceMore, ReturningSize
    <3> QED
      BY <2>1, <2>2, <3>3, <3>5, ReturningSize, AddonsConstants DEF BudgetCounted
  <2> QED
    BY <2>3, <2>4
<1> QED
  BY <1>1, <1>2, <1>3, <1>4, <1>5, <1>6, <1>7, <1>8, <1>9, <1>10, <1>11 DEF AddonsInv

\* The instance that rested longest is closed.
LEMMA SweepPoolsKeeps ==
  ASSUME AddonsInv, SweepPools
  PROVE  AddonsInv'
<1>1. AddonTypes'
  <2>1. loaded \in Version /\ Tail(idle[loaded]) \in Seq(Instance)
    BY AtRestIs DEF SweepPools
  <2>2. idle' \in [Version -> Seq(Instance)] /\ kept' \in Int
    BY <2>1 DEF AddonsInv, AddonTypes, SweepPools
  <2> QED
    BY <2>2 DEF AddonsInv, AddonTypes, SweepPools, life, calls, saves
<1>2. OneAtATime'
  BY DEF AddonsInv, OneAtATime, SweepPools, AtRest, life, calls, saves
<1>3. FromTheSet'
  BY DEF AddonsInv, FromTheSet, Known, SweepPools, AtRest, life, calls, saves
<1>4. GraceKept'
  BY DEF AddonsInv, GraceKept, Gone, Admitted, SweepPools, AtRest, life, calls, saves
<1>5. HeldInPlace'
  BY DEF AddonsInv, HeldInPlace, Excused, SweepPools, AtRest, life, calls, saves
<1>6. RestInPlace' /\ RestFresh'
  <2>1. idle[loaded] # <<>> /\ idle[loaded] \in Seq(Instance)
    BY AtRestIs DEF SweepPools
  <2>2. idle' = [idle EXCEPT ![loaded] = Tail(idle[loaded])]
    BY DEF AddonsInv, AddonTypes, SweepPools
  <2>3. \A v \in Version : \A i \in DOMAIN idle'[v] : \E j \in DOMAIN idle[v] : idle'[v][i] = idle[v][j]
    <3> TAKE v \in Version
    <3>1. CASE v = loaded
      <4>1. idle'[v] = Tail(idle[loaded]) /\ idle[v] = idle[loaded]
        BY <2>1, <2>2, <3>1 DEF AddonsInv, AddonTypes
      <4> QED
        BY <2>1, <4>1
    <3>2. CASE v # loaded
      BY <2>2, <3>2 DEF AddonsInv, AddonTypes
    <3> QED
      BY <3>1, <3>2
  <2>4. gen' = gen /\ outlived' = outlived /\ \A i, v : InForce(i, v) => InForce(i, v)'
    BY DEF SweepPools, life, saves, InForce
  <2> QED
    BY <2>3, <2>4, FewerAtRest
<1>7. RestPublished'
  BY DEF AddonsInv, RestPublished, SweepPools, AtRest, life, calls, saves
<1>9. MadeForIts'
  BY DEF AddonsInv, MadeForIts, SweepPools, AtRest, life, calls, saves
<1>10. HeldFresh'
  BY DEF AddonsInv, HeldFresh, InForce, SweepPools, AtRest, life, calls, saves
<1>11. BudgetCounted'
  <2> DEFINE q == Tail(idle[loaded])
  <2>1. loaded \in Version /\ idle[loaded] # <<>> /\ q \in Seq(Instance) /\ Len(q) = Len(idle[loaded]) - 1
    BY AtRestIs DEF SweepPools
  <2>2. idle' = [idle EXCEPT ![loaded] = q] /\ kept' = kept - 1
    BY DEF AddonsInv, AddonTypes, SweepPools
  <2>3. idle \in [Version -> Seq(Instance)] /\ idle' \in [Version -> Seq(Instance)]
    BY <1>1 DEF AddonsInv, AddonTypes
  <2> HIDE DEF q
  <2>4. IsFiniteSet(PlacesOf(idle')) /\ Cardinality(PlacesOf(idle')) = Cardinality(PlacesOf(idle)) - 1
    BY <2>1, <2>2, <2>3, PlaceLess, ReturningSize
  <2>5. Returning' = Returning
    BY DEF AddonsInv, AddonTypes, Returning, SweepPools, life, pools, calls, saves
  <2>6. Places' = PlacesOf(idle')
    BY DEF Places, PlacesOf
  <2> QED
    BY <2>2, <2>4, <2>5, <2>6, ReturningSize, AddonsConstants DEF BudgetCounted
<1> QED
  BY <1>1, <1>2, <1>3, <1>4, <1>5, <1>6, <1>7, <1>9, <1>10, <1>11 DEF AddonsInv

\* A save finds the version in the set.
LEMMA SaveSettingsKeeps ==
  ASSUME AddonsInv, NEW s \in Save, SaveSettings(s)
  PROVE  AddonsInv'
<1>1. AddonTypes'
  BY DEF AddonsInv, AddonTypes, SaveSettings, life, pools, calls
<1>2. OneAtATime'
  BY DEF AddonsInv, AddonTypes, OneAtATime, SaveSettings, life, pools, calls
<1>3. FromTheSet'
  BY DEF AddonsInv, AddonTypes, FromTheSet, Known, SaveSettings, life, pools, calls
<1>4. GraceKept'
  BY DEF AddonsInv, AddonTypes, GraceKept, Gone, Admitted, SaveSettings, life, pools, calls
<1>5. HeldInPlace'
  BY DEF AddonsInv, AddonTypes, HeldInPlace, Excused, SaveSettings, life, pools, calls
<1>6. RestInPlace'
  BY DEF AddonsInv, AddonTypes, RestInPlace, Excused, SaveSettings, life, pools, calls
<1>7. RestPublished'
  BY DEF AddonsInv, AddonTypes, RestPublished, SaveSettings, life, pools, calls
<1>8. RestFresh'
  <2>1. \A i, v : InForce(i, v) => InForce(i, v)'
    BY DEF AddonsInv, AddonTypes, InForce, SaveSettings, saves
  <2>2. idle' = idle /\ gen' = gen /\ outlived' = outlived
    BY DEF SaveSettings, life, pools
  <2> QED
    BY <2>1, <2>2, FewerAtRest
<1>9. MadeForIts'
  BY DEF AddonsInv, AddonTypes, MadeForIts, SaveSettings, life, pools, calls
<1>10. HeldFresh'
  BY DEF AddonsInv, AddonTypes, HeldFresh, InForce, SaveSettings, life, pools, calls
<1>11. BudgetCounted'
  BY DEF AddonsInv, AddonTypes, BudgetCounted, Returning, Places, SaveSettings, life, pools, calls
<1> QED
  BY <1>1, <1>2, <1>3, <1>4, <1>5, <1>6, <1>7, <1>8, <1>9, <1>10, <1>11 DEF AddonsInv

\* A save is refused.
LEMMA SaveRefusedKeeps ==
  ASSUME AddonsInv, NEW s \in Save, SaveRefused(s)
  PROVE  AddonsInv'
<1>1. AddonTypes'
  BY DEF AddonsInv, AddonTypes, SaveRefused, Forgotten, life, pools, calls
<1>2. OneAtATime'
  BY DEF AddonsInv, AddonTypes, OneAtATime, SaveRefused, Forgotten, life, pools, calls
<1>3. FromTheSet'
  BY DEF AddonsInv, AddonTypes, FromTheSet, Known, SaveRefused, Forgotten, life, pools, calls
<1>4. GraceKept'
  BY DEF AddonsInv, AddonTypes, GraceKept, Gone, Admitted, SaveRefused, Forgotten, life, pools, calls
<1>5. HeldInPlace'
  BY DEF AddonsInv, AddonTypes, HeldInPlace, Excused, SaveRefused, Forgotten, life, pools, calls
<1>6. RestInPlace'
  BY DEF AddonsInv, AddonTypes, RestInPlace, Excused, SaveRefused, Forgotten, life, pools, calls
<1>7. RestPublished'
  BY DEF AddonsInv, AddonTypes, RestPublished, SaveRefused, Forgotten, life, pools, calls
<1>8. RestFresh'
  <2>1. \A i, v : InForce(i, v) => InForce(i, v)'
    BY DEF AddonsInv, AddonTypes, InForce, SaveRefused, Forgotten, saves
  <2>2. idle' = idle /\ gen' = gen /\ outlived' = outlived
    BY DEF SaveRefused, life, pools
  <2> QED
    BY <2>1, <2>2, FewerAtRest
<1>9. MadeForIts'
  BY DEF AddonsInv, AddonTypes, MadeForIts, SaveRefused, Forgotten, life, pools, calls
<1>10. HeldFresh'
  BY DEF AddonsInv, AddonTypes, HeldFresh, InForce, SaveRefused, Forgotten, life, pools, calls
<1>11. BudgetCounted'
  BY DEF AddonsInv, AddonTypes, BudgetCounted, Returning, Places, SaveRefused, Forgotten, life, pools, calls
<1> QED
  BY <1>1, <1>2, <1>3, <1>4, <1>5, <1>6, <1>7, <1>8, <1>9, <1>10, <1>11 DEF AddonsInv

\* A save commits.
LEMMA CommitSettingsKeeps ==
  ASSUME AddonsInv, NEW s \in Save, CommitSettings(s)
  PROVE  AddonsInv'
<1>1. AddonTypes'
  <2>1. saved' \in Nat
    BY DEF AddonsInv, AddonTypes, CommitSettings
  <2>2. saving' \in [Save -> {"idle", "found", "committed", "resolved", "replaced"}]
    BY DEF AddonsInv, AddonTypes, CommitSettings
  <2> QED
    BY <2>1, <2>2 DEF AddonsInv, AddonTypes, CommitSettings, life, pools, calls
<1>2. OneAtATime'
  BY DEF AddonsInv, AddonTypes, OneAtATime, CommitSettings, life, pools, calls
<1>3. FromTheSet'
  BY DEF AddonsInv, AddonTypes, FromTheSet, Known, CommitSettings, life, pools, calls
<1>4. GraceKept'
  BY DEF AddonsInv, AddonTypes, GraceKept, Gone, Admitted, CommitSettings, life, pools, calls
<1>5. HeldInPlace'
  BY DEF AddonsInv, AddonTypes, HeldInPlace, Excused, CommitSettings, life, pools, calls
<1>6. RestInPlace'
  BY DEF AddonsInv, AddonTypes, RestInPlace, Excused, CommitSettings, life, pools, calls
<1>7. RestPublished'
  BY DEF AddonsInv, AddonTypes, RestPublished, CommitSettings, life, pools, calls
<1>8. RestFresh'
  <2>1. \A i, v : InForce(i, v) => InForce(i, v)'
    BY DEF AddonsInv, AddonTypes, InForce, CommitSettings, saves
  <2>2. idle' = idle /\ gen' = gen /\ outlived' = outlived
    BY DEF CommitSettings, life, pools
  <2> QED
    BY <2>1, <2>2, FewerAtRest
<1>9. MadeForIts'
  BY DEF AddonsInv, AddonTypes, MadeForIts, CommitSettings, life, pools, calls
<1>10. HeldFresh'
  BY DEF AddonsInv, AddonTypes, HeldFresh, InForce, CommitSettings, life, pools, calls
<1>11. BudgetCounted'
  BY DEF AddonsInv, AddonTypes, BudgetCounted, Returning, Places, CommitSettings, life, pools, calls
<1> QED
  BY <1>1, <1>2, <1>3, <1>4, <1>5, <1>6, <1>7, <1>8, <1>9, <1>10, <1>11 DEF AddonsInv

\* A save reads back what is stored.
LEMMA ResolveSettingsKeeps ==
  ASSUME AddonsInv, NEW s \in Save, NEW cfg \in 0..MaxSaves, ResolveSettings(s, cfg)
  PROVE  AddonsInv'
<1>1. AddonTypes'
  <2>1. cfg \in Nat
    BY AddonsConstants
  <2> QED
    BY <2>1, VersionNumbers, AddonsConstants DEF AddonsInv, AddonTypes, ResolveSettings, life, pools, calls, saves
<1>2. OneAtATime'
  BY DEF AddonsInv, AddonTypes, OneAtATime, ResolveSettings, life, pools, calls
<1>3. FromTheSet'
  BY DEF AddonsInv, AddonTypes, FromTheSet, Known, ResolveSettings, life, pools, calls
<1>4. GraceKept'
  BY DEF AddonsInv, AddonTypes, GraceKept, Gone, Admitted, ResolveSettings, life, pools, calls
<1>5. HeldInPlace'
  BY DEF AddonsInv, AddonTypes, HeldInPlace, Excused, ResolveSettings, life, pools, calls
<1>6. RestInPlace'
  BY DEF AddonsInv, AddonTypes, RestInPlace, Excused, ResolveSettings, life, pools, calls
<1>7. RestPublished'
  BY DEF AddonsInv, AddonTypes, RestPublished, ResolveSettings, life, pools, calls
<1>8. RestFresh'
  <2>1. \A i, v : InForce(i, v) => InForce(i, v)'
    BY DEF AddonsInv, AddonTypes, InForce, ResolveSettings, saves
  <2>2. idle' = idle /\ gen' = gen /\ outlived' = outlived
    BY DEF ResolveSettings, life, pools
  <2> QED
    BY <2>1, <2>2, FewerAtRest
<1>9. MadeForIts'
  BY DEF AddonsInv, AddonTypes, MadeForIts, ResolveSettings, life, pools, calls
<1>10. HeldFresh'
  BY DEF AddonsInv, AddonTypes, HeldFresh, InForce, ResolveSettings, life, pools, calls
<1>11. BudgetCounted'
  BY DEF AddonsInv, AddonTypes, BudgetCounted, Returning, Places, ResolveSettings, life, pools, calls
<1> QED
  BY <1>1, <1>2, <1>3, <1>4, <1>5, <1>6, <1>7, <1>8, <1>9, <1>10, <1>11 DEF AddonsInv

\* A save replaces what the version it found answers with.
LEMMA ReplaceKeeps ==
  ASSUME AddonsInv, NEW s \in Save, Replace(s)
  PROVE  AddonsInv'
<1>1. AddonTypes'
  BY DEF AddonsInv, AddonTypes, Replace, life, pools, calls
<1>2. OneAtATime'
  BY DEF AddonsInv, AddonTypes, OneAtATime, Replace, life, pools, calls
<1>3. FromTheSet'
  BY DEF AddonsInv, AddonTypes, FromTheSet, Known, Replace, life, pools, calls
<1>4. GraceKept'
  BY DEF AddonsInv, AddonTypes, GraceKept, Gone, Admitted, Replace, life, pools, calls
<1>5. HeldInPlace'
  BY DEF AddonsInv, AddonTypes, HeldInPlace, Excused, Replace, life, pools, calls
<1>6. RestInPlace'
  BY DEF AddonsInv, AddonTypes, RestInPlace, Excused, Replace, life, pools, calls
<1>7. RestPublished'
  BY DEF AddonsInv, AddonTypes, RestPublished, Replace, life, pools, calls
<1>8. RestFresh'
  <2>1. \A i, v : InForce(i, v) => InForce(i, v)'
    BY DEF AddonsInv, AddonTypes, InForce, Replace, saves
  <2>2. idle' = idle /\ gen' = gen /\ outlived' = outlived
    BY DEF Replace, life, pools
  <2> QED
    BY <2>1, <2>2, FewerAtRest
<1>9. MadeForIts'
  BY DEF AddonsInv, AddonTypes, MadeForIts, Replace, life, pools, calls
<1>10. HeldFresh'
  <2> SUFFICES ASSUME outlived = {}, NEW c \in Call, reached[c] \in {"running", "returning"}
               PROVE  inst[c].gen <= gen[runs[c]] /\ (inst[c].gen = gen[runs[c]] => InForce(inst[c], runs[c])')
    BY DEF HeldFresh, Replace, life, pools, calls
  <2>1. inst[c].gen <= gen[runs[c]] /\ (inst[c].gen = gen[runs[c]] => InForce(inst[c], runs[c]))
    BY DEF AddonsInv, HeldFresh
  <2>2. InForce(inst[c], runs[c]) => InForce(inst[c], runs[c])'
    BY DEF AddonsInv, AddonTypes, InForce, Replace, calls
  <2> QED
    BY <2>1, <2>2
<1>11. BudgetCounted'
  BY DEF AddonsInv, AddonTypes, BudgetCounted, Returning, Places, Replace, life, pools, calls
<1> QED
  BY <1>1, <1>2, <1>3, <1>4, <1>5, <1>6, <1>7, <1>8, <1>9, <1>10, <1>11 DEF AddonsInv

\* A save drains the pool in the set, or notes that it found none.
LEMMA DrainPoolKeeps ==
  ASSUME AddonsInv, NEW s \in Save, DrainPool(s)
  PROVE  AddonsInv'
<1>1. AddonTypes'
  <2>1. idle' \in [Version -> Seq(Instance)] /\ gen' \in [Version -> Nat] /\ kept' \in Int
    <3>1. CASE loaded = NoVersion
      BY <3>1 DEF AddonsInv, AddonTypes, DrainPool, pools
    <3>2. CASE loaded # NoVersion
      <4>1. loaded \in Version /\ <<>> \in Seq(Instance) /\ Len(idle[loaded]) \in Int /\ gen[loaded] + 1 \in Nat
        BY <3>2 DEF AddonsInv, AddonTypes
      <4>2. Emptied(loaded)
        BY <3>2 DEF DrainPool
      <4>3. idle' \in [Version -> Seq(Instance)] /\ gen' \in [Version -> Nat]
        BY <4>1, <4>2 DEF AddonsInv, AddonTypes, Emptied
      <4>4. kept' \in Int
        BY <4>1, <4>2 DEF AddonsInv, AddonTypes, Emptied
      <4> QED
        BY <4>3, <4>4
    <3> QED
      BY <3>1, <3>2
  <2> QED
    BY <2>1, VersionNumbers DEF AddonsInv, AddonTypes, DrainPool, Forgotten, life, calls
<1>2. OneAtATime'
  BY DEF AddonsInv, AddonTypes, OneAtATime, DrainPool, Emptied, Forgotten, life, pools, calls
<1>3. FromTheSet'
  BY DEF AddonsInv, AddonTypes, FromTheSet, Known, DrainPool, Emptied, Forgotten, life, pools, calls
<1>4. GraceKept'
  BY DEF AddonsInv, AddonTypes, GraceKept, Gone, Admitted, DrainPool, Emptied, Forgotten, life, pools, calls
<1>5. HeldInPlace'
  BY DEF AddonsInv, AddonTypes, HeldInPlace, Excused, DrainPool, Emptied, Forgotten, life, pools, calls
<1>6. RestInPlace'
  <2>1. outlived' = outlived
    BY DEF DrainPool, life
  <2>2. \A v \in Version : idle'[v] = idle[v] \/ idle'[v] = <<>>
    BY DEF AddonsInv, AddonTypes, DrainPool, Emptied, pools
  <2> QED
    BY <2>1, <2>2, FewerAtRest
<1>7. RestPublished'
  BY DEF AddonsInv, AddonTypes, RestPublished, DrainPool, Emptied, Forgotten, life, pools, calls
<1>8. RestFresh'
  <2> SUFFICES ASSUME outlived = {} PROVE RestFresh'
    BY DEF RestFresh, DrainPool, life
  <2>1. outlived' = outlived
    BY DEF DrainPool, life
  <2>2. CASE loaded # NoVersion
    <3>1. \A v \in Version : idle'[v] = <<>>
      BY <2>2 DEF AddonsInv, AddonTypes, OneAtATime, RestPublished, DrainPool, Emptied
    <3> QED
      BY <3>1 DEF RestFresh
  <2>3. CASE loaded = NoVersion
    <3>1. idle' = idle /\ gen' = gen /\ view' = view /\ missed' = missed \union {of[s]}
      BY <2>3 DEF DrainPool, pools
    <3>2. \A r \in Save : saving[r] = "replaced" => of[r] \in missed' \/ (saving'[r] = "replaced" /\ of'[r] = of[r])
      BY <3>1 DEF AddonsInv, AddonTypes, DrainPool, Forgotten
    <3>3. \A i, v : InForce(i, v) => InForce(i, v)'
      BY <3>1, <3>2 DEF InForce
    <3> QED
      BY <2>1, <3>1, <3>3, FewerAtRest
  <2> QED
    BY <2>2, <2>3
<1>9. MadeForIts'
  <2>1. outlived' = outlived /\ reached' = reached /\ inst' = inst /\ runs' = runs
    BY DEF DrainPool, life, calls
  <2>2. ASSUME NEW v \in Version PROVE gen[v] <= gen'[v] /\ gen[v] \in Nat /\ gen'[v] \in Nat
    <3>1. gen[v] \in Nat /\ gen'[v] \in Nat
      BY <1>1 DEF AddonsInv, AddonTypes
    <3>2. gen'[v] = gen[v] \/ gen'[v] = gen[v] + 1
      BY DEF AddonsInv, AddonTypes, DrainPool, pools, Emptied
    <3> QED
      BY <3>1, <3>2
  <2> SUFFICES ASSUME outlived = {}, NEW c \in Call, reached[c] = "making"
               PROVE  inst[c].of = runs[c] /\ inst[c].gen <= gen'[runs[c]]
    BY <2>1 DEF MadeForIts
  <2>3. inst[c].of = runs[c] /\ inst[c].gen <= gen[runs[c]] /\ inst[c].gen \in Nat
    BY DEF AddonsInv, AddonTypes, Instance, MadeForIts
  <2>4. runs[c] \in Version
    BY InsideIsCurrent DEF Admitted
  <2> QED
    BY <2>2, <2>3, <2>4
<1>10. HeldFresh'
  <2>1. outlived' = outlived /\ reached' = reached /\ inst' = inst /\ runs' = runs /\ view' = view
    BY DEF DrainPool, life, calls
  <2> SUFFICES ASSUME outlived = {}, NEW c \in Call, reached[c] \in {"running", "returning"}
               PROVE  inst[c].gen <= gen'[runs[c]] /\ (inst[c].gen = gen'[runs[c]] => InForce(inst[c], runs[c])')
    BY <2>1 DEF HeldFresh
  <2>2. inst[c].gen <= gen[runs[c]] /\ (inst[c].gen = gen[runs[c]] => InForce(inst[c], runs[c])) /\ inst[c].gen \in Nat
    BY DEF AddonsInv, AddonTypes, Instance, HeldFresh
  <2>3. runs[c] \in Version /\ gen[runs[c]] \in Nat /\ (loaded # NoVersion => runs[c] = loaded)
    BY InsideIsCurrent DEF Admitted, AddonsInv, AddonTypes
  <2>4. CASE loaded # NoVersion
    <3>1. gen'[runs[c]] = gen[runs[c]] + 1
      BY <2>3, <2>4 DEF AddonsInv, AddonTypes, DrainPool, Emptied
    <3> QED
      BY <2>2, <2>3, <3>1
  <2>5. CASE loaded = NoVersion
    <3>1. gen' = gen /\ missed' = missed \union {of[s]}
      BY <2>5 DEF DrainPool, pools
    <3>2. \A r \in Save : saving[r] = "replaced" => of[r] \in missed' \/ (saving'[r] = "replaced" /\ of'[r] = of[r])
      BY <3>1 DEF AddonsInv, AddonTypes, DrainPool, Forgotten
    <3>3. InForce(inst[c], runs[c]) => InForce(inst[c], runs[c])'
      BY <2>1, <3>1, <3>2 DEF InForce
    <3> QED
      BY <2>2, <3>1, <3>3
  <2> QED
    BY <2>4, <2>5
<1>11. BudgetCounted'
  <2>0. Returning' = Returning /\ Places' = PlacesOf(idle')
    BY DEF Returning, Places, PlacesOf, DrainPool, calls
  <2>1. CASE loaded = NoVersion
    BY <2>0, <2>1, ReturningSize DEF DrainPool, pools, BudgetCounted
  <2>2. CASE loaded # NoVersion
    <3>1. loaded \in Version /\ idle' = [idle EXCEPT ![loaded] = <<>>] /\ kept' = kept - Len(idle[loaded])
      BY <2>2 DEF AddonsInv, AddonTypes, DrainPool, Emptied
    <3>2. idle \in [Version -> Seq(Instance)] /\ idle' \in [Version -> Seq(Instance)] /\ Len(idle[loaded]) \in Nat
      BY <1>1, <3>1 DEF AddonsInv, AddonTypes
    <3>3. IsFiniteSet(PlacesOf(idle')) /\ Cardinality(PlacesOf(idle')) = Cardinality(PlacesOf(idle)) - Len(idle[loaded])
      BY <3>1, <3>2, PlaceNone, ReturningSize
    <3> QED
      BY <2>0, <3>1, <3>2, <3>3, ReturningSize, AddonsConstants DEF BudgetCounted
  <2> QED
    BY <2>1, <2>2
<1> QED
  BY <1>1, <1>2, <1>3, <1>4, <1>5, <1>6, <1>7, <1>8, <1>9, <1>10, <1>11 DEF AddonsInv

\* At first nothing is at rest and nobody is inside.
LEMMA AddonsInvInitially == AddonsInit => AddonsInv
<1> SUFFICES ASSUME AddonsInit PROVE AddonsInv
  OBVIOUS
<1>1. AddonTypes
  <2>1. <<>> \in Seq(Instance) /\ NoInstance \in Instance /\ 1 \in Version
    BY AddonsConstants DEF Instance, NoInstance, Version
  <2> QED
    BY <2>1, VersionNumbers DEF AddonTypes, AddonsInit
<1>2. OneAtATime
  BY VersionNumbers DEF OneAtATime, AddonsInit
<1>3. FromTheSet /\ GraceKept /\ HeldInPlace /\ MadeForIts /\ HeldFresh
  BY DEF AddonsInit, FromTheSet, GraceKept, HeldInPlace, MadeForIts, HeldFresh, Admitted
<1>4. RestInPlace /\ RestPublished /\ RestFresh
  BY DEF AddonsInit, RestInPlace, RestPublished, RestFresh
<1>5. BudgetCounted
  <2>1. Places = {} /\ Returning = {}
    BY DEF AddonsInit, Places, Returning
  <2>2. IsFiniteSet({}) /\ Cardinality({}) = 0
    BY FS_EmptySet
  <2> QED
    BY <2>1, <2>2, AddonsConstants DEF AddonsInit, BudgetCounted
<1> QED
  BY <1>1, <1>2, <1>3, <1>4, <1>5 DEF AddonsInv

\* Every step keeps all of it.
LEMMA AddonsInvKept == AddonsInv /\ [AddonsNext]_addonVars => AddonsInv'
<1> SUFFICES ASSUME AddonsInv, [AddonsNext]_addonVars PROVE AddonsInv'
  OBVIOUS
<1>1. CASE UNCHANGED addonVars
  <2> USE <1>1 DEF addonVars, AddonsInv
  <2>1. AddonTypes' /\ OneAtATime'
    BY DEF AddonTypes, OneAtATime
  <2>2. FromTheSet' /\ GraceKept'
    BY DEF FromTheSet, Known, GraceKept, Gone
  <2>3. HeldInPlace' /\ RestInPlace'
    BY DEF HeldInPlace, RestInPlace, Excused
  <2>4. RestPublished' /\ MadeForIts'
    BY DEF RestPublished, MadeForIts
  <2>5. RestFresh' /\ HeldFresh'
    BY DEF RestFresh, HeldFresh, InForce
  <2>6. BudgetCounted'
    BY DEF BudgetCounted, Places, Returning
  <2> QED
    BY <2>1, <2>2, <2>3, <2>4, <2>5, <2>6
<1>2. CASE Install \/ LoadFails \/ Publish \/ RemoveAddon \/ ParkFails \/ Park \/ Quiet \/ Unload \/ SweepPools
  BY <1>2, InstallKeeps, LoadFailsKeeps, PublishKeeps, RemoveAddonKeeps, ParkFailsKeeps, ParkKeeps, QuietKeeps,
     UnloadKeeps, SweepPoolsKeeps
<1>3. ASSUME NEW cfg \in 0..MaxSaves, LoadOne(cfg) PROVE AddonsInv'
  BY <1>3, LoadOneKeeps
<1>4. ASSUME NEW c \in Call, Resolve(c) \/ Enter(c) \/ GiveUp(c) \/ Take(c) PROVE AddonsInv'
  BY <1>4, ResolveKeeps, EnterKeeps, GiveUpKeeps, TakeKeeps
<1>5. ASSUME NEW c \in Call, Sample(c) \/ Instantiate(c) \/ ReleaseInstance(c) \/ Put(c) PROVE AddonsInv'
  BY <1>5, SampleKeeps, InstantiateKeeps, ReleaseCases, GiveUpKeeps, ReserveKeeps, PutKeeps
<1>6. ASSUME NEW s \in Save, SaveSettings(s) \/ SaveRefused(s) \/ CommitSettings(s) PROVE AddonsInv'
  BY <1>6, SaveSettingsKeeps, SaveRefusedKeeps, CommitSettingsKeeps
<1>7. ASSUME NEW s \in Save, NEW cfg \in 0..MaxSaves, ResolveSettings(s, cfg) PROVE AddonsInv'
  BY <1>7, ResolveSettingsKeeps
<1>8. ASSUME NEW s \in Save, Replace(s) \/ DrainPool(s) PROVE AddonsInv'
  BY <1>8, ReplaceKeeps, DrainPoolKeeps
<1> QED
  BY <1>1, <1>2, <1>3, <1>4, <1>5, <1>6, <1>7, <1>8 DEF AddonsNext

\* Hence it always holds.
LEMMA AddonsInvAlways == AddonsSpec => []AddonsInv
  BY AddonsInvInitially, AddonsInvKept, PTL DEF AddonsSpec

(* A guest runs in a closed module only where a removal outlived its grace, for any number of installs, *)
(* invocations and saves.                                                                               *)
THEOREM RemovalWaits == AddonsSpec => []NoneRunsClosed
<1>1. AddonsInv => NoneRunsClosed
  <2> SUFFICES ASSUME AddonsInv, NEW c \in Call, reached[c] = "running", inst[c].of \in shut
               PROVE  \E v \in outlived : v <= inst[c].of
    BY DEF NoneRunsClosed
  <2>1. CASE inst[c].of # runs[c]
    BY <2>1 DEF AddonsInv, HeldInPlace, Excused
  <2>2. CASE inst[c].of = runs[c]
    <3>1. runs[c] \in outlived /\ runs[c] \in Version
      BY <2>2 DEF AddonsInv, GraceKept, Gone, Admitted, OneAtATime
    <3>2. runs[c] \in Int
      BY <3>1, VersionNumbers
    <3>3. runs[c] <= runs[c]
      BY <3>2
    <3> QED
      BY <2>2, <3>1, <3>3
  <2> QED
    BY <2>1, <2>2
<1> QED
  BY <1>1, AddonsInvAlways, PTL

(* The pool in the set holds instances of the loaded version with the settings it answers with. *)
THEOREM PoolStaysCurrent == AddonsSpec => []PoolIsCurrent
<1>1. AddonsInv => PoolIsCurrent
  BY DEF AddonsInv, AddonTypes, RestInPlace, RestFresh, InForce, Excused, PoolIsCurrent
<1> QED
  BY <1>1, AddonsInvAlways, PTL

(* idleInstances counts what rests and what is on its way back, and never exceeds the pool size. *)
THEOREM BudgetIsExact == AddonsSpec => []NothingIsLost
<1>1. AddonsInv => NothingIsLost
  BY DEF AddonsInv, BudgetCounted, Returning, RestPublished, NothingIsLost
<1> QED
  BY <1>1, AddonsInvAlways, PTL

----------------------------------------------------------------------------
(* The rules of the services run, by the lemmas of AutomationProofs. *)

\* Both instances are rules the theorems of AutomationProofs are about.
LEMMA InstancesAreRules == Leaders!AutomationConstants /\ Capped!AutomationConstants
  BY DEF Leaders!AutomationConstants, Capped!AutomationConstants

RulesInv == (focus = "leaders" => Leaders!Inv) /\ (focus = "capped" => Capped!Inv)

\* The rule starts as Automation does.
LEMMA RulesInvInitially == ServicesInit => RulesInv
<1>1. ServicesInit => (focus = "leaders" => Leaders!Init) /\ (focus = "capped" => Capped!Init)
  BY DEF ServicesInit
<1> QED
  BY <1>1, InstancesAreRules, Leaders!InitInv, Capped!InitInv DEF RulesInv

allVars == <<focus, vars, folderVars, factorVars, addonVars, ingestVars, automation>>

\* It steps as Automation does.
LEMMA RulesInvKept == RulesInv /\ [ServicesNext]_allVars => RulesInv'
<1> SUFFICES ASSUME RulesInv, [ServicesNext]_allVars PROVE RulesInv'
  OBVIOUS
<1>1. focus' = focus
  BY DEF ServicesNext, allVars
<1>2. ASSUME focus = "leaders" PROVE [Leaders!Next]_Leaders!vars
  BY <1>2 DEF ServicesNext, allVars, automation, Leaders!vars, Leaders!subjects, Leaders!rule, Leaders!pass, Leaders!fired
<1>3. ASSUME focus = "capped" PROVE [Capped!Next]_Capped!vars
  BY <1>3 DEF ServicesNext, allVars, automation, Capped!vars, Capped!subjects, Capped!rule, Capped!pass, Capped!fired
<1> QED
  BY <1>1, <1>2, <1>3, InstancesAreRules, Leaders!StepInv, Capped!StepInv DEF RulesInv

(* Evaluate, in the two shapes the services run looks at: however many replicas   *)
(* believe they lead, and where the match cap falls between subjects that share   *)
(* an expiry, every expiry is claimed once and none is passed over.               *)
THEOREM LeadersAlwaysClaimOnce == ServicesSpec => []LeadersClaimOnce
<1>1. RulesInv => LeadersClaimOnce
  BY DEF RulesInv, LeadersClaimOnce, Leaders!Inv, Capped!Inv
<1> QED
  BY RulesInvInitially, RulesInvKept, <1>1, PTL DEF ServicesSpec, allVars

----------------------------------------------------------------------------
(* The composition. *)

\* A step of the composition is a step of each component, or leaves it alone.
LEMMA ComponentsStep ==
  ASSUME [ServicesNext]_allVars
  PROVE  /\ [Next]_vars /\ [FoldersNext]_folderVars /\ [FactorNext]_factorVars
         /\ [AddonsNext]_addonVars /\ [IngestNext]_ingestVars
  BY DEF ServicesNext, allVars

\* Running beside the others takes nothing from a component: every behaviour of the
\* composition is one of each of its specifications, so what is proved of Ownership,
\* Folders, SecondFactor, Addons and Ingest holds in the services run.
THEOREM ComponentsAreKept ==
  ServicesSpec => Spec /\ FoldersSpec /\ FactorSpec /\ AddonsSpec /\ IngestSpec
<1>1. ServicesInit => Init /\ FoldersInit /\ FactorInit /\ AddonsInit /\ IngestInit
  BY DEF ServicesInit
<1>2. [ServicesNext]_allVars =>
        /\ [Next]_vars /\ [FoldersNext]_folderVars /\ [FactorNext]_factorVars
        /\ [AddonsNext]_addonVars /\ [IngestNext]_ingestVars
  BY ComponentsStep
<1> QED
  BY <1>1, <1>2, PTL DEF ServicesSpec, allVars, Spec, FoldersSpec, FactorSpec, AddonsSpec, IngestSpec
=============================================================================
