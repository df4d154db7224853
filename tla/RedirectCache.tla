--------------------------- MODULE RedirectCache ---------------------------
(***************************************************************************)
(* The two-tier alias cache of the redirect path: the in-process tier of    *)
(* every replica (memcache.go), the shared Redis tier, Postgres behind them *)
(* (resolver.go), and the invalidations an edit performs and broadcasts     *)
(* (resolver.go, invalidation.go).                                          *)
(*                                                                          *)
(* A snapshot of an alias is abstracted to its version, the number of       *)
(* committed edits it includes; `Absent` are the versions at which no row   *)
(* exists (a negative snapshot), `Expiring` those that carry an expiry,     *)
(* whose cache lifetime is clamped.  All aliases are on one domain.         *)
(*                                                                          *)
(* Time is relative: an entry holds the ticks it has left, a request its    *)
(* age, a superseded version how long ago it was superseded.  Nothing       *)
(* depends on the absolute time, so the model needs no horizon.             *)
(***************************************************************************)
EXTENDS Integers, Sequences, FiniteSets

CONSTANTS
    Replica, Alias,
    Slot,       \* the requests a replica serves at a time
    TTL,        \* REDIRECT_TTL, in ticks
    NegTTL,     \* REDIRECT_NEGATIVE_TTL, in ticks
    D,          \* bound: the age a request can reach (its timeouts)
    PerShard,   \* entries a shard of the in-process tier holds
    Absent, Expiring,
    MaxEdits    \* bound: edits per alias

Version == 0 .. MaxEdits

\* Request goroutines, each of one replica.
Req == Replica \X Slot

\* The longest lifetime CacheTTL returns.
Lifetime == IF NegTTL > TTL THEN NegTTL ELSE TTL

\* How long a superseded version may be served: it leaves Redis one lifetime
\* after the fill, and a copy taken then lives in memory for another.
Bound == 2 * Lifetime + D

ASSUME RedirectCacheAssumption ==
    /\ TTL \in Nat \ {0} /\ NegTTL \in Nat /\ D \in Nat
    /\ PerShard \in Nat \ {0}
    /\ MaxEdits \in Nat
    /\ Alias # {}
    /\ Absent \subseteq Version /\ Expiring \subseteq Version

VARIABLES
    db,         \* [Alias -> Version]: the row in Postgres
    stale,      \* history: [Alias -> [Version -> ticks since superseded]]
    mem,        \* [Replica \X Alias -> entry] of the in-process tier
    held,       \* the keys present in the in-process tier, expired or not
    redis,      \* [Alias -> entry] of the shared tier; left = 0 is no key
    shun,       \* [Replica -> ticks until unavailableUntil]
    req,        \* [Req -> stage, alias, snapshot, lifetime and age]
    ed,         \* [Replica -> stage of the edit this replica performs]
    targets,    \* [Replica -> aliases the edit changed]
    unswept,    \* [Replica -> aliases its Redis sweep has not reached]
    link, inbox,\* [Replica -> ...]: subscription, messages not yet applied
    crossed,    \* history: requests whose snapshot predates a deletion of its key
    late,       \* history: aliases such a request stored superseded
    lost        \* history: aliases a deletion or a message was lost for

tiers == <<mem, held, redis, shun>>
edits == <<ed, targets, unswept>>
subs == <<link, inbox>>
history == <<crossed, late, lost>>
vars == <<db, stale, tiers, req, edits, subs, history>>

Key == Replica \X Alias
Blank == [ver |-> 0, left |-> -(D + 1)]
NoKey == [ver |-> 0, left |-> 0]

\* A goroutine that serves nothing.
Idle == [pc |-> "idle", a |-> CHOOSE a \in Alias : TRUE,
         v |-> 0, n |-> 0, g |-> 0]

Init ==
    /\ db = [a \in Alias |-> 0]
    /\ stale = [a \in Alias |-> [v \in Version |-> 0]]
    /\ mem = [k \in Key |-> Blank] /\ held = {}
    /\ redis = [a \in Alias |-> NoKey]
    /\ shun = [r \in Replica |-> -D]
    /\ req = [q \in Req |-> Idle]
    /\ ed = [r \in Replica |-> "idle"]
    /\ targets = [r \in Replica |-> {}] /\ unswept = [r \in Replica |-> {}]
    /\ link = [r \in Replica |-> "open"]
    /\ inbox = [r \in Replica |-> <<>>]
    /\ crossed = {} /\ late = {} /\ lost = {}

-----------------------------------------------------------------------------
(* Snapshots and the in-process tier.                                       *)

\* Snapshot.CacheTTL: floored at one tick; clamped to the expiry, if any.
CacheTTL(v) ==
    IF v \in Absent THEN {IF NegTTL < 1 THEN 1 ELSE NegTTL}
    ELSE IF v \in Expiring THEN 1 .. TTL ELSE {TTL}

\* memCache.get hits until after the expiry.
Hit(e) == e.left >= 0

\* Mutant: a full shard is only reaped.
KeptReapOnly(r, g) ==
    LET here == {a \in Alias : <<r, a>> \in held} IN
    IF Cardinality(here) < PerShard THEN here
    ELSE {a \in here : mem[<<r, a>>].left + g >= 0}

\* What a set leaves of replica r's shard: if it is full, the entries that had
\* expired when the request began go, and if it is still full all of them do.
Kept(r, g) ==
    LET here == {a \in Alias : <<r, a>> \in held}
        live == {a \in here : mem[<<r, a>>].left + g >= 0}
    IN IF Cardinality(here) < PerShard THEN here
       ELSE IF Cardinality(live) < PerShard THEN live ELSE {}

\* memCache.set by a request of age g, with lifetime n from its start.
MemSet(r, a, v, n, g) ==
    LET kept == Kept(r, g) IN
    /\ held' = (held \ ({r} \X Alias)) \cup ({r} \X (kept \cup {a}))
    /\ mem' = [k \in Key |->
                 IF k = <<r, a>> THEN [ver |-> v, left |-> n - g]
                 ELSE IF k[1] = r /\ k[2] \notin kept THEN Blank ELSE mem[k]]

\* memCache.delete, deletePrefix and flush: the aliases A of replica r go.
MemDrop(r, A) ==
    /\ held' = held \ ({r} \X A)
    /\ mem' = [k \in Key |-> IF k \in {r} \X A THEN Blank ELSE mem[k]]

\* A request that has its snapshot and has not stored it in every tier.
Holding(q) == req[q].pc \in {"memset", "fill", "redisset"}

\* History: requests whose snapshot predates a deletion of A on replicas R.
Cross(R, A) ==
    crossed' = crossed \cup
                 {q \in Req : Holding(q) /\ q[1] \in R /\ req[q].a \in A}

-----------------------------------------------------------------------------
(* Resolver.Resolve, one step per tier it touches.                          *)

At(x, stage) == [x EXCEPT !.pc = stage]
Goto(q, stage) == req' = [req EXCEPT ![q] = At(@, stage)]

\* A request that has obtained snapshot v, to be cached for n ticks.
Got(x, stage, v, n) == [x EXCEPT !.pc = stage, !.v = v, !.n = n]

Finish(Q) ==
    /\ req' = [q \in Req |-> IF q \in Q THEN Idle ELSE req[q]]
    /\ crossed' = crossed \ Q

\* A request that misses memory.  (One that hits changes nothing.)
Begin(q, a) ==
    /\ req[q].pc = "idle" /\ ~Hit(mem[<<q[1], a>>])
    /\ req' = [req EXCEPT ![q] = [Idle EXCEPT !.pc = "get", !.a = a]]
    /\ UNCHANGED <<db, stale, tiers, edits, subs, history>>

\* Mutant: a hit renews the Redis key, a sliding expiry.
RedisHitSliding(q) ==
    LET e == redis[req[q].a] IN
    /\ req[q].pc = "get" /\ e.left > 0
    /\ \E n \in CacheTTL(e.ver) :
         /\ req' = [req EXCEPT ![q] = Got(@, "memset", e.ver, n)]
         /\ redis' = [redis EXCEPT ![req[q].a] = [ver |-> e.ver, left |-> n]]
    /\ UNCHANGED <<db, stale, mem, held, shun, edits, subs, history>>

\* fromRedis, a hit.
RedisHit(q) ==
    LET e == redis[req[q].a] IN
    /\ req[q].pc = "get" /\ e.left > 0
    /\ \E n \in CacheTTL(e.ver) :
         req' = [req EXCEPT ![q] = Got(@, "memset", e.ver, n)]
    /\ UNCHANGED <<db, stale, tiers, edits, subs, history>>

\* fromRedis, no key.
RedisMiss(q) ==
    /\ req[q].pc = "get" /\ redis[req[q].a].left = 0
    /\ Goto(q, "flight")
    /\ UNCHANGED <<db, stale, tiers, edits, subs, history>>

\* Mutant: the window is extended by the age of the request.
RedisDownLate(q) ==
    /\ req[q].pc = "get"
    /\ Goto(q, "flight")
    /\ shun' = [shun EXCEPT ![q[1]] = D + req[q].g]
    /\ UNCHANGED <<db, stale, mem, held, redis, edits, subs, history>>

\* fromRedis, an error: markUnavailable with the request's own start time.
RedisDown(q) ==
    /\ req[q].pc = "get"
    /\ Goto(q, "flight")
    /\ shun' = [shun EXCEPT ![q[1]] = D - req[q].g]
    /\ UNCHANGED <<db, stale, mem, held, redis, edits, subs, history>>

\* fromRedis, an undecodable payload is deleted.
RedisCorrupt(q) ==
    /\ req[q].pc = "get" /\ redis[req[q].a].left > 0
    /\ Goto(q, "flight")
    /\ redis' = [redis EXCEPT ![req[q].a] = NoKey]
    /\ UNCHANGED <<db, stale, mem, held, shun, edits, subs, history>>

\* History: a store of a superseded snapshot that predates a deletion of its key.
Stored(q) ==
    late' = late \cup {a \in {req[q].a} : q \in crossed /\ req[q].v < db[a]}

StoreInMem(q) ==
    MemSet(q[1], req[q].a, req[q].v, req[q].n, req[q].g)

\* fromRedis populates the in-process tier, with a lifetime of its own.
PopulateMem(q) ==
    /\ req[q].pc = "memset"
    /\ StoreInMem(q)
    /\ Finish({q}) /\ Stored(q)
    /\ UNCHANGED <<db, stale, redis, shun, edits, subs, lost>>

\* singleflight: one flight per key of a replica; the others wait for it.
Leads(q) == req[q].pc \in {"query", "fill", "redisset"}
SameKey(p, q) == p[1] = q[1] /\ req[p].a = req[q].a
Waiters(q) == {p \in Req : req[p].pc = "wait" /\ SameKey(p, q)}

Join(q) ==
    /\ req[q].pc = "flight"
    /\ Goto(q, IF \E p \in Req : Leads(p) /\ SameKey(p, q) THEN "wait" ELSE "query")
    /\ UNCHANGED <<db, stale, tiers, edits, subs, history>>

\* fromDatabase reads the row; the absence of one is a negative snapshot.
Query(q) ==
    LET v == db[req[q].a] IN
    /\ req[q].pc = "query"
    /\ \E n \in CacheTTL(v) :
         req' = [req EXCEPT ![q] = Got(@, "fill", v, n)]
    /\ UNCHANGED <<db, stale, tiers, edits, subs, history>>

\* Any other error is handed to every waiter.
QueryError(q) ==
    /\ req[q].pc = "query"
    /\ Finish({q} \cup Waiters(q))
    /\ UNCHANGED <<db, stale, tiers, edits, subs, late, lost>>

\* store: memory first; Redis is skipped while it is known not to answer.
StoreMem(q) ==
    /\ req[q].pc = "fill"
    /\ StoreInMem(q)
    /\ IF shun[q[1]] + req[q].g > 0
       THEN Finish({q} \cup Waiters(q))
       ELSE Goto(q, "redisset") /\ crossed' = crossed
    /\ Stored(q)
    /\ UNCHANGED <<db, stale, redis, shun, edits, subs, lost>>

\* store: the Redis SET; its failure is ignored.
StoreRedis(q) ==
    /\ req[q].pc = "redisset"
    /\ \/ /\ redis' = [redis EXCEPT ![req[q].a] = [ver |-> req[q].v, left |-> req[q].n]]
          /\ Stored(q)
       \/ UNCHANGED <<redis, late>>
    /\ Finish({q} \cup Waiters(q))
    /\ UNCHANGED <<db, stale, mem, held, shun, edits, subs, lost>>

-----------------------------------------------------------------------------
(* An edit: InvalidateAlias for one link, InvalidateDomain for all of them. *)

Commit(r, T) ==
    /\ ed[r] = "idle" /\ \A a \in T : db[a] < MaxEdits
    /\ db' = [a \in Alias |-> IF a \in T THEN db[a] + 1 ELSE db[a]]
    /\ ed' = [ed EXCEPT ![r] = "mem"]
    /\ targets' = [targets EXCEPT ![r] = T]
    /\ UNCHANGED <<stale, tiers, req, unswept, subs, history>>

\* Memory first: delete, or deletePrefix.
DropMem(r) ==
    /\ ed[r] = "mem"
    /\ MemDrop(r, targets[r]) /\ Cross({r}, targets[r])
    /\ ed' = [ed EXCEPT ![r] = "redis"]
    /\ unswept' = [unswept EXCEPT ![r] = targets[r]]
    /\ UNCHANGED <<db, stale, redis, shun, req, targets, subs, late, lost>>

\* Then Redis: one DEL, or one UNLINK per key the SCAN reaches.
DropRedis(r, a) ==
    /\ ed[r] = "redis" /\ a \in unswept[r]
    /\ redis' = [redis EXCEPT ![a] = NoKey]
    /\ Cross(Replica, {a})
    /\ unswept' = [unswept EXCEPT ![r] = @ \ {a}]
    /\ UNCHANGED <<db, stale, mem, held, shun, req, ed, targets, subs, late, lost>>

\* The attempts, or the budget, are spent: logged, and the edit goes on.
DropRedisFails(r) ==
    /\ ed[r] = "redis" /\ unswept[r] # {}
    /\ unswept' = [unswept EXCEPT ![r] = {}]
    /\ lost' = lost \cup unswept[r]
    /\ UNCHANGED <<db, stale, tiers, req, ed, targets, subs, crossed, late>>

Listening(s) == link[s] \in {"probing", "open"}

EditDone(r) ==
    /\ ed[r] = "redis" /\ unswept[r] = {}
    /\ ed' = [ed EXCEPT ![r] = "idle"]
    /\ targets' = [targets EXCEPT ![r] = {}]
    /\ UNCHANGED <<db, stale, tiers, req, unswept, link, crossed, late>>

\* Mutant: the publisher filters out its own message.
PublishToOthers(r) ==
    /\ EditDone(r)
    /\ inbox' = [s \in Replica |->
                   IF Listening(s) /\ s # r THEN Append(inbox[s], targets[r]) ELSE inbox[s]]
    /\ lost' = lost

\* Then the broadcast, to every subscriber, the publisher included.
Publish(r) ==
    /\ EditDone(r)
    /\ inbox' = [s \in Replica |->
                   IF Listening(s) THEN Append(inbox[s], targets[r]) ELSE inbox[s]]
    /\ lost' = lost

PublishLost(r) == EditDone(r) /\ lost' = lost \cup targets[r] /\ inbox' = inbox

-----------------------------------------------------------------------------
(* The subscriber.                                                          *)

\* apply: only the in-process tier.
Apply(r) ==
    /\ link[r] = "open" /\ inbox[r] # <<>>
    /\ MemDrop(r, Head(inbox[r])) /\ Cross({r}, Head(inbox[r]))
    /\ inbox' = [inbox EXCEPT ![r] = Tail(@)]
    /\ UNCHANGED <<db, stale, redis, shun, req, edits, link, late, lost>>

\* A probe fails, or the subscription stops delivering and has not been noticed.
Cut(r) ==
    /\ link[r] \in {"probing", "open"}
    /\ link' = [link EXCEPT ![r] = IF @ = "open" THEN "cut" ELSE "closed"]
    /\ inbox' = [inbox EXCEPT ![r] = <<>>]
    /\ UNCHANGED <<db, stale, tiers, req, edits, history>>

\* flush: every in-process entry of the replica.
Flush(r) == MemDrop(r, Alias) /\ Cross({r}, Alias)

\* establish distrusts what is held as soon as the loss is noticed ...
Distrust(r) ==
    /\ link[r] = "cut"
    /\ link' = [link EXCEPT ![r] = "closed"]
    /\ Flush(r)
    /\ UNCHANGED <<db, stale, redis, shun, req, edits, inbox, late, lost>>

Subscribe(r) ==
    /\ link[r] = "closed"
    /\ link' = [link EXCEPT ![r] = "probing"]
    /\ UNCHANGED <<db, stale, tiers, req, edits, inbox, history>>

\* ... and flushes again once the new subscription has answered.
ProbeAnswered(r) ==
    /\ link[r] = "probing"
    /\ link' = [link EXCEPT ![r] = "open"]
    /\ Flush(r)
    /\ UNCHANGED <<db, stale, redis, shun, req, edits, inbox, late, lost>>

\* The process dies and a new one starts: its requests, its edit and its memory
\* are gone.
Crash(r) ==
    /\ Finish({q \in Req : q[1] = r})
    /\ held' = held \ ({r} \X Alias)
    /\ mem' = [k \in Key |-> IF k[1] = r THEN Blank ELSE mem[k]]
    /\ shun' = [shun EXCEPT ![r] = -D]
    /\ ed' = [ed EXCEPT ![r] = "idle"]
    /\ targets' = [targets EXCEPT ![r] = {}]
    /\ unswept' = [unswept EXCEPT ![r] = {}]
    /\ link' = [link EXCEPT ![r] = "closed"]
    /\ inbox' = [inbox EXCEPT ![r] = <<>>]
    /\ lost' = lost \cup targets[r]
    /\ UNCHANGED <<db, stale, redis, late>>

-----------------------------------------------------------------------------
Down(n, floor) == IF n > floor THEN n - 1 ELSE floor

Older(x) == [x EXCEPT !.g = @ + 1]

\* One tick.  No request outlives its timeouts; if those are shorter than a
\* tick (D = 0), so is the budget of an edit.
Tick ==
    /\ D = 0 => \A r \in Replica : ed[r] = "idle"
    /\ \A q \in Req : req[q].pc # "idle" => req[q].g < D
    /\ mem' = [k \in Key |-> [mem[k] EXCEPT !.left = Down(@, -(D + 1))]]
    /\ redis' = [a \in Alias |->
                   IF redis[a].left > 1 THEN [redis[a] EXCEPT !.left = @ - 1] ELSE NoKey]
    /\ shun' = [r \in Replica |-> Down(shun[r], -D)]
    /\ req' = [q \in Req |->
                 IF req[q].pc = "idle" THEN req[q] ELSE Older(req[q])]
    /\ stale' = [a \in Alias |-> [v \in Version |->
                   IF v < db[a] /\ stale[a][v] <= Bound
                   THEN stale[a][v] + 1 ELSE stale[a][v]]]
    /\ UNCHANGED <<db, held, edits, subs, history>>

Request(q) ==
    \/ \E a \in Alias : Begin(q, a)
    \/ RedisHit(q) \/ RedisMiss(q) \/ RedisDown(q) \/ RedisCorrupt(q)
    \/ PopulateMem(q) \/ Join(q) \/ Query(q) \/ QueryError(q)
    \/ StoreMem(q) \/ StoreRedis(q)

Edit(r) ==
    \/ \E a \in Alias : Commit(r, {a})
    \/ Commit(r, Alias)
    \/ DropMem(r) \/ (\E a \in Alias : DropRedis(r, a)) \/ DropRedisFails(r)
    \/ Publish(r) \/ PublishLost(r)

Listen(r) ==
    Apply(r) \/ Cut(r) \/ Distrust(r) \/ Subscribe(r) \/ ProbeAnswered(r)

Next ==
    \/ \E q \in Req : Request(q)
    \/ \E r \in Replica : Edit(r) \/ Listen(r) \/ Crash(r)
    \/ Tick

Spec == Init /\ [][Next]_vars

-----------------------------------------------------------------------------
Entry(lo, hi) == [ver : Version, left : lo .. hi]
Stage == {"idle", "get", "memset", "flight", "wait", "query", "fill", "redisset"}

\* Stage, alias, snapshot, its lifetime, and the age of the request.
ReqState == [pc : Stage, a : Alias, v : Version, n : 0 .. Lifetime, g : 0 .. D]

TypeOK ==
    /\ db \in [Alias -> Version]
    /\ stale \in [Alias -> [Version -> 0 .. Bound + 1]]
    /\ mem \in [Key -> Entry(-(D + 1), Lifetime)] /\ held \subseteq Key
    /\ redis \in [Alias -> Entry(0, Lifetime)]
    /\ shun \in [Replica -> -D .. D]
    /\ req \in [Req -> ReqState]
    /\ ed \in [Replica -> {"idle", "mem", "redis"}]
    /\ targets \in [Replica -> SUBSET Alias]
    /\ unswept \in [Replica -> SUBSET Alias]
    /\ link \in [Replica -> {"open", "cut", "closed", "probing"}]
    /\ inbox \in [Replica -> Seq(SUBSET Alias)]
    /\ crossed \subseteq Req /\ late \subseteq Alias /\ lost \subseteq Alias

\* What replica r would serve from memory has been superseded.
ServesStale(r, a) == Hit(mem[<<r, a>>]) /\ mem[<<r, a>>].ver < db[a]

\* However invalidations, broadcasts, fills and crashes interleave, and
\* whatever is lost, no replica serves an alias from memory for longer than
\* Bound ticks after it was superseded: two lifetimes and one request.
StalenessBounded ==
    \A r \in Replica, a \in Alias :
        ServesStale(r, a) => stale[a][mem[<<r, a>>].ver] <= Bound

\* docs/operations.md: "nothing is served incorrectly for longer than
\* `REDIRECT_TTL`", of invalidations that Redis did not carry.
StaleAtMostTTL ==
    \A r \in Replica, a \in Alias :
        ServesStale(r, a) => stale[a][mem[<<r, a>>].ver] <= Lifetime + D

Settled ==
    /\ \A r \in Replica : ed[r] = "idle" /\ link[r] = "open" /\ inbox[r] = <<>>
    /\ \A q \in Req : req[q].pc = "idle"

\* The invalidation protocol (memory, Redis, broadcast, flush on reconnect) is
\* complete: once it has settled, no copy of a superseded snapshot of an alias
\* is left in any tier, unless a deletion or message was lost, or a request took
\* its snapshot before a deletion of the key and stored it after.
ClearsComplete ==
    Settled =>
        \A a \in Alias \ (lost \cup late) :
            /\ redis[a].left > 0 => redis[a].ver = db[a]
            /\ \A r \in Replica : ~ServesStale(r, a)

\* memCache.set: the in-process tier never outgrows its size.
MemBounded ==
    \A r \in Replica : Cardinality({a \in Alias : <<r, a>> \in held}) <= PerShard
=============================================================================
